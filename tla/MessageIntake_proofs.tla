-------------------- MODULE MessageIntake_proofs --------------------
EXTENDS MessageIntake, TLAPS

(* Who handles what: an idle thread has no message, and only a single       *)
(* message gets past handleNewMessage.                                      *)
Handling ==
  \A t \in Threads :
    /\ tpc[t] = "idle" <=> tmsg[t] = None
    /\ tpc[t] \in {"save", "plugins"} => tmsg[t] \in Singles

TypeInv == TypeOK /\ Handling

-----------------------------------------------------------------------------
(* Type correctness *)

(* A counter that saturates at 2 stays in its range, and is not zero. *)
LEMMA OnceBounded == ASSUME NEW n \in 0..2 PROVE Once(n) \in 1..2
BY DEF Once

(* The count of stored documents stays in its range. *)
LEMMA RawCounted == ASSUME TypeOK, NEW m \in Messages PROVE Once(raw[m]) \in 0..2
BY OnceBounded DEF TypeOK

(* The count of dispatches stays in its range. *)
LEMMA TimesCounted == ASSUME TypeOK, NEW m \in Messages PROVE Once(times[m]) \in 0..2
BY OnceBounded DEF TypeOK

(* A fault counts within its bound. *)
LEMMA FaultCounted ==
  ASSUME TypeOK, faults < MaxFaults, faults' = faults + 1
  PROVE  faults' \in 0..MaxFaults
<1>1. faults \in 0..MaxFaults
  BY DEF TypeOK
<1>2. MaxFaults \in Nat
  BY ConstantsAssumption DEF ConstantsAssumption
<1> QED
  BY <1>1, <1>2

(* A delivery counts within its bound. *)
LEMMA DeliveryCounted ==
  ASSUME TypeOK, left > 0, left' = left - 1
  PROVE  left' \in 0..MaxDeliveries
<1>1. left \in 0..MaxDeliveries
  BY DEF TypeOK
<1>2. MaxDeliveries \in Nat
  BY ConstantsAssumption DEF ConstantsAssumption
<1> QED
  BY <1>1, <1>2

(* A restart counts within its bound. *)
LEMMA CrashCounted ==
  ASSUME TypeOK, crashes < MaxCrashes, crashes' = crashes + 1
  PROVE  crashes' \in 0..MaxCrashes
<1>1. crashes \in 0..MaxCrashes
  BY DEF TypeOK
<1>2. MaxCrashes \in Nat
  BY ConstantsAssumption DEF ConstantsAssumption
<1> QED
  BY <1>1, <1>2

(* A message is single or belongs to exactly one album. *)
LEMMA SinglesOrMembers ==
  ASSUME NEW m \in Messages
  PROVE  /\ m \in Singles <=> GroupOf[m] = None
         /\ m \notin Singles => GroupOf[m] \in Groups
         /\ FilterKey(m) \in Messages \union Groups
BY ConstantsAssumption DEF ConstantsAssumption, Singles, FilterKey

Places == {"idle", "filter", "mark", "handle", "save", "plugins"}

ThreadsOK ==
  /\ tpc \in [Threads -> Places]
  /\ tmsg \in [Threads -> Messages \union {None}]
  /\ Handling

(* A thread that moves on keeps its message, or drops it and is idle. *)
LEMMA GotoOK ==
  ASSUME ThreadsOK, NEW t \in Threads, NEW where \in Places, Goto(t, where),
         tpc[t] # "idle",
         where \in {"save", "plugins"} => tmsg[t] \in Singles
  PROVE  /\ tmsg[t] \in Messages
         /\ ThreadsOK'
<1>1. tmsg[t] \in Messages
  BY DEF ThreadsOK, Handling
<1>2. CASE where = "idle"
  BY <1>1, <1>2 DEF ThreadsOK, Handling, Goto, Places, Singles
<1>3. CASE where # "idle"
  BY <1>1, <1>3, ConstantsAssumption DEF ThreadsOK, Handling, Goto, Places, Singles, ConstantsAssumption
<1> QED
  BY <1>1, <1>2, <1>3

(* Every step keeps the typing of all variables. *)
LEMMA TypeStep == TypeInv /\ [Next]_vars => TypeInv'
<1> SUFFICES ASSUME TypeInv, [Next]_vars PROVE TypeInv'
  OBVIOUS
<1>a. ThreadsOK
  BY DEF TypeInv, TypeOK, ThreadsOK, Places
<1>b. TypeOK
  BY DEF TypeInv
<1> USE DEF TypeInv, TypeOK, threads, maps, timer, history, bounds
<1>1. ASSUME NEW t \in Threads, NEW m \in Messages, Deliver(t, m) PROVE TypeInv'
  <2>1. ThreadsOK'
    BY <1>1, <1>a, ConstantsAssumption DEF Deliver, ThreadsOK, Handling, Places, ConstantsAssumption
  <2> QED
    <3>1. left' \in 0..MaxDeliveries
      BY <1>1, <1>b, DeliveryCounted DEF Deliver
    <3> QED
      BY <1>1, <2>1, <3>1 DEF Deliver, ThreadsOK, Places
<1>2. ASSUME NEW t \in Threads, Filter(t) PROVE TypeInv'
  <2>1. tmsg[t] \in Messages /\ ThreadsOK'
    BY <1>2, <1>a, GotoOK DEF Filter, FilterWith, Places
  <2> QED
    <3>1. FilterKey(tmsg[t]) \in Messages \union Groups
      BY <2>1, SinglesOrMembers
    <3> QED
      BY <1>2, <2>1, <3>1 DEF Filter, FilterWith, HeldBeyond, Singles, ThreadsOK, Places
<1>3. ASSUME NEW t \in Threads, FilterFails(t) PROVE TypeInv'
  <2>1. tmsg[t] \in Messages /\ ThreadsOK'
    BY <1>3, <1>a, GotoOK DEF FilterFails, Places
  <2> QED
    <3>1. FilterKey(tmsg[t]) \in Messages \union Groups
      BY <2>1, SinglesOrMembers
    <3>2. faults' \in 0..MaxFaults
      BY <1>3, <1>b, FaultCounted DEF FilterFails
    <3> QED
      BY <1>3, <2>1, <3>1, <3>2 DEF FilterFails, ThreadsOK, Places
<1>4. ASSUME NEW t \in Threads, Mark(t) PROVE TypeInv'
  <2>1. tmsg[t] \in Messages /\ ThreadsOK'
    BY <1>4, <1>a, GotoOK DEF Mark, MarkKey, Places
  <2> QED
    BY <1>4, <2>1 DEF Mark, MarkKey, ThreadsOK, Places
<1>5. ASSUME NEW t \in Threads, HandleMediaGroupMessage(t) PROVE TypeInv'
  <2>1. tmsg[t] \in Messages /\ ThreadsOK'
    BY <1>5, <1>a, GotoOK DEF HandleMediaGroupMessage, Collect, Places
  <2> QED
    BY <1>5, <2>1, SinglesOrMembers DEF HandleMediaGroupMessage, Collect, ThreadsOK, Places
<1>6. ASSUME NEW t \in Threads, SingleIsDuplicate(t) PROVE TypeInv'
  <2>1. tmsg[t] \in Messages /\ ThreadsOK'
    BY <1>6, <1>a, GotoOK DEF SingleIsDuplicate, IsDuplicate, Places
  <2> QED
    BY <1>6, <2>1 DEF SingleIsDuplicate, IsDuplicate, ThreadsOK, Places
<1>7. ASSUME NEW t \in Threads, SaveSingle(t) PROVE TypeInv'
  <2>1. tmsg[t] \in Messages /\ ThreadsOK'
    BY <1>7, <1>a, GotoOK DEF SaveSingle, ThreadsOK, Handling, Places
  <2> QED
    <3>1. Once(raw[tmsg[t]]) \in 0..2
      BY <2>1, <1>b, RawCounted
    <3>2. raw' \in [Messages -> 0..2]
      BY <1>7, <2>1, <3>1 DEF SaveSingle
    <3> QED
      BY <1>7, <2>1, <3>2 DEF SaveSingle, ThreadsOK, Places
<1>8. ASSUME NEW t \in Threads, SingleFails(t) PROVE TypeInv'
  <2>1. tmsg[t] \in Messages /\ ThreadsOK'
    BY <1>8, <1>a, GotoOK DEF SingleFails, Places
  <2> QED
    <3>1. faults' \in 0..MaxFaults
      BY <1>8, <1>b, FaultCounted DEF SingleFails
    <3> QED
      BY <1>8, <2>1, <3>1 DEF SingleFails, ThreadsOK, Places
<1>9. ASSUME NEW t \in Threads, DispatchSingle(t) PROVE TypeInv'
  <2>1. tmsg[t] \in Messages /\ ThreadsOK'
    BY <1>9, <1>a, GotoOK DEF DispatchSingle, Places
  <2> QED
    <3>0. Once(times[tmsg[t]]) \in 0..2
      BY <2>1, <1>b, TimesCounted
    <3>1. times' \in [Messages -> 0..2]
      BY <1>9, <3>0 DEF DispatchSingle
    <3> QED
      BY <1>9, <2>1, <3>1 DEF DispatchSingle, ThreadsOK, Places
<1>10. CASE StartScan
  BY <1>10 DEF StartScan, Handling
<1>11. ASSUME NEW g \in Groups, SeeDue(g) PROVE TypeInv'
  BY <1>11 DEF SeeDue, Handling
<1>12. ASSUME NEW g \in Groups, Claim(g) PROVE TypeInv'
  BY <1>12 DEF Claim, ClaimInto, Handling
<1>13. ASSUME NEW g \in Groups, BeginAlbum(g) PROVE TypeInv'
  BY <1>13 DEF BeginAlbum, TakeBuffer, Handling
<1>14. ASSUME NEW g \in Groups, BeginAlbumFails(g) PROVE TypeInv'
  <2>1. faults' \in 0..MaxFaults
    BY <1>14, <1>b, FaultCounted DEF BeginAlbumFails
  <2> QED
    BY <1>14, <2>1 DEF BeginAlbumFails, TakeBuffer, Handling
<1>15. ASSUME NEW m \in Messages, SaveItem(m) PROVE TypeInv'
  <2>1. work' \in [Messages -> Nat]
    BY <1>15 DEF SaveItem, ItemStep
  <2>2. raw' \in [Messages -> 0..2]
    BY <1>15 DEF SaveItem, ItemStep
  <2> QED
    BY <1>15, <2>1, <2>2 DEF SaveItem, ItemStep, Handling
<1>16. ASSUME NEW m \in Messages, SaveItemFails(m) PROVE TypeInv'
  <2>1. work' \in [Messages -> Nat]
    BY <1>16 DEF SaveItemFails, ItemStep
  <2>2. raw' \in [Messages -> 0..2]
    BY <1>16 DEF SaveItemFails, ItemStep
  <2> QED
    <3>1. cur \in Groups
      BY <1>16 DEF SaveItemFails, ItemStep
    <3>2. excused' \subseteq Messages \union Groups
      BY <1>16, <3>1 DEF SaveItemFails
    <3>5. faults' \in 0..MaxFaults
      BY <1>16, <1>b, FaultCounted DEF SaveItemFails
    <3>3. parsed' \subseteq Messages
      BY <1>16 DEF SaveItemFails, ItemStep
    <3>4. UNCHANGED <<threads, cache, maps, scan, seen, claimed, cur, history, raced, left, crashes>>
      BY <1>16 DEF SaveItemFails, ItemStep
    <3> QED
      BY <2>1, <2>2, <3>2, <3>3, <3>4, <3>5 DEF Handling
<1>17. ASSUME NEW g \in Groups, FinishAlbum(g) PROVE TypeInv'
  <2>1. albums' \in [Groups -> 0..2]
    BY <1>17, OnceBounded DEF FinishAlbum, Finish
  <2>2. times' \in [Messages -> 0..2]
    <3>1. \A m \in Messages : Once(times[m]) \in 0..2
      BY <1>b, TimesCounted
    <3> QED
      BY <1>17, <3>1 DEF FinishAlbum, Finish
  <2> QED
    BY <1>17, <2>1, <2>2 DEF FinishAlbum, Finish, Handling
<1>18. ASSUME NEW g \in Groups, Elapse(g) PROVE TypeInv'
  BY <1>18 DEF Elapse, Handling
<1>19. ASSUME NEW k \in Messages \union Groups, Expire(k) PROVE TypeInv'
  BY <1>19 DEF Expire, Handling
<1>20. CASE Crash
  <2>1. crashes' \in 0..MaxCrashes
    BY <1>20, <1>b, CrashCounted DEF Crash
  <2> QED
    BY <1>20, <2>1 DEF Crash, NoMessages, Handling
<1>21. CASE UNCHANGED vars
  BY <1>21 DEF vars, Handling
<1> QED
  BY <1>1, <1>2, <1>3, <1>4, <1>5, <1>6, <1>7, <1>8, <1>9, <1>10, <1>11, <1>12, <1>13, <1>14, <1>15, <1>16, <1>17, <1>18, <1>19, <1>20, <1>21
     DEF Next, ThreadStep, TimerStep

(* The inductive type invariant holds in every reachable state. *)
THEOREM TypeCorrect == Spec => []TypeInv
<1>1. Init => TypeInv
  BY ConstantsAssumption DEF Init, NoMessages, ConstantsAssumption, TypeInv, TypeOK, Handling
<1> QED
  BY <1>1, TypeStep, PTL DEF Spec

(* Every variable of the intake keeps its type. *)
THEOREM TypesAreRight == Spec => []TypeOK
BY TypeCorrect, PTL DEF TypeInv

-----------------------------------------------------------------------------
(* The three maps *)

(* An album leaves the list of timed out albums when its turn comes. *)
CurUnclaimed == cur \notin claimed

MapsInv == MapsAgree /\ CurUnclaimed

(* Every step keeps the three maps and the timer in agreement. *)
LEMMA MapsStep == TypeInv /\ MapsInv /\ [Next]_vars => MapsInv'
<1> SUFFICES ASSUME TypeInv, MapsInv, [Next]_vars PROVE MapsInv'
  OBVIOUS
<1> USE DEF MapsInv, MapsAgree, CurUnclaimed, Members
<1>n. None \notin Groups
  BY ConstantsAssumption DEF ConstantsAssumption
<1>t. /\ state \in [Groups -> {"NONE", "COLLECTING", "PROCESSING", "COMPLETED"}]
      /\ buffer \in [Messages -> Nat]
      /\ stamp \in [Groups -> {"none", "fresh", "due"}]
      /\ claimed \subseteq Groups
      /\ cur \in Groups \union {None}
  BY DEF TypeInv, TypeOK
<1>1. CASE UNCHANGED <<maps, claimed, cur>>
  BY <1>1 DEF maps
<1>2. ASSUME NEW t \in Threads, HandleMediaGroupMessage(t) PROVE MapsInv'
  <2>1. tmsg[t] \in Messages /\ GroupOf[tmsg[t]] \in Groups
    BY <1>2, SinglesOrMembers DEF HandleMediaGroupMessage, Collect, TypeInv, TypeOK, Handling
  <2>2. CASE state[GroupOf[tmsg[t]]] \in {"PROCESSING", "COMPLETED"}
    BY <1>2, <2>2 DEF HandleMediaGroupMessage, Collect, maps
  <2>3. CASE state[GroupOf[tmsg[t]]] \notin {"PROCESSING", "COMPLETED"}
    <3> DEFINE m == tmsg[t]
               g == GroupOf[m]
    <3>1. /\ state' = [state EXCEPT ![g] = "COLLECTING"]
          /\ buffer' = [buffer EXCEPT ![m] = @ + 1]
          /\ stamp' = [stamp EXCEPT ![g] = "fresh"]
          /\ cur # g
          /\ UNCHANGED <<claimed, cur>>
      BY <1>2, <1>t, <2>1, <2>3 DEF HandleMediaGroupMessage, Collect
    <3>2. buffer'[m] > 0 /\ \A n \in Messages : n # m => buffer'[n] = buffer[n]
      BY <1>t, <2>1, <3>1
    <3> QED
      BY <1>t, <2>1, <2>3, <3>1, <3>2
  <2> QED
    BY <2>2, <2>3
<1>3. ASSUME NEW g \in Groups, Claim(g) PROVE MapsInv'
  BY <1>3, <1>t, <1>n DEF Claim, ClaimInto
<1>4. ASSUME NEW g \in Groups, BeginAlbum(g) PROVE MapsInv'
  BY <1>4, <1>t, <1>n DEF BeginAlbum, TakeBuffer
<1>5. ASSUME NEW g \in Groups, BeginAlbumFails(g) PROVE MapsInv'
  BY <1>5, <1>t, <1>n DEF BeginAlbumFails, TakeBuffer
<1>6. ASSUME NEW g \in Groups, FinishAlbum(g) PROVE MapsInv'
  BY <1>6, <1>t, <1>n DEF FinishAlbum, Finish
<1>7. ASSUME NEW g \in Groups, Elapse(g) PROVE MapsInv'
  BY <1>7, <1>t DEF Elapse, timer
<1>8. CASE Crash
  BY <1>8, <1>n DEF Crash, NoMessages
<1>9. ASSUME NEW t \in Threads, NEW m \in Messages, Deliver(t, m) PROVE MapsInv'
  BY <1>1, <1>9 DEF Deliver, timer
<1>10. ASSUME NEW t \in Threads,
             Filter(t) \/ FilterFails(t) \/ Mark(t) \/ SingleIsDuplicate(t)
               \/ SaveSingle(t) \/ SingleFails(t) \/ DispatchSingle(t)
       PROVE  MapsInv'
  BY <1>1, <1>10 DEF Filter, FilterWith, FilterFails, Mark, MarkKey, SingleIsDuplicate,
       IsDuplicate, SaveSingle, SingleFails, DispatchSingle, timer
<1>11. ASSUME NEW m \in Messages, SaveItem(m) \/ SaveItemFails(m) PROVE MapsInv'
  BY <1>1, <1>11 DEF SaveItem, SaveItemFails, ItemStep
<1>12. CASE StartScan \/ (\E g \in Groups : SeeDue(g))
             \/ (\E k \in Messages \union Groups : Expire(k))
  BY <1>1, <1>12 DEF StartScan, SeeDue, Expire, timer
<1>13. CASE UNCHANGED vars
  BY <1>1, <1>13 DEF vars, timer
<1> QED
  BY <1>2, <1>3, <1>4, <1>5, <1>6, <1>7, <1>8, <1>9, <1>10, <1>11, <1>12, <1>13
     DEF Next, ThreadStep, TimerStep

(* The inductive agreement of the maps holds in every reachable state. *)
LEMMA MapsCorrect == Spec => []MapsInv
<1>1. Init => MapsInv
  BY ConstantsAssumption DEF Init, NoMessages, ConstantsAssumption, MapsInv, MapsAgree,
     CurUnclaimed, Members
<1> QED
  BY <1>1, TypeCorrect, MapsStep, PTL DEF Spec

(* The three maps of ChannelMonitorService agree in every state: the album  *)
(* the timer claims is never empty, and none is left without a timestamp.   *)
THEOREM MapsAlwaysAgree == Spec => []MapsAgree
BY MapsCorrect, PTL DEF MapsInv

-----------------------------------------------------------------------------
(* What the plugins saw is stored *)

AnyStored(g) == \E n \in Members(g) : raw[n] > 0

(* What the timer holds belongs to the album it processes, and what it has  *)
(* parsed is stored.                                                        *)
WorkOfCur ==
  /\ cur = None => parsed = {}
  /\ \A m \in Messages : m \in parsed \/ work[m] > 0 => GroupOf[m] = cur
  /\ parsed # {} => cur \in excused \/ AnyStored(cur)

(* A single message on its way to the plugins is stored. *)
PluginsSeeStored ==
  \A t \in Threads : tpc[t] = "plugins" => raw[tmsg[t]] > 0 \/ tmsg[t] \in excused

StoreInv == WorkOfCur /\ PluginsSeeStored /\ StoredBeforePlugins

(* No step deletes a stored message, or takes back a fault or a race. *)
LEMMA StoreGrows ==
  ASSUME TypeInv, [Next]_vars
  PROVE  /\ \A m \in Messages : raw[m] > 0 => raw'[m] > 0
         /\ excused \subseteq excused'
         /\ raced \subseteq raced'
<1> DEFINE Goal == /\ \A m \in Messages : raw[m] > 0 => raw'[m] > 0
                   /\ excused \subseteq excused' /\ raced \subseteq raced'
<1>t. raw \in [Messages -> 0..2]
  BY DEF TypeInv, TypeOK
<1>1. CASE UNCHANGED <<raw, excused, raced>>
  BY <1>1
<1>2. ASSUME NEW t \in Threads, Filter(t) PROVE Goal
  BY <1>2 DEF Filter, FilterWith
<1>3. ASSUME NEW t \in Threads, SaveSingle(t) PROVE Goal
  <2>1. \A m \in Messages : Once(raw[m]) > 0
    BY <1>t, OnceBounded
  <2>2. tmsg[t] \in Messages
    BY <1>3 DEF SaveSingle, TypeInv, TypeOK, Handling, Singles
  <2>3. raw'[tmsg[t]] > 0
    BY <1>t, <1>3, <2>1, <2>2 DEF SaveSingle
  <2> QED
    BY <1>t, <1>3, <2>3 DEF SaveSingle, bounds
<1>4. ASSUME NEW m \in Messages, SaveItem(m) \/ SaveItemFails(m) PROVE Goal
  BY <1>4, <1>t DEF SaveItem, SaveItemFails, ItemStep, bounds
<1>5. ASSUME NEW t \in Threads, NEW m \in Messages, Deliver(t, m) PROVE Goal
  BY <1>5 DEF Deliver
<1>6. ASSUME NEW t \in Threads, FilterFails(t) \/ SingleFails(t) PROVE Goal
  BY <1>6 DEF FilterFails, SingleFails
<1>7. ASSUME NEW t \in Threads, Mark(t) \/ SingleIsDuplicate(t)
               \/ DispatchSingle(t) \/ HandleMediaGroupMessage(t)
      PROVE  Goal
  BY <1>1, <1>7 DEF Mark, MarkKey, SingleIsDuplicate, IsDuplicate,
     DispatchSingle, HandleMediaGroupMessage, Collect, bounds
<1>8. ASSUME NEW g \in Groups, SeeDue(g) \/ Claim(g) \/ BeginAlbum(g) \/ BeginAlbumFails(g)
               \/ FinishAlbum(g) \/ Elapse(g)
      PROVE  Goal
  BY <1>1, <1>8 DEF SeeDue, Claim, ClaimInto, BeginAlbum, BeginAlbumFails, FinishAlbum,
     Finish, Elapse, bounds
<1>9. CASE StartScan \/ Crash \/ (\E k \in Messages \union Groups : Expire(k))
  BY <1>1, <1>9 DEF StartScan, Crash, Expire, bounds
<1>10. CASE UNCHANGED vars
  BY <1>1, <1>10 DEF vars, bounds
<1> QED
  BY <1>2, <1>3, <1>4, <1>5, <1>6, <1>7, <1>8, <1>9, <1>10 DEF Next, ThreadStep, TimerStep

(* Being stored or excused is never undone. *)
LEMMA StoredStays ==
  ASSUME TypeInv, [Next]_vars
  PROVE  /\ \A g : AnyStored(g) => AnyStored(g)'
         /\ \A m \in Messages : Stored(m) => Stored(m)'
         /\ \A k : k \in excused => k \in excused'
BY StoreGrows DEF AnyStored, Stored, Members

(* An album message is stored if any message of its album is. *)
LEMMA StoredIsAny ==
  ASSUME NEW m \in Messages, m \notin Singles
  PROVE  /\ Stored(m) <=> AnyStored(GroupOf[m])
         /\ FilterKey(m) = GroupOf[m]
BY DEF Stored, AnyStored, FilterKey

(* Every step stores a message before the plugins can see it. *)
LEMMA StoreStep == TypeInv /\ StoreInv /\ [Next]_vars => StoreInv'
<1> SUFFICES ASSUME TypeInv, StoreInv, [Next]_vars PROVE StoreInv'
  OBVIOUS
<1>n. None \notin Groups /\ None \notin Messages
  BY ConstantsAssumption DEF ConstantsAssumption
<1>t. /\ tpc \in [Threads -> {"idle", "filter", "mark", "handle", "save", "plugins"}]
      /\ tmsg \in [Threads -> Messages \union {None}]
      /\ raw \in [Messages -> 0..2]
      /\ work \in [Messages -> Nat]
      /\ times \in [Messages -> 0..2]
      /\ cur \in Groups \union {None}
      /\ parsed \subseteq Messages
  BY DEF TypeInv, TypeOK
<1>m. \A t \in Threads : tpc[t] # "idle" => tmsg[t] \in Messages
  BY <1>t DEF TypeInv, Handling
<1>p. \A t \in Threads : tpc[t] = "plugins" => tmsg[t] \in Singles
  BY DEF TypeInv, Handling
<1>g. \A m \in Messages : raw[m] > 0 => raw'[m] > 0
  BY StoreGrows
<1>w. UNCHANGED <<cur, work, parsed>> => WorkOfCur'
  BY StoredStays DEF WorkOfCur, StoreInv
<1>q. UNCHANGED <<tpc, tmsg>> => PluginsSeeStored'
  BY <1>g, <1>m, StoredStays DEF PluginsSeeStored, StoreInv
<1>r. UNCHANGED times => StoredBeforePlugins'
  BY StoredStays DEF StoredBeforePlugins, StoreInv, FilterKey
<1>s. ASSUME NEW t \in Threads, NEW where, Goto(t, where), tpc[t] # "idle",
             where = "plugins" => raw'[tmsg[t]] > 0 \/ tmsg[t] \in excused'
      PROVE  PluginsSeeStored'
  BY <1>s, <1>g, <1>m, <1>t, StoredStays DEF PluginsSeeStored, StoreInv, Goto
<1>1. ASSUME NEW t \in Threads, NEW m \in Messages, Deliver(t, m) PROVE StoreInv'
  <2>1. PluginsSeeStored'
    BY <1>1, <1>g, <1>m, <1>t, StoredStays DEF Deliver, PluginsSeeStored, StoreInv
  <2> QED
    BY <1>1, <2>1, <1>w, <1>r DEF Deliver, timer, history, StoreInv
<1>2. ASSUME NEW t \in Threads, Filter(t) \/ FilterFails(t) \/ Mark(t) PROVE StoreInv'
  <2>1. PluginsSeeStored'
    BY <1>2, <1>s DEF Filter, FilterWith, FilterFails, Mark, MarkKey
  <2> QED
    BY <1>2, <2>1, <1>w, <1>r DEF Filter, FilterWith, FilterFails, Mark, MarkKey, timer, history, StoreInv
<1>3. ASSUME NEW t \in Threads, HandleMediaGroupMessage(t) PROVE StoreInv'
  <2>1. PluginsSeeStored'
    BY <1>3, <1>s DEF HandleMediaGroupMessage, Collect
  <2> QED
    BY <1>3, <2>1, <1>w, <1>r DEF HandleMediaGroupMessage, Collect, history, StoreInv
<1>4. ASSUME NEW t \in Threads, SingleIsDuplicate(t) PROVE StoreInv'
  <2>1. Stored(tmsg[t]) => raw'[tmsg[t]] > 0
    BY <1>4, <1>g, <1>m DEF SingleIsDuplicate, IsDuplicate, Stored
  <2>2. PluginsSeeStored'
    BY <1>4, <2>1, <1>s DEF SingleIsDuplicate, IsDuplicate
  <2> QED
    BY <1>4, <2>2, <1>w, <1>r DEF SingleIsDuplicate, IsDuplicate, timer, history, StoreInv
<1>5. ASSUME NEW t \in Threads, SaveSingle(t) PROVE StoreInv'
  <2>1. tmsg[t] \in Messages /\ Once(raw[tmsg[t]]) > 0
    BY <1>5, <1>m, <1>t, OnceBounded DEF SaveSingle
  <2>2. raw'[tmsg[t]] > 0
    BY <1>5, <1>t, <2>1 DEF SaveSingle
  <2>3. PluginsSeeStored'
    BY <1>5, <2>2, <1>s DEF SaveSingle
  <2> QED
    BY <1>5, <2>3, <1>w, <1>r DEF SaveSingle, timer, history, StoreInv
<1>6. ASSUME NEW t \in Threads, SingleFails(t) PROVE StoreInv'
  <2>1. PluginsSeeStored'
    BY <1>6, <1>s DEF SingleFails
  <2> QED
    BY <1>6, <2>1, <1>w, <1>r DEF SingleFails, timer, history, StoreInv
<1>7. ASSUME NEW t \in Threads, DispatchSingle(t) PROVE StoreInv'
  <2>1. PluginsSeeStored'
    BY <1>7, <1>s DEF DispatchSingle
  <2>2. StoredBeforePlugins'
    <3>1. /\ tmsg[t] \in Singles
          /\ raw[tmsg[t]] > 0 \/ tmsg[t] \in excused
      BY <1>7, <1>p DEF DispatchSingle, StoreInv, PluginsSeeStored
    <3>2. Stored(tmsg[t]) \/ FilterKey(tmsg[t]) \in excused
      BY <3>1 DEF Stored, FilterKey
    <3>3. \A m \in Messages : m # tmsg[t] => times'[m] = times[m]
      BY <1>7, <1>t DEF DispatchSingle
    <3> QED
      BY <3>2, <3>3, StoredStays DEF StoredBeforePlugins, StoreInv, FilterKey
  <2> QED
    BY <1>7, <2>1, <2>2, <1>w DEF DispatchSingle, timer, StoreInv
<1>8. ASSUME NEW g \in Groups, BeginAlbum(g) PROVE StoreInv'
  <2>1. WorkOfCur'
    BY <1>8 DEF BeginAlbum, TakeBuffer, WorkOfCur, StoreInv, Members
  <2> QED
    BY <1>8, <2>1, <1>q, <1>r DEF BeginAlbum, threads, history, StoreInv
<1>9. ASSUME NEW m \in Messages, SaveItem(m) \/ SaveItemFails(m) PROVE StoreInv'
  <2>1. /\ UNCHANGED cur
        /\ \A n \in Messages : work'[n] > 0 => work[n] > 0
        /\ parsed' \subseteq parsed \union {m}
        /\ cur # None /\ work[m] > 0
    BY <1>9, <1>t DEF SaveItem, SaveItemFails, ItemStep
  <2>2. GroupOf[m] = cur /\ m \notin Singles
    BY <2>1 DEF StoreInv, WorkOfCur, Singles
  <2>3. cur' \in excused' \/ AnyStored(cur)'
    <3>1. CASE SaveItemFails(m)
      BY <2>1, <3>1 DEF SaveItemFails
    <3>2. CASE SaveItem(m) /\ Stored(m)
      BY <2>1, <2>2, <3>2, StoredIsAny, StoredStays
    <3>3. CASE SaveItem(m) /\ ~Stored(m)
      BY <2>1, <2>2, <3>3, <1>t DEF SaveItem, ItemStep, AnyStored, Members
    <3> QED
      BY <1>9, <3>1, <3>2, <3>3
  <2>4. WorkOfCur'
    BY <2>1, <2>2, <2>3 DEF WorkOfCur, StoreInv
  <2> QED
    BY <1>9, <2>4, <1>q, <1>r DEF SaveItem, SaveItemFails, ItemStep, threads, history, StoreInv
<1>10. ASSUME NEW g \in Groups, FinishAlbum(g) PROVE StoreInv'
  <2>1. WorkOfCur'
    BY <1>10 DEF FinishAlbum, Finish, WorkOfCur
  <2>2. StoredBeforePlugins'
    <3>1. \A m \in parsed : Stored(m) \/ FilterKey(m) \in excused
      <4>1. SUFFICES ASSUME NEW m \in parsed PROVE Stored(m) \/ FilterKey(m) \in excused
        OBVIOUS
      <4>2. m \in Messages /\ GroupOf[m] = cur /\ cur # None
        BY <1>10, <1>t, <1>n, <4>1 DEF FinishAlbum, Finish, StoreInv, WorkOfCur
      <4> QED
        BY <4>1, <4>2, StoredIsAny DEF StoreInv, WorkOfCur, Singles
    <3>2. \A m \in Messages : m \notin parsed => times'[m] = times[m]
      BY <1>10 DEF FinishAlbum, Finish
    <3> QED
      BY <3>1, <3>2, StoredStays DEF StoredBeforePlugins, StoreInv, FilterKey
  <2> QED
    BY <1>10, <2>1, <2>2, <1>q DEF FinishAlbum, Finish, threads, StoreInv
<1>11. ASSUME NEW g \in Groups, SeeDue(g) \/ Claim(g) \/ BeginAlbumFails(g) \/ Elapse(g)
       PROVE  StoreInv'
  BY <1>11, <1>w, <1>q, <1>r DEF SeeDue, Claim, ClaimInto, BeginAlbumFails, Elapse,
     timer, threads, history, StoreInv
<1>12. CASE StartScan \/ (\E k \in Messages \union Groups : Expire(k))
  BY <1>12, <1>w, <1>q, <1>r DEF StartScan, Expire, timer, threads, history, StoreInv
<1>13. CASE Crash
  <2>1. WorkOfCur' /\ PluginsSeeStored'
    BY <1>13 DEF Crash, NoMessages, WorkOfCur, PluginsSeeStored
  <2> QED
    BY <1>13, <2>1, <1>r DEF Crash, StoreInv
<1>14. CASE UNCHANGED vars
  BY <1>14, <1>w, <1>q, <1>r DEF vars, timer, threads, history, StoreInv
<1> QED
  BY <1>1, <1>2, <1>3, <1>4, <1>5, <1>6, <1>7, <1>8, <1>9, <1>10, <1>11, <1>12, <1>13, <1>14
     DEF Next, ThreadStep, TimerStep

(* The inductive storage invariant holds in every reachable state. *)
LEMMA StoreCorrect == Spec => []StoreInv
<1>1. Init => StoreInv
  BY DEF Init, NoMessages, StoreInv, WorkOfCur, PluginsSeeStored, StoredBeforePlugins
<1> QED
  BY <1>1, TypeCorrect, StoreStep, PTL DEF Spec

(* The plugins see nothing that raw_messages does not know, unless saving   *)
(* it or looking it up failed.                                              *)
THEOREM PluginsSeeOnlyStored == Spec => []StoredBeforePlugins
BY StoreCorrect, PTL DEF StoreInv

-----------------------------------------------------------------------------
(* Once only: albums *)

(* An album the plugins saw is closed to new messages: by its state, and    *)
(* after a restart by the store, which turns them away at the filter.       *)
AlbumClosed ==
  \A g \in Groups : albums[g] > 0 =>
    /\ crashes = 0 => state[g] = "COMPLETED"
    /\ g \notin excused =>
         /\ AnyStored(g)
         /\ \/ state[g] = "COMPLETED"
            \/ /\ state[g] = "NONE"
               /\ \A t \in Threads : tmsg[t] \in Members(g) => tpc[t] = "filter"

AlbumInv == AlbumClosed /\ AlbumDispatchedOnce

(* No step lets the plugins see an album again. *)
LEMMA AlbumStep == TypeInv /\ MapsInv /\ StoreInv /\ AlbumInv /\ [Next]_vars => AlbumInv'
<1> SUFFICES ASSUME TypeInv, MapsInv, StoreInv, AlbumInv, [Next]_vars PROVE AlbumInv'
  OBVIOUS
<1>n. None \notin Groups /\ None \notin Messages
  BY ConstantsAssumption DEF ConstantsAssumption
<1>t. /\ tpc \in [Threads -> {"idle", "filter", "mark", "handle", "save", "plugins"}]
      /\ tmsg \in [Threads -> Messages \union {None}]
      /\ state \in [Groups -> {"NONE", "COLLECTING", "PROCESSING", "COMPLETED"}]
      /\ cur \in Groups \union {None}
      /\ albums \in [Groups -> 0..2]
      /\ crashes \in Nat
  BY ConstantsAssumption DEF TypeInv, TypeOK, ConstantsAssumption
<1>g. /\ \A g : AnyStored(g) => AnyStored(g)'
      /\ \A k : k \in excused => k \in excused'
  BY StoredStays
<1>o. UNCHANGED <<albums, crashes>> => AlbumDispatchedOnce'
  BY <1>g DEF AlbumInv, AlbumDispatchedOnce
<1>c. UNCHANGED <<tpc, tmsg, state, albums, crashes>> => AlbumInv'
  BY <1>g, <1>o DEF AlbumInv, AlbumClosed
<1>s. ASSUME NEW t \in Threads, NEW where, Goto(t, where), tpc[t] # "idle",
             UNCHANGED <<state, albums, crashes>>,
             \/ where = "idle"
             \/ tmsg[t] \in Singles
             \/ tpc[t] # "filter"
             \/ ~Stored(tmsg[t])
             \/ FilterKey(tmsg[t]) \in excused'
      PROVE  AlbumInv'
  <2> SUFFICES ASSUME NEW g \in Groups, albums'[g] > 0, g \notin excused',
                      state[g] # "COMPLETED", NEW u \in Threads, tmsg'[u] \in Members(g)
               PROVE  tpc'[u] = "filter"
    BY <1>s, <1>g, <1>o DEF AlbumInv, AlbumClosed, Members
  <2>1. tmsg'[u] = tmsg[u] /\ tmsg[u] \in Members(g)
    BY <1>s, <1>t, <1>n DEF Goto, Members
  <2>2. tpc[u] = "filter" /\ AnyStored(g)
    BY <1>s, <1>g, <2>1 DEF AlbumInv, AlbumClosed
  <2>3. tmsg[u] \in Messages /\ tmsg[u] \notin Singles /\ GroupOf[tmsg[u]] = g
    BY <2>1, <1>n DEF Members, Singles
  <2>4. Stored(tmsg[u]) /\ FilterKey(tmsg[u]) = g
    BY <2>2, <2>3, StoredIsAny
  <2>5. CASE u = t
    <3>1. where = "idle"
      BY <1>s, <2>2, <2>3, <2>4, <2>5
    <3>2. tmsg'[u] = None
      BY <1>s, <1>t, <2>5, <3>1 DEF Goto
    <3> QED
      BY <1>n, <2>1, <2>3, <3>2
  <2>6. CASE u # t
    BY <1>s, <1>t, <2>2, <2>6 DEF Goto
  <2> QED
    BY <2>5, <2>6
<1>1. ASSUME NEW t \in Threads, NEW m \in Messages, Deliver(t, m) PROVE AlbumInv'
  <2>1. \A u \in Threads : u # t => tmsg'[u] = tmsg[u] /\ tpc'[u] = tpc[u]
    BY <1>1, <1>t DEF Deliver
  <2>2. tpc'[t] = "filter"
    BY <1>1, <1>t DEF Deliver
  <2> QED
    BY <1>1, <2>1, <2>2, <1>g, <1>o DEF Deliver, maps, history, AlbumInv, AlbumClosed, Members
<1>2. ASSUME NEW t \in Threads, Filter(t) PROVE AlbumInv'
  BY <1>2, <1>s DEF Filter, FilterWith, maps, history, bounds
<1>3. ASSUME NEW t \in Threads, FilterFails(t) PROVE AlbumInv'
  BY <1>3, <1>s DEF FilterFails, maps, history
<1>4. ASSUME NEW t \in Threads, Mark(t) PROVE AlbumInv'
  BY <1>4, <1>s DEF Mark, MarkKey, maps, history, bounds
<1>5. ASSUME NEW t \in Threads,
             SingleIsDuplicate(t) \/ SaveSingle(t) \/ SingleFails(t) \/ DispatchSingle(t)
      PROVE  AlbumInv'
  BY <1>5, <1>s DEF SingleIsDuplicate, IsDuplicate, SaveSingle, SingleFails, DispatchSingle,
     maps, history, bounds
<1>6. ASSUME NEW t \in Threads, HandleMediaGroupMessage(t) PROVE AlbumInv'
  <2> DEFINE h == GroupOf[tmsg[t]]
  <2>1. tmsg[t] \in Messages /\ h \in Groups /\ tmsg[t] \in Members(h) /\ tpc[t] = "handle"
    BY <1>6, <1>t, SinglesOrMembers DEF HandleMediaGroupMessage, Collect, TypeInv, Handling, Members
  <2>2. CASE state[h] \in {"PROCESSING", "COMPLETED"}
    <3>1. UNCHANGED <<state, albums, crashes>> /\ Goto(t, "idle")
      BY <1>6, <2>2 DEF HandleMediaGroupMessage, Collect, maps, history, bounds
    <3> QED
      BY <2>1, <3>1, <1>s
  <2>3. CASE state[h] \notin {"PROCESSING", "COMPLETED"}
    <3>1. albums[h] > 0 => crashes # 0 /\ h \in excused
      BY <2>1, <2>3 DEF AlbumInv, AlbumClosed
    <3>2. /\ \A g \in Groups : g # h => state'[g] = state[g]
          /\ UNCHANGED <<albums, crashes, excused>>
          /\ Goto(t, "idle")
      BY <1>6, <1>t, <2>3 DEF HandleMediaGroupMessage, Collect, history, bounds
    <3>3. \A u \in Threads, g \in Groups :
            tmsg'[u] \in Members(g) => u # t /\ tmsg'[u] = tmsg[u] /\ tpc'[u] = tpc[u]
      BY <1>n, <1>t, <3>2 DEF Goto, Members
    <3> QED
      BY <1>g, <1>o, <3>1, <3>2, <3>3 DEF AlbumInv, AlbumClosed, Members
  <2> QED
    BY <2>2, <2>3
<1>7. ASSUME NEW h \in Groups, Claim(h) PROVE AlbumInv'
  <2>1. CASE state[h] = "COLLECTING"
    <3>1. albums[h] > 0 => crashes # 0 /\ h \in excused
      BY <2>1 DEF AlbumInv, AlbumClosed
    <3>2. /\ \A g \in Groups : g # h => state'[g] = state[g]
          /\ UNCHANGED <<tpc, tmsg, albums, crashes, excused>>
      BY <1>7, <1>t, <2>1 DEF Claim, ClaimInto, threads, history, bounds
    <3> QED
      BY <1>g, <1>o, <3>1, <3>2 DEF AlbumInv, AlbumClosed
  <2>2. CASE state[h] # "COLLECTING"
    BY <1>7, <2>2, <1>c DEF Claim, ClaimInto, threads, history, bounds
  <2> QED
    BY <2>1, <2>2
<1>8. ASSUME NEW h \in Groups, BeginAlbumFails(h) PROVE AlbumInv'
  <2>1. state[h] = "PROCESSING"
    BY <1>8 DEF BeginAlbumFails, TakeBuffer, MapsInv, MapsAgree
  <2>2. albums[h] > 0 => crashes # 0 /\ h \in excused
    BY <2>1 DEF AlbumInv, AlbumClosed
  <2>3. /\ \A g \in Groups : g # h => state'[g] = state[g]
        /\ UNCHANGED <<tpc, tmsg, albums, crashes, excused>>
    BY <1>8, <1>t DEF BeginAlbumFails, threads, history
  <2> QED
    BY <1>g, <1>o, <2>2, <2>3 DEF AlbumInv, AlbumClosed
<1>9. ASSUME NEW h \in Groups, FinishAlbum(h) PROVE AlbumInv'
  <2>1. cur = h /\ state[h] = "PROCESSING"
    BY <1>9 DEF FinishAlbum, Finish, MapsInv, MapsAgree
  <2>2. albums[h] > 0 => crashes # 0 /\ h \in excused
    BY <2>1 DEF AlbumInv, AlbumClosed
  <2>3. /\ state'[h] = "COMPLETED"
        /\ \A g \in Groups : g # h => state'[g] = state[g] /\ albums'[g] = albums[g]
        /\ UNCHANGED <<tpc, tmsg, crashes, excused, raw>>
    BY <1>9, <1>t DEF FinishAlbum, Finish, threads, bounds
  <2>4. albums'[h] > 0 => AnyStored(h)' \/ h \in excused'
    <3>1. CASE parsed = {}
      BY <1>9, <3>1, <2>2, <1>g DEF FinishAlbum, Finish
    <3>2. CASE parsed # {}
      BY <2>1, <3>2, <1>g DEF StoreInv, WorkOfCur
    <3> QED
      BY <3>1, <3>2
  <2>5. AlbumClosed'
    BY <2>3, <2>4, <1>g DEF AlbumInv, AlbumClosed
  <2>6. albums'[h] < 2 \/ (h \in excused /\ crashes > 0)
    <3>1. CASE albums[h] = 0
      BY <1>9, <1>t, <3>1 DEF FinishAlbum, Finish, Once
    <3>2. CASE albums[h] > 0
      BY <2>2, <3>2, <1>t
    <3> QED
      BY <3>1, <3>2, <1>t
  <2>7. AlbumDispatchedOnce'
    BY <2>3, <2>6 DEF AlbumInv, AlbumDispatchedOnce
  <2> QED
    BY <2>5, <2>7 DEF AlbumInv
<1>10. CASE Crash
  <2>1. /\ crashes' = crashes + 1 /\ UNCHANGED <<albums, raw, excused>>
        /\ \A g \in Groups : state'[g] = "NONE"
        /\ \A t \in Threads : tmsg'[t] = None
    BY <1>10 DEF Crash
  <2>2. crashes' > 0
    BY <2>1, <1>t
  <2>3. AlbumClosed'
    BY <1>g, <1>n, <1>t, <2>1, <2>2 DEF AlbumInv, AlbumClosed, Members
  <2>4. AlbumDispatchedOnce'
    BY <2>1, <2>2 DEF AlbumInv, AlbumDispatchedOnce
  <2> QED
    BY <2>3, <2>4 DEF AlbumInv
<1>11. ASSUME NEW g \in Groups, SeeDue(g) \/ BeginAlbum(g) \/ Elapse(g) PROVE AlbumInv'
  BY <1>11, <1>c DEF SeeDue, BeginAlbum, Elapse, threads, maps, history, bounds
<1>12. ASSUME NEW m \in Messages, SaveItem(m) \/ SaveItemFails(m) PROVE AlbumInv'
  BY <1>12, <1>c DEF SaveItem, SaveItemFails, ItemStep, threads, maps, history, bounds
<1>13. CASE StartScan \/ (\E k \in Messages \union Groups : Expire(k))
  BY <1>13, <1>c DEF StartScan, Expire, threads, maps, history, bounds
<1>14. CASE UNCHANGED vars
  BY <1>14, <1>c DEF vars, threads, maps, history, bounds
<1> QED
  BY <1>1, <1>2, <1>3, <1>4, <1>5, <1>6, <1>7, <1>8, <1>9, <1>10, <1>11, <1>12, <1>13, <1>14
     DEF Next, ThreadStep, TimerStep

(* The plugins see an album once: however its messages are delivered again, *)
(* replayed or forgotten by the cache; after a restart, unless a fault met  *)
(* it before.                                                               *)
THEOREM AlbumOnce == Spec => []AlbumDispatchedOnce
<1>1. Init => AlbumInv
  BY DEF Init, NoMessages, AlbumInv, AlbumClosed, AlbumDispatchedOnce
<1>2. AlbumInv => AlbumDispatchedOnce
  BY DEF AlbumInv
<1> QED
  BY <1>1, <1>2, TypeCorrect, MapsCorrect, StoreCorrect, AlbumStep, PTL DEF Spec

-----------------------------------------------------------------------------
(* Once only: single messages *)

Beyond(t, m) == tmsg[t] = m /\ tpc[t] # "filter"

(* A single message that met neither a race nor a fault is past the filter  *)
(* in one thread at most, and in none once the plugins saw it.              *)
OneHandler ==
  \A m \in Singles \ (raced \union excused) :
    /\ \A t, u \in Threads : Beyond(t, m) /\ Beyond(u, m) => t = u
    /\ \A t \in Threads : Beyond(t, m) => times[m] = 0

SingleInv == OneHandler /\ OnlyRacesRepeatSingles

(* No step lets the plugins see such a message again. *)
LEMMA SingleStep == TypeInv /\ StoreInv /\ SingleInv /\ [Next]_vars => SingleInv'
<1> SUFFICES ASSUME TypeInv, StoreInv, SingleInv, [Next]_vars PROVE SingleInv'
  OBVIOUS
<1>n. None \notin Messages /\ None \notin Groups
  BY ConstantsAssumption DEF ConstantsAssumption
<1>t. /\ tpc \in [Threads -> {"idle", "filter", "mark", "handle", "save", "plugins"}]
      /\ tmsg \in [Threads -> Messages \union {None}]
      /\ times \in [Messages -> 0..2]
      /\ parsed \subseteq Messages
  BY DEF TypeInv, TypeOK
<1>e. raced \union excused \subseteq raced' \union excused'
  BY StoreGrows
<1>c. UNCHANGED <<tpc, tmsg, times>> => SingleInv'
  BY <1>e DEF SingleInv, OneHandler, Beyond, OnlyRacesRepeatSingles, Singles
<1>s. ASSUME NEW t \in Threads, NEW where, Goto(t, where), UNCHANGED times,
             \/ where = "idle"
             \/ tpc[t] # "filter"
             \/ ~Stored(tmsg[t]) /\ HeldBeyond(t) \subseteq raced'
             \/ FilterKey(tmsg[t]) \in excused'
      PROVE  SingleInv'
  <2>1. OnlyRacesRepeatSingles'
    BY <1>s, <1>e DEF SingleInv, OnlyRacesRepeatSingles, Singles
  <2>2. \A u \in Threads : tmsg'[u] # None => tmsg'[u] = tmsg[u]
    BY <1>s, <1>t DEF Goto
  <2>3. ASSUME NEW m \in Singles \ (raced' \union excused'), NEW u \in Threads, Beyond(u, m)', ~Beyond(u, m)
        PROVE  /\ u = t /\ times[m] = 0
               /\ \A v \in Threads \ {t} : ~Beyond(v, m)
    <3>1. m \in Messages /\ tmsg[u] = m /\ tpc[u] = "filter"
      BY <1>n, <2>2, <2>3 DEF Singles, Beyond
    <3>2. u = t /\ where # "idle"
      BY <1>s, <1>t, <1>n, <2>3, <3>1 DEF Goto, Beyond
    <3>3. FilterKey(m) = m /\ (Stored(m) <=> raw[m] > 0)
      BY <2>3 DEF FilterKey, Stored
    <3>4. ~Stored(m) /\ HeldBeyond(t) \subseteq raced'
      BY <1>s, <2>3, <3>1, <3>2, <3>3
    <3>5. ~(times[m] > 0)
      BY <1>e, <2>3, <3>1, <3>3, <3>4 DEF StoreInv, StoredBeforePlugins
    <3>6. times[m] = 0
      BY <1>t, <3>1, <3>5
    <3>7. m \notin HeldBeyond(t)
      BY <2>3, <3>4
    <3> QED
      BY <2>3, <3>1, <3>2, <3>6, <3>7 DEF HeldBeyond, Beyond
  <2>4. ASSUME NEW m \in Singles \ (raced' \union excused')
        PROVE  /\ \A u, v \in Threads : Beyond(u, m)' /\ Beyond(v, m)' => u = v
               /\ \A u \in Threads : Beyond(u, m)' => times'[m] = 0
    <3>1. /\ \A u, v \in Threads : Beyond(u, m) /\ Beyond(v, m) => u = v
          /\ \A u \in Threads : Beyond(u, m) => times[m] = 0
      BY <1>e, <2>4 DEF SingleInv, OneHandler
    <3>2. ASSUME NEW u \in Threads, NEW v \in Threads, Beyond(u, m)', Beyond(v, m)' PROVE u = v
      <4>1. CASE Beyond(u, m) /\ Beyond(v, m)
        BY <3>1, <4>1
      <4>2. CASE ~Beyond(u, m)
        BY <2>3, <2>4, <3>2, <4>2
      <4>3. CASE ~Beyond(v, m)
        BY <2>3, <2>4, <3>2, <4>3
      <4> QED
        BY <4>1, <4>2, <4>3
    <3>3. ASSUME NEW u \in Threads, Beyond(u, m)' PROVE times'[m] = 0
      BY <1>s, <2>3, <2>4, <3>1, <3>3
    <3> QED
      BY <3>2, <3>3
  <2>5. OneHandler'
    BY <2>4 DEF OneHandler, Singles
  <2> QED
    BY <2>1, <2>5 DEF SingleInv
<1>1. ASSUME NEW t \in Threads, NEW m \in Messages, Deliver(t, m) PROVE SingleInv'
  <2>1. /\ \A u \in Threads : u # t => tmsg'[u] = tmsg[u] /\ tpc'[u] = tpc[u]
        /\ tpc'[t] = "filter" /\ tmsg'[t] = m
        /\ UNCHANGED times
    BY <1>1, <1>t DEF Deliver, history
  <2> QED
    BY <1>e, <2>1 DEF SingleInv, OneHandler, Beyond, OnlyRacesRepeatSingles, Singles
<1>2. ASSUME NEW t \in Threads, Filter(t) \/ FilterFails(t) \/ Mark(t) PROVE SingleInv'
  BY <1>2, <1>s DEF Filter, FilterWith, FilterFails, Mark, MarkKey, history
<1>3. ASSUME NEW t \in Threads,
             \/ HandleMediaGroupMessage(t) \/ SingleIsDuplicate(t)
             \/ SaveSingle(t) \/ SingleFails(t)
      PROVE  SingleInv'
  BY <1>3, <1>s DEF HandleMediaGroupMessage, Collect, SingleIsDuplicate, IsDuplicate,
     SaveSingle, SingleFails, history
<1>4. ASSUME NEW t \in Threads, DispatchSingle(t) PROVE SingleInv'
  <2> DEFINE m == tmsg[t]
  <2>1. m \in Singles /\ m \in Messages
    BY <1>4 DEF DispatchSingle, TypeInv, Handling, Singles
  <2>2. /\ \A n \in Messages : n # m => times'[n] = times[n]
        /\ times'[m] = Once(times[m])
        /\ Goto(t, "idle") /\ tpc[t] # "filter"
    BY <1>4, <1>t, <2>1 DEF DispatchSingle
  <2>3. \A u \in Threads : tmsg'[u] # None => u # t /\ tmsg'[u] = tmsg[u] /\ tpc'[u] = tpc[u]
    BY <1>t, <2>2 DEF Goto
  <2>4. m \notin raced \union excused =>
          times[m] = 0 /\ \A u \in Threads : Beyond(u, m) => u = t
    BY <2>1, <2>2 DEF SingleInv, OneHandler, Beyond
  <2>5. OneHandler'
    BY <1>e, <1>n, <2>2, <2>3, <2>4 DEF SingleInv, OneHandler, Beyond, Singles
  <2>6. m \notin raced \union excused => times'[m] < 2
    BY <2>2, <2>4 DEF Once
  <2>7. OnlyRacesRepeatSingles'
    BY <1>e, <2>2, <2>6 DEF SingleInv, OnlyRacesRepeatSingles, Singles
  <2> QED
    BY <2>5, <2>7 DEF SingleInv
<1>5. ASSUME NEW g \in Groups, FinishAlbum(g) PROVE SingleInv'
  <2>1. \A n \in parsed : n \notin Singles
    BY <1>5, <1>n, <1>t DEF FinishAlbum, Finish, StoreInv, WorkOfCur, Singles
  <2>2. \A n \in Singles : times'[n] = times[n]
    BY <1>5, <2>1 DEF FinishAlbum, Finish, Singles
  <2> QED
    BY <1>5, <1>e, <2>2 DEF FinishAlbum, Finish, threads, SingleInv, OneHandler, Beyond,
       OnlyRacesRepeatSingles
<1>6. CASE Crash
  <2>1. UNCHANGED times /\ \A t \in Threads : tmsg'[t] = None
    BY <1>6 DEF Crash
  <2> QED
    BY <1>e, <1>n, <2>1 DEF SingleInv, OneHandler, Beyond, OnlyRacesRepeatSingles, Singles
<1>7. ASSUME NEW g \in Groups,
             SeeDue(g) \/ Claim(g) \/ BeginAlbum(g) \/ BeginAlbumFails(g) \/ Elapse(g)
      PROVE  SingleInv'
  BY <1>7, <1>c DEF SeeDue, Claim, ClaimInto, BeginAlbum, BeginAlbumFails, Elapse, threads, history
<1>8. ASSUME NEW m \in Messages, SaveItem(m) \/ SaveItemFails(m) PROVE SingleInv'
  BY <1>8, <1>c DEF SaveItem, SaveItemFails, ItemStep, threads, history
<1>9. CASE StartScan \/ (\E k \in Messages \union Groups : Expire(k))
  BY <1>9, <1>c DEF StartScan, Expire, threads, history
<1>10. CASE UNCHANGED vars
  BY <1>10, <1>c DEF vars, threads, history
<1> QED
  BY <1>1, <1>2, <1>3, <1>4, <1>5, <1>6, <1>7, <1>8, <1>9, <1>10
     DEF Next, ThreadStep, TimerStep

(* The plugins see a single message once, over cache expiry, redelivery and *)
(* restart, unless two threads take it past the filter at once or a fault   *)
(* meets it: the race is the only way the filter lets a message through     *)
(* twice.                                                                   *)
THEOREM OnlyRacesRepeat == Spec => []OnlyRacesRepeatSingles
<1>1. Init => SingleInv
  BY ConstantsAssumption DEF Init, NoMessages, SingleInv, OneHandler, Beyond, OnlyRacesRepeatSingles,
     Singles, ConstantsAssumption
<1>2. SingleInv => OnlyRacesRepeatSingles
  BY DEF SingleInv
<1> QED
  BY <1>1, <1>2, TypeCorrect, StoreCorrect, SingleStep, PTL DEF Spec

=============================================================================
