------------------------ MODULE ConfigEvents_proofs ------------------------
(***************************************************************************)
(* Proofs about ConfigEvents, for any number of requests, channels,        *)
(* documents, authors and failures.                                        *)
(***************************************************************************)
EXTENDS ConfigEvents, TLAPS

-----------------------------------------------------------------------------
(* Types *)

(* What a thread has read fits its next step; an idle thread is not alone;  *)
(* the first load ends before the filter counts as initialized.             *)
Fitting ==
  /\ \A t \in Threads : at[t] \in {"detach", "erase", "entities"} => read[t] \subseteq Authors
  /\ \A t \in Threads : at[t] = "idle" => read[t] = {} /\ old[t] = "none"
  /\ \A t \in Threads : at[t] = "assign" => read[t] \subseteq Names
  /\ \A t \in Threads : at[t] \in {"save", "publish"} => new[t] # "none"
  /\ \A t \in alone : at[t] # "idle"
  /\ loading => ~initialized
  /\ ~loading => pending = {}

TypeInv == TypeOK /\ Fitting

LEMMA TypeStep == ASSUME TypeInv, [Next]_vars PROVE TypeInv'
<1> USE ConstantsAssumption
    DEF ConstantsAssumption, TypeInv, TypeOK, Fitting, StoreOK, FilterOK, MatcherOK, ThreadsOK,
        HistoryOK, vars, store, filter, matcher, threads, Threads, ChannelSteps, TagSteps
<1>1. ASSUME NEW t \in Requests, NEW d \in Docs, NEW s \in {"on", "off"}, Create(t, d, s)
      PROVE  TypeInv'
  BY <1>1 DEF Create, Begin, Goto
<1>2. ASSUME NEW t \in Requests, NEW d \in Docs, NEW s \in {"on", "off"}, Update(t, d, s)
      PROVE  TypeInv'
  BY <1>2 DEF Update, Begin, Goto
<1>3. ASSUME NEW t \in Requests, NEW d \in Docs, Delete(t, d) PROVE TypeInv'
  BY <1>3 DEF Delete, Begin, Goto
<1>4. ASSUME NEW t \in Requests, ChangeConfig(t) PROVE TypeInv'
  BY <1>4 DEF ChangeConfig, Begin, Goto
<1>5. ASSUME NEW t \in Requests, NEW a \in Authors, ChangeAuthor(t, a) PROVE TypeInv'
  BY <1>5 DEF ChangeAuthor, Begin, Goto
<1>6. ASSUME NEW t \in Requests, NEW a \in Authors, DeleteAuthor(t, a) PROVE TypeInv'
  <2>1. chosen \in (SUBSET Authors) \union (SUBSET Names)
    OBVIOUS
  <2>2. read' \in [Threads -> (SUBSET Authors) \union (SUBSET Names)]
    BY <1>6, <2>1 DEF DeleteAuthor
  <2>4. ThreadsOK'
    BY <1>6, <2>2 DEF DeleteAuthor, Begin, Goto
  <2>5. HistoryOK' /\ StoreOK' /\ FilterOK' /\ MatcherOK'
    BY <1>6 DEF DeleteAuthor, Begin
  <2>6. Fitting'
    BY <1>6 DEF DeleteAuthor, Begin, Goto
  <2> QED
    BY <2>4, <2>5, <2>6
<1>7. CASE Begun
  BY <1>7 DEF Begun, Begin, Goto
<1>8. ASSUME NEW t \in Requests, SaveChannel(t) PROVE TypeInv'
  BY <1>8 DEF SaveChannel, Return, Goto, Spoil, Channels
<1>9. ASSUME NEW t \in Requests, SaveRefused(t) \/ ChannelFails(t) PROVE TypeInv'
  BY <1>9 DEF SaveRefused, ChannelFails, Return, Goto, Spoil, Channels, Fault
<1>10. ASSUME NEW t \in Requests, DeleteChannel(t) PROVE TypeInv'
  BY <1>10 DEF DeleteChannel, Goto
<1>11. ASSUME NEW t \in Requests, Publish(t) PROVE TypeInv'
  BY <1>11 DEF Publish, Return, Goto, Spoil, Settle, Channels
<1>12. ASSUME NEW t \in Requests, Remove(t) PROVE TypeInv'
  BY <1>12 DEF Remove, Return, Goto, Settle, Channels
<1>13. ASSUME NEW t \in Threads, SaveConfig(t) \/ SaveAuthor(t) \/ DetachAuthor(t) \/ EraseAuthor(t)
       PROVE  TypeInv'
  BY <1>13 DEF SaveConfig, SaveAuthor, DetachAuthor, EraseAuthor, Then, Goto
<1>14. ASSUME NEW t \in Threads, TagWriteFails(t) PROVE TypeInv'
  BY <1>14 DEF TagWriteFails, Return, Goto, Fault
<1>15. ASSUME NEW t \in Threads, FindConfigs(t) PROVE TypeInv'
  BY <1>15 DEF FindConfigs, Then, Goto
<1>16. ASSUME NEW t \in Threads, FindEntities(t) PROVE TypeInv'
  BY <1>16 DEF FindEntities, Goto, Fault
<1>17. ASSUME NEW t \in Threads, Assign(t) \/ LoadFails(t) PROVE TypeInv'
  <2>1. {} \in (SUBSET Authors) \union (SUBSET Names)
    OBVIOUS
  <2>2. ThreadsOK'
    BY <1>17, <2>1 DEF Assign, LoadFails, Return, Goto
  <2>3. MatcherOK'
    BY <1>17 DEF Assign, LoadFails
  <2>4. faults' \in 0..MaxFaults
    BY <1>17 DEF Assign, LoadFails, Fault
  <2>5. staleTags' \in BOOLEAN
    BY <1>17 DEF Assign, LoadFails
  <2>6. alone' \subseteq alone /\ UNCHANGED begun /\ staleChannels' = staleChannels
    BY <1>17 DEF Assign, LoadFails, Return
  <2>7. Fitting'
    BY <1>17 DEF Assign, LoadFails, Return, Goto
  <2> QED
    BY <1>17, <2>2, <2>3, <2>4, <2>5, <2>6, <2>7 DEF Assign, LoadFails
<1>18. CASE Restart
  <2>1. {} \in (SUBSET Authors) \union (SUBSET Names)
    OBVIOUS
  <2>2. ThreadsOK'
    BY <1>18, <2>1 DEF Restart
  <2>3. faults' \in 0..MaxFaults
    BY <1>18 DEF Restart, Fault
  <2>4. Fitting'
    BY <1>18 DEF Restart
  <2> QED
    BY <1>18, <2>2, <2>3, <2>4 DEF Restart
<1>19. CASE FirstLoad
  BY <1>19 DEF FirstLoad, Monitored, Channels
<1>21. CASE Initialized
  BY <1>21 DEF Initialized
<1>22. CASE FirstLoadFails
  BY <1>22 DEF FirstLoadFails, Fault
<1>23. ASSUME NEW c \in Channels, AddLoaded(c) PROVE TypeInv'
  BY <1>23 DEF AddLoaded
<1>20. CASE UNCHANGED vars
  BY <1>20
<1> HIDE DEF TypeInv
<1> QED
  BY <1>1, <1>2, <1>3, <1>4, <1>5, <1>6, <1>7, <1>8, <1>9, <1>10, <1>11, <1>12, <1>13,
     <1>14, <1>15, <1>16, <1>17, <1>18, <1>19, <1>20, <1>21, <1>22, <1>23
  DEF Next, Request, ChannelStep, TagStep

LEMMA TypeInit == ASSUME Init PROVE TypeInv
<1> USE DEF Init
<1>1. {} \in (SUBSET Authors) \union (SUBSET Names)
  OBVIOUS
<1>2. ThreadsOK
  BY <1>1 DEF ThreadsOK, ChannelSteps
<1>3. StoreOK /\ FilterOK /\ MatcherOK
  BY DEF StoreOK, FilterOK, MatcherOK
<1>4. 0 \in 0..MaxFaults
  BY ConstantsAssumption DEF ConstantsAssumption
<1>6. HistoryOK
  BY <1>4 DEF HistoryOK
<1>5. Fitting
  BY DEF Fitting
<1> QED
  BY <1>2, <1>3, <1>5, <1>6 DEF TypeInv, TypeOK

LEMMA TypesAlways == Spec => []TypeInv
  BY TypeInit, TypeStep, PTL DEF Spec

(* Every variable keeps its type: no action reads a document, a status or a *)
(* list that the thread has not got.                                        *)
THEOREM TypesAreRight == Spec => []TypeOK
<1>1. TypeInv => TypeOK
  BY DEF TypeInv
<1> QED
  BY <1>1, TypesAlways, PTL

-----------------------------------------------------------------------------
(* Who is alone *)

SameChannel(t, u) ==
  at[t] \in ChannelSteps /\ at[u] \in ChannelSteps /\ ChannelOf[target[t]] = ChannelOf[target[u]]

SameTags(t, u) == at[t] \in TagSteps /\ at[u] \in TagSteps

(* A thread that counts as alone shares its channel, or the tag list, with  *)
(* no other thread.                                                         *)
Lonely == \A t \in alone, u \in Threads : SameChannel(t, u) \/ SameTags(t, u) => u = t

LonelyInv == TypeInv /\ Lonely

(* A thread goes on with what it has begun, or returns. *)
Proceeds(t) ==
  /\ \A u \in Threads \ {t} : at'[u] = at[u] /\ target'[u] = target[u]
  /\ alone' \subseteq alone
  /\ \/ at'[t] = "idle"
     \/ at[t] \in ChannelSteps /\ at'[t] \in ChannelSteps /\ target'[t] = target[t]
     \/ at[t] \in TagSteps /\ at'[t] \in TagSteps

LEMMA LonelyProceeds ==
  ASSUME LonelyInv, TypeInv', NEW t \in Threads, Proceeds(t)
  PROVE  Lonely'
<1> SUFFICES ASSUME NEW v \in alone', NEW u \in Threads, (SameChannel(v, u) \/ SameTags(v, u))'
             PROVE  u = v
  BY DEF Lonely
<1>1. v \in alone /\ v \in Threads
  BY DEF Proceeds, LonelyInv, TypeInv, TypeOK, HistoryOK
<1>2. ASSUME NEW w \in Threads, at'[w] # "idle"
      PROVE  /\ at'[w] \in ChannelSteps => at[w] \in ChannelSteps /\ target'[w] = target[w]
             /\ at'[w] \in TagSteps => at[w] \in TagSteps
  BY <1>2 DEF Proceeds, ChannelSteps, TagSteps
<1>3. at'[v] # "idle" /\ at'[u] # "idle"
  BY DEF SameChannel, SameTags, ChannelSteps, TagSteps
<1>4. SameChannel(v, u) \/ SameTags(v, u)
  BY <1>1, <1>2, <1>3 DEF SameChannel, SameTags
<1> QED
  BY <1>1, <1>4 DEF LonelyInv, Lonely

LEMMA LonelyBeginsChannel ==
  ASSUME LonelyInv, NEW t \in Requests, NEW d \in Docs, NEW s \in ChannelSteps,
         Begin(t, s, d, AtChannel(ChannelOf[d]))
  PROVE  Lonely'
<1> SUFFICES ASSUME NEW v \in alone', NEW u \in Threads, (SameChannel(v, u) \/ SameTags(v, u))'
             PROVE  u = v
  BY DEF Lonely
<1> USE DEF LonelyInv, TypeInv, TypeOK, ThreadsOK, HistoryOK
<1>1. t \in Threads /\ s \notin TagSteps
  BY DEF Threads, ChannelSteps, TagSteps
<1>2. at'[t] = s /\ target'[t] = d /\ \A w \in Threads \ {t} : at'[w] = at[w] /\ target'[w] = target[w]
  BY <1>1 DEF Begin, Goto
<1>3. CASE v = t
  <2>1. t \notin alone
    BY <1>1 DEF Begin, Fitting
  <2>2. AtChannel(ChannelOf[d]) = {}
    BY <1>3, <2>1 DEF Begin
  <2>3. CASE u # t
    <3>1. at[u] \in ChannelSteps /\ ChannelOf[target[u]] = ChannelOf[d] /\ u \in Requests
      BY <1>1, <1>2, <1>3, <2>3 DEF SameChannel, SameTags
    <3> QED
      BY <2>2, <3>1 DEF AtChannel
  <2> QED
    BY <1>3, <2>3
<1>4. CASE v # t
  <2>1. v \in alone /\ v \in Threads /\ (AtChannel(ChannelOf[d]) # {} => v \notin AtChannel(ChannelOf[d]))
    BY <1>4 DEF Begin
  <2>2. CASE u = t
    <3>1. at[v] \in ChannelSteps /\ ChannelOf[target[v]] = ChannelOf[d] /\ v \in Requests
      BY <1>1, <1>2, <1>4, <2>1, <2>2 DEF SameChannel, SameTags
    <3> QED
      BY <2>1, <3>1 DEF AtChannel
  <2>3. CASE u # t
    <3>1. SameChannel(v, u) \/ SameTags(v, u)
      BY <1>2, <1>4, <2>1, <2>3 DEF SameChannel, SameTags
    <3> QED
      BY <2>1, <3>1 DEF Lonely
  <2> QED
    BY <2>2, <2>3
<1> QED
  BY <1>3, <1>4

LEMMA LonelyBeginsTags ==
  ASSUME LonelyInv, NEW t \in Threads, NEW d, NEW s \in TagSteps, Begin(t, s, d, AtTags)
  PROVE  Lonely'
<1> SUFFICES ASSUME NEW v \in alone', NEW u \in Threads, (SameChannel(v, u) \/ SameTags(v, u))'
             PROVE  u = v
  BY DEF Lonely
<1> USE DEF LonelyInv, TypeInv, TypeOK, ThreadsOK, HistoryOK
<1>1. s \notin ChannelSteps
  BY DEF ChannelSteps, TagSteps
<1>2. at'[t] = s /\ \A w \in Threads \ {t} : at'[w] = at[w] /\ target'[w] = target[w]
  BY DEF Begin, Goto
<1>3. CASE v = t
  <2>1. t \notin alone
    BY DEF Begin, Fitting
  <2>2. AtTags = {}
    BY <1>3, <2>1 DEF Begin
  <2>3. CASE u # t
    <3>1. at[u] \in TagSteps
      BY <1>1, <1>2, <1>3, <2>3 DEF SameChannel, SameTags
    <3> QED
      BY <2>2, <3>1 DEF AtTags
  <2> QED
    BY <1>3, <2>3
<1>4. CASE v # t
  <2>1. v \in alone /\ v \in Threads /\ (AtTags # {} => v \notin AtTags)
    BY <1>4 DEF Begin
  <2>2. CASE u = t
    <3>1. at[v] \in TagSteps
      BY <1>1, <1>2, <1>4, <2>1, <2>2 DEF SameChannel, SameTags
    <3> QED
      BY <2>1, <3>1 DEF AtTags
  <2>3. CASE u # t
    <3>1. SameChannel(v, u) \/ SameTags(v, u)
      BY <1>2, <1>4, <2>1, <2>3 DEF SameChannel, SameTags
    <3> QED
      BY <2>1, <3>1 DEF Lonely
  <2> QED
    BY <2>2, <2>3
<1> QED
  BY <1>3, <1>4

LEMMA LonelyStep == ASSUME LonelyInv, [Next]_vars PROVE Lonely'
<1> USE DEF LonelyInv
<1>0. TypeInv'
  BY TypeStep
<1>1. ASSUME NEW t \in Requests, Request(t) PROVE Lonely'
  <2>1. t \in Threads /\ "save" \in ChannelSteps /\ "delete" \in ChannelSteps
    BY DEF Threads, ChannelSteps
  <2>2. {"config", "author", "detach", "erase"} \subseteq TagSteps
    BY DEF TagSteps
  <2>3. ASSUME NEW d \in Docs, NEW s \in {"on", "off"}, Create(t, d, s) \/ Update(t, d, s)
        PROVE  Lonely'
    BY <2>1, <2>3, LonelyBeginsChannel DEF Create, Update
  <2>4. ASSUME NEW d \in Docs, Delete(t, d) PROVE Lonely'
    BY <2>1, <2>4, LonelyBeginsChannel DEF Delete
  <2>5. ASSUME ChangeConfig(t) PROVE Lonely'
    BY <2>1, <2>2, <2>5, LonelyBeginsTags DEF ChangeConfig
  <2>6. ASSUME NEW a \in Authors, ChangeAuthor(t, a) \/ DeleteAuthor(t, a) PROVE Lonely'
    BY <2>1, <2>2, <2>6, LonelyBeginsTags DEF ChangeAuthor, DeleteAuthor
  <2> QED
    BY <1>1, <2>3, <2>4, <2>5, <2>6 DEF Request
<1>2. CASE Begun
  BY <1>2, LonelyBeginsTags DEF Begun, Threads, TagSteps
<1>3. ASSUME NEW t \in Requests, ChannelStep(t) PROVE Lonely'
  <2>1. Proceeds(t)
    BY <1>3 DEF ChannelStep, SaveChannel, SaveRefused, DeleteChannel, ChannelFails, Publish, Remove,
                Return, Goto, Proceeds, ChannelSteps, TypeInv, TypeOK, ThreadsOK, Threads
  <2> QED
    BY <1>0, <2>1, LonelyProceeds DEF Threads
<1>4. ASSUME NEW t \in Threads, TagStep(t) PROVE Lonely'
  <2>1. Proceeds(t)
    BY <1>4 DEF TagStep, SaveConfig, SaveAuthor, DetachAuthor, EraseAuthor, TagWriteFails, FindConfigs,
                FindEntities, Assign, LoadFails,
                Then, Return, Goto, Proceeds, TagSteps, TypeInv, TypeOK, ThreadsOK
  <2> QED
    BY <1>0, <2>1, LonelyProceeds
<1>5. CASE Restart
  BY <1>5 DEF Restart, Lonely
<1>6. CASE UNCHANGED <<at, target, alone>>
  BY <1>6 DEF Lonely, SameChannel, SameTags
<1>7. CASE FirstLoad \/ Initialized \/ FirstLoadFails \/ (\E c \in Channels : AddLoaded(c))
           \/ UNCHANGED vars
  BY <1>6, <1>7 DEF FirstLoad, Initialized, FirstLoadFails, AddLoaded, vars, threads
<1> QED
  BY <1>1, <1>2, <1>3, <1>4, <1>5, <1>7 DEF Next

-----------------------------------------------------------------------------
(* What a request that is alone knows of its channel *)

OneDocument ==
  \A d, e \in Docs : ChannelOf[d] = ChannelOf[e] /\ doc[d] # "none" /\ doc[e] # "none" => d = e

Free(c) == \A d \in Docs : ChannelOf[d] = c => doc[d] = "none"

(* Up to its write the store is as the request read it, then as it wrote it. *)
Knows(t) ==
  /\ at[t] = "save" => doc[target[t]] = old[t] /\ (old[t] = "none" => Free(ChannelOf[target[t]]))
  /\ at[t] = "delete" => doc[target[t]] # "none"
  /\ at[t] = "publish" => doc[target[t]] = new[t] /\ old[t] # new[t]
  /\ at[t] = "remove" => Free(ChannelOf[target[t]])

Known == \A t \in alone : Knows(t)

KnownInv == LonelyInv /\ OneDocument /\ Known

(* Another thread's step that leaves the documents of t's channel alone. *)
LEMMA StillKnows ==
  ASSUME KnownInv, NEW t \in alone, at'[t] = at[t] /\ target'[t] = target[t],
         old'[t] = old[t] /\ new'[t] = new[t],
         at[t] \in ChannelSteps =>
           \A d \in Docs : ChannelOf[d] = ChannelOf[target[t]] => doc'[d] = doc[d]
  PROVE  Knows(t)'
<1>1. t \in Threads /\ (at[t] \in ChannelSteps => target[t] \in Docs)
  BY DEF KnownInv, LonelyInv, TypeInv, TypeOK, ThreadsOK, HistoryOK
<1>2. Knows(t)
  BY DEF KnownInv, Known
<1> QED
  BY <1>1, <1>2 DEF Knows, Free, ChannelSteps

(* A step that changes no document and of all threads only t, which is not  *)
(* alone afterwards or knows what it should.                                *)
LEMMA KnownBut ==
  ASSUME KnownInv, NEW t \in Threads, UNCHANGED doc,
         \A u \in Threads \ {t} : /\ at'[u] = at[u] /\ target'[u] = target[u]
                                  /\ old'[u] = old[u] /\ new'[u] = new[u],
         alone' \subseteq alone \union {t},
         t \in alone' => Knows(t)'
  PROVE  OneDocument' /\ Known'
<1>1. OneDocument'
  BY DEF KnownInv, OneDocument
<1>2. ASSUME NEW u \in alone', u # t PROVE Knows(u)'
  <2>1. u \in alone /\ u \in Threads
    BY <1>2 DEF KnownInv, LonelyInv, TypeInv, TypeOK, HistoryOK
  <2> QED
    BY <1>2, <2>1, StillKnows
<1> QED
  BY <1>1, <1>2 DEF Known

LEMMA KnownStep == ASSUME KnownInv, [Next]_vars PROVE OneDocument' /\ Known'
<1> USE DEF vars, store, filter, matcher, threads
<1>0. TypeInv' /\ LonelyInv /\ TypeInv
  BY TypeStep DEF KnownInv, LonelyInv
<1>1. ASSUME NEW t \in Requests, NEW d \in Docs, NEW s \in {"on", "off"}, Create(t, d, s)
      PROVE  OneDocument' /\ Known'
  <2>1. at'[t] = "save" /\ target'[t] = d /\ old'[t] = "none"
    BY <1>0, <1>1 DEF Create, Begin, Goto, TypeInv, TypeOK, ThreadsOK, Threads, Fitting
  <2> QED
    BY <1>0, <1>1, KnownBut
    DEF Create, Begin, Goto, Knows, Free, Exists, TypeInv, TypeOK, ThreadsOK, Threads, Fitting
<1>2. ASSUME NEW t \in Requests, NEW d \in Docs, NEW s \in {"on", "off"}, Update(t, d, s)
      PROVE  OneDocument' /\ Known'
  BY <1>0, <1>2, KnownBut
  DEF Update, Begin, Goto, Knows, TypeInv, TypeOK, ThreadsOK, Threads
<1>3. ASSUME NEW t \in Requests, NEW d \in Docs, Delete(t, d)
      PROVE  OneDocument' /\ Known'
  BY <1>0, <1>3, KnownBut
  DEF Delete, Begin, Goto, Knows, TypeInv, TypeOK, ThreadsOK, Threads
<1>4. ASSUME NEW t \in Requests, SaveChannel(t) PROVE OneDocument' /\ Known'
  <2>1. target[t] \in Docs /\ at[t] \in ChannelSteps /\ new[t] # "none" /\ t \in Threads
    BY <1>0, <1>4 DEF SaveChannel, TypeInv, TypeOK, ThreadsOK, Fitting, Threads, ChannelSteps
  <2>2. doc'[target[t]] = new[t] /\ \A d \in Docs \ {target[t]} : doc'[d] = doc[d]
    BY <1>0, <1>4, <2>1 DEF SaveChannel, TypeInv, TypeOK, StoreOK
  <2>3. OneDocument'
    BY <1>4, <2>1, <2>2 DEF SaveChannel, OneDocument, KnownInv
  <2>4. ASSUME NEW u \in alone', u # t PROVE Knows(u)'
    <3>1. u \in alone /\ u \in Threads
      BY <1>0, <1>4 DEF SaveChannel, Return, TypeInv, TypeOK, HistoryOK
    <3>2. at'[u] = at[u] /\ target'[u] = target[u] /\ old'[u] = old[u] /\ new'[u] = new[u]
      BY <1>4, <2>1, <2>4, <3>1, <1>0 DEF SaveChannel, Return, Goto, TypeInv, TypeOK, ThreadsOK
    <3>3. at[u] \in ChannelSteps => ChannelOf[target[u]] # ChannelOf[target[t]]
      BY <1>0, <2>1, <2>4, <3>1 DEF LonelyInv, Lonely, SameChannel
    <3> QED
      BY <2>2, <3>1, <3>2, <3>3, StillKnows
  <2>5. t \in alone' => Knows(t)'
    <3>1. CASE old[t] = new[t]
      BY <1>0, <1>4, <3>1 DEF SaveChannel, Return
    <3>2. CASE old[t] # new[t]
      <4>1. at'[t] = "publish" /\ target'[t] = target[t] /\ old'[t] = old[t] /\ new'[t] = new[t]
        BY <1>0, <1>4, <2>1, <3>2 DEF SaveChannel, Goto, TypeInv, TypeOK, ThreadsOK
      <4> QED
        BY <2>2, <3>2, <4>1 DEF Knows
    <3> QED
      BY <3>1, <3>2
  <2> QED
    BY <2>3, <2>4, <2>5 DEF Known
<1>5. ASSUME NEW t \in Requests, DeleteChannel(t) PROVE OneDocument' /\ Known'
  <2>1. target[t] \in Docs /\ at[t] \in ChannelSteps /\ t \in Threads
    BY <1>0, <1>5 DEF DeleteChannel, TypeInv, TypeOK, ThreadsOK, Threads, ChannelSteps
  <2>2. doc'[target[t]] = "none" /\ \A d \in Docs \ {target[t]} : doc'[d] = doc[d]
    BY <1>0, <1>5, <2>1 DEF DeleteChannel, TypeInv, TypeOK, StoreOK
  <2>3. OneDocument'
    BY <2>1, <2>2 DEF OneDocument, KnownInv
  <2>4. ASSUME NEW u \in alone', u # t PROVE Knows(u)'
    <3>1. u \in alone /\ u \in Threads
      BY <1>0, <1>5, <2>4 DEF DeleteChannel, TypeInv, TypeOK, HistoryOK
    <3>2. at'[u] = at[u] /\ target'[u] = target[u] /\ old'[u] = old[u] /\ new'[u] = new[u]
      BY <1>5, <2>1, <2>4, <3>1, <1>0 DEF DeleteChannel, Goto, TypeInv, TypeOK, ThreadsOK
    <3>3. at[u] \in ChannelSteps => ChannelOf[target[u]] # ChannelOf[target[t]]
      BY <1>0, <2>1, <2>4, <3>1 DEF LonelyInv, Lonely, SameChannel
    <3> QED
      BY <2>2, <3>1, <3>2, <3>3, StillKnows
  <2>5. t \in alone' => Knows(t)'
    <3>1. at'[t] = "remove" /\ target'[t] = target[t]
      BY <1>0, <1>5, <2>1 DEF DeleteChannel, Goto, TypeInv, TypeOK, ThreadsOK
    <3>2. t \in alone' => doc[target[t]] # "none"
      BY <1>5 DEF DeleteChannel, KnownInv, Known, Knows
    <3>3. t \in alone' => Free(ChannelOf[target[t]])'
      BY <2>1, <2>2, <3>1, <3>2 DEF Free, KnownInv, OneDocument
    <3> QED
      BY <3>1, <3>3 DEF Knows
  <2> QED
    BY <2>3, <2>4, <2>5 DEF Known
<1>6. ASSUME NEW t \in Requests,
             SaveRefused(t) \/ ChannelFails(t) \/ Publish(t) \/ Remove(t)
      PROVE  OneDocument' /\ Known'
  BY <1>0, <1>6, KnownBut
  DEF SaveRefused, ChannelFails, Publish, Remove, Return, Goto, TypeInv, TypeOK, ThreadsOK, Threads
<1>7. ASSUME NEW t \in Requests,
             ChangeConfig(t) \/ (\E a \in Authors : ChangeAuthor(t, a) \/ DeleteAuthor(t, a))
      PROVE  OneDocument' /\ Known'
  BY <1>0, <1>7, KnownBut
  DEF ChangeConfig, ChangeAuthor, DeleteAuthor, Begin, Goto, Knows, TypeInv, TypeOK, ThreadsOK, Threads
<1>8. CASE Begun
  BY <1>0, <1>8, KnownBut DEF Begun, Begin, Goto, Knows, TypeInv, TypeOK, ThreadsOK, Threads
<1>9. ASSUME NEW t \in Threads, TagStep(t) PROVE OneDocument' /\ Known'
  <2>1. at'[t] \notin ChannelSteps /\ alone' \subseteq alone /\ UNCHANGED doc
    BY <1>0, <1>9 DEF TagStep, SaveConfig, SaveAuthor, DetachAuthor, EraseAuthor, TagWriteFails,
                FindConfigs, FindEntities, Assign, LoadFails, Then, Return, Goto, ChannelSteps,
                TypeInv, TypeOK, ThreadsOK
  <2>2. \A u \in Threads \ {t} : /\ at'[u] = at[u] /\ target'[u] = target[u]
                                 /\ old'[u] = old[u] /\ new'[u] = new[u]
    BY <1>0, <1>9 DEF TagStep, SaveConfig, SaveAuthor, DetachAuthor, EraseAuthor, TagWriteFails,
                FindConfigs, FindEntities, Assign, LoadFails, Then, Return, Goto,
                TypeInv, TypeOK, ThreadsOK
  <2>3. Knows(t)'
    BY <2>1 DEF Knows, ChannelSteps
  <2> QED
    BY <2>1, <2>2, <2>3, KnownBut
<1>10. CASE Restart
  BY <1>10 DEF Restart, Known, OneDocument, KnownInv
<1>11. CASE UNCHANGED <<doc, at, target, old, new, alone>>
  BY <1>11 DEF KnownInv, Known, Knows, OneDocument, Free
<1>12. CASE FirstLoad \/ Initialized \/ FirstLoadFails \/ (\E c \in Channels : AddLoaded(c))
            \/ UNCHANGED vars
  BY <1>11, <1>12 DEF FirstLoad, Initialized, FirstLoadFails, AddLoaded
<1> QED
  BY <1>1, <1>2, <1>3, <1>4, <1>5, <1>6, <1>7, <1>8, <1>9, <1>10, <1>12
  DEF Next, Request, ChannelStep

LEMMA KnownAlways == Spec => []KnownInv
<1>1. Init => TypeInv /\ Lonely /\ OneDocument /\ Known
  <2> SUFFICES ASSUME Init PROVE TypeInv /\ Lonely /\ OneDocument /\ Known
    OBVIOUS
  <2>1. alone = {} /\ \A d \in Docs : doc[d] = "none"
    BY DEF Init
  <2> QED
    BY <2>1, TypeInit DEF Lonely, OneDocument, Known
<1>2. TypeInv /\ Lonely /\ [Next]_vars => Lonely'
  BY LonelyStep DEF LonelyInv
<1>3. TypeInv /\ Lonely /\ OneDocument /\ Known /\ [Next]_vars => OneDocument' /\ Known'
  BY KnownStep DEF KnownInv, LonelyInv
<1>4. TypeInv /\ Lonely /\ OneDocument /\ Known => KnownInv
  BY DEF KnownInv, LonelyInv
<1> QED
  BY <1>1, <1>2, <1>3, <1>4, TypesAlways, PTL DEF Spec

-----------------------------------------------------------------------------
(* The filter's copy of the monitored channels *)

Held == monitoring \union pending

(* No request has written about the channel and not yet published it. *)
Untouched(c) ==
  \A t \in Requests : at[t] \in ChannelSteps /\ ChannelOf[target[t]] = c =>
    t \in alone /\ at[t] \in {"save", "delete"}

(* Before the load the copy has no channel too many, then none too few.     *)
Copied(c) ==
  /\ c \in Held => c \in Monitored
  /\ (loading \/ initialized) /\ c \in Monitored => c \in Held

Follows(c) == c \notin staleChannels /\ Untouched(c) => Copied(c)

(* The event of a new channel that is not monitored does nothing: the copy  *)
(* must be right already.                                                   *)
Unannounced(t) ==
  at[t] = "publish" /\ old[t] = "none" /\ new[t] = "off" =>
    ChannelOf[target[t]] \in staleChannels \/ ChannelOf[target[t]] \notin Held

Copies ==
  /\ \A c \in Channels : Follows(c)
  /\ \A t \in alone : Unannounced(t)

CopyInv == KnownInv /\ Copies

(* Whether a channel is monitored depends on its own documents only. *)
LEMMA MonitoredOf ==
  ASSUME NEW c, \A d \in Docs : ChannelOf[d] = c => doc'[d] = doc[d]
  PROVE  c \in Monitored' <=> c \in Monitored
  BY DEF Monitored

(* A request that is alone and has not written leaves its channel untouched. *)
LEMMA UntouchedByOne ==
  ASSUME KnownInv, NEW t \in alone, at[t] \in {"save", "delete"}
  PROVE  Untouched(ChannelOf[target[t]])
  BY DEF Untouched, KnownInv, LonelyInv, Lonely, SameChannel, ChannelSteps, Threads

(* What a step of one thread may not disturb, and what it then leaves.      *)
LEMMA FollowsBut ==
  ASSUME CopyInv, NEW t \in Threads, NEW c \in Channels,
         \A u \in Threads \ {t} : at'[u] = at[u] /\ target'[u] = target[u],
         alone' \subseteq alone \union {t},
         at[t] \in ChannelSteps => ChannelOf[target[t]] # c,
         c \in staleChannels => c \in staleChannels',
         c \in Held' <=> c \in Held,
         \A d \in Docs : ChannelOf[d] = c => doc'[d] = doc[d],
         UNCHANGED <<loading, initialized>>
  PROVE  Follows(c)'
<1>1. Untouched(c)' => Untouched(c)
  BY DEF Untouched, Threads
<1>2. Follows(c)
  BY DEF CopyInv, Copies
<1>3. c \in Monitored' <=> c \in Monitored
  BY MonitoredOf
<1> QED
  BY <1>1, <1>2, <1>3 DEF Follows, Copied

LEMMA UnannouncedBut ==
  ASSUME CopyInv, NEW t \in Threads,
         \A u \in Threads \ {t} : /\ at'[u] = at[u] /\ target'[u] = target[u]
                                  /\ old'[u] = old[u] /\ new'[u] = new[u],
         alone' \subseteq alone \union {t},
         \A u \in alone \ {t} : at[u] = "publish" =>
            LET c == ChannelOf[target[u]] IN
            /\ c \in staleChannels => c \in staleChannels'
            /\ c \in Held' => c \in Held,
         t \in alone' => Unannounced(t)'
  PROVE  \A u \in alone' : Unannounced(u)'
<1>1. ASSUME NEW u \in alone', u # t PROVE Unannounced(u)'
  <2>1. u \in alone \ {t} /\ u \in Threads
    BY <1>1 DEF CopyInv, KnownInv, LonelyInv, TypeInv, TypeOK, HistoryOK
  <2>2. Unannounced(u)
    BY <2>1 DEF CopyInv, Copies
  <2> QED
    BY <2>1, <2>2 DEF Unannounced
<1> QED
  BY <1>1

(* Steps in which no request about a channel writes or publishes. *)
LEMMA CopiesKept ==
  ASSUME CopyInv, NEW t \in Threads,
         \A u \in Threads \ {t} : /\ at'[u] = at[u] /\ target'[u] = target[u]
                                  /\ old'[u] = old[u] /\ new'[u] = new[u],
         alone' \subseteq alone \union {t},
         at[t] \notin ChannelSteps, at'[t] # "publish",
         UNCHANGED <<doc, monitoring, pending, loading, initialized, staleChannels>>
  PROVE  Copies'
<1>1. \A c \in Channels : Follows(c)'
  BY FollowsBut DEF Held
<1>2. Unannounced(t)'
  BY DEF Unannounced
<1>3. \A u \in alone' : Unannounced(u)'
  BY <1>2, UnannouncedBut DEF Held
<1> QED
  BY <1>1, <1>3 DEF Copies, Channels

(* What a thread's channel step leaves alone: all the other channels. *)
LEMMA CopiesElsewhere ==
  ASSUME CopyInv, NEW t \in Requests, NEW k, at[t] \in ChannelSteps, k = ChannelOf[target[t]],
         \A u \in Threads \ {t} : /\ at'[u] = at[u] /\ target'[u] = target[u]
                                  /\ old'[u] = old[u] /\ new'[u] = new[u],
         alone' \subseteq alone,
         \A c \in Channels \ {k} : /\ c \in staleChannels' <=> c \in staleChannels
                                   /\ c \in monitoring' <=> c \in monitoring,
         \A d \in Docs : ChannelOf[d] # k => doc'[d] = doc[d],
         UNCHANGED <<pending, loading, initialized>>,
         Follows(k)', t \in alone' => Unannounced(t)'
  PROVE  Copies'
<1>1. t \in Threads /\ target[t] \in Docs
  BY DEF Threads, CopyInv, KnownInv, LonelyInv, TypeInv, TypeOK, ThreadsOK
<1>2. ASSUME NEW c \in Channels, c # k PROVE Follows(c)'
  <2>1. c \in Held' <=> c \in Held
    BY <1>2 DEF Held
  <2> QED
    BY <1>1, <1>2, <2>1, FollowsBut
<1>3. ASSUME NEW u \in alone \ {t}, at[u] = "publish"
      PROVE  LET c == ChannelOf[target[u]] IN
             /\ c \in staleChannels => c \in staleChannels'
             /\ c \in Held' => c \in Held
  <2>1. u \in Threads /\ target[u] \in Docs /\ at[u] \in ChannelSteps
    BY <1>3 DEF CopyInv, KnownInv, LonelyInv, TypeInv, TypeOK, ThreadsOK, HistoryOK, ChannelSteps
  <2>2. ChannelOf[target[u]] \in Channels \ {k}
    BY <1>1, <1>3, <2>1 DEF CopyInv, KnownInv, LonelyInv, Lonely, SameChannel, Channels
  <2> QED
    BY <2>2 DEF Held
<1>4. \A u \in alone' : Unannounced(u)'
  BY <1>1, <1>3, UnannouncedBut
<1> QED
  BY <1>2, <1>4 DEF Copies, Channels

(* The end of an operation that has not changed its channel's documents. *)
LEMMA FollowsUnwritten ==
  ASSUME CopyInv, NEW t \in Requests, at[t] \in {"save", "delete"}, Return(t),
         NEW k, k = ChannelOf[target[t]], Spoil(t, k), UNCHANGED <<doc, filter>>
  PROVE  Follows(k)'
<1>1. CASE t \in alone
  <2>1. Untouched(k) /\ k \in Channels
    BY <1>1, UntouchedByOne
    DEF CopyInv, KnownInv, LonelyInv, TypeInv, TypeOK, ThreadsOK, Threads, Channels, ChannelSteps
  <2>2. Copied(k) \/ k \in staleChannels'
    BY <1>1, <2>1 DEF CopyInv, Copies, Follows, Spoil
  <2>3. Copied(k) => Copied(k)'
    BY DEF Copied, Held, Monitored, filter
  <2> QED
    BY <2>2, <2>3 DEF Follows
<1>2. CASE t \notin alone
  BY <1>2 DEF Follows, Spoil
<1> QED
  BY <1>1, <1>2

LEMMA CopiesBySave ==
  ASSUME CopyInv, NEW t \in Requests, SaveChannel(t),
         NEW d, d = target[t], NEW k, k = ChannelOf[d]
  PROVE  Copies'
<1> USE DEF CopyInv, KnownInv, LonelyInv, TypeInv, TypeOK, filter
<1>1. /\ t \in Threads /\ d \in Docs /\ k \in Channels
      /\ at[t] = "save" /\ at[t] \in ChannelSteps
  BY DEF SaveChannel, ThreadsOK, Threads, Channels, ChannelSteps
<1>2. doc'[d] = new[t] /\ \A e \in Docs \ {d} : doc'[e] = doc[e]
  BY <1>1 DEF SaveChannel, StoreOK
<1>3. /\ \A u \in Threads \ {t} : /\ at'[u] = at[u] /\ target'[u] = target[u]
                                  /\ old'[u] = old[u] /\ new'[u] = new[u]
      /\ alone' \subseteq alone
  BY <1>1 DEF SaveChannel, Return, Goto, ThreadsOK
<1>4. \A c \in Channels \ {k} : c \in staleChannels' <=> c \in staleChannels
  BY DEF SaveChannel, Spoil
<1>5. CASE old[t] = new[t]
  <2>1. Return(t) /\ Spoil(t, k)
    BY <1>5 DEF SaveChannel
  <2>2. UNCHANGED doc \/ t \notin alone
    BY <1>1, <1>5 DEF SaveChannel, Known, Knows, StoreOK
  <2>3. Follows(k)'
    <3>1. CASE t \notin alone
      BY <2>1, <3>1 DEF Spoil, Follows
    <3>2. CASE UNCHANGED doc
      BY <1>1, <2>1, <3>2, FollowsUnwritten DEF SaveChannel
    <3> QED
      BY <2>2, <3>1, <3>2
  <2>4. t \notin alone'
    BY <2>1 DEF Return
  <2> HIDE DEF CopyInv
  <2> QED
    BY <1>1, <1>2, <1>3, <1>4, <2>3, <2>4, CopiesElsewhere DEF SaveChannel
<1>6. CASE old[t] # new[t]
  <2>1. /\ at'[t] = "publish" /\ UNCHANGED <<target, old, new, alone, staleChannels>>
    BY <1>1, <1>6 DEF SaveChannel, Goto, ThreadsOK
  <2>2. Follows(k)'
    BY <1>1, <2>1 DEF Follows, Untouched, ChannelSteps
  <2>3. t \in alone' => Unannounced(t)'
    <3> SUFFICES ASSUME t \in alone, old[t] = "none", k \notin staleChannels PROVE k \notin Held
      BY <2>1 DEF Unannounced, SaveChannel, Held
    <3>1. Free(k)
      BY <1>1 DEF Known, Knows
    <3>2. k \notin Monitored
      BY <3>1 DEF Monitored, Free
    <3>3. Untouched(k)
      BY <1>1, UntouchedByOne
    <3> QED
      BY <1>1, <3>2, <3>3 DEF Copies, Follows, Copied
  <2> HIDE DEF CopyInv
  <2> QED
    BY <1>1, <1>2, <1>3, <1>4, <2>2, <2>3, CopiesElsewhere DEF SaveChannel
<1> QED
  BY <1>5, <1>6

LEMMA CopiesByDelete ==
  ASSUME CopyInv, NEW t \in Requests, DeleteChannel(t),
         NEW d, d = target[t], NEW k, k = ChannelOf[d]
  PROVE  Copies'
<1> USE DEF CopyInv, KnownInv, LonelyInv, TypeInv, TypeOK, filter
<1>1. /\ t \in Threads /\ d \in Docs /\ k \in Channels /\ at[t] \in ChannelSteps
  BY DEF DeleteChannel, ThreadsOK, Threads, Channels, ChannelSteps
<1>2. \A e \in Docs \ {d} : doc'[e] = doc[e]
  BY <1>1 DEF DeleteChannel, StoreOK
<1>3. /\ \A u \in Threads \ {t} : /\ at'[u] = at[u] /\ target'[u] = target[u]
                                  /\ old'[u] = old[u] /\ new'[u] = new[u]
      /\ at'[t] = "remove" /\ UNCHANGED <<target, alone, staleChannels>>
  BY <1>1 DEF DeleteChannel, Goto, ThreadsOK
<1>4. Follows(k)'
  BY <1>1, <1>3 DEF Follows, Untouched, ChannelSteps
<1>5. Unannounced(t)'
  BY <1>3 DEF Unannounced
<1> HIDE DEF CopyInv
<1> QED
  BY <1>1, <1>2, <1>3, <1>4, <1>5, CopiesElsewhere DEF DeleteChannel

LEMMA CopiesByFailure ==
  ASSUME CopyInv, NEW t \in Requests, SaveRefused(t) \/ ChannelFails(t),
         NEW k, k = ChannelOf[target[t]]
  PROVE  Copies'
<1>1. /\ at[t] \in {"save", "delete"} /\ Return(t) /\ Spoil(t, k)
      /\ UNCHANGED <<doc, filter, monitoring, pending, loading, initialized>>
  BY DEF SaveRefused, ChannelFails, store, filter
<1>2. t \in Threads /\ at[t] \in ChannelSteps
  BY <1>1 DEF Threads, ChannelSteps
<1>3. /\ \A u \in Threads \ {t} : /\ at'[u] = at[u] /\ target'[u] = target[u]
                                  /\ old'[u] = old[u] /\ new'[u] = new[u]
      /\ alone' \subseteq alone /\ t \notin alone'
  BY <1>1, <1>2 DEF Return, Goto, CopyInv, KnownInv, LonelyInv, TypeInv, TypeOK, ThreadsOK
<1>4. \A c \in Channels \ {k} : c \in staleChannels' <=> c \in staleChannels
  BY <1>1 DEF Spoil
<1>5. Follows(k)'
  BY <1>1, FollowsUnwritten
<1> QED
  BY <1>1, <1>2, <1>3, <1>4, <1>5, CopiesElsewhere

LEMMA CopiesByEvent ==
  ASSUME CopyInv, NEW t \in Requests, Publish(t) \/ Remove(t),
         NEW d, d = target[t], NEW k, k = ChannelOf[d]
  PROVE  Copies'
<1> USE DEF CopyInv, KnownInv, LonelyInv, TypeInv, TypeOK
<1>1. /\ t \in Threads /\ d \in Docs /\ k \in Channels /\ at[t] \in {"publish", "remove"}
      /\ at[t] \in ChannelSteps /\ Return(t) /\ UNCHANGED <<doc, pending, loading, initialized>>
  BY DEF Publish, Remove, ThreadsOK, Threads, Channels, ChannelSteps, store
<1>2. /\ \A u \in Threads \ {t} : /\ at'[u] = at[u] /\ target'[u] = target[u]
                                  /\ old'[u] = old[u] /\ new'[u] = new[u]
      /\ alone' \subseteq alone /\ t \notin alone'
  BY <1>1 DEF Return, Goto, ThreadsOK
<1>3. \A c \in Channels \ {k} : /\ c \in staleChannels' <=> c \in staleChannels
                                /\ c \in monitoring' <=> c \in monitoring
  BY DEF Publish, Remove, Spoil, Settle
<1>4. Follows(k)'
  <2> SUFFICES ASSUME k \notin staleChannels' PROVE Copied(k)'
    BY DEF Follows
  <2>1. t \in alone
    BY DEF Publish, Remove, Spoil, Settle
  <2>2. Knows(t)
    BY <2>1 DEF Known
  <2>3. k \in Monitored' <=> k \in Monitored
    BY <1>1, MonitoredOf
  <2>4. CASE Publish(t) /\ new[t] = "on"
    <3>1. k \in Monitored
      BY <1>1, <2>2, <2>4 DEF Knows, Publish, Monitored
    <3> QED
      BY <2>3, <2>4, <3>1 DEF Publish, Copied, Held
  <2>5. CASE (Publish(t) /\ new[t] = "off" /\ old[t] # "none") \/ Remove(t)
    <3>1. k \notin Monitored
      BY <1>1, <2>2, <2>5 DEF Knows, Publish, Remove, Monitored, OneDocument, Free
    <3>2. pending = {} /\ k \notin monitoring'
      BY <2>1, <2>5 DEF Publish, Remove, Settle, Fitting
    <3> QED
      BY <1>1, <2>3, <3>1, <3>2 DEF Copied, Held
  <2>6. CASE Publish(t) /\ new[t] = "off" /\ old[t] = "none"
    <3>1. k \notin Monitored
      BY <1>1, <2>2, <2>6 DEF Knows, Publish, Monitored, OneDocument
    <3>2. k \notin staleChannels /\ monitoring' = monitoring
      BY <2>1, <2>6 DEF Publish, Spoil
    <3>3. k \notin Held
      BY <2>1, <2>6, <3>2 DEF Publish, Copies, Unannounced
    <3> QED
      BY <1>1, <2>3, <3>1, <3>2, <3>3 DEF Copied, Held
  <2> QED
    BY <2>4, <2>5, <2>6 DEF Publish
<1> HIDE DEF CopyInv
<1> QED
  BY <1>1, <1>2, <1>3, <1>4, CopiesElsewhere

LEMMA CopiesByLoad ==
  ASSUME CopyInv,
         FirstLoad \/ Initialized \/ FirstLoadFails \/ \E c \in Channels : AddLoaded(c)
  PROVE  Copies'
<1> USE DEF CopyInv, KnownInv, LonelyInv, TypeInv, TypeOK, threads, store
<1>1. UNCHANGED <<doc, at, target, old, new, alone>> /\ Monitored' = Monitored
  BY DEF FirstLoad, Initialized, FirstLoadFails, AddLoaded, Monitored
<1>2. \A c : Untouched(c)' => Untouched(c)
  BY <1>1 DEF Untouched
<1>3. CASE FirstLoad
  <2>1. pending = {} /\ Held' = monitoring \union Monitored /\ UNCHANGED staleChannels
    BY <1>3 DEF FirstLoad, Fitting, Held
  <2>2. ASSUME NEW c \in Channels PROVE Follows(c)'
    BY <1>1, <1>2, <2>1 DEF Copies, Follows, Copied, Held
  <2>3. ASSUME NEW t \in alone PROVE Unannounced(t)'
    <3>1. at[t] = "publish" => target[t] \in Docs /\ doc[target[t]] = new[t]
      BY DEF HistoryOK, ThreadsOK, ChannelSteps, Known, Knows
    <3>2. at[t] = "publish" /\ new[t] = "off" => ChannelOf[target[t]] \notin Monitored
      BY <3>1 DEF OneDocument, Monitored
    <3>3. Unannounced(t)
      BY DEF Copies
    <3> QED
      BY <1>1, <2>1, <3>2, <3>3 DEF Unannounced, Held
  <2> QED
    BY <1>1, <2>2, <2>3 DEF Copies, Channels
<1>4. CASE FirstLoadFails
  <2>1. \A t \in alone : at[t] = "publish" => ChannelOf[target[t]] \in Channels
    BY DEF HistoryOK, ThreadsOK, ChannelSteps, Channels
  <2> QED
    BY <1>1, <1>4, <2>1 DEF FirstLoadFails, Copies, Follows, Unannounced
<1>5. CASE Initialized \/ \E c \in Channels : AddLoaded(c)
  <2>1. Held' = Held /\ UNCHANGED staleChannels /\ ((loading \/ initialized)' <=> loading \/ initialized)
    BY <1>5 DEF Initialized, AddLoaded, Held
  <2>2. \A c \in Channels : Follows(c)'
    BY <1>1, <1>2, <2>1 DEF Copies, Follows, Copied
  <2>3. \A t \in alone : Unannounced(t)'
    BY <1>1, <2>1 DEF Copies, Unannounced
  <2> QED
    BY <1>1, <2>2, <2>3 DEF Copies, Channels
<1> QED
  BY <1>3, <1>4, <1>5

LEMMA CopiesStep == ASSUME CopyInv, [Next]_vars PROVE Copies'
<1> USE DEF vars, store, filter, matcher, threads
<1>0. TypeInv
  BY DEF CopyInv, KnownInv, LonelyInv
<1>1. ASSUME NEW t \in Requests, Request(t) PROVE Copies'
  <2>1. t \in Threads /\ at[t] = "idle" /\ at'[t] # "publish" /\ alone' \subseteq alone \union {t}
    BY <1>0, <1>1 DEF Request, Create, Update, Delete, ChangeConfig, ChangeAuthor, DeleteAuthor,
                Begin, Goto, Threads, TypeInv, TypeOK, ThreadsOK
  <2>2. \A u \in Threads \ {t} : /\ at'[u] = at[u] /\ target'[u] = target[u]
                                 /\ old'[u] = old[u] /\ new'[u] = new[u]
    BY <1>0, <1>1 DEF Request, Create, Update, Delete, ChangeConfig, ChangeAuthor, DeleteAuthor,
                Begin, Goto, Threads, TypeInv, TypeOK, ThreadsOK
  <2>3. UNCHANGED <<doc, monitoring, pending, loading, initialized, staleChannels>>
    BY <1>1 DEF Request, Create, Update, Delete, ChangeConfig, ChangeAuthor, DeleteAuthor
  <2> QED
    BY <2>1, <2>2, <2>3, CopiesKept DEF ChannelSteps
<1>2. CASE Begun
  <2>1. Ready \in Threads /\ at[Ready] = "idle" /\ at'[Ready] # "publish"
    BY <1>0, <1>2 DEF Begun, Begin, Goto, Threads, TypeInv, TypeOK, ThreadsOK
  <2>2. \A u \in Threads \ {Ready} : /\ at'[u] = at[u] /\ target'[u] = target[u]
                                     /\ old'[u] = old[u] /\ new'[u] = new[u]
    BY <1>0, <1>2 DEF Begun, Begin, Goto, Threads, TypeInv, TypeOK, ThreadsOK
  <2> QED
    BY <1>2, <2>1, <2>2, CopiesKept DEF Begun, Begin, ChannelSteps
<1>3. ASSUME NEW t \in Threads, TagStep(t) PROVE Copies'
  <2>1. at[t] \notin ChannelSteps /\ at'[t] # "publish" /\ alone' \subseteq alone
    BY <1>0, <1>3 DEF TagStep, SaveConfig, SaveAuthor, DetachAuthor, EraseAuthor, TagWriteFails,
                FindConfigs, FindEntities, Assign, LoadFails, Then, Return, Goto, ChannelSteps,
                TypeInv, TypeOK, ThreadsOK
  <2>2. \A u \in Threads \ {t} : /\ at'[u] = at[u] /\ target'[u] = target[u]
                                 /\ old'[u] = old[u] /\ new'[u] = new[u]
    BY <1>0, <1>3 DEF TagStep, SaveConfig, SaveAuthor, DetachAuthor, EraseAuthor, TagWriteFails,
                FindConfigs, FindEntities, Assign, LoadFails, Then, Return, Goto,
                TypeInv, TypeOK, ThreadsOK
  <2>3. UNCHANGED <<doc, monitoring, pending, loading, initialized, staleChannels>>
    BY <1>3 DEF TagStep, SaveConfig, SaveAuthor, DetachAuthor, EraseAuthor, TagWriteFails,
                FindConfigs, FindEntities, Assign, LoadFails
  <2> QED
    BY <2>1, <2>2, <2>3, CopiesKept
<1>4. ASSUME NEW t \in Requests, ChannelStep(t) PROVE Copies'
  BY <1>4, CopiesBySave, CopiesByDelete, CopiesByFailure, CopiesByEvent DEF ChannelStep
<1>5. CASE Restart
  <2>1. Held' = {} /\ ~(loading \/ initialized)' /\ alone' = {}
    BY <1>5 DEF Restart, Held
  <2> QED
    BY <2>1 DEF Copies, Follows, Copied
<1>6. CASE UNCHANGED vars
  BY <1>6 DEF CopyInv, Copies, Follows, Untouched, Copied, Held, Monitored, Unannounced, Channels
<1> QED
  BY <1>1, <1>2, <1>3, <1>4, <1>5, <1>6, CopiesByLoad DEF Next

(* Once loaded, the filter follows the store for every channel that no      *)
(* request is changing, but those whose requests overlapped or failed: the  *)
(* copy is right before a request's write and again after its event.        *)
THEOREM FilterIsRight == Spec => []FilterFollowsStore
<1>1. Init => Copies
  <2> SUFFICES ASSUME Init PROVE Copies
    OBVIOUS
  <2>1. Held = {} /\ ~loading /\ ~initialized /\ alone = {}
    BY DEF Init, Held
  <2> QED
    BY <2>1 DEF Copies, Follows, Copied
<1>2. KnownInv /\ Copies /\ [Next]_vars => Copies'
  BY CopiesStep DEF CopyInv
<1>3. KnownInv /\ Copies => FilterFollowsStore
  <2> SUFFICES ASSUME KnownInv, Copies, initialized,
                      NEW c \in Channels \ staleChannels, AtChannel(c) = {}
               PROVE  c \in monitoring <=> c \in Monitored
    BY DEF FilterFollowsStore
  <2>1. pending = {}
    BY DEF KnownInv, LonelyInv, TypeInv, Fitting
  <2>2. Untouched(c)
    BY DEF AtChannel, Untouched
  <2> QED
    BY <2>1, <2>2 DEF Copies, Follows, Copied, Held
<1> QED
  BY <1>1, <1>2, <1>3, KnownAlways, PTL DEF Spec

-----------------------------------------------------------------------------
(* The matcher's copy of the tags *)

(* What a load that is alone has read is what the store holds; a deletion   *)
(* that has to change the configuration has read one that lists somebody.   *)
Reads(t) ==
  /\ at[t] = "entities" => read[t] = chosen
  /\ at[t] = "assign" => read[t] = Expected

Listed ==
  /\ \A t \in alone : Reads(t)
  /\ \A t \in Threads : at[t] = "detach" => read[t] # {}

(* No thread has written the tags' collections and not yet loaded the list. *)
TagsUntouched ==
  \A t \in Threads : at[t] \in TagSteps =>
    /\ t \in alone
    /\ at[t] \in {"config", "author", "detach"} \/ (at[t] = "erase" /\ read[t] = {})

TagCopy == begun /\ ~staleTags /\ TagsUntouched => loaded /\ tags = Expected

TagInv == LonelyInv /\ Listed /\ TagCopy

(* A step of t: only a thread among the tag steps writes their collections. *)
LEMMA ListedBut ==
  ASSUME TagInv, NEW t \in Threads,
         \A u \in Threads \ {t} : at'[u] = at[u] /\ read'[u] = read[u],
         alone' \subseteq alone \union {t},
         at[t] \in TagSteps \/ UNCHANGED <<chosen, name>>,
         t \in alone' => Reads(t)',
         at'[t] = "detach" => read'[t] # {}
  PROVE  Listed'
<1>1. ASSUME NEW u \in alone', u # t PROVE Reads(u)'
  <2>1. u \in alone /\ u \in Threads /\ Reads(u)
    BY <1>1 DEF TagInv, Listed, LonelyInv, TypeInv, TypeOK, HistoryOK
  <2>2. at[u] \in TagSteps => UNCHANGED <<chosen, name>>
    BY <1>1, <2>1 DEF TagInv, LonelyInv, Lonely, SameTags
  <2> QED
    BY <1>1, <2>1, <2>2 DEF Reads, Expected, TagSteps
<1>2. \A u \in Threads : at'[u] = "detach" => read'[u] # {}
  BY DEF TagInv, Listed
<1> QED
  BY <1>1, <1>2 DEF Listed

(* A step that changes neither the tags' collections nor the list.          *)
LEMMA TagsKept ==
  ASSUME TagInv, NEW t \in Threads,
         \A u \in Threads \ {t} : at'[u] = at[u] /\ read'[u] = read[u],
         alone' \subseteq alone \union {t},
         UNCHANGED <<chosen, name, tags, loaded, begun>>,
         ~staleTags' => ~staleTags,
         ~staleTags' /\ at[t] \in TagSteps =>
            /\ t \in alone
            /\ at[t] \in {"config", "author", "detach"} \/ (at[t] = "erase" /\ read[t] = {})
  PROVE  TagCopy'
<1>1. ~staleTags' /\ TagsUntouched' => TagsUntouched
  BY DEF TagsUntouched
<1>2. Expected' = Expected
  BY DEF Expected
<1> QED
  BY <1>1, <1>2 DEF TagInv, TagCopy

LEMMA TagInvStep == ASSUME TagInv, [Next]_vars PROVE Listed' /\ TagCopy'
<1> USE DEF vars, store, filter, matcher, threads
<1>0. TypeInv
  BY DEF TagInv, LonelyInv
<1>1. ASSUME NEW t \in Requests, Request(t) PROVE Listed' /\ TagCopy'
  <2>1. ASSUME NEW a \in Authors, DeleteAuthor(t, a), at'[t] = "detach" PROVE read'[t] # {}
    <3>1. t \in Threads /\ at'[t] = "detach" /\ a \in chosen /\ read' = [read EXCEPT ![t] = chosen]
      BY <1>0, <2>1 DEF DeleteAuthor, Begin, Goto, Threads, TypeInv, TypeOK, ThreadsOK
    <3> QED
      BY <1>0, <3>1 DEF TypeInv, TypeOK, ThreadsOK
  <2>2. /\ t \in Threads /\ at[t] = "idle" /\ alone' \subseteq alone \union {t}
        /\ at'[t] \notin {"entities", "assign"}
    BY <1>0, <1>1 DEF Request, Create, Update, Delete, ChangeConfig, ChangeAuthor, DeleteAuthor,
                Begin, Goto, Threads, TypeInv, TypeOK, ThreadsOK
  <2>3. at'[t] = "detach" => read'[t] # {}
    BY <1>0, <1>1, <2>1 DEF Request, Create, Update, Delete, ChangeConfig, ChangeAuthor,
                Begin, Goto, Threads, TypeInv, TypeOK, ThreadsOK
  <2>4. \A u \in Threads \ {t} : at'[u] = at[u] /\ read'[u] = read[u]
    BY <1>0, <1>1 DEF Request, Create, Update, Delete, ChangeConfig, ChangeAuthor, DeleteAuthor,
                Begin, Goto, Threads, TypeInv, TypeOK, ThreadsOK
  <2>5. UNCHANGED <<chosen, name, tags, loaded, begun, staleTags>>
    BY <1>1 DEF Request, Create, Update, Delete, ChangeConfig, ChangeAuthor, DeleteAuthor
  <2> QED
    BY <2>2, <2>4, <2>5, <2>3, ListedBut, TagsKept DEF Reads, TagSteps
<1>2. CASE Begun
  <2>1. Ready \in Threads /\ at'[Ready] = "find" /\ at[Ready] = "idle"
    BY <1>0, <1>2 DEF Begun, Begin, Goto, Threads, TypeInv, TypeOK, ThreadsOK
  <2>2. \A u \in Threads \ {Ready} : at'[u] = at[u] /\ read'[u] = read[u]
    BY <1>0, <1>2 DEF Begun, Begin, Goto, Threads, TypeInv, TypeOK, ThreadsOK
  <2>3. Listed'
    BY <1>2, <2>1, <2>2, ListedBut DEF Begun, Begin, Reads
  <2>4. ~TagsUntouched'
    BY <2>1 DEF TagsUntouched, TagSteps
  <2> QED
    BY <2>3, <2>4 DEF TagCopy
<1>3. ASSUME NEW t \in Requests, ChannelStep(t) PROVE Listed' /\ TagCopy'
  <2>1. /\ t \in Threads /\ at[t] \notin TagSteps /\ alone' \subseteq alone
        /\ at'[t] \notin {"entities", "assign", "detach"}
    BY <1>0, <1>3 DEF ChannelStep, SaveChannel, SaveRefused, DeleteChannel, ChannelFails, Publish,
                Remove, Return, Goto, TagSteps, TypeInv, TypeOK, ThreadsOK, Threads
  <2>2. \A u \in Threads \ {t} : at'[u] = at[u] /\ read'[u] = read[u]
    BY <1>0, <1>3 DEF ChannelStep, SaveChannel, SaveRefused, DeleteChannel, ChannelFails, Publish,
                Remove, Return, Goto, TypeInv, TypeOK, ThreadsOK, Threads
  <2>3. UNCHANGED <<chosen, name, tags, loaded, begun, staleTags>>
    BY <1>3 DEF ChannelStep, SaveChannel, SaveRefused, DeleteChannel, ChannelFails, Publish, Remove
  <2> QED
    BY <2>1, <2>2, <2>3, ListedBut, TagsKept DEF Reads
<1>4. ASSUME NEW t \in Threads, TagStep(t) PROVE Listed' /\ TagCopy'
  <2>1. /\ at[t] \in TagSteps /\ alone' \subseteq alone
        /\ \A u \in Threads \ {t} : at'[u] = at[u] /\ read'[u] = read[u]
    BY <1>0, <1>4 DEF TagStep, SaveConfig, SaveAuthor, DetachAuthor, EraseAuthor, TagWriteFails,
                FindConfigs, FindEntities, Assign, LoadFails, Then, Return, Goto, TagSteps,
                TypeInv, TypeOK, ThreadsOK
  <2>2. CASE SaveConfig(t) \/ SaveAuthor(t) \/ DetachAuthor(t) \/ EraseAuthor(t)
    <3>1. at'[t] \in {"find", "erase"} /\ (at'[t] = "erase" => read'[t] # {})
      BY <1>0, <2>2 DEF SaveConfig, SaveAuthor, DetachAuthor, EraseAuthor, Then, Goto, TypeInv,
                  TypeOK, ThreadsOK, TagInv, Listed
    <3>2. ~TagsUntouched'
      BY <3>1 DEF TagsUntouched, TagSteps
    <3> QED
      BY <2>1, <3>1, <3>2, ListedBut DEF Reads, TagCopy
  <2>3. CASE FindConfigs(t) \/ FindEntities(t)
    <3>1. at'[t] \in {"entities", "assign"} /\ UNCHANGED <<chosen, name>>
      BY <1>0, <2>3 DEF FindConfigs, FindEntities, Then, Goto, TypeInv, TypeOK, ThreadsOK
    <3>2. t \in alone' => Reads(t)'
      <4>1. CASE FindConfigs(t)
        <5>1. at'[t] = "entities" /\ read'[t] = chosen
          BY <1>0, <4>1 DEF FindConfigs, Then, Goto, TypeInv, TypeOK, ThreadsOK
        <5> QED
          BY <3>1, <5>1 DEF Reads
      <4>2. CASE FindEntities(t)
        <5> SUFFICES ASSUME t \in alone' PROVE Reads(t)'
          OBVIOUS
        <5>1. t \in alone
          BY <2>1
        <5>2. read[t] = chosen
          BY <4>2, <5>1 DEF FindEntities, TagInv, Listed, Reads
        <5>3. at'[t] = "assign" /\ read'[t] = {name[a] : a \in read[t]} \ {None}
          BY <1>0, <4>2 DEF FindEntities, Goto, TypeInv, TypeOK, ThreadsOK
        <5> QED
          BY <3>1, <5>2, <5>3 DEF Reads, Expected
      <4> QED
        BY <2>3, <4>1, <4>2
    <3>3. ~TagsUntouched'
      BY <3>1 DEF TagsUntouched, TagSteps
    <3> QED
      BY <2>1, <3>1, <3>2, <3>3, ListedBut DEF TagCopy
  <2>4. CASE TagWriteFails(t)
    <3>1. at'[t] = "idle" /\ UNCHANGED <<chosen, name, tags, loaded, begun>>
      BY <1>0, <2>4 DEF TagWriteFails, Return, Goto, TypeInv, TypeOK, ThreadsOK
    <3>2. ~staleTags' => ~staleTags /\ t \in alone /\ ~(at[t] = "erase" /\ read[t] # {})
      BY <2>4 DEF TagWriteFails
    <3> QED
      BY <2>1, <2>4, <3>1, <3>2, ListedBut, TagsKept DEF Reads, TagWriteFails
  <2>5. CASE Assign(t)
    <3>1. at'[t] = "idle" /\ UNCHANGED <<chosen, name>>
      BY <1>0, <2>5 DEF Assign, Return, Goto, TypeInv, TypeOK, ThreadsOK
    <3>2. t \in alone => read[t] = Expected
      BY <2>5 DEF Assign, TagInv, Listed, Reads
    <3>3. TagCopy'
      BY <2>5, <3>1, <3>2 DEF Assign, TagCopy, Expected
    <3> QED
      BY <2>1, <3>1, <3>3, ListedBut DEF Reads
  <2>6. CASE LoadFails(t)
    <3>1. at'[t] = "idle" /\ UNCHANGED <<chosen, name>> /\ staleTags'
      BY <1>0, <2>6 DEF LoadFails, Return, Goto, TypeInv, TypeOK, ThreadsOK
    <3> QED
      BY <2>1, <3>1, ListedBut DEF Reads, TagCopy
  <2> QED
    BY <1>4, <2>2, <2>3, <2>4, <2>5, <2>6 DEF TagStep
<1>5. CASE Restart
  BY <1>5 DEF Restart, Listed, TagCopy
<1>6. CASE UNCHANGED <<chosen, name, tags, loaded, at, read, alone, begun, staleTags>>
  BY <1>6 DEF TagInv, Listed, Reads, TagCopy, TagsUntouched, Expected
<1>7. CASE FirstLoad \/ Initialized \/ FirstLoadFails \/ (\E c \in Channels : AddLoaded(c))
           \/ UNCHANGED vars
  BY <1>6, <1>7 DEF FirstLoad, Initialized, FirstLoadFails, AddLoaded
<1> QED
  BY <1>1, <1>2, <1>3, <1>4, <1>5, <1>7 DEF Next

(* The tag list is what the configuration and the entities say, whenever no *)
(* thread is at work on either and the last load was neither overlapped nor *)
(* cut short.                                                               *)
THEOREM TagsAreRight == Spec => []TagsFollowStore
<1>1. Init => Listed /\ TagCopy
  BY DEF Init, Listed, TagCopy
<1>2. LonelyInv /\ Listed /\ TagCopy /\ [Next]_vars => Listed' /\ TagCopy'
  BY TagInvStep DEF TagInv
<1>3. Listed /\ TagCopy => TagsFollowStore
  BY DEF TagCopy, TagsFollowStore, TagsUntouched, AtTags
<1>4. KnownInv => LonelyInv
  BY DEF KnownInv
<1> QED
  BY <1>1, <1>2, <1>3, <1>4, KnownAlways, PTL DEF Spec

=============================================================================
