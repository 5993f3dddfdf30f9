------------------------ MODULE UnreadReplay_proofs ------------------------
(***************************************************************************)
(* Proofs about UnreadReplay, for any set of messages and channels, any    *)
(* page size and any number of faults and crashes.                         *)
(***************************************************************************)
EXTENDS UnreadReplay, TLAPS, FiniteSetTheorems, NaturalsInduction, WellFoundedInduction

-----------------------------------------------------------------------------
(* Least and greatest members *)

(* Min is a member and a lower bound of every non-empty set of naturals. *)
LEMMA LeastMember ==
  ASSUME NEW S, S \subseteq Nat, S # {}
  PROVE  Min(S) \in S /\ \A y \in S : Min(S) <= y
<1> DEFINE R == OpToRel(<, Nat)
<1>1. IsWellFoundedOn(R, Nat)
  BY NatLessThanWellFounded
<1>2. \A x, y \in Nat : x < y => <<x, y>> \in R
  BY DEF OpToRel
<1> HIDE DEF R
<1>3. PICK x \in S : \A y \in S : ~ (<<y, x>> \in R)
  BY <1>1, WFMin
<1>4. \A y \in S : x <= y
  <2> TAKE y \in S
  <2>1. x \in Nat /\ y \in Nat
    OBVIOUS
  <2>2. ~(y < x)
    BY <1>2, <1>3, <2>1
  <2> QED
    BY <2>1, <2>2
<1> QED
  BY <1>4 DEF Min

(* A non-empty finite set of naturals has a greatest member: a smallest set *)
(* without one would have a smaller one, the set without one of its members. *)
LEMMA GreatestMember ==
  ASSUME NEW S, S \subseteq Nat, S # {}, IsFiniteSet(S)
  PROVE  Max(S) \in S /\ \A y \in S : y <= Max(S)
<1> DEFINE HasMax(q) == \E x \in q : \A y \in q : y <= x
           Bad  == {q \in SUBSET S : q # {} /\ ~HasMax(q)}
           Size == {Cardinality(q) : q \in Bad}
<1>1. \A q \in SUBSET S : IsFiniteSet(q) /\ Cardinality(q) \in Nat
  BY FS_Subset, FS_CardinalityType
<1>2. Bad = {}
  <2> SUFFICES ASSUME Bad # {} PROVE FALSE
    OBVIOUS
  <2>1. Size \subseteq Nat /\ Size # {}
    BY <1>1
  <2>2. PICK n \in Size : \A k \in Size : n <= k
    <3> HIDE DEF Size
    <3> QED BY <2>1, LeastMember
  <2>3. PICK q \in Bad : n = Cardinality(q)
    BY <2>2
  <2>4. PICK x \in q : TRUE
    BY <2>3
  <2> DEFINE p == q \ {x}
  <2>5. IsFiniteSet(p) /\ Cardinality(p) = Cardinality(q) - 1 /\ Cardinality(q) \in Nat
    BY <1>1, <2>3, <2>4, FS_RemoveElement
  <2>6. p \notin Bad
    <3> SUFFICES ASSUME p \in Bad PROVE FALSE
      OBVIOUS
    <3>1. Cardinality(p) \in Size
      OBVIOUS
    <3>2. n <= Cardinality(p)
      BY <2>2, <3>1
    <3> QED
      BY <2>3, <2>5, <3>2
  <2>7. x \in Nat /\ q \subseteq Nat
    BY <2>3, <2>4
  <2>8. CASE p = {}
    <3>1. HasMax(q)
      BY <2>4, <2>7, <2>8
    <3> QED
      BY <2>3, <3>1
  <2>9. CASE p # {}
    <3>1. PICK y \in p : \A z \in p : z <= y
      BY <2>3, <2>6, <2>9
    <3>2. y \in Nat /\ y \in q
      BY <2>7
    <3>3. CASE x <= y
      <4>1. \A z \in q : z <= y
        BY <3>1, <3>3
      <4>2. HasMax(q)
        BY <3>2, <4>1
      <4> QED
        BY <2>3, <4>2
    <3>4. CASE ~(x <= y)
      <4>1. \A z \in q : z <= x
        BY <2>7, <3>1, <3>2, <3>4
      <4>2. HasMax(q)
        BY <2>4, <4>1
      <4> QED
        BY <2>3, <4>2
    <3> QED
      BY <3>3, <3>4
  <2> QED
    BY <2>8, <2>9
<1>3. PICK x \in S : \A y \in S : y <= x
  BY <1>2
<1>4. \A y \in S : x >= y
  BY <1>3
<1>5. Max(S) \in S /\ \A y \in S : Max(S) >= y
  BY <1>4 DEF Max
<1> QED
  BY <1>5

-----------------------------------------------------------------------------
(* Type correctness *)

(* A thread that is not idle has a message. *)
Busy == \A t \in Threads : at[t] # "idle" => cur[t] \in Messages

(* A channel that is being fetched or replayed is one of the channels. *)
Visiting == phase \in {"fetch", "buffer", "replay"} => chan \in Channels

(* The timer has parts of one album in work, among them the one that gives  *)
(* the entity its id.                                                       *)
Handy ==
  /\ at["timer"] = "idle" => hand = {}
  /\ at["timer"] # "idle" => cur["timer"] \in hand /\ hand \subseteq PartsOf[cur["timer"]]

TypeInv == TypeOK /\ Busy /\ Visiting /\ Handy

(* What does not change keeps its type. *)
LEMMA SameTypes ==
  ASSUME TypeOK
  PROVE  /\ UNCHANGED telegram => TelegramOK'
         /\ UNCHANGED <<stored, buffer, record, queued>> => MongoOK'
         /\ UNCHANGED <<wired, loaded, cut>> => FlagsOK'
         /\ UNCHANGED <<seen, open>> => FilterOK'
         /\ UNCHANGED threads => ThreadsOK'
         /\ UNCHANGED <<phase, work, chats, chan>> => StartOK'
         /\ UNCHANGED <<from, top, found, tries>> => FetchOK'
         /\ UNCHANGED <<aborted, history>> => HistoryOK'
         /\ UNCHANGED bounds => BoundsOK'
<1>1. UNCHANGED telegram => TelegramOK'
  BY DEF TypeOK, TelegramOK, telegram
<1>2. UNCHANGED <<stored, buffer, record, queued>> => MongoOK'
  BY DEF TypeOK, MongoOK
<1>3. UNCHANGED <<wired, loaded, cut>> => FlagsOK'
  BY Zenon DEF TypeOK, FlagsOK
<1>4. UNCHANGED <<seen, open>> => FilterOK'
  BY DEF TypeOK, FilterOK
<1>5. UNCHANGED threads => ThreadsOK'
  BY DEF TypeOK, ThreadsOK, threads
<1>6. UNCHANGED <<phase, work, chats, chan>> => StartOK'
  BY DEF TypeOK, StartOK
<1>7. UNCHANGED <<from, top, found, tries>> => FetchOK'
  BY DEF TypeOK, FetchOK
<1>8. UNCHANGED <<aborted, history>> => HistoryOK'
  BY DEF TypeOK, HistoryOK, history
<1>9. UNCHANGED bounds => BoundsOK'
  BY DEF TypeOK, BoundsOK, bounds
<1> QED
  BY <1>1, <1>2, <1>3, <1>4, <1>5, <1>6, <1>7, <1>8, <1>9

(* Step, Rest and Return keep the types of a thread's variables. *)
LEMMA Stepping ==
  ASSUME ThreadsOK, NEW t \in Threads,
         NEW next \in {"save", "plugin", "match", "enqueue", "record", "done"}, Step(t, next)
  PROVE  ThreadsOK'
BY DEF ThreadsOK, Step

LEMMA Resting == ASSUME ThreadsOK, NEW t \in Threads, Rest(t) PROVE ThreadsOK'
BY DEF ThreadsOK, Rest

LEMMA Returning == ASSUME ThreadsOK, NEW t \in Threads, Return(t) PROVE ThreadsOK'
BY Stepping, Resting DEF Return

(* The end of the process leaves every variable of it in its type. *)
LEMMA Ending ==
  ASSUME TypeInv, ProcessEnds, UNCHANGED handled
  PROVE  FlagsOK' /\ FilterOK' /\ ThreadsOK' /\ StartOK' /\ FetchOK' /\ HistoryOK'
<1>1. FlagsOK'
  BY Zenon DEF ProcessEnds, FlagsOK
<1>2. FilterOK' /\ ThreadsOK'
  BY DEF ProcessEnds, FilterOK, ThreadsOK
<1>3. StartOK' /\ FetchOK'
  BY ConstantsAssumption DEF ConstantsAssumption, ProcessEnds, StartOK, FetchOK
<1>4. HistoryOK'
  <2>1. open \union hand \subseteq Messages /\ stored \subseteq Messages
    BY ConstantsAssumption
    DEF ConstantsAssumption, TypeInv, TypeOK, FilterOK, ThreadsOK, MongoOK
  <2>2. Elsewhere \subseteq Messages
    BY <2>1 DEF Elsewhere, TypeInv, Busy, Threads
  <2> QED
    BY <2>1, <2>2 DEF ProcessEnds, HistoryOK, TypeInv, TypeOK
<1> QED
  BY <1>1, <1>2, <1>3, <1>4

(* So does giving up a channel. *)
LEMMA Aborting ==
  ASSUME TypeOK, AbortChannel, UNCHANGED <<wired, loaded, history>>, chan \in Channels
  PROVE  FlagsOK' /\ StartOK' /\ FetchOK' /\ HistoryOK'
<1>1. FlagsOK'
  BY Zenon DEF AbortChannel, FlagsOK, TypeOK
<1>2. StartOK' /\ FetchOK'
  BY ConstantsAssumption DEF ConstantsAssumption, AbortChannel, StartOK, FetchOK, TypeOK
<1>3. HistoryOK'
  BY DEF AbortChannel, HistoryOK, TypeOK, StartOK, history
<1> QED
  BY <1>1, <1>2, <1>3

(* The page that is read leaves the types as they are. *)
LEMMA PageTypes ==
  ASSUME TypeInv, ReadPage
  PROVE  FlagsOK' /\ StartOK' /\ FetchOK'
<1>1. PICK p \in Pages :
        LET all == found \union Unprocessed(p)
            end == p = {} \/ Cardinality(all) >= MaxTotal \/ Cardinality(p) < PageSize IN
        /\ found' = all
        /\ top' = IF p = {} \/ top > 0 THEN top ELSE Max(p)
        /\ from' = IF p = {} THEN from ELSE Min(p)
        /\ tries' = IF end THEN tries ELSE 0
        /\ phase' = IF end THEN "buffer" ELSE "fetch"
        /\ cut' = (end /\ p # History)
  BY DEF ReadPage
<1>2. p \subseteq Messages /\ p \subseteq Nat /\ IsFiniteSet(p)
  BY ConstantsAssumption DEF ConstantsAssumption, Pages, History, TypeInv, TypeOK, TelegramOK
<1>3. p # {} => Min(p) \in Nat /\ Max(p) \in Nat
  BY <1>2, LeastMember, GreatestMember
<1>4. FlagsOK'
  <2>1. wired' \in BOOLEAN /\ loaded' \in BOOLEAN
    BY Zenon DEF ReadPage, memory, TypeInv, TypeOK, FlagsOK
  <2>2. cut' \in BOOLEAN
    BY <1>1, Zenon
  <2> QED
    BY <2>1, <2>2 DEF FlagsOK
<1>5. StartOK'
  BY <1>1 DEF ReadPage, TypeInv, TypeOK, StartOK, Replay
<1>6. FetchOK'
  <2>1. from' \in Nat /\ top' \in Nat
    BY <1>1, <1>3 DEF TypeInv, TypeOK, FetchOK
  <2>2. found' \subseteq Messages
    BY <1>1, <1>2 DEF Unprocessed, TypeInv, TypeOK, FetchOK
  <2>3. tries' \in 0..MaxRetries
    BY <1>1, ConstantsAssumption DEF ConstantsAssumption, TypeInv, TypeOK, FetchOK
  <2> QED
    BY <2>1, <2>2, <2>3 DEF FetchOK
<1> QED
  BY <1>4, <1>5, <1>6

(* The message saved next is one of those found. *)
LEMMA LeastFound == ASSUME TypeOK, found # {} PROVE Min(found) \in found /\ Min(found) \in Messages
<1>1. found \subseteq Nat /\ found \subseteq Messages
  BY ConstantsAssumption DEF ConstantsAssumption, TypeOK, FetchOK
<1> QED
  BY <1>1, LeastMember

(* What a thread holds are messages, and what it records has the types. *)
LEMMA HeldTypes ==
  ASSUME TypeInv, NEW t \in Threads, at[t] # "idle"
  PROVE  Held(t) \subseteq Messages /\ cur[t] \in Messages /\ cur[t] \in Held(t)
<1>1. hand \subseteq Messages
  BY ConstantsAssumption DEF ConstantsAssumption, TypeInv, TypeOK, ThreadsOK
<1> QED
  BY <1>1 DEF Held, TypeInv, Busy, Handy

LEMMA Writing ==
  ASSUME TypeInv, NEW t \in Threads, at[t] # "idle",
         NEW says \in {"error", "unmatched", "matched"}, Write(t, says),
         UNCHANGED <<stored, buffer, queued, aborted>>
  PROVE  MongoOK' /\ HistoryOK'
<1>1. Held(t) \subseteq Messages /\ cur[t] \in Messages
  BY HeldTypes
<1>2. MongoOK'
  BY <1>1 DEF Write, TypeInv, TypeOK, MongoOK
<1>3. HistoryOK'
  BY <1>1 DEF Write, TypeInv, TypeOK, HistoryOK
<1> QED
  BY <1>2, <1>3

(* The parts that go on from the saving are some of those taken. *)
LEMMA LeastKept ==
  ASSUME TypeOK, NEW kept \in SUBSET hand, kept # {}
  PROVE  Min(kept) \in kept /\ kept \subseteq Messages
<1>1. kept \subseteq Nat /\ kept \subseteq Messages
  BY ConstantsAssumption DEF ConstantsAssumption, TypeOK, ThreadsOK
<1> QED
  BY <1>1, LeastMember

(* Every step keeps the types. *)
LEMMA TypeStep == ASSUME TypeInv, [Next]_vars PROVE TypeOK'
<1> USE ConstantsAssumption
    DEF ConstantsAssumption, vars, telegram, mongo, memory, threads, starting, fetching,
        bounds, history
<1>1. ASSUME NEW m \in Messages, Post(m) PROVE TypeOK'
  <2>1. TelegramOK'
    BY <1>1 DEF Post, TypeInv, TypeOK, TelegramOK
  <2> QED
    BY <1>1, <2>1, SameTypes DEF Post, TypeInv, TypeOK
<1>2. ASSUME NEW m \in Messages, Hear(m) PROVE TypeOK'
  <2>1. TelegramOK'
    BY <1>2 DEF Hear, TypeInv, TypeOK, TelegramOK
  <2>2. ThreadsOK'
    BY <1>2 DEF Hear, TypeInv, TypeOK, ThreadsOK, Threads, FilterOK
  <2> QED
    BY <1>2, <2>1, <2>2, SameTypes DEF Hear, TypeInv, TypeOK
<1>3. ASSUME NEW m \in Messages, CloseAlbum(m) PROVE TypeOK'
  <2>1. FilterOK'
    BY <1>3 DEF CloseAlbum, TypeInv, TypeOK, FilterOK
  <2>2. ThreadsOK'
    BY <1>3 DEF CloseAlbum, TypeInv, TypeOK, ThreadsOK, Threads, FilterOK
  <2> QED
    BY <1>3, <2>1, <2>2, SameTypes DEF CloseAlbum, TypeInv, TypeOK
<1>4. ASSUME NEW t \in Threads, Filter(t) PROVE TypeOK'
  <2>1. cur[t] \in Messages
    BY <1>4 DEF TypeInv, TypeOK, Busy, ThreadsOK, Filter
  <2>2. FilterOK'
    BY <1>4, <2>1 DEF Filter, TypeInv, TypeOK, FilterOK
  <2>3. ThreadsOK'
    BY <1>4, Stepping, Resting, Returning DEF Filter, TypeInv, TypeOK
  <2>4. HistoryOK'
    BY <1>4, <2>1 DEF Filter, TypeInv, TypeOK, HistoryOK
  <2> QED
    BY <1>4, <2>2, <2>3, <2>4, SameTypes DEF Filter, TypeInv, TypeOK
<1>5. ASSUME NEW t \in Threads, Save(t) PROVE TypeOK'
  <2>1. cur[t] \in Messages
    BY <1>5 DEF TypeInv, TypeOK, Busy, ThreadsOK, Save
  <2>2. MongoOK'
    BY <1>5, <2>1 DEF Save, Fault, TypeInv, TypeOK, MongoOK
  <2>3. ThreadsOK'
    BY <1>5, Stepping, Resting, Returning DEF Save, TypeInv, TypeOK
  <2>4. BoundsOK'
    BY <1>5, <2>1 DEF Save, Fault, TypeInv, TypeOK, BoundsOK
  <2> QED
    BY <1>5, <2>2, <2>3, <2>4, SameTypes DEF Save, TypeInv, TypeOK
<1>6. ASSUME NEW t \in Threads, Plugin(t) PROVE TypeOK'
  <2>1. cur[t] \in Messages
    BY <1>6 DEF TypeInv, TypeOK, Busy, ThreadsOK, Plugin
  <2>2. MongoOK'
    BY <1>6, <2>1 DEF Plugin, TypeInv, TypeOK, MongoOK
  <2>3. ThreadsOK'
    BY <1>6, Stepping, Resting, Returning DEF Plugin, TypeInv, TypeOK
  <2>4. HistoryOK'
    <3>1. Held(t) \subseteq Messages
      BY <1>6, HeldTypes DEF Plugin
    <3> QED
      BY <1>6, <3>1 DEF Plugin, TypeInv, TypeOK, HistoryOK
  <2> QED
    BY <1>6, <2>2, <2>3, <2>4, SameTypes DEF Plugin, TypeInv, TypeOK
<1>7. ASSUME NEW t \in Threads, Match(t) PROVE TypeOK'
  <2>2. MongoOK' /\ HistoryOK'
    BY <1>7, Writing, SameTypes DEF Match, TypeInv
  <2>3. ThreadsOK'
    BY <1>7, Stepping, Resting, Returning DEF Match, TypeInv, TypeOK
  <2> QED
    BY <1>7, <2>2, <2>3, SameTypes DEF Match, TypeInv, TypeOK
<1>8. ASSUME NEW t \in Threads, Enqueue(t) PROVE TypeOK'
  <2>1. cur[t] \in Messages
    BY <1>8 DEF TypeInv, TypeOK, Busy, ThreadsOK, Enqueue
  <2>2. MongoOK'
    BY <1>8, <2>1, HeldTypes DEF Enqueue, TypeInv, TypeOK, MongoOK
  <2>3. ThreadsOK'
    BY <1>8, Stepping, Resting, Returning DEF Enqueue, TypeInv, TypeOK
  <2> QED
    BY <1>8, <2>2, <2>3, SameTypes DEF Enqueue, TypeInv, TypeOK
<1>9. ASSUME NEW t \in Threads, Record(t) PROVE TypeOK'
  <2>2. MongoOK' /\ HistoryOK'
    BY <1>9, Writing DEF Record
  <2>3. ThreadsOK'
    BY <1>9, Stepping, Resting, Returning DEF Record, TypeInv, TypeOK
  <2> QED
    BY <1>9, <2>2, <2>3, SameTypes DEF Record, TypeInv, TypeOK
<1>10. ASSUME NEW t \in Threads, Drop(t) PROVE TypeOK'
  <2>1. Held(t) \subseteq Messages
    BY <1>10, HeldTypes DEF Drop
  <2>2. ThreadsOK'
    BY <1>10, Stepping, Resting, Returning DEF Drop, TypeInv, TypeOK
  <2>3. HistoryOK'
    BY <1>10, <2>1 DEF Drop, Fault, TypeInv, TypeOK, HistoryOK
  <2>4. BoundsOK'
    BY <1>10, <2>1 DEF Drop, Fault, TypeInv, TypeOK, BoundsOK
  <2> QED
    BY <1>10, <2>2, <2>3, <2>4, SameTypes DEF Drop, TypeInv, TypeOK
<1>11. ASSUME NEW t \in Threads, HandleFails(t) PROVE TypeOK'
  <2>2. MongoOK' /\ HistoryOK'
    BY <1>11, Writing DEF HandleFails, Fault
  <2>3. ThreadsOK'
    BY <1>11, Stepping, Resting, Returning DEF HandleFails, TypeInv, TypeOK
  <2>4. BoundsOK'
    BY <1>11 DEF HandleFails, Fault, TypeInv, TypeOK, BoundsOK
  <2> QED
    BY <1>11, <2>2, <2>3, <2>4, SameTypes DEF HandleFails, TypeInv, TypeOK
<1>12. ASSUME Start PROVE TypeOK'
  <2>1. FlagsOK'
    BY <1>12, Zenon DEF Start, TypeInv, TypeOK, FlagsOK
  <2>2. StartOK'
    BY <1>12 DEF Start, TypeInv, TypeOK, StartOK, Replay, InState
  <2> QED
    BY <1>12, <2>1, <2>2, SameTypes DEF Start, TypeInv, TypeOK
<1>13. ASSUME Crash PROVE TypeOK'
  <2>1. FlagsOK'
    BY <1>13, Ending DEF Crash, TypeInv
  <2>2. FilterOK'
    BY <1>13, Ending DEF Crash, TypeInv
  <2>3. ThreadsOK'
    BY <1>13, Ending DEF Crash, TypeInv
  <2>4. StartOK'
    BY <1>13, Ending DEF Crash, TypeInv
  <2>5. FetchOK'
    BY <1>13, Ending DEF Crash, TypeInv
  <2>6. HistoryOK'
    BY <1>13, Ending DEF Crash, TypeInv
  <2>7. BoundsOK'
    BY <1>13 DEF Crash, TypeInv, TypeOK, BoundsOK
  <2> QED
    BY <1>13, <2>1, <2>2, <2>3, <2>4, <2>5, <2>6, <2>7, SameTypes DEF Crash, TypeInv, TypeOK
<1>14. ASSUME Expire PROVE TypeOK'
  <2>1. MongoOK'
    BY <1>14 DEF Expire, TypeInv, TypeOK, MongoOK
  <2> QED
    BY <1>14, <2>1, SameTypes DEF Expire, TypeInv, TypeOK
<1>15. ASSUME RetryFailed PROVE TypeOK'
  <2>1. MongoOK'
    BY <1>15 DEF RetryFailed, TypeInv, TypeOK, MongoOK, InState
  <2>2. StartOK'
    BY <1>15 DEF RetryFailed, TypeInv, TypeOK, StartOK, Replay, InState
  <2> QED
    BY <1>15, <2>1, <2>2, SameTypes DEF RetryFailed, TypeInv, TypeOK
<1>16. ASSUME Detect PROVE TypeOK'
  <2>1. StartOK'
    BY <1>16 DEF Detect, TypeInv, TypeOK, StartOK, Replay
  <2> QED
    BY <1>16, <2>1, SameTypes DEF Detect, TypeInv, TypeOK
<1>17. ASSUME Refresh PROVE TypeOK'
  <2>1. FlagsOK'
    BY <1>17, Zenon DEF Refresh, TypeInv, TypeOK, FlagsOK
  <2>2. StartOK'
    BY <1>17 DEF Refresh, TypeInv, TypeOK, StartOK, Replay
  <2> QED
    BY <1>17, <2>1, <2>2, SameTypes DEF Refresh, TypeInv, TypeOK
<1>18. ASSUME Ready PROVE TypeOK'
  <2>1. FlagsOK'
    BY <1>18, Zenon DEF Ready, Fault, TypeInv, TypeOK, FlagsOK
  <2>2. StartOK'
    BY <1>18 DEF Ready, Fault, TypeInv, TypeOK, StartOK, Replay
  <2>3. BoundsOK'
    BY <1>18 DEF Ready, Fault, TypeInv, TypeOK, BoundsOK
  <2> QED
    BY <1>18, <2>1, <2>2, <2>3, SameTypes DEF Ready, TypeInv, TypeOK
<1>19. ASSUME NEW c \in Channels, Visit(c) PROVE TypeOK'
  <2>1. FlagsOK'
    BY <1>19, Zenon DEF Visit, TypeInv, TypeOK, FlagsOK
  <2>2. StartOK'
    BY <1>19 DEF Visit, TypeInv, TypeOK, StartOK, Replay
  <2>3. FetchOK'
    BY <1>19 DEF Visit, TypeInv, TypeOK, FetchOK
  <2> QED
    BY <1>19, <2>1, <2>2, <2>3, SameTypes DEF Visit, TypeInv, TypeOK
<1>20. ASSUME ReadPage PROVE TypeOK'
  <2>1. FlagsOK'
    BY <1>20, PageTypes
  <2>2. StartOK'
    BY <1>20, PageTypes
  <2>3. FetchOK'
    BY <1>20, PageTypes
  <2> QED
    BY <1>20, <2>1, <2>2, <2>3, SameTypes DEF ReadPage, TypeInv, TypeOK
<1>21. ASSUME RetryPage PROVE TypeOK'
  <2>1. FetchOK'
    BY <1>21 DEF RetryPage, TypeInv, TypeOK, FetchOK
  <2> QED
    BY <1>21, <2>1, SameTypes DEF RetryPage, TypeInv, TypeOK
<1>22. ASSUME FetchFails PROVE TypeOK'
  <2>0. chan \in Channels
    BY <1>22 DEF FetchFails, TypeInv, Visiting
  <2>1. FlagsOK'
    BY <1>22, <2>0, Aborting DEF FetchFails, TypeInv
  <2>2. StartOK'
    BY <1>22, <2>0, Aborting DEF FetchFails, TypeInv
  <2>3. FetchOK'
    BY <1>22, <2>0, Aborting DEF FetchFails, TypeInv
  <2>4. HistoryOK'
    BY <1>22, <2>0, Aborting DEF FetchFails, TypeInv
  <2> QED
    BY <1>22, <2>1, <2>2, <2>3, <2>4, SameTypes DEF FetchFails, TypeInv, TypeOK
<1>23. ASSUME Buffer PROVE TypeOK'
  <2>1. MongoOK'
    BY <1>23, LeastFound DEF Buffer, TypeInv, TypeOK, MongoOK
  <2>2. StartOK'
    <3>1. work' \subseteq work \union {Min(found)} /\ Min(found) \in Messages
      BY <1>23, LeastFound DEF Buffer, TypeInv
    <3>2. phase' = phase /\ chats' = chats /\ chan' = chan
      BY <1>23 DEF Buffer
    <3> HIDE ConstantsAssumption
    <3> QED
      BY <3>1, <3>2 DEF TypeInv, TypeOK, StartOK
  <2>3. FetchOK'
    BY <1>23, LeastFound DEF Buffer, TypeInv, TypeOK, FetchOK
  <2> QED
    BY <1>23, <2>1, <2>2, <2>3, SameTypes DEF Buffer, TypeInv, TypeOK
<1>24. ASSUME BufferFails PROVE TypeOK'
  <2>0. chan \in Channels
    BY <1>24 DEF BufferFails, TypeInv, Visiting
  <2>1. FlagsOK'
    BY <1>24, <2>0, Aborting DEF BufferFails, TypeInv
  <2>2. StartOK'
    BY <1>24, <2>0, Aborting DEF BufferFails, TypeInv
  <2>3. FetchOK'
    BY <1>24, <2>0, Aborting DEF BufferFails, TypeInv
  <2>4. HistoryOK'
    BY <1>24, <2>0, Aborting DEF BufferFails, TypeInv
  <2>5. BoundsOK'
    BY <1>24 DEF BufferFails, Fault, TypeInv, TypeOK, BoundsOK
  <2> QED
    BY <1>24, <2>1, <2>2, <2>3, <2>4, <2>5, SameTypes DEF BufferFails, TypeInv, TypeOK
<1>25. ASSUME Buffered PROVE TypeOK'
  <2>1. FlagsOK'
    BY <1>25, Zenon DEF Buffered, TypeInv, TypeOK, FlagsOK
  <2>2. StartOK'
    BY <1>25 DEF Buffered, TypeInv, TypeOK, StartOK, Replay
  <2>3. FetchOK'
    BY <1>25 DEF Buffered, TypeInv, TypeOK, FetchOK
  <2> QED
    BY <1>25, <2>1, <2>2, <2>3, SameTypes DEF Buffered, TypeInv, TypeOK
<1>26. ASSUME NEW m \in Messages, Take(m) PROVE TypeOK'
  <2>1. StartOK'
    BY <1>26 DEF Take, TypeInv, TypeOK, StartOK, Replay
  <2>2. ThreadsOK'
    BY <1>26 DEF Take, TypeInv, TypeOK, ThreadsOK, Threads, FilterOK
  <2> QED
    BY <1>26, <2>1, <2>2, SameTypes DEF Take, TypeInv, TypeOK
<1>27. ASSUME MarkFailed PROVE TypeOK'
  <2>1. MongoOK'
    BY <1>27 DEF MarkFailed, Fault, TypeInv, TypeOK, MongoOK, ThreadsOK
  <2>2. ThreadsOK'
    BY <1>27, Resting DEF MarkFailed, TypeInv, TypeOK, Threads
  <2>3. BoundsOK'
    BY <1>27 DEF MarkFailed, Fault, TypeInv, TypeOK, BoundsOK
  <2> QED
    BY <1>27, <2>1, <2>2, <2>3, SameTypes DEF MarkFailed, TypeInv, TypeOK
<1>28. ASSUME MarkProcessed PROVE TypeOK'
  <2>1. MongoOK'
    BY <1>28 DEF MarkProcessed, TypeInv, TypeOK, MongoOK, ThreadsOK
  <2>2. ThreadsOK'
    BY <1>28, Resting DEF MarkProcessed, TypeInv, TypeOK, Threads
  <2> QED
    BY <1>28, <2>1, <2>2, SameTypes DEF MarkProcessed, TypeInv, TypeOK
<1>29. ASSUME MarkThrows PROVE TypeOK'
  <2>1. BoundsOK'
    BY <1>29 DEF MarkThrows, Fault, TypeInv, TypeOK, BoundsOK
  <2>2. CASE phase = "replay" /\ AbortChannel /\ Rest("boot") /\ UNCHANGED <<memory, lost>>
    <3>3. UNCHANGED <<wired, loaded, history>>
      BY <1>29, <2>2 DEF MarkThrows, memory, history
    <3>1. FlagsOK' /\ StartOK' /\ FetchOK' /\ HistoryOK'
      BY <2>2, <3>3, Aborting DEF TypeInv, Visiting
    <3>2. ThreadsOK'
      BY <2>2, Resting DEF TypeInv, TypeOK, Threads
    <3> QED
      BY <1>29, <2>1, <2>2, <3>1, <3>2, SameTypes DEF MarkThrows, TypeInv, TypeOK
  <2>3. CASE ProcessEnds
    <3>1. FlagsOK' /\ FilterOK' /\ ThreadsOK' /\ StartOK' /\ FetchOK' /\ HistoryOK'
      BY <1>29, <2>3, Ending DEF MarkThrows
    <3> QED
      BY <1>29, <2>1, <3>1, SameTypes DEF MarkThrows, TypeInv, TypeOK
  <2> QED
    BY <1>29, <2>2, <2>3 DEF MarkThrows
<1>30. ASSUME Replayed PROVE TypeOK'
  <2>1. StartOK'
    BY <1>30 DEF Replayed, TypeInv, TypeOK, StartOK, Replay
  <2> QED
    BY <1>30, <2>1, SameTypes DEF Replayed, TypeInv, TypeOK
<1>32. ASSUME NEW m \in Messages, AlbumFails(m) PROVE TypeOK'
  <2>1. FilterOK'
    BY <1>32 DEF AlbumFails, TypeInv, TypeOK, FilterOK
  <2>2. HistoryOK'
    BY <1>32 DEF AlbumFails, TypeInv, TypeOK, FilterOK, HistoryOK
  <2>3. BoundsOK'
    BY <1>32 DEF AlbumFails, Fault, TypeInv, TypeOK, BoundsOK
  <2> QED
    BY <1>32, <2>1, <2>2, <2>3, SameTypes DEF AlbumFails, TypeInv, TypeOK
<1>33. ASSUME SaveAlbum PROVE TypeOK'
  <2>1. hand \subseteq Messages
    BY DEF TypeInv, TypeOK, ThreadsOK
  <2>2. PICK new \in Storable(hand), kept \in SUBSET hand :
          /\ stored' = stored \union new
          /\ lost' = lost \union (hand \ kept)
          /\ \/ kept = {} /\ Rest("timer")
             \/ /\ kept # {}
                /\ hand' = kept /\ cur' = [cur EXCEPT !["timer"] = Min(kept)]
                /\ at' = [at EXCEPT !["timer"] = "plugin"]
    BY <1>33 DEF SaveAlbum
  <2>3. MongoOK'
    <3>1. new \subseteq Messages
      BY <2>1, <2>2 DEF Storable
    <3>2. stored' \subseteq Messages
      BY <2>2, <3>1 DEF TypeInv, TypeOK, MongoOK
    <3>3. UNCHANGED <<buffer, record, queued>>
      BY <1>33 DEF SaveAlbum
    <3> QED
      BY <3>2, <3>3 DEF TypeInv, TypeOK, MongoOK
  <2>4. ThreadsOK'
    <3>1. CASE kept = {}
      <4>1. Rest("timer")
        BY <2>2, <3>1
      <4>2. ThreadsOK /\ "timer" \in Threads
        BY DEF TypeInv, TypeOK, Threads
      <4> QED
        BY <4>1, <4>2, Resting
    <3>2. CASE kept # {}
      <4>1. hand' = kept /\ cur' = [cur EXCEPT !["timer"] = Min(kept)]
            /\ at' = [at EXCEPT !["timer"] = "plugin"]
        BY <2>2, <3>2 DEF Rest
      <4>2. Min(kept) \in Messages
        BY <3>2, LeastKept DEF TypeInv
      <4> QED
        BY <4>1, <4>2 DEF TypeInv, TypeOK, ThreadsOK
    <3> QED
      BY <3>1, <3>2
  <2>5. HistoryOK'
    BY <1>33, <2>1, <2>2 DEF SaveAlbum, TypeInv, TypeOK, HistoryOK
  <2>6. BoundsOK'
    BY <1>33 DEF SaveAlbum, Fault, TypeInv, TypeOK, BoundsOK
  <2> QED
    BY <1>33, <2>3, <2>4, <2>5, <2>6, SameTypes DEF SaveAlbum, TypeInv, TypeOK
<1>31. CASE UNCHANGED vars
  BY <1>31, SameTypes DEF TypeInv, TypeOK
<1> QED
  BY <1>1, <1>2, <1>3, <1>4, <1>5, <1>6, <1>7, <1>8, <1>9, <1>10, <1>11, <1>12, <1>13, <1>14, <1>15, <1>16, <1>17, <1>18, <1>19, <1>20, <1>21, <1>22, <1>23, <1>24, <1>25, <1>26, <1>27, <1>28, <1>29, <1>30, <1>31,
     <1>32, <1>33
  DEF Next, BootStep, ThreadStep, Threads

(* Only these steps move a thread. *)
Moves ==
  \/ \E m \in Messages : Hear(m) \/ CloseAlbum(m) \/ Take(m)
  \/ \E t \in Threads : ThreadStep(t)
  \/ SaveAlbum
  \/ Crash \/ MarkFailed \/ MarkProcessed \/ MarkThrows

LEMMA OthersRest == ASSUME [Next]_vars, ~Moves PROVE UNCHANGED threads
<1> USE DEF vars, threads
<1>1. CASE \E m \in Messages : Post(m) \/ AlbumFails(m)
  BY <1>1 DEF Post, AlbumFails
<1>2. CASE Start \/ Expire
  BY <1>2 DEF Start, Expire
<1>3. CASE RetryFailed \/ Detect \/ Refresh \/ Ready
  BY <1>3 DEF RetryFailed, Detect, Refresh, Ready
<1>4. CASE \E c \in Channels : Visit(c)
  BY <1>4 DEF Visit
<1>5. CASE ReadPage \/ RetryPage \/ FetchFails
  BY <1>5 DEF ReadPage, RetryPage, FetchFails
<1>6. CASE Buffer \/ BufferFails \/ Buffered
  BY <1>6 DEF Buffer, BufferFails, Buffered
<1>7. CASE Replayed \/ UNCHANGED vars
  BY <1>7 DEF Replayed
<1> QED
  BY <1>1, <1>2, <1>3, <1>4, <1>5, <1>6, <1>7 DEF Next, BootStep, Moves, Threads

(* What a thread does with its message: it goes on with it or puts it down. *)
LEMMA ThreadGoesOn ==
  ASSUME NEW t \in Threads, ThreadStep(t)
  PROVE  /\ at[t] \in {"filter", "save", "plugin", "match", "enqueue", "record"}
         /\ \/ Rest(t)
            \/ \E s \in {"save", "plugin", "match", "enqueue", "record", "done"} : Step(t, s)
BY DEF ThreadStep, Filter, Save, Plugin, Match, Enqueue, Record, Drop, HandleFails, Return

(* A step of one thread leaves the others where they are. *)
LEMMA OneThread ==
  ASSUME ThreadsOK, NEW t \in Threads, NEW u \in Threads \ {t},
         Rest(t) \/ \E s : Step(t, s)
  PROVE  at'[u] = at[u] /\ cur'[u] = cur[u]
BY DEF ThreadsOK, Rest, Step

(* Where the thread itself is afterwards. *)
LEMMA Rested == ASSUME ThreadsOK, NEW t \in Threads, Rest(t) PROVE at'[t] = "idle" /\ cur'[t] = 0
BY DEF ThreadsOK, Rest

LEMMA Stepped ==
  ASSUME ThreadsOK, NEW t \in Threads, NEW s, Step(t, s)
  PROVE  at'[t] = s /\ cur'[t] = cur[t]
BY DEF ThreadsOK, Step

(* A thread that has something to do has a message to do it with. *)
LEMMA BusyStep == ASSUME TypeInv, [Next]_vars PROVE Busy'
<1> USE DEF TypeInv, TypeOK
<1>1. CASE UNCHANGED threads
  BY <1>1 DEF Busy, threads
<1>2. ASSUME NEW t \in Threads, Rest(t) PROVE Busy'
  BY <1>2, OneThread, Rested DEF Busy
<1>3. ASSUME NEW t \in Threads, NEW s, Step(t, s), at[t] # "idle" PROVE Busy'
  BY <1>3, OneThread, Stepped DEF Busy
<1>4. CASE \E t \in Threads : ThreadStep(t)
  BY <1>2, <1>3, <1>4, ThreadGoesOn
<1>5. CASE \E m \in Messages : Hear(m) \/ CloseAlbum(m) \/ Take(m)
  BY <1>5 DEF Hear, CloseAlbum, Take, Busy, ThreadsOK
<1>8. CASE SaveAlbum
  <2>1. CASE Rest("timer")
    BY <1>2, <2>1 DEF Threads
  <2>2. CASE ~Rest("timer")
    <3>1. PICK kept \in SUBSET hand :
            /\ kept # {} /\ cur' = [cur EXCEPT !["timer"] = Min(kept)]
            /\ at' = [at EXCEPT !["timer"] = "plugin"]
      BY <1>8, <2>2 DEF SaveAlbum
    <3>2. Min(kept) \in Messages
      BY <3>1, LeastKept
    <3> QED
      BY <3>1, <3>2 DEF Busy, ThreadsOK
  <2> QED
    BY <2>1, <2>2
<1>6. CASE ProcessEnds
  BY <1>6 DEF ProcessEnds, Busy
<1>7. CASE Crash \/ MarkFailed \/ MarkProcessed \/ MarkThrows
  BY <1>1, <1>2, <1>6, <1>7 DEF Crash, MarkFailed, MarkProcessed, MarkThrows, Threads, memory
<1> QED
  BY <1>1, <1>4, <1>5, <1>7, <1>8, OthersRest DEF Moves

(* What a step of a thread does to the parts in hand. *)
LEMMA HandByThread ==
  ASSUME NEW t \in Threads, ThreadStep(t)
  PROVE  \/ hand' = hand
         \/ t = "timer" /\ Rest(t) /\ hand' = {}
BY ThreadGoesOn DEF Rest, Step

LEMMA HandyStep == ASSUME TypeInv, [Next]_vars PROVE Handy'
<1> USE DEF TypeInv, TypeOK
<1>1. CASE UNCHANGED threads
  BY <1>1 DEF Handy, threads
<1>2. ASSUME Rest("timer") PROVE Handy'
  BY <1>2, Rested DEF Rest, Handy, Threads
<1>3. CASE \E t \in Threads : ThreadStep(t)
  <2>1. PICK t \in Threads : ThreadStep(t)
    BY <1>3
  <2>2. at[t] # "idle" /\ (Rest(t) \/ \E s : s # "idle" /\ Step(t, s))
    BY <2>1, ThreadGoesOn
  <2>3. CASE t = "timer"
    <3>1. CASE Rest(t)
      BY <1>2, <2>3, <3>1
    <3>2. CASE \E s : s # "idle" /\ Step(t, s)
      BY <2>2, <2>3, <3>2, Stepped DEF Step, Handy
    <3> QED
      BY <2>2, <3>1, <3>2
  <2>4. CASE t # "timer"
    <3>1. at'["timer"] = at["timer"] /\ cur'["timer"] = cur["timer"]
      BY <2>2, <2>4, OneThread DEF Threads
    <3>2. hand' = hand
      BY <2>1, <2>4, HandByThread
    <3> QED
      BY <3>1, <3>2 DEF Handy
  <2> QED
    BY <2>3, <2>4
<1>4. ASSUME NEW m \in Messages, CloseAlbum(m) PROVE Handy'
  <2>1. m \in PartsOf[m]
    BY ConstantsAssumption DEF ConstantsAssumption
  <2>2. at'["timer"] = "save" /\ cur'["timer"] = m /\ hand' = open \intersect PartsOf[m]
    BY <1>4 DEF CloseAlbum, ThreadsOK, Threads
  <2>3. m \in hand' /\ hand' \subseteq PartsOf[m]
    BY <1>4, <2>1, <2>2 DEF CloseAlbum
  <2>4. (at["timer"] # "idle")' /\ (cur["timer"] \in hand)'
    BY <2>2, <2>3
  <2>5. (hand \subseteq PartsOf[cur["timer"]])'
    BY <2>2, <2>3
  <2> QED
    BY <2>4, <2>5, Zenon DEF Handy
<1>5. CASE \E m \in Messages : Hear(m) \/ Take(m)
  <2>1. hand' = hand /\ at'["timer"] = at["timer"] /\ cur'["timer"] = cur["timer"]
    BY <1>5 DEF Hear, Take, ThreadsOK, Threads
  <2> QED
    BY <2>1 DEF Handy
<1>6. CASE SaveAlbum
  <2>1. CASE Rest("timer")
    BY <1>2, <2>1
  <2>2. CASE ~Rest("timer")
    <3>1. PICK kept \in SUBSET hand :
            /\ kept # {} /\ cur' = [cur EXCEPT !["timer"] = Min(kept)]
            /\ at' = [at EXCEPT !["timer"] = "plugin"] /\ hand' = kept
      BY <1>6, <2>2 DEF SaveAlbum
    <3>2. Min(kept) \in kept
      BY <3>1, LeastKept
    <3>3. at'["timer"] = "plugin" /\ cur'["timer"] = Min(kept)
      BY <3>1 DEF ThreadsOK, Threads
    <3>4. hand \subseteq Messages
      BY ConstantsAssumption DEF ConstantsAssumption, ThreadsOK
    <3>5. kept \subseteq PartsOf[Min(kept)]
      BY <1>6, <3>2, <3>4, ConstantsAssumption DEF ConstantsAssumption, SaveAlbum, Handy, Busy, Threads
    <3> QED
      BY <3>1, <3>2, <3>3, <3>5 DEF Handy
  <2> QED
    BY <2>1, <2>2
<1>7. CASE ProcessEnds
  BY <1>7 DEF ProcessEnds, Handy, Threads
<1>8. CASE Rest("boot")
  BY <1>8, OneThread DEF Rest, Handy, Threads
<1>9. CASE Crash \/ MarkFailed \/ MarkProcessed \/ MarkThrows
  BY <1>1, <1>7, <1>8, <1>9 DEF Crash, MarkFailed, MarkProcessed, MarkThrows
<1> QED
  BY <1>1, <1>3, <1>4, <1>5, <1>6, <1>9, OthersRest DEF Moves

(* A channel that is visited is one of the channels. *)
LEMMA VisitingStep == ASSUME TypeInv, [Next]_vars PROVE Visiting'
<1> USE DEF TypeInv, Visiting, starting, fetching, vars
<1>1. CASE UNCHANGED <<phase, chan>>
  BY <1>1
<1>2. CASE Moves
  <2>1. CASE Crash \/ MarkThrows
    BY <2>1 DEF Crash, MarkThrows, ProcessEnds, AbortChannel
  <2>2. CASE \E m \in Messages : Hear(m) \/ CloseAlbum(m) \/ Take(m)
    BY <1>1, <2>2 DEF Hear, CloseAlbum, Take
  <2>3. CASE \E t \in Threads : ThreadStep(t)
    BY <1>1, <2>3 DEF ThreadStep, Filter, Save, Plugin, Match, Enqueue, Record, Drop, HandleFails
  <2>4. CASE MarkFailed \/ MarkProcessed \/ SaveAlbum
    BY <1>1, <2>4 DEF MarkFailed, MarkProcessed, SaveAlbum
  <2> QED
    BY <1>2, <2>1, <2>2, <2>3, <2>4 DEF Moves
<1>3. CASE \E m \in Messages : Post(m) \/ AlbumFails(m)
  BY <1>1, <1>3 DEF Post, AlbumFails
<1>4. CASE Start \/ Expire \/ RetryFailed \/ Detect \/ Refresh \/ Ready
  BY <1>4 DEF Start, Expire, RetryFailed, Detect, Refresh, Ready
<1>5. CASE \E c \in Channels : Visit(c)
  BY <1>5 DEF Visit
<1>6. CASE ReadPage \/ RetryPage \/ FetchFails
  BY <1>6 DEF ReadPage, RetryPage, FetchFails, AbortChannel
<1>7. CASE Buffer \/ BufferFails \/ Buffered \/ Replayed
  BY <1>7 DEF Buffer, BufferFails, Buffered, Replayed, AbortChannel
<1> QED
  BY <1>1, <1>2, <1>3, <1>4, <1>5, <1>6, <1>7 DEF Next, BootStep, Moves, Threads

(* The initial state has the types. *)
LEMMA TypeInit == ASSUME Init PROVE TypeInv
<1>1. FlagsOK
  BY Zenon DEF Init, FlagsOK
<1>2. TelegramOK /\ MongoOK /\ FilterOK /\ ThreadsOK
  BY DEF Init, TelegramOK, MongoOK, FilterOK, ThreadsOK
<1>3. StartOK /\ FetchOK /\ HistoryOK /\ BoundsOK
  BY ConstantsAssumption
  DEF ConstantsAssumption, Init, StartOK, FetchOK, HistoryOK, BoundsOK
<1>4. Busy /\ Visiting /\ Handy
  BY DEF Init, Busy, Visiting, Handy, Threads
<1> QED
  BY <1>1, <1>2, <1>3, <1>4 DEF TypeInv, TypeOK

(* The variables keep their types in every state of the program. *)
THEOREM TypeCorrect == Spec => []TypeInv
<1>1. TypeInv /\ [Next]_vars => TypeInv'
  BY TypeStep, BusyStep, VisitingStep, HandyStep DEF TypeInv
<1> QED
  BY <1>1, TypeInit, PTL DEF Spec

(* Type correctness, as the runs state it. *)
THEOREM TypesHold == Spec => []TypeOK
<1>1. TypeInv => TypeOK
  BY DEF TypeInv
<1> QED
  BY <1>1, TypeCorrect, PTL

-----------------------------------------------------------------------------
(* Frames: what a step can change *)

(* A thread that handles a message leaves the start-up alone. *)
LEMMA ThreadFrame ==
  ASSUME NEW t \in Threads, ThreadStep(t)
  PROVE  UNCHANGED <<telegram, buffer, wired, loaded, starting, aborted>>
BY DEF ThreadStep, Filter, Save, Plugin, Match, Enqueue, Record, Drop, HandleFails,
       mongo, memory, starting

(* Only a thread that handles a message writes these collections. *)
LEMMA OnlyThreadsWrite ==
  ASSUME [Next]_vars, ~ \E t \in Threads : ThreadStep(t)
  PROVE  UNCHANGED <<record, queued, handled>>
<1> USE DEF vars, mongo, history
<1>1. CASE \E m \in Messages : Post(m) \/ Hear(m) \/ CloseAlbum(m) \/ AlbumFails(m) \/ Take(m)
  BY <1>1 DEF Post, Hear, CloseAlbum, AlbumFails, Take
<1>8. CASE SaveAlbum
  BY <1>8 DEF SaveAlbum
<1>2. CASE Start \/ Crash \/ Expire
  BY <1>2 DEF Start, Crash, Expire
<1>3. CASE RetryFailed \/ Detect \/ Refresh \/ Ready
  BY <1>3 DEF RetryFailed, Detect, Refresh, Ready
<1>4. CASE \E c \in Channels : Visit(c)
  BY <1>4 DEF Visit
<1>5. CASE ReadPage \/ RetryPage \/ FetchFails
  BY <1>5 DEF ReadPage, RetryPage, FetchFails
<1>6. CASE Buffer \/ BufferFails \/ Buffered
  BY <1>6 DEF Buffer, BufferFails, Buffered
<1>7. CASE MarkFailed \/ MarkProcessed \/ MarkThrows \/ Replayed \/ UNCHANGED vars
  BY <1>7 DEF MarkFailed, MarkProcessed, MarkThrows, Replayed
<1> QED
  BY <1>1, <1>2, <1>3, <1>4, <1>5, <1>6, <1>7, <1>8 DEF Next, BootStep, Threads

(* A record is written for the message in hand, and never removed; it says  *)
(* "matched" only after the step that puts the message into the queue.      *)
LEMMA ThreadRecords ==
  ASSUME TypeInv, NEW t \in Threads, ThreadStep(t), NEW m \in Messages
  PROVE  \/ record'[m] = record[m]
         \/ /\ m = cur[t] /\ record'[m] # "none"
            /\ record'[m] = "matched" => at[t] = "record"
<1> USE DEF TypeInv, TypeOK, MongoOK
<1>1. CASE Filter(t) \/ Save(t) \/ Enqueue(t) \/ Drop(t)
  BY <1>1 DEF Filter, Save, Enqueue, Drop, mongo
<1>2. CASE Plugin(t) \/ Match(t)
  BY <1>2 DEF Plugin, Match, Write
<1>3. CASE Record(t) \/ HandleFails(t)
  BY <1>3 DEF Record, HandleFails, Write
<1> QED
  BY <1>1, <1>2, <1>3 DEF ThreadStep

(* forward_queue grows by the messages in hand. *)
LEMMA ThreadQueues ==
  ASSUME NEW t \in Threads, ThreadStep(t)
  PROVE  queued' = queued \/ (at[t] = "enqueue" /\ queued' = queued \union Held(t))
BY DEF ThreadStep, Filter, Save, Plugin, Match, Enqueue, Record, Drop, HandleFails, mongo

(* A message reaches the queueing step only with the tag list loaded, and   *)
(* the record only from that step.                                          *)
LEMMA ThreadMatches ==
  ASSUME ThreadsOK, NEW t \in Threads, ThreadStep(t)
  PROVE  /\ at'[t] = "enqueue" => loaded
         /\ at'[t] = "record" => at[t] = "enqueue" /\ queued' = queued \union Held(t)
<1> USE DEF ThreadsOK, Return, Step, Rest
<1>1. CASE Filter(t) \/ Save(t) \/ Plugin(t)
  BY <1>1 DEF Filter, Save, Plugin
<1>2. CASE Match(t)
  BY <1>2 DEF Match
<1>3. CASE Enqueue(t) \/ Record(t) \/ Drop(t) \/ HandleFails(t)
  BY <1>3 DEF Enqueue, Record, Drop, HandleFails
<1> QED
  BY <1>1, <1>2, <1>3 DEF ThreadStep

(* The three ways a thread can move within a step of its own. *)
LEMMA ThreadMoves ==
  ASSUME ThreadsOK, NEW t \in Threads, ThreadStep(t)
  PROVE  /\ at[t] # "idle" /\ cur'[t] \in {0, cur[t]}
         /\ at'[t] # "idle" => cur'[t] = cur[t]
         /\ \A u \in Threads \ {t} : at'[u] = at[u] /\ cur'[u] = cur[u]
<1>1. at[t] # "idle" /\ (Rest(t) \/ \E s : Step(t, s))
  BY ThreadGoesOn
<1>2. \A u \in Threads \ {t} : at'[u] = at[u] /\ cur'[u] = cur[u]
  BY <1>1, OneThread
<1>3. CASE Rest(t)
  BY <1>1, <1>2, <1>3, Rested
<1>4. CASE \E s : Step(t, s)
  BY <1>1, <1>2, <1>4, Stepped
<1> QED
  BY <1>1, <1>3, <1>4

-----------------------------------------------------------------------------
(* A record that says "matched" belongs to a queued message *)

(* Whoever is about to write that record has queued the message. *)
QueuedFirst == \A t \in Threads : at[t] = "record" => cur[t] \in queued

MatchInv == TypeInv /\ QueuedFirst /\ MatchedMeansQueued

LEMMA MatchStep == ASSUME MatchInv, [Next]_vars PROVE QueuedFirst' /\ MatchedMeansQueued'
<1> USE DEF MatchInv, TypeInv, TypeOK
<1>1. ASSUME NEW t \in Threads, ThreadStep(t) PROVE QueuedFirst' /\ MatchedMeansQueued'
  <2>1. queued \subseteq queued'
    BY <1>1, ThreadQueues
  <2>2. QueuedFirst'
    <3>1. at'[t] = "record" => cur'[t] \in queued'
      BY <1>1, ThreadMatches, ThreadMoves, HeldTypes
    <3> QED
      BY <1>1, <2>1, <3>1, ThreadMoves DEF QueuedFirst
  <2>3. MatchedMeansQueued'
    <3> SUFFICES ASSUME NEW m \in Messages, record'[m] = "matched" PROVE m \in queued'
      BY DEF MatchedMeansQueued
    <3>1. CASE record'[m] = record[m]
      BY <2>1, <3>1 DEF MatchedMeansQueued
    <3>2. CASE m = cur[t] /\ at[t] = "record"
      BY <2>1, <3>2 DEF QueuedFirst
    <3> QED
      BY <1>1, <3>1, <3>2, ThreadRecords
  <2> QED
    BY <2>2, <2>3
<1>2. CASE ~ \E t \in Threads : ThreadStep(t)
  <2>1. UNCHANGED <<record, queued>>
    BY <1>2, OnlyThreadsWrite
  <2>2. MatchedMeansQueued'
    BY <2>1 DEF MatchedMeansQueued
  <2>3. QueuedFirst'
    <3>1. CASE UNCHANGED threads
      BY <2>1, <3>1 DEF QueuedFirst, threads
    <3>2. CASE \E m \in Messages : Hear(m) \/ CloseAlbum(m) \/ Take(m)
      BY <2>1, <3>2 DEF Hear, CloseAlbum, Take, ThreadsOK, QueuedFirst
    <3>3. CASE ProcessEnds
      BY <3>3 DEF ProcessEnds, QueuedFirst
    <3>4. CASE Rest("boot")
      BY <2>1, <3>4 DEF Rest, ThreadsOK, QueuedFirst
    <3>5. CASE Crash \/ MarkFailed \/ MarkProcessed \/ MarkThrows
      BY <3>3, <3>4, <3>5 DEF Crash, MarkFailed, MarkProcessed, MarkThrows
    <3>6. CASE SaveAlbum
      BY <2>1, <3>6 DEF SaveAlbum, Rest, ThreadsOK, QueuedFirst
    <3> QED
      BY <1>2, <3>1, <3>2, <3>5, <3>6, OthersRest DEF Moves
  <2> QED
    BY <2>2, <2>3
<1> QED
  BY <1>1, <1>2

(* The record of a forwarded message is never its only trace: the crash     *)
(* between enqueue and saveProcessedMessage can forward a message twice,    *)
(* never mark it as forwarded without forwarding it.                        *)
THEOREM MatchedIsQueued == Spec => []MatchedMeansQueued
<1>1. Init => QueuedFirst /\ MatchedMeansQueued
  BY DEF Init, QueuedFirst, MatchedMeansQueued
<1>2. MatchInv /\ [Next]_vars => MatchInv'
  BY MatchStep, TypeStep, BusyStep, VisitingStep, HandyStep DEF MatchInv, TypeInv
<1>3. Init => MatchInv
  BY <1>1, TypeInit DEF MatchInv
<1>4. MatchInv => MatchedMeansQueued
  BY DEF MatchInv
<1> QED
  BY <1>2, <1>3, <1>4, PTL DEF Spec

-----------------------------------------------------------------------------
(* The replay at start-up forwards nothing by itself *)

(* The start-up thread handles messages in the replaying phases only, and   *)
(* the tag list is loaded when they are over.                               *)
Staged ==
  /\ at["boot"] # "idle" => phase \in Replay
  /\ loaded => phase = "ready"

(* So it never finds a tag, and the live thread handles what it heard.      *)
Sources ==
  /\ at["boot"] \notin {"enqueue", "record"}
  /\ at["live"] # "idle" => cur["live"] \in heard

StageInv == TypeInv /\ Staged
ReplayInv == StageInv /\ Sources /\ StartupReplayNeverForwards

LEMMA StageStep == ASSUME StageInv, [Next]_vars PROVE Staged'
<1> USE DEF StageInv, TypeInv, TypeOK, Staged, Replay
<1>1. CASE \E t \in Threads : ThreadStep(t)
  <2>1. PICK t \in Threads : ThreadStep(t)
    BY <1>1
  <2>2. UNCHANGED <<phase, loaded>>
    BY <2>1, ThreadFrame DEF starting
  <2>3. at'["boot"] # "idle" => at["boot"] # "idle"
    BY <2>1, ThreadMoves DEF Threads
  <2> QED
    BY <2>2, <2>3
<1>2. CASE \E m \in Messages : Post(m) \/ Hear(m) \/ CloseAlbum(m) \/ AlbumFails(m) \/ Take(m)
  BY <1>2 DEF Post, Hear, CloseAlbum, AlbumFails, Take, threads, memory, starting, ThreadsOK, Threads
<1>11. CASE SaveAlbum
  BY <1>11 DEF SaveAlbum, Rest, memory, starting, ThreadsOK, Threads
<1>3. CASE Crash \/ MarkThrows
  BY <1>3 DEF Crash, MarkThrows, ProcessEnds, AbortChannel, Rest, memory, ThreadsOK, Threads
<1>4. CASE Start \/ Expire \/ RetryFailed \/ Detect \/ Replayed
  BY <1>4 DEF Start, Expire, RetryFailed, Detect, Replayed, threads, memory, starting
<1>5. CASE Refresh \/ Ready
  BY <1>5 DEF Refresh, Ready, threads
<1>6. CASE \E c \in Channels : Visit(c)
  BY <1>6 DEF Visit, threads, memory
<1>7. CASE ReadPage \/ RetryPage \/ FetchFails
  BY <1>7 DEF ReadPage, RetryPage, FetchFails, AbortChannel, threads, memory
<1>8. CASE Buffer \/ BufferFails \/ Buffered
  BY <1>8 DEF Buffer, BufferFails, Buffered, AbortChannel, threads, memory
<1>9. CASE MarkFailed \/ MarkProcessed
  BY <1>9 DEF MarkFailed, MarkProcessed, Rest, memory, starting, ThreadsOK, Threads
<1>10. CASE UNCHANGED vars
  BY <1>10 DEF vars, threads, memory, starting
<1> QED
  BY <1>1, <1>2, <1>3, <1>4, <1>5, <1>6, <1>7, <1>8, <1>9, <1>10, <1>11
  DEF Next, BootStep, Threads

(* No step forgets an update that TDLib has pushed. *)
LEMMA HeardGrows == ASSUME [Next]_vars PROVE heard \subseteq heard'
<1> USE DEF vars, telegram
<1>1. CASE \E t \in Threads : ThreadStep(t)
  BY <1>1, ThreadFrame
<1>2. CASE \E m \in Messages : Post(m) \/ Hear(m) \/ CloseAlbum(m) \/ AlbumFails(m) \/ Take(m)
  BY <1>2 DEF Post, Hear, CloseAlbum, AlbumFails, Take
<1>3. CASE Start \/ Crash \/ Expire \/ RetryFailed \/ Detect \/ Refresh \/ Ready
  BY <1>3 DEF Start, Crash, Expire, RetryFailed, Detect, Refresh, Ready
<1>4. CASE \E c \in Channels : Visit(c)
  BY <1>4 DEF Visit
<1>5. CASE ReadPage \/ RetryPage \/ FetchFails \/ Buffer \/ BufferFails \/ Buffered
  BY <1>5 DEF ReadPage, RetryPage, FetchFails, Buffer, BufferFails, Buffered
<1>6. CASE MarkFailed \/ MarkProcessed \/ MarkThrows \/ Replayed \/ SaveAlbum \/ UNCHANGED vars
  BY <1>6 DEF MarkFailed, MarkProcessed, MarkThrows, Replayed, SaveAlbum
<1> QED
  BY <1>1, <1>2, <1>3, <1>4, <1>5, <1>6 DEF Next, BootStep, Threads

LEMMA SourcesStep == ASSUME ReplayInv, [Next]_vars PROVE Sources'
<1> USE DEF ReplayInv, StageInv, TypeInv, TypeOK, Sources, Threads
<1>1. heard \subseteq heard'
  BY HeardGrows
<1>2. ASSUME NEW t \in Threads, ThreadStep(t) PROVE Sources'
  <2>1. at'["boot"] \notin {"enqueue", "record"}
    <3>1. CASE t = "boot"
      <4>1. ~loaded
        BY <1>2, <3>1, ThreadMoves DEF Staged, Replay
      <4> QED
        BY <1>2, <3>1, <4>1, ThreadMatches
    <3>2. CASE t # "boot"
      BY <1>2, <3>2, ThreadMoves
    <3> QED
      BY <3>1, <3>2
  <2>2. \A u \in Threads : at'[u] # "idle" => at[u] # "idle" /\ cur'[u] = cur[u]
    BY <1>2, ThreadMoves
  <2> QED
    BY <1>1, <2>1, <2>2
<1>3. CASE UNCHANGED threads
  BY <1>1, <1>3 DEF threads
<1>4. CASE \E m \in Messages : Hear(m) \/ CloseAlbum(m) \/ Take(m)
  BY <1>1, <1>4 DEF Hear, CloseAlbum, Take, ThreadsOK, FilterOK
<1>5. CASE ProcessEnds
  BY <1>5 DEF ProcessEnds
<1>6. CASE Rest("boot")
  BY <1>1, <1>6 DEF Rest, ThreadsOK
<1>7. CASE Crash \/ MarkFailed \/ MarkProcessed \/ MarkThrows
  BY <1>5, <1>6, <1>7 DEF Crash, MarkFailed, MarkProcessed, MarkThrows
<1>8. CASE SaveAlbum
  BY <1>1, <1>8 DEF SaveAlbum, Rest, ThreadsOK
<1> QED
  BY <1>2, <1>3, <1>4, <1>7, <1>8, OthersRest DEF Moves

LEMMA ForwardsStep == ASSUME ReplayInv, [Next]_vars PROVE StartupReplayNeverForwards'
<1> USE DEF StartupReplayNeverForwards, ReplayInv
<1>1. heard \subseteq heard'
  BY HeardGrows
<1>2. ASSUME NEW t \in Threads, ThreadStep(t) PROVE StartupReplayNeverForwards'
  <2>1. at[t] = "enqueue" => Held(t) \subseteq heard \union Albums
    BY DEF Sources, Threads, Held, StageInv, TypeInv, TypeOK, ThreadsOK
  <2> QED
    BY <1>1, <1>2, <2>1, ThreadQueues
<1>3. CASE UNCHANGED queued
  BY <1>1, <1>3
<1> QED
  BY <1>2, <1>3, OnlyThreadsWrite

(* What was posted while the program was down reaches forward_queue only if *)
(* TDLib pushes it as an update, or as an album that the timer closes after *)
(* the start-up: the replay runs before the tag list is there.              *)
THEOREM ReplayNeverForwards == Spec => []StartupReplayNeverForwards
<1>1. Init => Staged /\ Sources /\ StartupReplayNeverForwards
  <2>1. Init => Staged
    BY Zenon DEF Init, Staged, Threads
  <2>2. Init => Sources /\ StartupReplayNeverForwards
    BY DEF Init, Sources, Threads, StartupReplayNeverForwards
  <2> QED
    BY <2>1, <2>2
<1>2. Init => ReplayInv
  BY <1>1, TypeInit DEF ReplayInv, StageInv
<1>3. ReplayInv /\ [Next]_vars => ReplayInv'
  BY StageStep, SourcesStep, ForwardsStep, TypeStep, BusyStep, VisitingStep, HandyStep
  DEF ReplayInv, StageInv, TypeInv
<1>4. ReplayInv => StartupReplayNeverForwards
  BY DEF ReplayInv
<1> QED
  BY <1>2, <1>3, <1>4, PTL DEF Spec

-----------------------------------------------------------------------------
(* A fetch that comes to its end has left nothing out *)

(* The fetch starts at a message it has seen, and from the newest one down  *)
(* to fromMessageId it has found whatever has no record.                    *)
Fetched ==
  /\ phase \in {"fetch", "buffer"} => (top = 0 \/ top \in posted)
  /\ phase = "fetch" =>
       /\ from = 0 <=> top = 0
       /\ \A m \in posted \intersect Of(chan) :
            from # 0 /\ from <= m /\ m <= top => record[m] # "none" \/ m \in found

GapInv == StageInv /\ Fetched /\ FetchHasNoGaps

(* A record, once there, stays. *)
LEMMA RecordStays ==
  ASSUME TypeInv, [Next]_vars, NEW m \in Messages, record[m] # "none"
  PROVE  record'[m] # "none"
<1>1. CASE \E t \in Threads : ThreadStep(t)
  BY <1>1, ThreadRecords
<1>2. CASE ~ \E t \in Threads : ThreadStep(t)
  BY <1>2, OnlyThreadsWrite
<1> QED
  BY <1>1, <1>2

(* During a fetch only these steps change what it works on. *)
LEMMA FetchFrame ==
  ASSUME StageInv, [Next]_vars, phase' \in {"fetch", "buffer"},
         ~ \E m \in Messages : Post(m), ~ \E c \in Channels : Visit(c), ~ReadPage, ~Buffer
  PROVE  UNCHANGED <<posted, phase, chan, from, top, found, cut, buffer>>
<1> USE DEF StageInv, Staged, Replay, vars, telegram, mongo, starting, fetching
<1>1. CASE \E t \in Threads : ThreadStep(t)
  BY <1>1, ThreadFrame
<1>2. CASE \E m \in Messages : Hear(m) \/ CloseAlbum(m) \/ AlbumFails(m) \/ Take(m)
  BY <1>2 DEF Hear, CloseAlbum, AlbumFails, Take
<1>9. CASE SaveAlbum
  BY <1>9 DEF SaveAlbum
<1>3. CASE Start \/ Crash \/ Expire
  BY <1>3 DEF Start, Crash, ProcessEnds, Expire
<1>4. CASE RetryFailed \/ Detect \/ Refresh \/ Ready
  BY <1>4 DEF RetryFailed, Detect, Refresh, Ready
<1>5. CASE RetryPage
  BY <1>5 DEF RetryPage
<1>6. CASE FetchFails \/ BufferFails \/ Buffered
  BY <1>6 DEF FetchFails, BufferFails, Buffered, AbortChannel
<1>7. CASE MarkFailed \/ MarkProcessed \/ MarkThrows \/ Replayed
  BY <1>7 DEF MarkFailed, MarkProcessed, MarkThrows, Replayed, AbortChannel, ProcessEnds
<1>8. CASE UNCHANGED vars
  BY <1>8
<1> QED
  BY <1>1, <1>2, <1>3, <1>4, <1>5, <1>6, <1>7, <1>8, <1>9 DEF Next, BootStep, Threads

(* A page leaves no gap: it holds every older message down to its own last  *)
(* one, and those that have no record are found.                            *)
LEMMA PageHasNoGaps ==
  ASSUME GapInv, ReadPage
  PROVE  Fetched' /\ FetchHasNoGaps'
<1> USE DEF GapInv, StageInv, TypeInv, TypeOK, TelegramOK, FetchOK
<1>1. PICK p \in Pages :
        LET all == found \union Unprocessed(p)
            end == p = {} \/ Cardinality(all) >= MaxTotal \/ Cardinality(p) < PageSize IN
        /\ found' = all
        /\ top' = IF p = {} \/ top > 0 THEN top ELSE Max(p)
        /\ from' = IF p = {} THEN from ELSE Min(p)
        /\ tries' = IF end THEN tries ELSE 0
        /\ phase' = IF end THEN "buffer" ELSE "fetch"
        /\ cut' = (end /\ p # History)
  BY DEF ReadPage
<1>2. phase = "fetch" /\ UNCHANGED <<posted, chan, record, buffer>>
  BY DEF ReadPage, telegram, mongo
<1>3. posted \subseteq Messages /\ Messages \subseteq Nat \ {0}
  BY ConstantsAssumption DEF ConstantsAssumption
<1>4. /\ p \subseteq History /\ IsFiniteSet(p) /\ (p = {} => History = {})
      /\ \A m \in p, k \in History : k > m => k \in p
  BY DEF Pages
<1>5. History \subseteq posted \intersect Of(chan) /\ History \subseteq Nat \ {0}
  BY <1>3 DEF History
<1>6. \A m \in posted \intersect Of(chan) : m \in History \/ (from # 0 /\ from <= m)
  <2>1. \A m \in posted \intersect Of(chan) : m \in Nat /\ from \in Nat
    BY <1>3
  <2> QED
    BY <2>1 DEF History
<1>7. \A m \in p : record'[m] # "none" \/ m \in found'
  BY <1>1, <1>2 DEF Unprocessed
<1>8. \A m \in posted \intersect Of(chan) :
        from # 0 /\ from <= m /\ m <= top => record'[m] # "none" \/ m \in found'
  BY <1>1, <1>2 DEF Fetched
<1>9. CASE p = {}
  <2>1. top' = top /\ from' = from /\ phase' = "buffer"
    BY <1>1, <1>9
  <2>2. \A m \in posted \intersect Of(chan) : from # 0 /\ from <= m
    BY <1>4, <1>6, <1>9
  <2> QED
    BY <1>2, <1>8, <2>1, <2>2 DEF Fetched, FetchHasNoGaps, Of
<1>10. CASE p # {}
  <2>1. /\ Min(p) \in p /\ \A m \in p : Min(p) <= m
        /\ Max(p) \in p /\ \A m \in p : m <= Max(p)
    BY <1>4, <1>5, <1>10, LeastMember, GreatestMember
  <2>2. from' = Min(p) /\ top' = IF top > 0 THEN top ELSE Max(p)
    BY <1>1, <1>10
  <2>3. from' # 0 /\ top' # 0 /\ top' \in posted
    BY <1>2, <1>4, <1>5, <2>1, <2>2 DEF Fetched
  <2>4. \A m \in posted \intersect Of(chan) : m <= top' => m \in History \/ m <= top
    BY <1>2, <1>6, <2>2 DEF Fetched
  <2>5. \A m \in posted \intersect Of(chan) :
          from' <= m /\ m <= top' => record'[m] # "none" \/ m \in found'
    <3> SUFFICES ASSUME NEW m \in posted \intersect Of(chan), from' <= m, m <= top'
                 PROVE  record'[m] # "none" \/ m \in found'
      OBVIOUS
    <3>1. CASE m \in History
      <4>1. m \in p
        <5>1. m \in Nat /\ Min(p) \in Nat
          BY <1>4, <1>5, <2>1, <3>1
        <5>2. m = Min(p) \/ m > Min(p)
          BY <2>2, <5>1
        <5> QED
          BY <1>4, <2>1, <3>1, <5>2
      <4> QED
        BY <1>7, <4>1
    <3>2. CASE m \notin History
      BY <1>6, <1>8, <2>4, <3>2
    <3> QED
      BY <3>1, <3>2
  <2>6. Fetched'
    BY <1>2, <2>3, <2>5 DEF Fetched, Of
  <2>7. FetchHasNoGaps'
    <3> SUFFICES ASSUME phase' = "buffer", ~cut', NEW m \in posted \intersect Of(chan), m <= top'
                 PROVE  record'[m] # "none" \/ m \in found'
      BY <1>2 DEF FetchHasNoGaps, Of
    <3>1. p = History
      BY <1>1
    <3> QED
      BY <1>6, <1>7, <1>8, <2>4, <3>1
  <2> QED
    BY <2>6, <2>7
<1> QED
  BY <1>9, <1>10

LEMMA GapStep == ASSUME GapInv, [Next]_vars PROVE Fetched' /\ FetchHasNoGaps'
<1> USE DEF GapInv, StageInv, TypeInv, TypeOK, TelegramOK
<1>1. \A m \in posted \intersect Of(chan) : record[m] # "none" => record'[m] # "none"
  BY RecordStays
<1>2. posted \subseteq Messages /\ Messages \subseteq Nat \ {0}
  BY ConstantsAssumption DEF ConstantsAssumption
<1>3. CASE phase' \notin {"fetch", "buffer"}
  BY <1>3 DEF Fetched, FetchHasNoGaps
<1>4. CASE ReadPage
  BY <1>4, PageHasNoGaps
<1>5. CASE \E c \in Channels : Visit(c)
  BY <1>5 DEF Visit, Fetched, FetchHasNoGaps
<1>6. ASSUME NEW n \in Messages, Post(n) PROVE Fetched' /\ FetchHasNoGaps'
  <2>1. /\ posted' = posted \union {n} /\ \A k \in posted : k < n
        /\ UNCHANGED <<phase, chan, from, top, found, cut, record, buffer>>
    BY <1>6 DEF Post, mongo, starting, fetching
  <2>2. CASE phase \in {"fetch", "buffer"}
    <3>1. top \in Nat /\ n \in Nat \ {0} /\ ~(n <= top)
      BY <1>2, <2>1, <2>2 DEF Fetched, FetchOK
    <3> QED
      BY <2>1, <3>1 DEF Fetched, FetchHasNoGaps, Of
  <2>3. CASE phase \notin {"fetch", "buffer"}
    BY <2>1, <2>3 DEF Fetched, FetchHasNoGaps
  <2> QED
    BY <2>2, <2>3
<1>7. CASE Buffer
  <2>1. /\ phase = "buffer" /\ found' = found \ {Min(found)}
        /\ UNCHANGED <<posted, phase, chan, top, cut, record>>
    BY <1>7 DEF Buffer, telegram
  <2>2. \A m \in Messages : buffer[m] # "NONE" \/ m = Min(found) => buffer'[m] # "NONE"
    BY <1>7, LeastFound DEF Buffer, MongoOK
  <2> QED
    BY <1>2, <2>1, <2>2 DEF Fetched, FetchHasNoGaps, Of
<1>8. CASE UNCHANGED <<posted, phase, chan, from, top, found, cut, buffer>>
  BY <1>1, <1>8 DEF Fetched, FetchHasNoGaps, Of
<1> QED
  BY <1>3, <1>4, <1>5, <1>6, <1>7, <1>8, FetchFrame

(* However requests fail and are repeated, and whatever the other threads   *)
(* record meanwhile: a fetch that was not cut short has found every message *)
(* without a record.                                                        *)
THEOREM FetchIsComplete == Spec => []FetchHasNoGaps
<1>1. Init => Staged
  BY Zenon DEF Init, Staged, Threads
<1>2. Init => Fetched /\ FetchHasNoGaps
  BY DEF Init, Fetched, FetchHasNoGaps
<1>3. Init => GapInv
  BY <1>1, <1>2, TypeInit DEF GapInv, StageInv
<1>4. GapInv /\ [Next]_vars => GapInv'
  BY GapStep, StageStep, TypeStep, BusyStep, VisitingStep, HandyStep DEF GapInv, StageInv, TypeInv
<1>5. GapInv => FetchHasNoGaps
  BY DEF GapInv
<1> QED
  BY <1>3, <1>4, <1>5, PTL DEF Spec

-----------------------------------------------------------------------------
(* What is left PENDING *)

BootBusy == at["boot"] # "idle"

(* Where the work of the start-up thread can be, and of which channel.      *)
WorkPlaced ==
  /\ phase \in {"down", "detect", "refreshed", "ready"} => work = {}
  /\ phase \in {"fetch", "buffer", "replay"} =>
       /\ \A m \in work \union found : ChatOf[m] = chan
       /\ BootBusy => ChatOf[cur["boot"]] = chan

(* What is still to be handled is PENDING, each message once. *)
WorkPending ==
  /\ \A m \in work : buffer[m] = "PENDING"
  /\ BootBusy => buffer[cur["boot"]] = "PENDING" /\ cur["boot"] \notin work

(* And whatever is PENDING is still to be handled, or given up. *)
PendingKnown ==
  phase # "down" =>
    \A m \in Messages : buffer[m] = "PENDING" =>
      m \in work \/ (BootBusy /\ cur["boot"] = m) \/ ChatOf[m] \in aborted

Booked == WorkPlaced /\ WorkPending /\ PendingKnown

BufferInv == StageInv /\ Booked

(* The start-up thread keeps its message until it has marked it. *)
LEMMA BootKeeps ==
  ASSUME ThreadsOK, NEW t \in Threads, ThreadStep(t)
  PROVE  (at'["boot"] # "idle" <=> BootBusy) /\ cur'["boot"] = cur["boot"]
<1>1. CASE t # "boot"
  BY <1>1, ThreadMoves DEF BootBusy, Threads
<1>2. CASE t = "boot"
  <2>1. at["boot"] # "idle"
    BY <1>2, ThreadMoves DEF Threads
  <2>2. \E s \in {"save", "plugin", "match", "enqueue", "record", "done"} : Step("boot", s)
    BY <1>2 DEF ThreadStep, Filter, Save, Plugin, Match, Enqueue, Record, Drop, HandleFails, Return
  <2> QED
    BY <2>1, <2>2, Stepped DEF BootBusy, Threads
<1> QED
  BY <1>1, <1>2

(* Steps of the other threads and of the environment. *)
LEMMA BookedAround ==
  ASSUME BufferInv,
         UNCHANGED <<phase, work, found, chan, buffer, aborted>>,
         (at'["boot"] # "idle" <=> BootBusy), cur'["boot"] = cur["boot"]
  PROVE  Booked'
BY DEF BufferInv, Booked, WorkPlaced, WorkPending, PendingKnown, BootBusy

(* Nothing is left of a process that ended. *)
LEMMA BookedEnd == ASSUME ProcessEnds PROVE Booked'
BY DEF ProcessEnds, Booked, WorkPlaced, WorkPending, PendingKnown, BootBusy, Threads

(* A channel that is given up leaves its messages PENDING, and is listed. *)
LEMMA BookedAbort ==
  ASSUME BufferInv, AbortChannel, UNCHANGED buffer, at'["boot"] = "idle",
         phase \in {"fetch", "buffer", "replay"}
  PROVE  Booked'
BY DEF AbortChannel, BufferInv, Booked, WorkPlaced, WorkPending, PendingKnown, BootBusy

LEMMA BookedStep == ASSUME BufferInv, [Next]_vars PROVE Booked'
<1> USE DEF BufferInv, StageInv, TypeInv, TypeOK, Staged, Replay,
            vars, telegram, mongo, memory, threads, starting, fetching
<1>1. CASE \E t \in Threads : ThreadStep(t)
  BY <1>1, ThreadFrame, BootKeeps, BookedAround
<1>2. CASE (\E m \in Messages : Post(m) \/ Hear(m) \/ CloseAlbum(m) \/ AlbumFails(m)) \/ SaveAlbum
  <2>1. at'["boot"] = at["boot"] /\ cur'["boot"] = cur["boot"]
    BY <1>2 DEF Post, Hear, CloseAlbum, AlbumFails, SaveAlbum, Rest, ThreadsOK, Threads
  <2>2. UNCHANGED <<phase, work, found, chan, buffer, aborted>>
    BY <1>2 DEF Post, Hear, CloseAlbum, AlbumFails, SaveAlbum
  <2> QED
    BY <2>1, <2>2, BookedAround DEF BootBusy
<1>3. CASE RetryPage \/ UNCHANGED vars
  BY <1>3, BookedAround DEF RetryPage, BootBusy
<1>4. CASE Crash
  BY <1>4, BookedEnd DEF Crash
<1>5. CASE MarkThrows
  <2>1. CASE ProcessEnds
    BY <2>1, BookedEnd
  <2>2. CASE phase = "replay" /\ AbortChannel /\ Rest("boot")
    BY <1>5, <2>2, BookedAbort, Rested DEF MarkThrows, Threads
  <2> QED
    BY <1>5, <2>1, <2>2 DEF MarkThrows
<1>6. CASE FetchFails \/ BufferFails
  BY <1>6, BookedAbort DEF FetchFails, BufferFails
<1> USE DEF Booked, WorkPlaced, WorkPending, PendingKnown, BootBusy
<1>7. CASE Start
  BY <1>7 DEF Start, InState
<1>8. CASE Expire
  BY <1>8 DEF Expire
<1>9. CASE RetryFailed
  BY <1>9 DEF RetryFailed, InState, MongoOK
<1>10. CASE Detect \/ Refresh \/ Ready \/ Replayed
  BY <1>10 DEF Detect, Refresh, Ready, Replayed
<1>11. CASE \E c \in Channels : Visit(c)
  BY <1>11 DEF Visit
<1>12. CASE ReadPage
  <2>1. /\ found' \subseteq found \union Of(chan)
        /\ phase = "fetch" /\ phase' \in {"fetch", "buffer"}
        /\ UNCHANGED <<work, chan, buffer, aborted, at, cur>>
    BY <1>12 DEF ReadPage, Pages, History, Unprocessed
  <2> QED
    BY <2>1 DEF Of
<1>13. CASE Buffer
  <2>1. Min(found) \in found /\ Min(found) \in Messages
    BY <1>13, LeastFound DEF Buffer
  <2>2. ~BootBusy /\ phase = "buffer" /\ UNCHANGED <<phase, chan, aborted, at, cur>>
    BY <1>13 DEF Buffer
  <2> HIDE DEF BootBusy
  <2>3. WorkPlaced'
    BY <1>13, <2>1, <2>2 DEF Buffer, BootBusy
  <2>4. WorkPending'
    BY <1>13, <2>1, <2>2 DEF Buffer, BootBusy, MongoOK, StartOK
  <2>5. PendingKnown'
    BY <1>13, <2>1, <2>2 DEF Buffer, BootBusy, MongoOK
  <2> QED
    BY <2>3, <2>4, <2>5
<1>14. CASE Buffered
  BY <1>14 DEF Buffered
<1>15. ASSUME NEW m \in Messages, Take(m) PROVE Booked'
  <2>1. at'["boot"] = "filter" /\ cur'["boot"] = m
    BY <1>15 DEF Take, ThreadsOK, Threads
  <2> QED
    BY <1>15, <2>1 DEF Take
<1>16. CASE MarkFailed \/ MarkProcessed
  <2>1. PICK s \in {"FAILED", "PROCESSED"} : buffer' = [buffer EXCEPT ![cur["boot"]] = s]
    BY <1>16 DEF MarkFailed, MarkProcessed
  <2>2. BootBusy /\ Rest("boot") /\ UNCHANGED <<phase, work, found, chan, aborted>>
    BY <1>16 DEF MarkFailed, MarkProcessed
  <2>3. at'["boot"] = "idle"
    BY <2>2, Rested DEF Threads
  <2> QED
    BY <2>1, <2>2, <2>3 DEF MongoOK, StartOK
<1> QED
  BY <1>1, <1>2, <1>3, <1>4, <1>5, <1>6, <1>7, <1>8, <1>9, <1>10, <1>11, <1>12, <1>13,
     <1>14, <1>15, <1>16 DEF Next, BootStep, Threads

(* The invariant of the buffer, for the theorems that follow. *)
LEMMA BufferAlways == Spec => []BufferInv
<1>1. Init => Staged
  BY Zenon DEF Init, Staged, Threads
<1>2. Init => Booked
  BY DEF Init, Booked, WorkPlaced, WorkPending, PendingKnown, BootBusy, Threads
<1>3. Init => BufferInv
  BY <1>1, <1>2, TypeInit DEF BufferInv, StageInv
<1>4. BufferInv /\ [Next]_vars => BufferInv'
  BY BookedStep, StageStep, TypeStep, BusyStep, VisitingStep, HandyStep DEF BufferInv, StageInv, TypeInv
<1> QED
  BY <1>3, <1>4, PTL DEF Spec

(* After the start-up only a channel that was given up has messages in the  *)
(* state PENDING; they wait for the next start.                             *)
THEOREM PendingIsAborted == Spec => []PendingMeansAborted
<1>1. BufferInv => PendingMeansAborted
  BY DEF BufferInv, StageInv, Staged, Booked, WorkPlaced, PendingKnown, PendingMeansAborted,
         BootBusy, Replay
<1> QED
  BY <1>1, BufferAlways, PTL

-----------------------------------------------------------------------------
(* What is PROCESSED is accounted for *)

Handling == {"save", "plugin", "match", "enqueue", "record"}

(* Recorded, or lost for a known reason: nobody has to handle it any more. *)
Closed == handled \union lost

(* A thread has let the message through its filter and is not done with it. *)
InWork(m) == \E t \in Threads : at[t] \in Handling /\ m \in Held(t)

Known(m) == m \in Closed \union Elsewhere

(* The filter refuses a single message only when it is closed or in work:   *)
(* the thread that refuses it is never the last to hold it.                 *)
Marked == \A m \in (seen \union stored) \ Albums : m \in Closed \/ InWork(m)

(* So is what the start-up thread is about to mark as PROCESSED. *)
DoneKnown == at["boot"] = "done" => Known(cur["boot"])

ProcessedKnown == \A m \in Messages : buffer[m] = "PROCESSED" => Known(m)

Accounts == Marked /\ DoneKnown /\ ProcessedKnown

AccountInv == BufferInv /\ Accounts

(* Whatever counts as recorded has a document for its entity. *)
HandledRecorded == \A m \in handled : \E k \in PartsOf[m] : record[k] # "none"

LEMMA HandledStep ==
  ASSUME TypeInv, HandledRecorded, [Next]_vars
  PROVE  HandledRecorded'
<1> USE DEF TypeInv, TypeOK, HistoryOK
<1>1. \A m \in Messages : PartsOf[m] \subseteq Messages
  BY ConstantsAssumption DEF ConstantsAssumption
<1>2. \A m \in handled : \E k \in PartsOf[m] : record'[k] # "none"
  BY <1>1, RecordStays DEF HandledRecorded
<1>3. ASSUME NEW t \in Threads, ThreadStep(t) PROVE HandledRecorded'
  <2>1. CASE handled' = handled
    BY <1>2, <2>1 DEF HandledRecorded
  <2>2. CASE handled' # handled
    <3>1. PICK says \in {"error", "unmatched", "matched"} : Write(t, says)
      BY <1>3, <2>2 DEF ThreadStep, Filter, Save, Plugin, Match, Enqueue, Record, Drop,
                        HandleFails, history
    <3>2. at[t] # "idle" /\ cur[t] \in Messages /\ Held(t) \subseteq Messages
      BY <1>3, ThreadMoves, HeldTypes
    <3>3. \A m \in Held(t) : cur[t] \in PartsOf[m]
      <4> SUFFICES ASSUME NEW m \in Held(t) PROVE cur[t] \in PartsOf[m]
        OBVIOUS
      <4>1. m \in PartsOf[cur[t]]
        BY <3>2, ConstantsAssumption DEF ConstantsAssumption, Held, Handy
      <4>2. PartsOf[m] = PartsOf[cur[t]] /\ cur[t] \in PartsOf[cur[t]]
        BY <3>2, <4>1, ConstantsAssumption DEF ConstantsAssumption
      <4> QED
        BY <4>2
    <3>4. record'[cur[t]] # "none" /\ handled' = handled \union Held(t)
      BY <3>1, <3>2 DEF Write, MongoOK
    <3> QED
      BY <1>2, <3>3, <3>4 DEF HandledRecorded
  <2> QED
    BY <2>1, <2>2
<1>4. CASE UNCHANGED handled
  BY <1>2, <1>4 DEF HandledRecorded
<1> QED
  BY <1>3, <1>4, OnlyThreadsWrite

(* What a thread does to the memory of the filter and to what is closed. *)
LEMMA ThreadGrowth ==
  ASSUME ThreadsOK, NEW t \in Threads, ThreadStep(t)
  PROVE  /\ Closed \subseteq Closed' /\ open \subseteq open'
         /\ \/ seen' \union stored' \subseteq seen \union stored
            \/ /\ t # "timer" /\ at'[t] \in Handling /\ cur'[t] = cur[t]
               /\ seen' \union stored' \subseteq seen \union stored \union {cur[t]}
<1> USE DEF ThreadsOK, Step, Handling, mongo, memory, history, Closed, Write
<1>1. CASE Filter(t)
  BY <1>1 DEF Filter
<1>2. CASE Save(t)
  BY <1>2 DEF Save
<1>3. CASE Plugin(t) \/ Match(t) \/ Enqueue(t)
  BY <1>3 DEF Plugin, Match, Enqueue
<1>4. CASE Record(t) \/ Drop(t) \/ HandleFails(t)
  BY <1>4 DEF Record, Drop, HandleFails
<1> QED
  BY <1>1, <1>2, <1>3, <1>4 DEF ThreadStep

(* How a thread puts its messages down: it has closed them, or its filter   *)
(* has found a reason why another thread has, or will.                      *)
LEMMA PutDown ==
  ASSUME TypeInv, NEW t \in Threads, ThreadStep(t), at'[t] \notin Handling
  PROVE  \/ Held(t) \subseteq Closed'
         \/ /\ at[t] = "filter" /\ t # "timer"
            /\ \/ cur[t] \in Closed' \union open' \union hand
               \/ cur[t] \in (seen \union stored) \ Albums
<1> USE DEF TypeInv, TypeOK, ThreadsOK, MongoOK, Handling, Closed, Write
<1>1. cur[t] \in Messages
  BY ThreadMoves DEF Busy
<1>2. CASE Filter(t)
  <2>1. CASE ~Refused(cur[t])
    BY <1>2, <2>1 DEF Filter, Step
  <2>2. CASE Refused(cur[t]) /\ cur[t] \in Albums
    BY <1>2, <2>2 DEF Filter, Late
  <2>3. CASE Refused(cur[t]) /\ cur[t] \notin Albums
    <3>1. PartsOf[cur[t]] = {cur[t]}
      BY <1>1, <2>3, ConstantsAssumption DEF ConstantsAssumption
    <3> QED
      BY <1>2, <2>3, <3>1 DEF Filter, Refused
  <2> QED
    BY <2>1, <2>2, <2>3
<1>3. CASE Save(t)
  BY <1>3 DEF Save, Step
<1>4. CASE Plugin(t)
  BY <1>1, <1>4 DEF Plugin, Step
<1>5. CASE Match(t)
  BY <1>1, <1>5 DEF Match, Step
<1>6. CASE Enqueue(t)
  BY <1>6 DEF Enqueue, Step
<1>7. CASE Record(t) \/ HandleFails(t)
  BY <1>1, <1>7 DEF Record, HandleFails
<1>8. CASE Drop(t)
  BY <1>8 DEF Drop
<1> QED
  BY <1>2, <1>3, <1>4, <1>5, <1>6, <1>7, <1>8 DEF ThreadStep

(* What a thread holds it holds until it puts it down. *)
LEMMA HeldStays ==
  ASSUME TypeInv, NEW t \in Threads, ThreadStep(t), NEW u \in Threads,
         u # t \/ at'[u] # "idle"
  PROVE  Held(u)' = Held(u)
<1> USE DEF TypeInv, TypeOK
<1>1. cur'[u] = cur[u]
  BY ThreadMoves
<1>2. u = "timer" => hand' = hand
  BY HandByThread, Rested
<1> QED
  BY <1>1, <1>2 DEF Held

(* What is closed or in work stays so while a thread goes on. *)
LEMMA WorkStays ==
  ASSUME AccountInv, NEW t \in Threads, ThreadStep(t), NEW m, m \in Closed \/ InWork(m)
  PROVE  m \in Closed' \/ InWork(m)'
<1> USE DEF AccountInv, BufferInv, StageInv, TypeInv, TypeOK
<1>1. CASE m \in Closed
  BY <1>1, ThreadGrowth
<1>2. ASSUME NEW u \in Threads, at[u] \in Handling, m \in Held(u)
      PROVE  m \in Closed' \/ InWork(m)'
  <2>1. CASE u # t
    BY <1>2, <2>1, ThreadMoves, HeldStays DEF InWork
  <2>2. CASE u = t /\ at'[t] \in Handling
    <3>1. at'[t] # "idle"
      BY <2>2 DEF Handling
    <3> QED
      BY <1>2, <2>2, <3>1, HeldStays DEF InWork
  <2>3. CASE u = t /\ at'[t] \notin Handling
    BY <1>2, <2>3, PutDown DEF Handling
  <2> QED
    BY <2>1, <2>2, <2>3
<1> QED
  BY <1>1, <1>2 DEF InWork

(* What another thread has in work is held elsewhere. *)
LEMMA WorkElsewhere ==
  ASSUME TypeInv, NEW m, InWork(m), ~(at["boot"] \in Handling /\ cur["boot"] = m)
  PROVE  m \in Elsewhere
BY DEF InWork, Held, Handling, Elsewhere, Threads

(* What is known stays known, unless it is the start-up thread's own. *)
LEMMA KnownStays ==
  ASSUME AccountInv, NEW t \in Threads, ThreadStep(t), NEW m, Known(m),
         ~(at["boot"] \in Handling /\ cur["boot"] = m)
  PROVE  Known(m)'
<1> USE DEF AccountInv, BufferInv, StageInv, TypeInv, TypeOK
<1>1. CASE m \in Closed \/ m \in open
  BY <1>1, ThreadGrowth DEF Known, Elsewhere
<1>2. ASSUME m \in hand PROVE Known(m)'
  <2>1. CASE hand' = hand
    BY <1>2, <2>1 DEF Known, Elsewhere
  <2>2. CASE t = "timer" /\ Rest(t)
    <3>1. at'[t] \notin Handling
      BY <2>2, Rested DEF Handling
    <3>2. Held(t) \subseteq Closed'
      BY <2>2, <3>1, PutDown
    <3> QED
      BY <1>2, <2>2, <3>2 DEF Known, Held
  <2> QED
    BY <2>1, <2>2, HandByThread
<1>3. ASSUME at["live"] # "idle", cur["live"] = m PROVE Known(m)'
  <2>1. CASE at'["live"] # "idle"
    <3>1. cur'["live"] = m
      BY <1>3, <2>1, ThreadMoves DEF Threads
    <3> QED
      BY <2>1, <3>1 DEF Known, Elsewhere
  <2>2. CASE at'["live"] = "idle"
    <3>1. t = "live" /\ Held(t) = {m}
      BY <1>3, <2>2, ThreadMoves DEF Threads, Held
    <3>2. CASE m \in Closed' \/ m \in open'
      BY <3>2 DEF Known, Elsewhere
    <3>3. CASE m \in hand
      BY <1>2, <3>3
    <3>4. CASE at[t] = "filter" /\ m \in (seen \union stored) \ Albums
      <4>1. m \in Closed \/ InWork(m)
        BY <3>4 DEF Accounts, Marked
      <4>2. ASSUME NEW v \in Threads, at[v] \in Handling, m \in Held(v) PROVE Known(m)'
        <5>1. v = "timer"
          BY <3>1, <3>4, <4>2 DEF Handling, Threads, Held
        <5> QED
          BY <1>2, <4>2, <5>1 DEF Held
      <4> QED
        BY <1>1, <4>1, <4>2 DEF InWork
    <3> QED
      BY <1>3, <2>2, <3>1, <3>2, <3>3, <3>4, PutDown DEF Handling
  <2> QED
    BY <2>1, <2>2
<1> QED
  BY <1>1, <1>2, <1>3 DEF Known, Elsewhere

LEMMA AccountsByThread ==
  ASSUME AccountInv, NEW t \in Threads, ThreadStep(t)
  PROVE  Accounts'
<1> USE DEF AccountInv, BufferInv, StageInv, TypeInv, TypeOK, Accounts
<1>1. Marked'
  <2> SUFFICES ASSUME NEW m \in (seen' \union stored') \ Albums
               PROVE  m \in Closed' \/ InWork(m)'
    BY DEF Marked
  <2>1. CASE m \in seen \union stored
    BY <2>1, WorkStays DEF Marked
  <2>2. CASE m \notin seen \union stored
    <3>1. m = cur[t] /\ t # "timer" /\ at'[t] \in Handling /\ cur'[t] = cur[t]
      BY <2>2, ThreadGrowth
    <3>2. m \in Held(t)'
      BY <3>1 DEF Held
    <3> QED
      BY <3>1, <3>2 DEF InWork
  <2> QED
    BY <2>1, <2>2
<1>2. DoneKnown'
  <2> SUFFICES ASSUME at'["boot"] = "done" PROVE Known(cur["boot"])'
    BY BootKeeps DEF DoneKnown
  <2>1. cur'["boot"] = cur["boot"]
    BY BootKeeps
  <2>2. PICK m : m = cur["boot"]
    OBVIOUS
  <2>3. Known(m)'
    <3>1. CASE at["boot"] = "done"
      BY <2>2, <3>1, KnownStays DEF DoneKnown, Handling
    <3>2. CASE at["boot"] # "done"
      <4>1. t = "boot" /\ Held(t) = {m}
        BY <2>2, <3>2, ThreadMoves DEF Threads, Held
      <4>2. CASE m \in Closed' \/ m \in open'
        BY <4>2 DEF Known, Elsewhere
      <4>3. CASE at[t] = "filter" /\ m \in hand
        BY <4>1, <4>3, KnownStays DEF Known, Elsewhere, Handling
      <4>4. CASE at[t] = "filter" /\ m \in (seen \union stored) \ Albums
        <5>1. m \in Closed \/ InWork(m)
          BY <4>4 DEF Marked
        <5>2. Known(m)
          BY <4>1, <4>4, <5>1, WorkElsewhere DEF Known, Handling
        <5> QED
          BY <4>1, <4>4, <5>2, KnownStays DEF Handling
      <4> QED
        BY <2>2, <4>1, <4>2, <4>3, <4>4, PutDown DEF Handling
    <3> QED
      BY <3>1, <3>2
  <2> QED
    BY <2>1, <2>2, <2>3
<1>3. ProcessedKnown'
  <2> SUFFICES ASSUME NEW m \in Messages, buffer'[m] = "PROCESSED" PROVE Known(m)'
    BY DEF ProcessedKnown
  <2>1. buffer[m] = "PROCESSED"
    BY ThreadFrame
  <2>2. ~(at["boot"] \in Handling /\ cur["boot"] = m)
    BY <2>1 DEF Booked, WorkPending, BootBusy, Handling
  <2> QED
    BY <2>1, <2>2, KnownStays DEF ProcessedKnown
<1> QED
  BY <1>1, <1>2, <1>3

Worked == {m \in Messages : InWork(m)}

(* Steps that add a thread to those that work, let go of nothing that is    *)
(* not closed, and mark nothing.                                            *)
LEMMA AccountsGrow ==
  ASSUME AccountInv,
         Closed \subseteq Closed',
         Elsewhere \subseteq Elsewhere' \union Closed',
         Worked \subseteq Worked' \union Closed',
         seen' \union stored' \subseteq seen \union stored \union Albums,
         \A m \in Messages : buffer'[m] = "PROCESSED" => buffer[m] = "PROCESSED",
         at'["boot"] = "done" => at["boot"] = "done" /\ cur'["boot"] = cur["boot"]
  PROVE  Accounts'
<1> USE DEF AccountInv, BufferInv, StageInv, TypeInv, TypeOK, Accounts
<1>1. seen \union stored \subseteq Messages
  BY DEF FilterOK, MongoOK
<1>2. \A m : Known(m) => Known(m)'
  BY DEF Known
<1>3. \A m \in Messages : InWork(m) => m \in Closed' \/ InWork(m)'
  BY DEF Worked
<1>4. Marked'
  BY <1>1, <1>3 DEF Marked
<1>5. DoneKnown'
  <2> SUFFICES ASSUME at'["boot"] = "done" PROVE Known(cur["boot"])'
    BY DEF DoneKnown
  <2>1. PICK m : m = cur["boot"]
    OBVIOUS
  <2>2. Known(m)'
    BY <1>2, <2>1 DEF DoneKnown
  <2> QED
    BY <2>1, <2>2
<1>6. ProcessedKnown'
  BY <1>2 DEF ProcessedKnown
<1> QED
  BY <1>4, <1>5, <1>6

(* The end of the process counts as lost whatever was not recorded. *)
LEMMA AccountsEnd ==
  ASSUME AccountInv, ProcessEnds, UNCHANGED <<mongo, handled>>
  PROVE  Accounts'
<1>1. seen' = {} /\ stored' = stored /\ at'["boot"] = "idle"
  BY DEF ProcessEnds, mongo, Threads
<1>2. Closed \union stored \union Elsewhere \subseteq Closed' /\ buffer' = buffer
  BY DEF ProcessEnds, mongo, Closed
<1>3. Marked'
  BY <1>1, <1>2 DEF Marked
<1>4. DoneKnown'
  BY <1>1 DEF DoneKnown
<1>5. ProcessedKnown'
  BY <1>2 DEF ProcessedKnown, Known, AccountInv, Accounts
<1> QED
  BY <1>3, <1>4, <1>5 DEF Accounts

(* The start-up thread marks its message and puts it down. *)
LEMMA AccountsMarked ==
  ASSUME AccountInv, Rest("boot"), at["boot"] \in {"filter", "done"},
         UNCHANGED <<stored, seen, open, history>>,
         \A m \in Messages : buffer'[m] = "PROCESSED" =>
           buffer[m] = "PROCESSED" \/ (m = cur["boot"] /\ at["boot"] = "done")
  PROVE  Accounts'
<1> USE DEF AccountInv, BufferInv, StageInv, TypeInv, TypeOK, Accounts
<1>1. /\ at'["boot"] = "idle" /\ hand' = hand
      /\ \A t \in Threads \ {"boot"} : at'[t] = at[t] /\ cur'[t] = cur[t]
  BY Rested, OneThread DEF Threads, Rest
<1>2. \A m : InWork(m) => InWork(m)'
  BY <1>1 DEF InWork, Handling, Held
<1>3. Elsewhere' = Elsewhere /\ Closed' = Closed
  BY <1>1 DEF Elsewhere, Closed, history, Threads
<1>4. \A m : Known(m) => Known(m)'
  BY <1>3 DEF Known
<1>5. Marked'
  BY <1>2, <1>3 DEF Marked
<1>6. DoneKnown'
  BY <1>1 DEF DoneKnown
<1>7. ProcessedKnown'
  BY <1>4 DEF ProcessedKnown, DoneKnown
<1> QED
  BY <1>5, <1>6, <1>7

(* The steps of the timer that take an album: its parts go from hand to     *)
(* hand, or are lost.                                                       *)
LEMMA AccountsByTimer ==
  ASSUME AccountInv,
         (\E m \in Messages : CloseAlbum(m) \/ AlbumFails(m)) \/ SaveAlbum
  PROVE  Accounts'
<1> USE DEF AccountInv, BufferInv, StageInv, TypeInv, TypeOK
<1>1. ASSUME NEW m \in Messages, CloseAlbum(m) PROVE Accounts'
  <2>1. /\ at'["timer"] = "save" /\ at["timer"] = "idle"
        /\ \A t \in Threads \ {"timer"} : at'[t] = at[t] /\ cur'[t] = cur[t]
    BY <1>1 DEF CloseAlbum, TimerMayRun, ThreadsOK, Threads
  <2>2. /\ open' = open \ PartsOf[m] /\ hand' = open \intersect PartsOf[m] /\ hand = {}
        /\ seen' = seen \union PartsOf[m] /\ UNCHANGED <<mongo, history>>
    BY <1>1, <2>1 DEF CloseAlbum, Handy
  <2>3. PartsOf[m] \subseteq Albums
    <3>1. m \in Albums /\ \A k \in PartsOf[m] : k \in Messages /\ m \in PartsOf[k]
      BY <1>1, ConstantsAssumption DEF ConstantsAssumption, CloseAlbum, FilterOK
    <3> QED
      BY <3>1, ConstantsAssumption DEF ConstantsAssumption
  <2>4. Elsewhere \subseteq Elsewhere' \union Closed'
    BY <2>1, <2>2 DEF Elsewhere, Threads
  <2>5. Worked \subseteq Worked' \union Closed'
    BY <2>1, <2>2 DEF Worked, InWork, Held, Handling
  <2>6. Closed \subseteq Closed'
    BY <2>2 DEF Closed, history
  <2>7. seen' \union stored' \subseteq seen \union stored \union Albums /\ buffer' = buffer
    BY <2>2, <2>3 DEF mongo
  <2>8. at'["boot"] = at["boot"] /\ cur'["boot"] = cur["boot"]
    BY <2>1 DEF Threads
  <2> HIDE DEF AccountInv
  <2> QED
    BY <2>4, <2>5, <2>6, <2>7, <2>8, AccountsGrow
<1>2. ASSUME NEW m \in Messages, AlbumFails(m) PROVE Accounts'
  <2>1. /\ open' = open \ PartsOf[m] /\ lost' = lost \union (open \intersect PartsOf[m])
        /\ UNCHANGED <<mongo, seen, at, cur, hand, handled>>
    BY <1>2 DEF AlbumFails, threads
  <2>2. Closed \subseteq Closed' /\ Elsewhere \subseteq Elsewhere' \union Closed'
    BY <2>1 DEF Closed, Elsewhere
  <2>3. Worked \subseteq Worked' \union Closed'
    BY <2>1 DEF Worked, InWork, Held
  <2>4. UNCHANGED <<seen, stored, buffer, at, cur>>
    BY <2>1 DEF mongo
  <2> HIDE DEF AccountInv
  <2> QED
    BY <2>2, <2>3, <2>4, AccountsGrow
<1>3. ASSUME SaveAlbum PROVE Accounts'
  <2>1. PICK new \in Storable(hand), kept \in SUBSET hand :
          /\ stored' = stored \union new
          /\ lost' = lost \union (hand \ kept)
          /\ \/ kept = {} /\ Rest("timer")
             \/ /\ kept # {}
                /\ hand' = kept /\ cur' = [cur EXCEPT !["timer"] = Min(kept)]
                /\ at' = [at EXCEPT !["timer"] = "plugin"]
    BY <1>3 DEF SaveAlbum
  <2>2. hand \subseteq hand' \union lost'
    BY <2>1 DEF Rest
  <2>3. UNCHANGED <<seen, open, buffer, handled>> /\ at["timer"] = "save"
    BY <1>3 DEF SaveAlbum, memory
  <2>4. \A t \in Threads \ {"timer"} : at'[t] = at[t] /\ cur'[t] = cur[t]
    BY <2>1 DEF Rest, ThreadsOK
  <2>5. hand' # {} => at'["timer"] = "plugin"
    BY <2>1 DEF Rest, ThreadsOK, Threads
  <2>6. Closed \subseteq Closed' /\ Elsewhere \subseteq Elsewhere' \union Closed'
    BY <2>1, <2>2, <2>3, <2>4 DEF Closed, Elsewhere, Threads
  <2>7. Worked \subseteq Worked' \union Closed'
    <3> SUFFICES ASSUME NEW m \in Messages, NEW t \in Threads, at[t] \in Handling, m \in Held(t)
                 PROVE  m \in Closed' \/ InWork(m)'
      BY DEF Worked, InWork
    <3>1. CASE t # "timer"
      BY <2>4, <3>1 DEF InWork, Held
    <3>2. CASE t = "timer"
      <4>1. m \in Closed' \/ m \in hand'
        BY <2>2, <3>2 DEF Held, Closed
      <4> QED
        BY <2>5, <3>2, <4>1 DEF InWork, Held, Handling
    <3> QED
      BY <3>1, <3>2
  <2>8. new \subseteq Albums
    BY DEF Storable, ThreadsOK
  <2>9. seen' \union stored' \subseteq seen \union stored \union Albums
    BY <2>1, <2>3, <2>8
  <2>10. at'["boot"] = at["boot"] /\ cur'["boot"] = cur["boot"]
    BY <2>4 DEF Threads
  <2> HIDE DEF AccountInv
  <2> QED
    BY <2>3, <2>6, <2>7, <2>9, <2>10, AccountsGrow
<1> QED
  BY <1>1, <1>2, <1>3

(* The other steps let go of nothing. *)
LEMMA AccountsAround ==
  ASSUME AccountInv, UNCHANGED <<stored, seen, open, hand, history>>,
         \A t \in Threads : at[t] # "idle" => at'[t] = at[t] /\ cur'[t] = cur[t],
         \A m \in Messages : buffer'[m] = "PROCESSED" => buffer[m] = "PROCESSED",
         at'["boot"] = "done" => at["boot"] = "done"
  PROVE  Accounts'
<1>1. Closed' = Closed /\ Elsewhere \subseteq Elsewhere'
  BY DEF Closed, history, Elsewhere, Threads
<1>2. Worked \subseteq Worked'
  BY DEF Worked, InWork, Held, Handling
<1> QED
  BY <1>1, <1>2, AccountsGrow DEF Threads

LEMMA AccountsStep == ASSUME AccountInv, [Next]_vars PROVE Accounts'
<1> USE DEF vars, mongo, memory, threads
<1>1. CASE \E t \in Threads : ThreadStep(t)
  BY <1>1, AccountsByThread
<1>2. CASE Crash
  BY <1>2, AccountsEnd DEF Crash
<1>3. CASE MarkThrows
  <2>1. CASE ProcessEnds
    BY <1>3, <2>1, AccountsEnd DEF MarkThrows
  <2>2. CASE Rest("boot") /\ UNCHANGED <<memory, lost>>
    BY <1>3, <2>2, AccountsMarked DEF MarkThrows, history
  <2> QED
    BY <1>3, <2>1, <2>2 DEF MarkThrows
<1>4. CASE MarkFailed \/ MarkProcessed
  <2>1. PICK s \in {"FAILED", "PROCESSED"} :
          /\ buffer' = [buffer EXCEPT ![cur["boot"]] = s]
          /\ s = "PROCESSED" => at["boot"] = "done"
    BY <1>4 DEF MarkFailed, MarkProcessed
  <2>2. \A m \in Messages : buffer'[m] = "PROCESSED" =>
          buffer[m] = "PROCESSED" \/ (m = cur["boot"] /\ at["boot"] = "done")
    BY <2>1 DEF AccountInv, BufferInv, StageInv, TypeInv, TypeOK, MongoOK
  <2> QED
    BY <1>4, <2>2, AccountsMarked DEF MarkFailed, MarkProcessed
<1>5. CASE (\E m \in Messages : CloseAlbum(m) \/ AlbumFails(m)) \/ SaveAlbum
  BY <1>5, AccountsByTimer
<1>6. CASE \E m \in Messages : Hear(m) \/ Take(m)
  <2> USE DEF AccountInv, BufferInv, StageInv, TypeInv, TypeOK
  <2>1. UNCHANGED <<mongo, memory, hand, history>>
    BY <1>6 DEF Hear, Take
  <2>2. \A t \in Threads : at[t] # "idle" => at'[t] = at[t] /\ cur'[t] = cur[t]
    BY <1>6 DEF Hear, Take, ThreadsOK
  <2>3. PICK t \in Threads : at' = [at EXCEPT ![t] = "filter"]
    BY <1>6 DEF Hear, Take, Threads
  <2>4. at'["boot"] = "done" => at["boot"] = "done"
    BY <2>3 DEF ThreadsOK, Threads
  <2> HIDE DEF AccountInv
  <2> QED
    BY <2>1, <2>2, <2>4, AccountsAround
<1>7. CASE UNCHANGED <<mongo, seen, open, threads, history>>
  BY <1>7, AccountsAround
<1>8. CASE \E m \in Messages : Post(m)
  BY <1>7, <1>8 DEF Post
<1>9. CASE Start \/ Detect \/ Refresh \/ Ready \/ Replayed
  BY <1>7, <1>9 DEF Start, Detect, Refresh, Ready, Replayed
<1>10. CASE \E c \in Channels : Visit(c)
  BY <1>7, <1>10 DEF Visit
<1>11. CASE ReadPage \/ RetryPage \/ FetchFails \/ BufferFails \/ Buffered
  BY <1>7, <1>11 DEF ReadPage, RetryPage, FetchFails, BufferFails, Buffered
<1>12. CASE Expire \/ RetryFailed
  <2>1. \A m \in Messages : buffer'[m] = "PROCESSED" => buffer[m] = "PROCESSED"
    BY <1>12 DEF Expire, RetryFailed, MongoOK, AccountInv, BufferInv, StageInv,
                 TypeInv, TypeOK
  <2>2. UNCHANGED <<stored, history, seen, open, at, cur, hand>>
    BY <1>12 DEF Expire, RetryFailed
  <2> QED
    BY <2>1, <2>2, AccountsAround
<1>13. CASE Buffer
  <2>1. \A m \in Messages : buffer'[m] = "PROCESSED" => buffer[m] = "PROCESSED"
    BY <1>13, LeastFound DEF Buffer, MongoOK, AccountInv, BufferInv, StageInv,
                             TypeInv, TypeOK
  <2>2. UNCHANGED <<stored, history, seen, open, at, cur, hand>>
    BY <1>13 DEF Buffer
  <2> QED
    BY <2>1, <2>2, AccountsAround
<1>14. CASE UNCHANGED vars
  BY <1>7, <1>14
<1> QED
  BY <1>1, <1>2, <1>3, <1>4, <1>5, <1>6, <1>8, <1>9, <1>10, <1>11, <1>12, <1>13, <1>14
  DEF Next, BootStep, Threads

(* No interleaving of the replay with the live thread and the timer loses a *)
(* message whose buffer entry says PROCESSED: its entity has a document, if *)
(* only under the id of another part of its album, or it is in hand         *)
(* elsewhere, or it is among those that a crash, a failure, the empty       *)
(* plugin list or an album closed without it lost.                          *)
THEOREM ProcessedIsKept == Spec => []ProcessedIsAccountedFor
<1>1. Init => Accounts /\ HandledRecorded
  BY DEF Init, Accounts, Marked, DoneKnown, ProcessedKnown, HandledRecorded, Threads
<1>2. AccountInv /\ [Next]_vars => Accounts'
  BY AccountsStep
<1>3. BufferInv /\ Accounts /\ [Next]_vars => Accounts'
  BY <1>2 DEF AccountInv
<1>4. BufferInv /\ HandledRecorded /\ [Next]_vars => HandledRecorded'
  BY HandledStep DEF BufferInv, StageInv
<1>5. Accounts /\ HandledRecorded => ProcessedIsAccountedFor
  BY DEF Accounts, ProcessedKnown, Known, Closed, HandledRecorded,
         ProcessedIsAccountedFor, Recorded
<1> QED
  BY <1>1, <1>3, <1>4, <1>5, BufferAlways, PTL DEF Spec
=============================================================================
