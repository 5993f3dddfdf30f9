------------------------ MODULE ForwardQueue_proofs -------------------------
(***************************************************************************)
(* Theorems about ForwardQueue for every value of its constants: type      *)
(* correctness, the rate limit, that a FAILED document has spent its       *)
(* retries although every decision is taken on a copy of its retry count,  *)
(* and that the split of a tick never makes a request too large.           *)
(***************************************************************************)
EXTENDS ForwardQueue, SumFacts, SequenceTheorems

(* TypeOK by component, with what the control position says of the lists.  *)
StoreOK ==
  /\ status \in [Items -> Statuses]
  /\ retry \in [Items -> Nat]
  /\ inserted \in Seq(Items)
  /\ createTime \in [Items -> Nat]
  /\ clock \in Nat

ThreadOK ==
  /\ pc \in {"off", "idle", "scan", "forward", "each", "return", "stopped"}
  /\ todo \in Seq(Snapshot)
  /\ batch \in Seq(Snapshot)
  /\ total \in Nat
  /\ each \in Seq(Snapshot)
  /\ pc \in {"scan", "return"} => todo # <<>>
  /\ pc = "forward" => batch # <<>>
  /\ pc = "each" => each # <<>>
  /\ batch = <<>> => total = 0

LimiterOK == permits \in 0..RateLimit /\ windowSent \in Nat

ReqsOK ==
  /\ rstate \in [ReqIds -> {"free", "sent", "answered", "running", "failing"}]
  /\ rok \in [ReqIds -> BOOLEAN]
  /\ sent \in [ReqIds -> SUBSET Items]
  /\ captured \in [ReqIds -> Seq(Snapshot)]
  /\ alias \in [ReqIds -> BOOLEAN]
  /\ \A q \in ReqIds : rstate[q] = "failing" => captured[q] # <<>>

HistoryOK ==
  /\ delivered \in [Items -> 0..2]
  /\ whole \in SUBSET Items
  /\ tried \in SUBSET Items
  /\ overlapped \in BOOLEAN
  /\ faults \in 0..MaxFaults

TypeInv == StoreOK /\ ThreadOK /\ LimiterOK /\ ReqsOK /\ HistoryOK

(* The inductive form of the type invariant gives TypeOK. *)
LEMMA TypeInvImpliesTypeOK == TypeInv => TypeOK
BY DEF TypeInv, StoreOK, ThreadOK, LimiterOK, ReqsOK, HistoryOK, TypeOK

-----------------------------------------------------------------------------
(* Sequences of snapshots *)

(* What is left of a list, and what is taken from it. *)
LEMMA HeadTail ==
  ASSUME NEW S, NEW s \in Seq(S), s # <<>>
  PROVE  /\ Head(s) \in S
         /\ Head(s) = s[1]
         /\ Tail(s) \in Seq(S)
         /\ 1 \in DOMAIN s
         /\ \A k \in DOMAIN Tail(s) : k + 1 \in DOMAIN s /\ Tail(s)[k] = s[k + 1]
<1>1. Len(s) \in Nat /\ Len(s) # 0 /\ DOMAIN s = 1..Len(s)
  BY LenProperties, EmptySeq
<1>2. Head(s) \in S /\ Tail(s) \in Seq(S) /\ Len(Tail(s)) = Len(s) - 1
  BY HeadTailProperties
<1>3. DOMAIN Tail(s) = 1..Len(s) - 1
  BY <1>2, LenProperties
<1>4. \A k \in 1..Len(s) - 1 : Tail(s)[k] = s[k + 1]
  BY HeadTailProperties
<1> QED
  BY <1>1, <1>2, <1>3, <1>4, HeadTailProperties

(* The first snapshot of a list is a snapshot of a document. *)
LEMMA HeadSnapshot ==
  ASSUME NEW s \in Seq(Snapshot), s # <<>>
  PROVE  Head(s).item \in Items /\ Head(s).retry \in Nat
<1>1. Head(s) \in Snapshot
  BY HeadTail
<1> QED
  BY <1>1 DEF Snapshot

(* Appending adds one element and keeps the others. *)
LEMMA AppendOne ==
  ASSUME NEW S, NEW s \in Seq(S), NEW e \in S
  PROVE  /\ Append(s, e) \in Seq(S)
         /\ Append(s, e) # <<>>
         /\ \A k \in DOMAIN Append(s, e) :
              (k \in DOMAIN s /\ Append(s, e)[k] = s[k]) \/ Append(s, e)[k] = e
<1>1. /\ Append(s, e) \in Seq(S)
      /\ Len(Append(s, e)) = Len(s) + 1
      /\ \A k \in 1..Len(s) : Append(s, e)[k] = s[k]
      /\ Append(s, e)[Len(s) + 1] = e
  BY AppendProperties
<1>2. DOMAIN Append(s, e) = 1..Len(s) + 1 /\ DOMAIN s = 1..Len(s) /\ Len(s) \in Nat
  BY <1>1, LenProperties
<1> QED
  BY <1>1, <1>2, EmptySeq

(* Every element of a list of snapshots is one. *)
LEMMA Elements ==
  ASSUME NEW s \in Seq(Snapshot)
  PROVE  /\ \A k \in DOMAIN s : s[k] \in Snapshot /\ s[k].item \in Items
         /\ ItemsOf(s) \subseteq Items
<1>1. \A k \in DOMAIN s : s[k] \in Snapshot
  BY LenProperties, ElementOfSeq
<1> QED
  BY <1>1 DEF ItemsOf, Snapshot

-----------------------------------------------------------------------------
(* The operators the actions share *)

(* What the proofs use of the configuration. *)
LEMMA Constants ==
  /\ RateLimit \in Nat /\ RateLimit > 0
  /\ MaxRetry \in Nat /\ MaxFaults \in Nat
  /\ BatchSize \in Nat /\ MaxPerRequest \in Nat /\ MaxPerRequest > 0
  /\ SizeOf \in [Items -> Nat \ {0}]
BY ConstantsAssumption DEF ConstantsAssumption

(* A failure counts within its bound. *)
LEMMA FaultCounted ==
  ASSUME HistoryOK, faults < MaxFaults, faults' = faults + 1
  PROVE  faults' \in 0..MaxFaults
BY Constants DEF HistoryOK

(* What find(...) returns is a list of snapshots of inserted documents. *)
LEMMA ReadOK ==
  ASSUME StoreOK, NEW s \in GetPendingItems(BatchSize)
  PROVE  /\ s \in Seq(Snapshot)
         /\ s # <<>>
         /\ \A k \in DOMAIN s : s[k].retry = retry[s[k].item]
<1>0. PICK f \in UpTo(BatchSize) : s = Read(f)
  BY Zenon DEF GetPendingItems
<1>1. PICK n \in 1..BatchSize : f \in [1..n -> PendingAt]
  BY Zenon DEF UpTo
<1>2. \A k \in 1..n : inserted[f[k]] \in Items
  BY <1>1, LenProperties, ElementOfSeq DEF StoreOK, PendingAt
<1>3. /\ DOMAIN s = 1..n
      /\ \A k \in 1..n : s[k] = [item |-> inserted[f[k]], retry |-> retry[inserted[f[k]]]]
  BY <1>0, <1>1 DEF Read
<1>4. s \in [1..n -> Snapshot]
  BY <1>0, <1>1, <1>2, <1>3 DEF StoreOK, Snapshot, Read
<1>5. n \in Nat /\ n > 0
  BY <1>1, Constants
<1>6. s \in Seq(Snapshot) /\ Len(s) = n
  BY <1>4, <1>5, IsASeq, LenProperties
<1> QED
  BY <1>2, <1>3, <1>5, <1>6, EmptySeq

(* The end of a tick leaves an empty, idle thread. *)
LEMMA EndTickOK == ASSUME ThreadOK, EndTick PROVE ThreadOK'
BY EmptySeq DEF ThreadOK, EndTick

(* forwardBatch returns to the loop, or ends the tick. *)
LEMMA ReturnsOK == ASSUME ThreadOK, Returns PROVE ThreadOK'
<1>1. CASE todo = <<>>
  BY <1>1, EndTickOK DEF Returns
<1>2. CASE todo # <<>>
  BY <1>2, EmptySeq DEF Returns, ThreadOK
<1> QED
  BY <1>1, <1>2

(* The one-by-one path goes on with a shorter list. *)
LEMMA EachAdvanceOK ==
  ASSUME ThreadOK, HistoryOK, EachAdvance, pc = "each"
  PROVE  ThreadOK' /\ tried' \in SUBSET Items
<1>1. Head(each) \in Snapshot /\ Tail(each) \in Seq(Snapshot)
  BY HeadTail DEF ThreadOK
<1>2. tried' \in SUBSET Items
  BY <1>1 DEF EachAdvance, HistoryOK, Snapshot
<1>3. CASE Tail(each) = <<>>
  BY <1>2, <1>3, ReturnsOK DEF EachAdvance
<1>4. CASE Tail(each) # <<>>
  BY <1>1, <1>2, <1>4 DEF EachAdvance, ThreadOK
<1> QED
  BY <1>3, <1>4

(* Replacing the list's content keeps the requests well formed. *)
LEMMA ReplaceBatchOK ==
  ASSUME ReqsOK, NEW new \in Seq(Snapshot), ReplaceBatch(new), UNCHANGED sent
  PROVE  ReqsOK'
<1>1. ASSUME NEW q \in ReqIds
      PROVE  /\ captured'[q] \in Seq(Snapshot)
             /\ rstate'[q] \in {"free", "sent", "answered", "running", "failing"}
             /\ rstate'[q] = "failing" => captured'[q] # <<>>
  <2>1. rstate'[q] \in {"free", "sent", "answered", "running", "failing"}
    BY DEF ReqsOK, ReplaceBatch
  <2>2. rstate'[q] = "failing" => rstate[q] = "failing"
    BY DEF ReqsOK, ReplaceBatch
  <2>3. CASE ~alias[q]
    <3>1. captured'[q] = captured[q]
      BY <2>3 DEF ReqsOK, ReplaceBatch
    <3> QED
      BY <2>1, <2>2, <3>1 DEF ReqsOK
  <2>4. CASE alias[q] /\ rstate[q] \in {"sent", "answered"}
    <3>1. captured'[q] = new
      BY <2>4 DEF ReqsOK, ReplaceBatch
    <3> QED
      BY <2>1, <2>2, <2>4, <3>1
  <2>5. CASE alias[q] /\ rstate[q] = "failing"
    <3>1. captured'[q] = <<Head(captured[q])>>
      BY <2>5 DEF ReqsOK, ReplaceBatch
    <3>2. Head(captured[q]) \in Snapshot
      BY <2>5, HeadTail DEF ReqsOK
    <3> QED
      BY <2>1, <3>1, <3>2
  <2>6. CASE alias[q] /\ rstate[q] \in {"free", "running"}
    <3>1. captured'[q] = <<>>
      BY <2>6 DEF ReqsOK, ReplaceBatch
    <3> QED
      BY <2>1, <2>2, <2>6, <3>1, EmptySeq
  <2> QED
    BY <2>3, <2>4, <2>5, <2>6 DEF ReqsOK
<1>2. captured' \in [ReqIds -> Seq(Snapshot)]
  BY <1>1 DEF ReplaceBatch
<1>3. rstate' \in [ReqIds -> {"free", "sent", "answered", "running", "failing"}]
  BY <1>1 DEF ReplaceBatch
<1>4. alias' \in [ReqIds -> BOOLEAN] /\ rok' \in [ReqIds -> BOOLEAN]
  BY DEF ReplaceBatch
<1> QED
  BY <1>1, <1>2, <1>3, <1>4 DEF ReqsOK

(* A free request becomes a sent one, for a permit. *)
LEMMA SendOK ==
  ASSUME ReqsOK, LimiterOK, permits > 0, Free # {}, NEW snaps \in Seq(Snapshot),
         NEW shared \in BOOLEAN, Send(NextFree, snaps, shared)
  PROVE  ReqsOK' /\ LimiterOK'
<1>1. ItemsOf(snaps) \in SUBSET Items
  BY Elements
<1>2. LimiterOK'
  BY Constants DEF Send, LimiterOK
<1>3. ReqsOK'
  BY <1>1 DEF Send, ReqsOK
<1> QED
  BY <1>2, <1>3

(* handleForwardError keeps statuses and retry counts in their types. *)
LEMMA FailAllOK ==
  ASSUME StoreOK, NEW snaps \in Seq(Snapshot), FailAll(snaps) PROVE StoreOK'
BY DEF StoreOK, FailAll, Statuses

(* Executing requests keeps the counter in its range and the history typed. *)
LEMMA DeliverOK ==
  ASSUME HistoryOK, ReqsOK, NEW Q \in SUBSET ReqIds, Deliver(Q)
  PROVE  delivered' \in [Items -> 0..2] /\ whole' \in SUBSET Items
<1>1. \A i \in Items : Cardinality({q \in Q : i \in sent[q]}) \in Nat
  <2>1. IsFiniteSet(ReqIds)
    <3>1. MaxInFlight \in Nat
      BY ConstantsAssumption DEF ConstantsAssumption
    <3> QED
      BY <3>1, FS_Interval DEF ReqIds
  <2> QED
    BY <2>1, FS_Subset, FS_CardinalityType
<1>2. \A i \in Items : delivered[i] \in Nat
  BY DEF HistoryOK
<1>3. delivered' \in [Items -> 0..2]
  BY <1>1, <1>2 DEF Deliver
<1>4. whole' \in SUBSET Items
  <2>1. UNION {sent[q] : q \in Q} \subseteq Items
    BY DEF ReqsOK
  <2> QED
    BY <2>1 DEF Deliver, HistoryOK
<1> QED
  BY <1>3, <1>4

(* The callback's step from one document to the next. *)
LEMMA AdvanceOK ==
  ASSUME ReqsOK, NEW q \in ReqIds, captured[q] # <<>>, Advance(q) PROVE ReqsOK'
<1>1. Tail(captured[q]) \in Seq(Snapshot)
  BY HeadTail DEF ReqsOK
<1> QED
  BY <1>1 DEF Advance, ReqsOK


-----------------------------------------------------------------------------
(* Type correctness *)

(* Every step keeps the typing of all variables. *)
LEMMA TypeStep == TypeInv /\ [Next]_vars => TypeInv'
<1> SUFFICES ASSUME TypeInv, [Next]_vars PROVE TypeInv'
  OBVIOUS
<1> USE DEF TypeInv
<1>s. UNCHANGED store => StoreOK'
  BY DEF store, StoreOK
<1>t. UNCHANGED thread => ThreadOK'
  BY DEF thread, ThreadOK
<1>l. UNCHANGED limiter => LimiterOK'
  BY DEF limiter, LimiterOK
<1>p. permits > 0 /\ permits' = permits - 1 /\ UNCHANGED windowSent => LimiterOK'
  BY Constants DEF LimiterOK
<1>r. UNCHANGED reqs => ReqsOK'
  BY DEF reqs, ReqsOK
<1>h. UNCHANGED history => HistoryOK'
  BY DEF history, HistoryOK
<1>y. tried' \in SUBSET Items /\ UNCHANGED <<delivered, whole, overlapped, faults>> => HistoryOK'
  BY DEF HistoryOK
<1>f. faults < MaxFaults /\ faults' = faults + 1 /\ tried' \in SUBSET Items
        /\ UNCHANGED <<delivered, whole, overlapped>> => HistoryOK'
  BY FaultCounted DEF HistoryOK
<1>b. tried \union ItemsOf(batch) \in SUBSET Items
  BY Elements DEF ThreadOK, HistoryOK
<1>1. ASSUME NEW i \in Items, Stamp(i) \/ Insert(i) PROVE TypeInv'
  <2>1. CASE Stamp(i)
    <3>1. clock' \in Nat
      BY <2>1, ConstantsAssumption DEF ConstantsAssumption, Stamp, StoreOK
    <3>2. StoreOK'
      BY <2>1, <3>1 DEF Stamp, StoreOK
    <3> QED
      BY <2>1, <3>2, <1>t, <1>l, <1>r, <1>h DEF Stamp
  <2>2. CASE Insert(i)
    <3>1. StoreOK'
      BY <2>2, AppendOne DEF Insert, StoreOK, Statuses
    <3> QED
      BY <2>2, <3>1, <1>t, <1>l, <1>r, <1>h DEF Insert
  <2> QED
    BY <1>1, <2>1, <2>2
<1>2. CASE Start
  <2>1. ThreadOK'
    BY <1>2 DEF Start, ThreadOK
  <2> QED
    BY <1>2, <2>1, <1>s, <1>l, <1>r, <1>h DEF Start
<1>3. CASE Stop
  <2>1. ThreadOK'
    BY <1>3 DEF Stop, ThreadOK
  <2>2. HistoryOK'
    BY <1>3, FaultCounted DEF Stop, HistoryOK
  <2> QED
    BY <1>3, <2>1, <2>2, <1>s, <1>l, <1>r DEF Stop
<1>4. CASE Tick
  <2>1. ThreadOK'
    BY <1>4, ReadOK DEF Tick, ThreadOK
  <2>2. ReqsOK' /\ HistoryOK'
    BY <1>4 DEF Tick, ReqsOK, HistoryOK
  <2> QED
    BY <1>4, <2>1, <2>2, <1>s, <1>l DEF Tick
<1>5. CASE ScanAdd
  <2>1. /\ Head(todo) \in Snapshot /\ Head(todo).item \in Items
        /\ Tail(todo) \in Seq(Snapshot)
    BY <1>5, HeadTail, HeadSnapshot DEF ScanAdd, ThreadOK
  <2>2. Append(batch, Head(todo)) \in Seq(Snapshot) /\ Append(batch, Head(todo)) # <<>>
    BY <2>1, AppendOne DEF ThreadOK
  <2>3. ReqsOK'
    BY <1>5, <2>2, ReplaceBatchOK DEF ScanAdd
  <2>4. batch' = Append(batch, Head(todo))
    BY <1>5 DEF ScanAdd, ReplaceBatch
  <2>5. total' \in Nat
    BY <1>5, <2>1, Constants DEF ScanAdd, ThreadOK
  <2>6. ThreadOK'
    BY <1>5, <2>1, <2>2, <2>4, <2>5 DEF ScanAdd, ThreadOK
  <2> QED
    BY <1>5, <2>3, <2>6, <1>s, <1>l, <1>h DEF ScanAdd
<1>6. CASE ScanFlush
  <2>1. ThreadOK'
    BY <1>6 DEF ScanFlush, ThreadOK
  <2> QED
    BY <1>6, <2>1, <1>s, <1>l, <1>r, <1>h DEF ScanFlush
<1>7. CASE ScanOversize
  <2>1. Head(todo).item \in Items /\ Tail(todo) \in Seq(Snapshot)
    BY <1>7, HeadTail, HeadSnapshot DEF ScanOversize, ThreadOK
  <2>2. ThreadOK' /\ StoreOK'
    BY <1>7, <2>1 DEF ScanOversize, ThreadOK, StoreOK, Statuses
  <2>3. HistoryOK'
    BY <1>7, <2>1 DEF ScanOversize, HistoryOK
  <2> QED
    BY <1>7, <2>2, <2>3, <1>l, <1>r DEF ScanOversize
<1>8. CASE BatchRefused
  BY <1>8, EndTickOK, <1>s, <1>l, <1>r, <1>h DEF BatchRefused
<1>9. CASE BatchMixed
  <2>1. ThreadOK'
    BY <1>9 DEF BatchMixed, ThreadOK
  <2> QED
    BY <1>9, <2>1, <1>s, <1>p, <1>r, <1>h DEF BatchMixed
<1>11. CASE BatchSend
  <2>1. ReqsOK' /\ LimiterOK'
    BY <1>11, SendOK DEF BatchSend, ThreadOK
  <2> QED
    BY <1>11, <2>1, ReturnsOK, <1>b, <1>y, <1>s DEF BatchSend
<1>12. CASE BatchThrows
  <2>1. StoreOK'
    BY <1>12, FailAllOK DEF BatchThrows, ThreadOK
  <2> QED
    BY <1>12, <2>1, ReturnsOK, <1>b, <1>f, <1>p, <1>r DEF BatchThrows
<1>13. CASE EachRefused
  BY <1>13, EndTickOK, <1>s, <1>l, <1>r, <1>h DEF EachRefused
<1>15. CASE EachSend
  <2>1. <<Head(each)>> \in Seq(Snapshot)
    BY <1>15, HeadTail DEF EachSend, ThreadOK
  <2>2. ReqsOK' /\ LimiterOK'
    BY <1>15, <2>1, SendOK DEF EachSend
  <2> QED
    BY <1>15, <2>2, EachAdvanceOK, <1>y, <1>s DEF EachSend
<1>16. CASE EachThrows
  <2>1. <<Head(each)>> \in Seq(Snapshot)
    BY <1>16, HeadTail DEF EachThrows, ThreadOK
  <2>2. StoreOK'
    BY <1>16, <2>1, FailAllOK DEF EachThrows
  <2> QED
    BY <1>16, <2>2, EachAdvanceOK, <1>f, <1>p, <1>r DEF EachThrows
<1>17. CASE ClearBatch
  <2>1. ReqsOK' /\ batch' = <<>>
    BY <1>17, EmptySeq, ReplaceBatchOK DEF ClearBatch, ReplaceBatch
  <2>2. ThreadOK'
    BY <1>17, <2>1, EmptySeq DEF ClearBatch, ThreadOK
  <2> QED
    BY <1>17, <2>1, <2>2, <1>s, <1>l, <1>h DEF ClearBatch
<1>18. ASSUME NEW q \in ReqIds, Answer(q) PROVE TypeInv'
  <2>1. PICK ok \in BOOLEAN : rok' = [rok EXCEPT ![q] = ok] /\ Deliver(IF ok THEN {q} ELSE {})
    BY <1>18 DEF Answer
  <2>2. delivered' \in [Items -> 0..2] /\ whole' \in SUBSET Items
    BY <2>1, DeliverOK
  <2>3. HistoryOK'
    BY <1>18, <2>2 DEF Answer, HistoryOK
  <2>4. ReqsOK'
    BY <1>18, <2>1 DEF Answer, ReqsOK
  <2> QED
    BY <1>18, <2>3, <2>4, <1>s, <1>t, <1>l DEF Answer
<1>19. ASSUME NEW q \in ReqIds, CallbackEmpty(q) PROVE TypeInv'
  <2>1. ReqsOK'
    BY <1>19 DEF CallbackEmpty, ReqsOK
  <2> QED
    BY <1>19, <2>1, <1>s, <1>t, <1>l, <1>h DEF CallbackEmpty
<1>20. ASSUME NEW q \in ReqIds, HandleSuccess(q) PROVE TypeInv'
  <2>1. StoreOK'
    BY <1>20 DEF HandleSuccess, WriteSuccess, StoreOK, Statuses
  <2>2. ReqsOK'
    BY <1>20, AdvanceOK DEF HandleSuccess, WriteSuccess
  <2> QED
    BY <1>20, <2>1, <2>2, <1>t, <1>l, <1>h DEF HandleSuccess, WriteSuccess
<1>21. ASSUME NEW q \in ReqIds, HandleError(q) PROVE TypeInv'
  <2>1. StoreOK'
    <3>1. Head(captured[q]).item \in Items
      BY <1>21, HeadSnapshot DEF HandleError, CountError, ReqsOK
    <3>2. retry' = [retry EXCEPT ![Head(captured[q]).item] = @ + 1]
      BY <1>21 DEF HandleError, CountError
    <3>3. retry' \in [Items -> Nat]
      BY <3>1, <3>2 DEF StoreOK
    <3> QED
      BY <1>21, <3>3 DEF HandleError, CountError, StoreOK
  <2>2. ReqsOK'
    <3>1. CASE Head(captured[q]).retry + 1 >= MaxRetry
      BY <1>21, <3>1 DEF HandleError, CountError, ReqsOK
    <3>2. CASE ~(Head(captured[q]).retry + 1 >= MaxRetry)
      BY <1>21, <3>2, AdvanceOK DEF HandleError, CountError
    <3> QED
      BY <3>1, <3>2
  <2> QED
    BY <1>21, <2>1, <2>2, <1>t, <1>l, <1>h DEF HandleError, CountError
<1>22. ASSUME NEW q \in ReqIds, HandleExhausted(q) PROVE TypeInv'
  <2>1. StoreOK'
    BY <1>22 DEF HandleExhausted, StoreOK, Statuses
  <2>2. ReqsOK'
    BY <1>22, AdvanceOK DEF HandleExhausted, ReqsOK
  <2> QED
    BY <1>22, <2>1, <2>2, <1>t, <1>l, <1>h DEF HandleExhausted
<1>23. ASSUME NEW q \in ReqIds, WriteFails(q) PROVE TypeInv'
  <2>1. ReqsOK'
    BY <1>23, AdvanceOK DEF WriteFails
  <2>2. HistoryOK'
    BY <1>23, FaultCounted DEF WriteFails, HistoryOK
  <2> QED
    BY <1>23, <2>1, <2>2, <1>s, <1>t, <1>l DEF WriteFails
<1>24. CASE RefreshPermits
  <2>1. LimiterOK'
    BY <1>24, Constants DEF RefreshPermits, LimiterOK
  <2> QED
    BY <1>24, <2>1, <1>s, <1>t, <1>r, <1>h DEF RefreshPermits
<1>25. CASE Crash \/ Exit
  <2>1. ProcessEnds
    BY <1>25 DEF Crash, Exit
  <2>2. delivered' \in [Items -> 0..2] /\ whole' \in SUBSET Items
    <3>1. PICK Q \in SUBSET {q \in ReqIds : rstate[q] = "sent"} : Deliver(Q)
      BY <2>1 DEF ProcessEnds
    <3> QED
      BY <3>1, DeliverOK
  <2>3. faults' \in 0..MaxFaults
    BY <1>25, FaultCounted DEF Crash, Exit, HistoryOK
  <2>4. HistoryOK'
    BY <2>1, <2>2, <2>3 DEF ProcessEnds, HistoryOK
  <2>5. ThreadOK'
    BY <2>1, EmptySeq DEF ProcessEnds, ThreadOK
  <2>6. LimiterOK'
    BY <2>1, Constants DEF ProcessEnds, LimiterOK
  <2>7. ReqsOK'
    BY <2>1, EmptySeq DEF ProcessEnds, ReqsOK
  <2>8. StoreOK'
    BY <2>1 DEF ProcessEnds, StoreOK
  <2> QED
    BY <2>4, <2>5, <2>6, <2>7, <2>8
<1>26. CASE UNCHANGED vars
  BY <1>26, <1>s, <1>t, <1>l, <1>r, <1>h DEF vars
<1> QED
  BY <1>1, <1>2, <1>3, <1>4, <1>5, <1>6, <1>7, <1>8, <1>9, <1>11, <1>12, <1>13,
     <1>15, <1>16, <1>17, <1>18, <1>19, <1>20, <1>21, <1>22, <1>23, <1>24, <1>25, <1>26
     DEF Next, SchedulerStep, Callback

(* The inductive type invariant holds in every reachable state. *)
LEMMA TypeCorrect == Spec => []TypeInv
<1>1. Init => TypeInv
  <2> SUFFICES ASSUME Init PROVE TypeInv
    OBVIOUS
  <2>1. StoreOK /\ ThreadOK
    BY EmptySeq DEF Init, StoreOK, ThreadOK, Statuses
  <2>2. LimiterOK
    BY Constants DEF Init, LimiterOK
  <2>3. ReqsOK
    BY EmptySeq DEF Init, ReqsOK
  <2>4. HistoryOK
    <3>1. 0 \in 0..MaxFaults
      BY Constants
    <3>2. tried \in SUBSET Items /\ overlapped \in BOOLEAN /\ faults = 0
      BY DEF Init
    <3>3. delivered \in [Items -> 0..2] /\ whole \in SUBSET Items
      BY DEF Init
    <3> QED
      BY <3>1, <3>2, <3>3 DEF HistoryOK
  <2> QED
    BY <2>1, <2>2, <2>3, <2>4 DEF Init, TypeInv
<1> QED
  BY <1>1, TypeStep, PTL DEF Spec

(* Every variable keeps its type. *)
THEOREM TypesAreRight == Spec => []TypeOK
BY TypeCorrect, TypeInvImpliesTypeOK, PTL


-----------------------------------------------------------------------------
(* The rate limit *)

(* No step sends more than the permits it takes. *)
LEMMA RateStep == TypeInv /\ RateRespected /\ [Next]_vars => RateRespected'
<1> SUFFICES ASSUME TypeInv, RateRespected, [Next]_vars PROVE RateRespected'
  OBVIOUS
<1>t. permits \in Nat /\ windowSent \in Nat /\ RateLimit \in Nat
  BY Constants DEF TypeInv, LimiterOK
<1>u. UNCHANGED limiter => RateRespected'
  BY DEF limiter, RateRespected
<1>s. permits' = permits - 1 /\ windowSent' = windowSent + 1 => RateRespected'
  BY <1>t DEF RateRespected
<1>w. permits' = permits - 1 /\ UNCHANGED windowSent => RateRespected'
  BY <1>t DEF RateRespected
<1>n. permits' = RateLimit /\ windowSent' = 0 => RateRespected'
  BY <1>t DEF RateRespected
<1>1. ASSUME NEW i \in Items, Stamp(i) \/ Insert(i) PROVE RateRespected'
  BY <1>1, <1>u DEF Stamp, Insert
<1>2. CASE Start \/ Stop \/ Tick \/ ScanAdd \/ ScanFlush \/ ScanOversize \/ ClearBatch
  BY <1>2, <1>u DEF Start, Stop, Tick, ScanAdd, ScanFlush, ScanOversize, ClearBatch
<1>3. CASE BatchRefused \/ EachRefused
  BY <1>3, <1>u DEF BatchRefused, EachRefused
<1>4. CASE BatchMixed \/ BatchThrows \/ EachThrows
  BY <1>4, <1>w DEF BatchMixed, BatchThrows, EachThrows
<1>5. CASE BatchSend \/ EachSend
  BY <1>5, <1>s DEF BatchSend, EachSend, Send
<1>6. ASSUME NEW q \in ReqIds, Answer(q) \/ Callback(q) \/ WriteFails(q) PROVE RateRespected'
  BY <1>6, <1>u DEF Answer, Callback, CallbackEmpty, HandleSuccess, WriteSuccess, HandleError,
     CountError, HandleExhausted, WriteFails
<1>7. CASE RefreshPermits \/ Crash \/ Exit
  BY <1>7, <1>n DEF RefreshPermits, Crash, Exit, ProcessEnds
<1>8. CASE UNCHANGED vars
  BY <1>8, <1>u DEF vars
<1> QED
  BY <1>1, <1>2, <1>3, <1>4, <1>5, <1>6, <1>7, <1>8 DEF Next, SchedulerStep

(* In one period of the limiter at most rate-limit-per-minute requests      *)
(* leave, over batches, single forwards, refusals and failures.             *)
THEOREM RateIsRespected == Spec => []RateRespected
<1>1. Init => RateRespected
  BY Constants DEF Init, RateRespected
<1> QED
  BY <1>1, TypeCorrect, RateStep, PTL DEF Spec

-----------------------------------------------------------------------------
(* FAILED means exhausted *)

(* No copy of a document is ahead of the retry counts r. *)
Behind(s, r) == \A k \in DOMAIN s : s[k].retry <= r[s[k].item]

CopiesBehind ==
  /\ Behind(todo, retry) /\ Behind(batch, retry) /\ Behind(each, retry)
  /\ \A q \in ReqIds : Behind(captured[q], retry)

(* Between its two writes, the error handler's document has no retry left. *)
FailingExhausted ==
  \A q \in ReqIds : rstate[q] = "failing" => retry[Head(captured[q]).item] >= MaxRetry

FailedInv == CopiesBehind /\ FailingExhausted /\ FailedMeansExhausted

(* Retry counts only grow, so what was behind stays behind. *)
RetryGrows == \A i \in Items : retry[i] <= retry'[i]

(* What was behind the retry counts is behind the larger ones. *)
LEMMA BehindStays ==
  ASSUME NEW s \in Seq(Snapshot), Behind(s, retry), StoreOK, StoreOK', RetryGrows
  PROVE  Behind(s, retry')
<1> SUFFICES ASSUME NEW k \in DOMAIN s PROVE s[k].retry <= retry'[s[k].item]
  BY DEF Behind
<1>1. s[k].item \in Items /\ s[k].retry \in Nat
  BY Elements DEF Snapshot
<1>2. retry[s[k].item] <= retry'[s[k].item] /\ retry[s[k].item] \in Nat /\ retry'[s[k].item] \in Nat
  BY <1>1 DEF RetryGrows, StoreOK
<1>3. s[k].retry <= retry[s[k].item]
  BY DEF Behind
<1> QED
  BY <1>1, <1>2, <1>3

(* No step, a crash included, lowers a retryCount. *)
LEMMA RetryNeverFalls == TypeInv /\ [Next]_vars => RetryGrows
<1> SUFFICES ASSUME TypeInv, [Next]_vars PROVE RetryGrows
  OBVIOUS
<1>t. retry \in [Items -> Nat]
  BY DEF TypeInv, StoreOK
<1>u. UNCHANGED retry => RetryGrows
  BY <1>t DEF RetryGrows
<1>1. ASSUME NEW i \in Items, Stamp(i) \/ Insert(i) PROVE RetryGrows
  BY <1>1, <1>u DEF Stamp, Insert
<1>2. CASE BatchThrows \/ EachThrows
  BY <1>2, <1>t DEF BatchThrows, EachThrows, FailAll, RetryGrows
<1>3. ASSUME NEW q \in ReqIds, HandleError(q) PROVE RetryGrows
  BY <1>3, <1>t DEF HandleError, CountError, RetryGrows
<1>4. ASSUME NEW q \in ReqIds,
             Answer(q) \/ CallbackEmpty(q) \/ HandleSuccess(q) \/ HandleExhausted(q) \/ WriteFails(q)
      PROVE  RetryGrows
  BY <1>4, <1>u DEF Answer, CallbackEmpty, HandleSuccess, WriteSuccess, HandleExhausted,
     WriteFails, store
<1>5. CASE Start \/ Stop \/ Tick \/ ScanAdd \/ ScanFlush \/ ScanOversize \/ ClearBatch
  BY <1>5, <1>u DEF Start, Stop, Tick, ScanAdd, ScanFlush, ScanOversize, ClearBatch, store
<1>6. CASE BatchRefused \/ BatchMixed \/ BatchSend \/ EachRefused \/ EachSend
  BY <1>6, <1>u DEF BatchRefused, BatchMixed, BatchSend, EachRefused, EachSend, store
<1>7. CASE RefreshPermits \/ Crash \/ Exit \/ UNCHANGED vars
  BY <1>7, <1>u DEF RefreshPermits, Crash, Exit, ProcessEnds, vars, store
<1> QED
  BY <1>1, <1>2, <1>3, <1>4, <1>5, <1>6, <1>7 DEF Next, SchedulerStep, Callback

(* Parts of a list that is behind are behind. *)
LEMMA BehindParts ==
  ASSUME NEW s \in Seq(Snapshot), NEW r, Behind(s, r), s # <<>>
  PROVE  /\ Behind(Tail(s), r)
         /\ Behind(<<Head(s)>>, r)
         /\ Head(s).retry <= r[Head(s).item]
<1>1. Head(s).retry <= r[Head(s).item]
  BY HeadTail DEF Behind
<1>2. Behind(Tail(s), r)
  BY HeadTail DEF Behind
<1>3. Behind(<<Head(s)>>, r)
  BY <1>1 DEF Behind
<1> QED
  BY <1>1, <1>2, <1>3

(* An empty list is behind any retry counts. *)
LEMMA BehindEmpty == ASSUME NEW r PROVE Behind(<<>>, r)
BY EmptySeq DEF Behind

(* A list stays behind when a copy that is behind joins it. *)
LEMMA BehindAppend ==
  ASSUME NEW s \in Seq(Snapshot), NEW e \in Snapshot, NEW r,
         Behind(s, r), e.retry <= r[e.item]
  PROVE  Behind(Append(s, e), r)
BY AppendOne DEF Behind

(* A callback whose list is replaced under it is still behind. *)
LEMMA BehindReplace ==
  ASSUME ReqsOK, NEW new \in Seq(Snapshot), NEW r, Behind(new, r), ReplaceBatch(new),
         NEW q \in ReqIds, Behind(captured[q], r)
  PROVE  /\ Behind(captured'[q], r)
         /\ rstate'[q] = "failing" =>
              rstate[q] = "failing" /\ Head(captured'[q]) = Head(captured[q])
<1>0. rstate'[q] = "failing" => rstate[q] = "failing"
  BY DEF ReqsOK, ReplaceBatch
<1>1. CASE ~alias[q]
  <2>1. captured'[q] = captured[q]
    BY <1>1 DEF ReqsOK, ReplaceBatch
  <2> QED
    BY <1>0, <2>1
<1>2. CASE alias[q] /\ rstate[q] \in {"sent", "answered"}
  <2>1. captured'[q] = new
    BY <1>2 DEF ReqsOK, ReplaceBatch
  <2> QED
    BY <1>0, <1>2, <2>1
<1>3. CASE alias[q] /\ rstate[q] = "failing"
  <2>1. captured'[q] = <<Head(captured[q])>>
    BY <1>3 DEF ReqsOK, ReplaceBatch
  <2>2. Behind(<<Head(captured[q])>>, r)
    BY <1>3, BehindParts DEF ReqsOK
  <2> QED
    BY <1>0, <2>1, <2>2
<1>4. CASE alias[q] /\ rstate[q] \in {"free", "running"}
  <2>1. captured'[q] = <<>>
    BY <1>4 DEF ReqsOK, ReplaceBatch
  <2> QED
    BY <1>0, <1>4, <2>1, BehindEmpty
<1> QED
  BY <1>1, <1>2, <1>3, <1>4 DEF ReqsOK


ThreadBehind == Behind(todo, retry) /\ Behind(batch, retry) /\ Behind(each, retry)

RequestsBehind == (\A q \in ReqIds : Behind(captured[q], retry)) /\ FailingExhausted

(* Every step keeps all copies behind and FAILED justified. *)
LEMMA FailedStep == TypeInv /\ FailedInv /\ [Next]_vars => FailedInv'
<1> SUFFICES ASSUME TypeInv, ThreadBehind, RequestsBehind, FailedMeansExhausted, [Next]_vars
             PROVE  ThreadBehind' /\ RequestsBehind' /\ FailedMeansExhausted'
  BY DEF FailedInv, CopiesBehind, ThreadBehind, RequestsBehind
<1> DEFINE Goal == ThreadBehind' /\ RequestsBehind' /\ FailedMeansExhausted'
<1>c. /\ StoreOK /\ ThreadOK /\ ReqsOK
      /\ StoreOK' /\ RetryGrows
  BY TypeStep, RetryNeverFalls DEF TypeInv
<1>v. /\ Behind(todo, retry') /\ Behind(batch, retry') /\ Behind(each, retry')
      /\ \A q \in ReqIds : Behind(captured[q], retry')
  BY <1>c, BehindStays DEF ThreadOK, ReqsOK, ThreadBehind, RequestsBehind
<1>x. \A q \in ReqIds : rstate[q] = "failing" =>
        captured[q] # <<>> /\ retry'[Head(captured[q]).item] >= MaxRetry
  <2> SUFFICES ASSUME NEW q \in ReqIds, rstate[q] = "failing"
               PROVE  captured[q] # <<>> /\ retry'[Head(captured[q]).item] >= MaxRetry
    OBVIOUS
  <2>1. captured[q] # <<>> /\ captured[q] \in Seq(Snapshot)
    BY <1>c DEF ReqsOK
  <2>2. Head(captured[q]).item \in Items
    BY <2>1, HeadSnapshot
  <2>3. retry[Head(captured[q]).item] >= MaxRetry
    BY DEF RequestsBehind, FailingExhausted
  <2> QED
    BY <1>c, <2>1, <2>2, <2>3, Constants DEF RetryGrows, StoreOK
<1>f. ASSUME NEW i \in Items, status[i] = "FAILED"
      PROVE  retry'[i] >= MaxRetry \/ SizeOf[i] > MaxPerRequest
  BY <1>c, <1>f, Constants DEF FailedMeansExhausted, RetryGrows, StoreOK
<1>t. UNCHANGED <<todo, batch, each>> => ThreadBehind'
  BY <1>v DEF ThreadBehind
<1>r. UNCHANGED <<rstate, captured>> => RequestsBehind'
  BY <1>v, <1>x DEF RequestsBehind, FailingExhausted
<1>s. UNCHANGED status => FailedMeansExhausted'
  BY <1>f DEF FailedMeansExhausted
<1>e. EndTick => ThreadBehind'
  BY BehindEmpty DEF EndTick, ThreadBehind
<1>n. Returns => ThreadBehind'
  BY <1>e, <1>v, BehindEmpty DEF Returns, ThreadBehind
<1>a. EachAdvance /\ pc = "each" => ThreadBehind'
  <2>1. CASE Tail(each) = <<>>
    BY <2>1, <1>n DEF EachAdvance
  <2>2. CASE Tail(each) # <<>>
    BY <2>2, <1>c, <1>v, BehindParts DEF EachAdvance, ThreadBehind, ThreadOK
  <2> QED
    BY <2>1, <2>2
<1>d. ASSUME NEW q \in ReqIds, captured[q] # <<>>, Advance(q) PROVE RequestsBehind'
  <2>1. Behind(Tail(captured[q]), retry')
    BY <1>c, <1>v, <1>d, BehindParts DEF ReqsOK
  <2>2. \A p \in ReqIds : captured'[p] = IF p = q THEN Tail(captured[q]) ELSE captured[p]
    BY <1>c, <1>d DEF Advance, ReqsOK
  <2>3. rstate'[q] # "failing" /\ \A p \in ReqIds : p # q => rstate'[p] = rstate[p]
    BY <1>c, <1>d DEF Advance, ReqsOK
  <2> QED
    BY <1>v, <1>x, <2>1, <2>2, <2>3 DEF RequestsBehind, FailingExhausted
<1>b. ASSUME NEW new \in Seq(Snapshot), Behind(new, retry'), ReplaceBatch(new) PROVE RequestsBehind'
  <2> SUFFICES ASSUME NEW q \in ReqIds
               PROVE  /\ Behind(captured'[q], retry')
                      /\ rstate'[q] = "failing" => retry'[Head(captured'[q]).item] >= MaxRetry
    BY DEF RequestsBehind, FailingExhausted
  <2> QED
    BY <1>b, <1>c, <1>v, <1>x, BehindReplace
<1>m. ASSUME NEW snaps \in Seq(Snapshot), Behind(snaps, retry), FailAll(snaps)
      PROVE  FailedMeansExhausted'
  <2> SUFFICES ASSUME NEW i \in Items, status'[i] = "FAILED"
               PROVE  retry'[i] >= MaxRetry \/ SizeOf[i] > MaxPerRequest
    BY DEF FailedMeansExhausted
  <2>1. CASE status[i] = "FAILED"
    BY <2>1, <1>f
  <2>2. CASE status[i] # "FAILED"
    <3>1. PICK k \in DOMAIN snaps : snaps[k].item = i /\ snaps[k].retry + 1 >= MaxRetry
      BY <1>m, <2>2 DEF FailAll
    <3>2. i \in ItemsOf(snaps)
      BY <3>1 DEF ItemsOf
    <3>3. retry'[i] = retry[i] + 1
      BY <1>m, <3>2 DEF FailAll
    <3>4. snaps[k].retry <= retry[i] /\ snaps[k].retry \in Nat /\ retry[i] \in Nat
      BY <1>c, <1>m, <3>1, Elements DEF Behind, Snapshot, StoreOK
    <3> QED
      BY <3>1, <3>3, <3>4, Constants
  <2> QED
    BY <2>1, <2>2
<1>1. ASSUME NEW i \in Items, Stamp(i) \/ Insert(i) PROVE Goal
  <2>1. FailedMeansExhausted'
    BY <1>1, <1>c, <1>f DEF Stamp, Insert, FailedMeansExhausted, StoreOK
  <2> QED
    BY <1>1, <2>1, <1>t, <1>r DEF Stamp, Insert, thread, reqs
<1>2. CASE Start \/ Stop \/ ScanFlush
  BY <1>2, <1>t, <1>r, <1>s DEF Start, Stop, ScanFlush, store, reqs
<1>3. CASE Tick
  <2>1. Behind(todo', retry')
    <3>1. todo' \in GetPendingItems(BatchSize) /\ retry' = retry
      BY <1>3 DEF Tick, store
    <3>2. \A k \in DOMAIN todo' : todo'[k].retry = retry[todo'[k].item]
      BY <3>1, <1>c, ReadOK
    <3>3. \A k \in DOMAIN todo' : retry[todo'[k].item] \in Nat
      BY <3>1, <1>c, ReadOK, Elements DEF StoreOK, Snapshot
    <3> QED
      BY <3>1, <3>2, <3>3 DEF Behind
  <2> QED
    BY <1>3, <2>1, <1>v, <1>r, <1>s DEF Tick, store, ThreadBehind
<1>4. CASE ScanAdd
  <2>1. todo # <<>> /\ todo \in Seq(Snapshot) /\ batch \in Seq(Snapshot)
    BY <1>4, <1>c DEF ScanAdd, ThreadOK
  <2>2. Behind(Tail(todo), retry') /\ Head(todo).retry <= retry'[Head(todo).item]
    BY <2>1, <1>v, BehindParts
  <2>3. Head(todo) \in Snapshot
    BY <2>1, HeadTail
  <2>4. /\ Append(batch, Head(todo)) \in Seq(Snapshot)
        /\ Behind(Append(batch, Head(todo)), retry')
    BY <2>1, <2>2, <2>3, <1>v, AppendOne, BehindAppend
  <2>5. RequestsBehind'
    BY <1>4, <2>4, <1>b DEF ScanAdd
  <2>6. ThreadBehind'
    BY <1>4, <2>2, <2>4, <1>v DEF ScanAdd, ReplaceBatch, ThreadBehind
  <2> QED
    BY <1>4, <2>5, <2>6, <1>s DEF ScanAdd, store
<1>5. CASE ScanOversize
  <2>1. todo # <<>> /\ todo \in Seq(Snapshot) /\ total = 0
    BY <1>5, <1>c DEF ScanOversize, ThreadOK
  <2>2. Head(todo).item \in Items /\ Behind(Tail(todo), retry')
    BY <2>1, <1>v, HeadSnapshot, BehindParts
  <2>3. SizeOf[Head(todo).item] > MaxPerRequest
    BY <1>5, <2>1, <2>2, Constants DEF ScanOversize, Fits
  <2>4. FailedMeansExhausted'
    BY <1>5, <1>c, <1>f, <2>2, <2>3 DEF ScanOversize, FailedMeansExhausted, StoreOK
  <2> QED
    BY <1>5, <2>2, <2>4, <1>v, <1>r DEF ScanOversize, reqs, ThreadBehind
<1>6. CASE BatchRefused \/ EachRefused
  BY <1>6, <1>e, <1>r, <1>s DEF BatchRefused, EachRefused, store, reqs
<1>7. CASE BatchMixed
  <2>1. ThreadBehind'
    BY <1>7, <1>v DEF BatchMixed, ThreadBehind
  <2> QED
    BY <1>7, <2>1, <1>r, <1>s DEF BatchMixed, store, reqs
<1>9. ASSUME NEW q, NEW snaps \in Seq(Snapshot), NEW shared,
             Behind(snaps, retry'), Send(q, snaps, shared)
      PROVE  RequestsBehind'
  <2>1. \A p \in ReqIds : captured'[p] = IF p = q THEN snaps ELSE captured[p]
    BY <1>9, <1>c DEF Send, ReqsOK
  <2>2. \A p \in ReqIds : rstate'[p] = "failing" => p # q /\ rstate[p] = "failing"
    BY <1>9, <1>c DEF Send, ReqsOK
  <2> QED
    BY <1>9, <1>v, <1>x, <2>1, <2>2 DEF RequestsBehind, FailingExhausted
<1>11. CASE BatchSend
  <2>1. RequestsBehind'
    BY <1>11, <1>9, <1>c, <1>v DEF BatchSend, ThreadOK
  <2> QED
    BY <1>11, <2>1, <1>n, <1>s DEF BatchSend, store
<1>12. CASE BatchThrows
  <2>1. FailedMeansExhausted'
    BY <1>12, <1>c, <1>m DEF BatchThrows, ThreadOK, ThreadBehind
  <2> QED
    BY <1>12, <2>1, <1>n, <1>r DEF BatchThrows, reqs
<1>13. ASSUME pc = "each"
       PROVE  /\ <<Head(each)>> \in Seq(Snapshot)
              /\ Behind(<<Head(each)>>, retry) /\ Behind(<<Head(each)>>, retry')
  <2>1. each \in Seq(Snapshot) /\ each # <<>>
    BY <1>13, <1>c DEF ThreadOK
  <2>2. <<Head(each)>> \in Seq(Snapshot)
    BY <2>1, HeadTail
  <2>3. Behind(<<Head(each)>>, retry)
    BY <2>1, BehindParts DEF ThreadBehind
  <2>4. Behind(<<Head(each)>>, retry')
    BY <2>1, <1>v, BehindParts
  <2> QED
    BY <2>2, <2>3, <2>4
<1>15. CASE EachSend
  <2>1. RequestsBehind'
    BY <1>15, <1>9, <1>13 DEF EachSend
  <2> QED
    BY <1>15, <2>1, <1>a, <1>s DEF EachSend, store
<1>16. CASE EachThrows
  <2>1. FailedMeansExhausted'
    BY <1>16, <1>13, <1>m DEF EachThrows
  <2> QED
    BY <1>16, <2>1, <1>a, <1>r DEF EachThrows, reqs
<1>17. CASE ClearBatch
  <2>1. RequestsBehind'
    BY <1>17, <1>b, BehindEmpty, EmptySeq DEF ClearBatch
  <2>2. ThreadBehind'
    BY <1>17, <1>v, BehindEmpty DEF ClearBatch, ReplaceBatch, ThreadBehind
  <2> QED
    BY <1>17, <2>1, <2>2, <1>s DEF ClearBatch, store
<1>18. ASSUME NEW q \in ReqIds, Answer(q) PROVE Goal
  <2>1. /\ UNCHANGED captured
        /\ \A p \in ReqIds : rstate'[p] = "failing" => rstate[p] = "failing"
    BY <1>18, <1>c DEF Answer, ReqsOK
  <2>2. RequestsBehind'
    BY <1>v, <1>x, <2>1 DEF RequestsBehind, FailingExhausted
  <2> QED
    BY <1>18, <2>2, <1>t, <1>s DEF Answer, thread, store
<1>19. ASSUME NEW q \in ReqIds, CallbackEmpty(q) PROVE Goal
  <2>1. /\ UNCHANGED captured
        /\ \A p \in ReqIds : rstate'[p] = "failing" => rstate[p] = "failing"
    BY <1>19, <1>c DEF CallbackEmpty, ReqsOK
  <2>2. RequestsBehind'
    BY <1>v, <1>x, <2>1 DEF RequestsBehind, FailingExhausted
  <2> QED
    BY <1>19, <2>2, <1>t, <1>s DEF CallbackEmpty, thread, store
<1>20. ASSUME NEW q \in ReqIds, HandleSuccess(q) PROVE Goal
  <2>1. FailedMeansExhausted'
    BY <1>20, <1>c, <1>f DEF HandleSuccess, WriteSuccess, FailedMeansExhausted, StoreOK
  <2> QED
    BY <1>20, <2>1, <1>d, <1>t DEF HandleSuccess, WriteSuccess, thread
<1>21. ASSUME NEW q \in ReqIds, HandleError(q) PROVE Goal
  <2>1. captured[q] # <<>> /\ captured[q] \in Seq(Snapshot)
    BY <1>21, <1>c DEF HandleError, CountError, ReqsOK
  <2>2. CASE ~(Head(captured[q]).retry + 1 >= MaxRetry)
    BY <1>21, <2>1, <2>2, <1>d, <1>t, <1>s DEF HandleError, CountError, thread
  <2>3. CASE Head(captured[q]).retry + 1 >= MaxRetry
    <3> DEFINE i == Head(captured[q]).item
    <3>1. i \in Items /\ Head(captured[q]).retry \in Nat
      BY <2>1, HeadSnapshot
    <3>2. Head(captured[q]).retry <= retry[i]
      BY <2>1, BehindParts DEF RequestsBehind
    <3>3. retry'[i] = retry[i] + 1 /\ retry[i] \in Nat
      BY <1>21, <1>c, <3>1 DEF HandleError, CountError, StoreOK
    <3>4. retry'[i] >= MaxRetry
      BY <2>3, <3>1, <3>2, <3>3, Constants
    <3>5. /\ UNCHANGED captured
          /\ \A p \in ReqIds : p # q => rstate'[p] = rstate[p]
      BY <1>21, <2>3, <1>c DEF HandleError, CountError, ReqsOK
    <3>6. RequestsBehind'
      BY <1>v, <1>x, <3>4, <3>5 DEF RequestsBehind, FailingExhausted
    <3> QED
      BY <1>21, <3>6, <1>t, <1>s DEF HandleError, CountError, thread
  <2> QED
    BY <2>2, <2>3
<1>22. ASSUME NEW q \in ReqIds, HandleExhausted(q) PROVE Goal
  <2>1. captured[q] # <<>> /\ retry'[Head(captured[q]).item] >= MaxRetry
    BY <1>22, <1>x DEF HandleExhausted
  <2>2. FailedMeansExhausted'
    BY <1>22, <1>c, <1>f, <2>1 DEF HandleExhausted, FailedMeansExhausted, StoreOK
  <2> QED
    BY <1>22, <2>1, <2>2, <1>d, <1>t DEF HandleExhausted, thread
<1>23. ASSUME NEW q \in ReqIds, WriteFails(q) PROVE Goal
  BY <1>23, <1>d, <1>t, <1>s DEF WriteFails, thread, store
<1>24. CASE RefreshPermits
  BY <1>24, <1>t, <1>r, <1>s DEF RefreshPermits, thread, reqs, store
<1>25. CASE Crash \/ Exit
  <2>1. ProcessEnds
    BY <1>25 DEF Crash, Exit
  <2>2. ThreadBehind' /\ RequestsBehind'
    BY <2>1, BehindEmpty DEF ProcessEnds, ThreadBehind, RequestsBehind, FailingExhausted
  <2> QED
    BY <2>1, <2>2, <1>s DEF ProcessEnds, store
<1>26. CASE UNCHANGED vars
  BY <1>26, <1>t, <1>r, <1>s DEF vars, thread, reqs, store
<1> QED
  BY <1>1, <1>2, <1>3, <1>4, <1>5, <1>6, <1>7, <1>11, <1>12, <1>15, <1>16, <1>17,
     <1>18, <1>19, <1>20, <1>21, <1>22, <1>23, <1>24, <1>25, <1>26
     DEF Next, SchedulerStep, Callback

(* A document is FAILED only when its retries are spent or it is too large  *)
(* for any request, whatever stale copies the ticks decide on.              *)
THEOREM FailedIsExhausted == Spec => []FailedMeansExhausted
<1>1. Init => FailedInv
  BY BehindEmpty DEF Init, FailedInv, CopiesBehind, FailingExhausted, FailedMeansExhausted
<1>2. FailedInv => FailedMeansExhausted
  BY DEF FailedInv
<1> QED
  BY <1>1, <1>2, TypeCorrect, FailedStep, PTL DEF Spec

-----------------------------------------------------------------------------
(* Requests fit *)

MessagesIn(s) == SumFunctionOnSet(SizeOf, ItemsOf(s))

(* total counts at least the messages of the batch, and stays in the limit; *)
(* so does each document that is left of a mixed batch.                     *)
BatchFits ==
  /\ MessagesIn(batch) <= total
  /\ total <= MaxPerRequest
  /\ \A k \in DOMAIN each : SizeOf[each[k].item] <= MaxPerRequest

FitInv == BatchFits /\ RequestsFit

(* The documents of a list are finitely many, of one message or more. *)
LEMMA ItemsFinite ==
  ASSUME NEW s \in Seq(Snapshot)
  PROVE  /\ IsFiniteSet(ItemsOf(s))
         /\ \A i \in ItemsOf(s) : SizeOf[i] \in Nat
         /\ MessagesIn(s) \in Nat
<1> DEFINE f == [k \in DOMAIN s |-> s[k].item]
<1>1. IsFiniteSet(DOMAIN s)
  BY LenProperties, FS_Interval
<1>2. f \in Surjection(DOMAIN s, ItemsOf(s))
  BY DEF Surjection, ItemsOf
<1>3. IsFiniteSet(ItemsOf(s))
  BY <1>1, <1>2, FS_Surjection
<1>4. \A i \in ItemsOf(s) : SizeOf[i] \in Nat
  BY Elements, Constants
<1> QED
  BY <1>3, <1>4, SumAnyOrder DEF MessagesIn

LEMMA ItemsOfAppend ==
  ASSUME NEW s \in Seq(Snapshot), NEW e \in Snapshot
  PROVE  ItemsOf(Append(s, e)) = ItemsOf(s) \union {e.item}
<1>1. /\ Append(s, e) \in Seq(Snapshot) /\ Len(Append(s, e)) = Len(s) + 1
      /\ \A k \in 1..Len(s) : Append(s, e)[k] = s[k]
      /\ Append(s, e)[Len(s) + 1] = e
  BY AppendProperties
<1>2. DOMAIN Append(s, e) = 1..Len(s) + 1 /\ DOMAIN s = 1..Len(s) /\ Len(s) \in Nat
  BY <1>1, LenProperties
<1>3. ItemsOf(Append(s, e)) \subseteq ItemsOf(s) \union {e.item}
  BY <1>1, <1>2 DEF ItemsOf
<1>4. ItemsOf(s) \subseteq ItemsOf(Append(s, e))
  <2> SUFFICES ASSUME NEW k \in DOMAIN s PROVE s[k].item \in ItemsOf(Append(s, e))
    BY DEF ItemsOf
  <2>1. k \in DOMAIN Append(s, e) /\ Append(s, e)[k] = s[k]
    BY <1>1, <1>2
  <2> QED
    BY <2>1 DEF ItemsOf
<1>5. e.item \in ItemsOf(Append(s, e))
  <2>1. Len(s) + 1 \in DOMAIN Append(s, e)
    BY <1>2
  <2> QED
    BY <1>1, <2>1 DEF ItemsOf
<1> QED
  BY <1>3, <1>4, <1>5

LEMMA NothingFits == MessagesIn(<<>>) = 0
<1>1. ItemsOf(<<>>) = {}
  BY EmptySeq DEF ItemsOf
<1> QED
  BY <1>1, SumEmpty DEF MessagesIn

(* A further document adds its messages to the batch, at most. *)
LEMMA AppendFits ==
  ASSUME NEW s \in Seq(Snapshot), NEW e \in Snapshot
  PROVE  MessagesIn(Append(s, e)) <= MessagesIn(s) + SizeOf[e.item]
<1>1. e.item \in Items /\ SizeOf[e.item] \in Nat
  BY Constants DEF Snapshot
<1>2. MessagesIn(Append(s, e)) =
        IF e.item \in ItemsOf(s) THEN MessagesIn(s) ELSE MessagesIn(s) + SizeOf[e.item]
  BY <1>1, ItemsOfAppend, ItemsFinite, SumAdd DEF MessagesIn
<1> QED
  BY <1>1, <1>2, ItemsFinite

(* No document has more messages than its batch. *)
LEMMA PartFits ==
  ASSUME NEW s \in Seq(Snapshot), NEW k \in DOMAIN s
  PROVE  SizeOf[s[k].item] \in Nat /\ SizeOf[s[k].item] <= MessagesIn(s)
<1>1. s[k].item \in ItemsOf(s)
  BY DEF ItemsOf
<1>2. SumFunctionOnSet(SizeOf, ItemsOf(s))
        = SizeOf[s[k].item] + SumFunctionOnSet(SizeOf, ItemsOf(s) \ {s[k].item})
  BY <1>1, ItemsFinite, SumAnyOrder
<1>3. SumFunctionOnSet(SizeOf, ItemsOf(s) \ {s[k].item}) \in Nat
  BY ItemsFinite, FS_RemoveElement, SumAnyOrder
<1> QED
  BY <1>1, <1>2, <1>3, ItemsFinite DEF MessagesIn

LEMMA OneItem ==
  ASSUME NEW e \in Snapshot
  PROVE  /\ ItemsOf(<<e>>) = {e.item}
         /\ SumFunctionOnSet(SizeOf, {e.item}) = SizeOf[e.item]
<1>1. ItemsOf(<<e>>) = {e.item}
  BY DEF ItemsOf
<1>2. SizeOf[e.item] \in Nat
  BY Constants DEF Snapshot
<1>3. SumFunctionOnSet(SizeOf, {} \union {e.item}) = SumFunctionOnSet(SizeOf, {}) + SizeOf[e.item]
  BY <1>2, FS_EmptySet, SumAdd
<1> QED
  BY <1>1, <1>2, <1>3, SumEmpty

(* What a step does to the requests: a new one fits, the others are old. *)
LEMMA RequestsStillFit ==
  ASSUME RequestsFit, \A q \in ReqIds : rstate'[q] = "sent" => rstate[q] = "sent" /\ sent'[q] = sent[q]
  PROVE  RequestsFit'
BY DEF RequestsFit

LEMMA NewRequestFits ==
  ASSUME ReqsOK, RequestsFit, NEW snaps, NEW shared, Send(NextFree, snaps, shared),
         SumFunctionOnSet(SizeOf, ItemsOf(snaps)) <= MaxPerRequest,
         \A i, j \in ItemsOf(snaps) : ChatOf[i] = ChatOf[j]
  PROVE  RequestsFit'
<1>1. \A q \in ReqIds : /\ q # NextFree => rstate'[q] = rstate[q] /\ sent'[q] = sent[q]
                        /\ q = NextFree => sent'[q] = ItemsOf(snaps)
  BY DEF ReqsOK, Send
<1> QED
  BY <1>1 DEF RequestsFit

(* The scheduler thread ends its tick or goes on behind a full batch. *)
LEMMA EmptyBatchFits ==
  ASSUME batch' = <<>>, total' = 0, each' = <<>> PROVE BatchFits'
BY NothingFits, Constants, EmptySeq DEF BatchFits, MessagesIn, ItemsOf

LEMMA ReturnFits == ASSUME BatchFits, Returns PROVE BatchFits'
<1>1. CASE todo = <<>>
  BY <1>1, EmptyBatchFits DEF Returns, EndTick
<1>2. CASE todo # <<>>
  BY <1>2, EmptySeq DEF Returns, BatchFits, MessagesIn, ItemsOf
<1> QED
  BY <1>1, <1>2

LEMMA EachFits ==
  ASSUME ThreadOK, BatchFits, pc = "each", EachAdvance PROVE BatchFits'
<1>1. CASE Tail(each) = <<>>
  BY <1>1, ReturnFits DEF EachAdvance
<1>2. CASE Tail(each) # <<>>
  <2>1. each' = Tail(each) /\ UNCHANGED <<batch, total>>
    BY <1>2 DEF EachAdvance
  <2>2. each \in Seq(Snapshot) /\ each # <<>>
    BY DEF ThreadOK
  <2>3. \A k \in DOMAIN Tail(each) : k + 1 \in DOMAIN each /\ Tail(each)[k] = each[k + 1]
    <3>1. /\ Len(each) \in Nat \ {0} /\ DOMAIN each = 1..Len(each) /\ Tail(each) \in Seq(Snapshot)
          /\ Len(Tail(each)) = Len(each) - 1
      BY <2>2, LenProperties, EmptySeq, HeadTailProperties
    <3>2. DOMAIN Tail(each) = 1..Len(each) - 1
      BY <3>1, LenProperties
    <3> QED
      BY <2>2, <3>1, <3>2, HeadTail
  <2>4. \A k \in DOMAIN each' : SizeOf[each'[k].item] <= MaxPerRequest
    BY <2>1, <2>3 DEF BatchFits
  <2> QED
    BY <2>1, <2>4 DEF BatchFits, MessagesIn, ItemsOf
<1> QED
  BY <1>1, <1>2

LEMMA FitStep == TypeInv /\ FitInv /\ [Next]_vars => FitInv'
<1> SUFFICES ASSUME TypeInv, BatchFits, RequestsFit, [Next]_vars PROVE BatchFits' /\ RequestsFit'
  BY DEF FitInv
<1> DEFINE Goal == BatchFits' /\ RequestsFit'
<1>c. ThreadOK /\ ReqsOK
  BY DEF TypeInv
<1>b. UNCHANGED <<batch, total, each>> => BatchFits'
  BY DEF BatchFits, MessagesIn, ItemsOf
<1>r. UNCHANGED <<rstate, sent>> => RequestsFit'
  BY RequestsStillFit
<1>e. EndTick => BatchFits'
  BY EmptyBatchFits DEF EndTick
<1>h. pc = "each" => Head(each) \in Snapshot /\ SizeOf[Head(each).item] <= MaxPerRequest
  <2> SUFFICES ASSUME pc = "each" PROVE Head(each) \in Snapshot /\ SizeOf[Head(each).item] <= MaxPerRequest
    OBVIOUS
  <2>1. each # <<>> /\ each \in Seq(Snapshot)
    BY <1>c DEF ThreadOK
  <2>2. 1 \in DOMAIN each
    BY <2>1, LenProperties, EmptySeq
  <2> QED
    BY <2>1, <2>2, HeadTail DEF BatchFits
<1>1. ASSUME NEW i \in Items, Stamp(i) \/ Insert(i) PROVE Goal
  BY <1>1, <1>b, <1>r DEF Stamp, Insert, thread, reqs
<1>2. CASE Start \/ Stop \/ Tick \/ ScanFlush \/ ScanOversize
  BY <1>2, <1>b, <1>r DEF Start, Stop, Tick, ScanFlush, ScanOversize, reqs
<1>3. CASE ScanAdd
  <2>1. /\ batch' = Append(batch, Head(todo)) /\ each' = each
        /\ total' = total + SizeOf[Head(todo).item] /\ total' <= MaxPerRequest
    BY <1>3 DEF ScanAdd, ReplaceBatch, Fits
  <2>2. batch \in Seq(Snapshot) /\ Head(todo) \in Snapshot /\ total \in Nat
    BY <1>3, <1>c, HeadTail DEF ScanAdd, ThreadOK
  <2>3. MessagesIn(batch') <= total'
    <3>1. SizeOf[Head(todo).item] \in Nat
      BY <2>2, Constants DEF Snapshot
    <3>2. MessagesIn(batch') <= MessagesIn(batch) + SizeOf[Head(todo).item]
      BY <2>1, <2>2, AppendFits
    <3>3. MessagesIn(batch) \in Nat /\ MessagesIn(batch') \in Nat
      BY <2>1, <2>2, ItemsFinite, AppendOne
    <3>4. MessagesIn(batch) <= total
      BY DEF BatchFits
    <3> QED
      BY <2>1, <2>2, <3>1, <3>2, <3>3, <3>4
  <2>4. BatchFits'
    BY <2>1, <2>3 DEF BatchFits, MessagesIn, ItemsOf
  <2>5. \A q \in ReqIds : rstate'[q] = "sent" => rstate[q] = "sent" /\ sent'[q] = sent[q]
    BY <1>3, <1>c DEF ScanAdd, ReplaceBatch, ReqsOK
  <2> QED
    BY <2>4, <2>5, RequestsStillFit
<1>4. CASE ClearBatch
  <2>1. batch' = <<>> /\ total' = 0 /\ each' = each
    BY <1>4 DEF ClearBatch, ReplaceBatch
  <2>2. BatchFits'
    BY <2>1, NothingFits, Constants DEF BatchFits, MessagesIn, ItemsOf
  <2>3. \A q \in ReqIds : rstate'[q] = "sent" => rstate[q] = "sent" /\ sent'[q] = sent[q]
    BY <1>4, <1>c DEF ClearBatch, ReplaceBatch, ReqsOK
  <2> QED
    BY <2>2, <2>3, RequestsStillFit
<1>5. CASE BatchRefused \/ EachRefused
  BY <1>5, <1>e, <1>r DEF BatchRefused, EachRefused, reqs
<1>6. CASE BatchMixed
  <2>1. each' = batch /\ UNCHANGED <<batch, total>>
    BY <1>6 DEF BatchMixed
  <2>2. \A k \in DOMAIN batch : SizeOf[batch[k].item] <= MaxPerRequest
    <3>1. batch \in Seq(Snapshot) /\ MessagesIn(batch) \in Nat /\ total \in Nat
      BY <1>c, ItemsFinite DEF ThreadOK
    <3> QED
      BY <3>1, PartFits, Constants DEF BatchFits
  <2>3. BatchFits'
    BY <2>1, <2>2 DEF BatchFits, MessagesIn, ItemsOf
  <2> QED
    BY <1>6, <1>r, <2>3 DEF BatchMixed, reqs
<1>7. CASE BatchSend
  <2>1. \A i, j \in ItemsOf(batch) : ChatOf[i] = ChatOf[j]
    BY <1>7 DEF BatchSend, SameSource, ItemsOf
  <2>2. SumFunctionOnSet(SizeOf, ItemsOf(batch)) <= MaxPerRequest
    <3>1. MessagesIn(batch) \in Nat /\ total \in Nat
      BY <1>c, ItemsFinite DEF ThreadOK
    <3> QED
      BY <3>1, Constants DEF BatchFits, MessagesIn
  <2> QED
    BY <1>7, <1>c, <2>1, <2>2, NewRequestFits, ReturnFits DEF BatchSend
<1>8. CASE EachSend
  <2>1. /\ SumFunctionOnSet(SizeOf, ItemsOf(<<Head(each)>>)) <= MaxPerRequest
        /\ \A i, j \in ItemsOf(<<Head(each)>>) : ChatOf[i] = ChatOf[j]
    BY <1>8, <1>h, OneItem DEF EachSend
  <2> QED
    BY <1>8, <1>c, <2>1, NewRequestFits, EachFits DEF EachSend
<1>9. CASE BatchThrows
  BY <1>9, <1>r, ReturnFits DEF BatchThrows, reqs
<1>10. CASE EachThrows
  BY <1>10, <1>c, <1>r, EachFits DEF EachThrows, reqs
<1>11. ASSUME NEW q \in ReqIds, Answer(q) \/ Callback(q) \/ WriteFails(q) PROVE Goal
  <2>1. UNCHANGED <<batch, total, each>>
    BY <1>11 DEF Answer, Callback, CallbackEmpty, HandleSuccess, WriteSuccess, HandleError,
       CountError, HandleExhausted, WriteFails, thread
  <2>2. \/ UNCHANGED <<rstate, sent>>
        \/ rstate' = [rstate EXCEPT ![q] = "answered"] /\ sent' = [sent EXCEPT ![q] = {}]
        \/ sent' = sent /\ \E v \in {"free", "running", "failing"} : rstate' = [rstate EXCEPT ![q] = v]
    BY <1>11 DEF Answer, Callback, CallbackEmpty, HandleSuccess, WriteSuccess, HandleError,
       CountError, HandleExhausted, WriteFails, Advance
  <2>3. \A r \in ReqIds : rstate'[r] = "sent" => rstate[r] = "sent" /\ sent'[r] = sent[r]
    BY <1>c, <2>2 DEF ReqsOK
  <2> QED
    BY <1>b, <2>1, <2>3, RequestsStillFit
<1>12. CASE RefreshPermits \/ UNCHANGED vars
  BY <1>12, <1>b, <1>r DEF RefreshPermits, vars, thread, reqs
<1>13. CASE Crash \/ Exit
  <2>1. /\ batch' = <<>> /\ total' = 0 /\ each' = <<>>
        /\ \A q \in ReqIds : rstate'[q] = "free"
    BY <1>13 DEF Crash, Exit, ProcessEnds
  <2> QED
    BY <2>1, EmptyBatchFits, RequestsStillFit
<1> QED
  BY <1>1, <1>2, <1>3, <1>4, <1>5, <1>6, <1>7, <1>8, <1>9, <1>10, <1>11, <1>12, <1>13
  DEF Next, SchedulerStep

(* A request never carries more messages than Telegram takes in one, nor    *)
(* documents of two channels, wherever the ticks split their batches.       *)
THEOREM RequestsAlwaysFit == Spec => []RequestsFit
<1>1. Init => FitInv
  <2> SUFFICES ASSUME Init PROVE FitInv
    OBVIOUS
  <2>1. BatchFits
    BY NothingFits, Constants, EmptySeq DEF Init, BatchFits
  <2> QED
    BY <2>1 DEF Init, FitInv, RequestsFit
<1>2. FitInv => RequestsFit
  BY DEF FitInv
<1> QED
  BY <1>1, <1>2, TypeCorrect, FitStep, PTL DEF Spec

=============================================================================
