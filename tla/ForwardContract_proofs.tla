----------------------- MODULE ForwardContract_proofs -----------------------
(***************************************************************************)
(* ForwardQueue implements QueueContract, for every value of the constants *)
(* with which no tick needs more than one flush: BatchSize documents of at *)
(* most K messages fit one request.  (Without that the callbacks read a    *)
(* list that was refilled, and SUCCESS is wrong.)                          *)
(***************************************************************************)
EXTENDS ForwardQueue_proofs, WellFoundedInduction

(* A whole batch of documents of at most K messages fits one request; the   *)
(* defaults (ten documents, albums of ten, a limit of 100) are of this kind.*)
SmallBatches(K) ==
  /\ \A i \in Items : SizeOf[i] <= K
  /\ BatchSize * K <= MaxPerRequest

Known   == {i \in Items : status[i] # "NONE"}
Reached == {i \in Items : delivered[i] > 0}

(* The documents of a list of snapshots belong to S. *)
Within(snaps, S) == \A k \in DOMAIN snaps : snaps[k].item \in S

-----------------------------------------------------------------------------
(* Lists within a set *)

(* Parts of a list stay within the list's set. *)
LEMMA WithinParts ==
  ASSUME NEW s \in Seq(Snapshot), NEW S, Within(s, S), s # <<>>
  PROVE  Within(Tail(s), S) /\ Within(<<Head(s)>>, S) /\ Head(s).item \in S
<1>1. Head(s).item \in S
  BY HeadTail DEF Within
<1>2. Within(Tail(s), S)
  BY HeadTail DEF Within
<1>3. Within(<<Head(s)>>, S)
  BY <1>1 DEF Within
<1> QED
  BY <1>1, <1>2, <1>3

(* The empty list is within any set. *)
LEMMA WithinEmpty == ASSUME NEW S PROVE Within(<<>>, S)
BY EmptySeq DEF Within

(* A list stays within a set when a member joins it. *)
LEMMA WithinAppend ==
  ASSUME NEW s \in Seq(Snapshot), NEW e \in Snapshot, NEW S, Within(s, S), e.item \in S
  PROVE  Within(Append(s, e), S)
BY AppendOne DEF Within

(* A larger set holds the list as well. *)
LEMMA WithinMore ==
  ASSUME NEW s, NEW S, NEW T, S \subseteq T, Within(s, S)
  PROVE  Within(s, T)
BY DEF Within

(* A list is within the set of its own documents, and that set within any   *)
(* set that holds the list.                                                 *)
LEMMA WithinItems ==
  ASSUME NEW s, NEW S
  PROVE  Within(s, ItemsOf(s)) /\ (Within(s, S) => ItemsOf(s) \subseteq S)
BY DEF Within, ItemsOf

(* A tick reads at most BatchSize documents, all of them pending. *)
LEMMA ReadPending ==
  ASSUME StoreOK, NEW s \in GetPendingItems(BatchSize)
  PROVE  Within(s, Known) /\ Len(s) <= BatchSize
<1>0. PICK f \in UpTo(BatchSize) : s = Read(f)
  BY Zenon DEF GetPendingItems
<1>1. PICK n \in 1..BatchSize : f \in [1..n -> PendingAt]
  BY Zenon DEF UpTo
<1>2. \A k \in 1..n : inserted[f[k]] \in Items /\ status[inserted[f[k]]] = "PENDING"
  BY <1>1, LenProperties, ElementOfSeq DEF StoreOK, PendingAt
<1>3. DOMAIN s = 1..n /\ \A k \in 1..n : s[k].item = inserted[f[k]]
  BY <1>0, <1>1 DEF Read
<1>4. Within(s, Known)
  BY <1>2, <1>3 DEF Within, Known
<1>5. s \in Seq(Snapshot) /\ n \in Nat /\ n <= BatchSize
  BY <1>1, ReadOK, Constants
<1>6. Len(s) = n
  BY <1>3, <1>5, LenProperties
<1> QED
  BY <1>4, <1>5, <1>6

-----------------------------------------------------------------------------
(* Documents stay known *)

ThreadKnown == Within(todo, Known) /\ Within(batch, Known) /\ Within(each, Known)

RequestsKnown ==
  \A q \in ReqIds : Within(captured[q], Known) /\ sent[q] \subseteq Known

KnownInv == ThreadKnown /\ RequestsKnown

(* No step takes a document out of the collection. *)
LEMMA KnownGrows == TypeInv /\ [Next]_vars => Known \subseteq Known'
<1> SUFFICES ASSUME TypeInv, [Next]_vars PROVE Known \subseteq Known'
  OBVIOUS
<1>s. status \in [Items -> Statuses]
  BY DEF TypeInv, StoreOK
<1>u. UNCHANGED status => Known \subseteq Known'
  BY DEF Known
<1>w. ASSUME NEW j, NEW v, v # "NONE", status' = [status EXCEPT ![j] = v] PROVE Known \subseteq Known'
  BY <1>w, <1>s DEF Known
<1>1. ASSUME NEW i \in Items, Stamp(i) \/ Insert(i) PROVE Known \subseteq Known'
  <2>1. CASE Stamp(i)
    BY <2>1, <1>u DEF Stamp
  <2>2. CASE Insert(i)
    BY <2>2, <1>w DEF Insert
  <2> QED
    BY <1>1, <2>1, <2>2
<1>2. CASE BatchThrows \/ EachThrows
  BY <1>2, <1>s DEF BatchThrows, EachThrows, FailAll, Known
<1>3. ASSUME NEW q \in ReqIds, HandleSuccess(q) \/ HandleExhausted(q) PROVE Known \subseteq Known'
  BY <1>3, <1>w DEF HandleSuccess, WriteSuccess, HandleExhausted
<1>4. ASSUME NEW q \in ReqIds,
             Answer(q) \/ CallbackEmpty(q) \/ HandleError(q) \/ WriteFails(q)
      PROVE  Known \subseteq Known'
  BY <1>4, <1>u DEF Answer, CallbackEmpty, HandleError, CountError, WriteFails, store
<1>5. CASE Start \/ Stop \/ Tick \/ ScanAdd \/ ScanFlush \/ ClearBatch
  BY <1>5, <1>u DEF Start, Stop, Tick, ScanAdd, ScanFlush, ClearBatch, store
<1>6. CASE ScanOversize
  BY <1>6, <1>w DEF ScanOversize
<1>7. CASE BatchRefused \/ BatchMixed \/ BatchSend \/ EachRefused \/ EachSend
  BY <1>7, <1>u DEF BatchRefused, BatchMixed, BatchSend, EachRefused, EachSend, store
<1>8. CASE RefreshPermits \/ Crash \/ Exit \/ UNCHANGED vars
  BY <1>8, <1>u DEF RefreshPermits, Crash, Exit, ProcessEnds, vars, store
<1> QED
  BY <1>1, <1>2, <1>3, <1>4, <1>5, <1>6, <1>7, <1>8 DEF Next, SchedulerStep, Callback

(* A callback whose list is replaced under it still holds known documents. *)
LEMMA WithinReplace ==
  ASSUME ReqsOK, NEW new \in Seq(Snapshot), NEW S, Within(new, S), ReplaceBatch(new),
         NEW q \in ReqIds, Within(captured[q], S)
  PROVE  Within(captured'[q], S)
<1>1. CASE ~alias[q]
  <2>1. captured'[q] = captured[q]
    BY <1>1 DEF ReqsOK, ReplaceBatch
  <2> QED
    BY <2>1
<1>2. CASE alias[q] /\ rstate[q] \in {"sent", "answered"}
  <2>1. captured'[q] = new
    BY <1>2 DEF ReqsOK, ReplaceBatch
  <2> QED
    BY <2>1
<1>3. CASE alias[q] /\ rstate[q] = "failing"
  <2>1. captured'[q] = <<Head(captured[q])>>
    BY <1>3 DEF ReqsOK, ReplaceBatch
  <2>2. Within(<<Head(captured[q])>>, S)
    BY <1>3, WithinParts DEF ReqsOK
  <2> QED
    BY <2>1, <2>2
<1>4. CASE alias[q] /\ rstate[q] \in {"free", "running"}
  <2>1. captured'[q] = <<>>
    BY <1>4 DEF ReqsOK, ReplaceBatch
  <2> QED
    BY <2>1, WithinEmpty
<1> QED
  BY <1>1, <1>2, <1>3, <1>4 DEF ReqsOK

(* Every copy, in the thread or in a request, is of a document in the       *)
(* collection, and stays so.                                                *)
LEMMA KnownStep == TypeInv /\ KnownInv /\ [Next]_vars => KnownInv'
<1> SUFFICES ASSUME TypeInv, ThreadKnown, RequestsKnown, [Next]_vars
             PROVE  ThreadKnown' /\ RequestsKnown'
  BY DEF KnownInv
<1> DEFINE Goal == ThreadKnown' /\ RequestsKnown'
<1>c. StoreOK /\ ThreadOK /\ ReqsOK /\ StoreOK' /\ Known \subseteq Known'
  BY TypeStep, KnownGrows DEF TypeInv
<1>v. /\ Within(todo, Known') /\ Within(batch, Known') /\ Within(each, Known')
      /\ \A q \in ReqIds : Within(captured[q], Known') /\ sent[q] \subseteq Known'
  <2>1. Within(todo, Known') /\ Within(batch, Known') /\ Within(each, Known')
    BY <1>c, WithinMore DEF ThreadKnown
  <2>2. ASSUME NEW q \in ReqIds PROVE Within(captured[q], Known') /\ sent[q] \subseteq Known'
    BY <1>c, WithinMore DEF RequestsKnown
  <2> QED
    BY <2>1, <2>2
<1>t. UNCHANGED <<todo, batch, each>> => ThreadKnown'
  BY <1>v DEF ThreadKnown
<1>r. UNCHANGED <<captured, sent>> => RequestsKnown'
  BY <1>v DEF RequestsKnown
<1>e. EndTick => ThreadKnown'
  BY WithinEmpty DEF EndTick, ThreadKnown
<1>n. Returns => ThreadKnown'
  BY <1>e, <1>v, WithinEmpty DEF Returns, ThreadKnown
<1>a. EachAdvance /\ pc = "each" => ThreadKnown'
  <2>1. CASE Tail(each) = <<>>
    BY <2>1, <1>n DEF EachAdvance
  <2>2. CASE Tail(each) # <<>>
    BY <2>2, <1>c, <1>v, WithinParts DEF EachAdvance, ThreadKnown, ThreadOK
  <2> QED
    BY <2>1, <2>2
<1>d. ASSUME NEW q \in ReqIds, captured[q] # <<>>, Advance(q) PROVE RequestsKnown'
  <2>1. Within(Tail(captured[q]), Known')
    BY <1>c, <1>v, <1>d, WithinParts DEF ReqsOK
  <2>2. \A p \in ReqIds : captured'[p] = IF p = q THEN Tail(captured[q]) ELSE captured[p]
    BY <1>c, <1>d DEF Advance, ReqsOK
  <2>3. sent' = sent
    BY <1>d DEF Advance
  <2> QED
    BY <1>v, <2>1, <2>2, <2>3 DEF RequestsKnown
<1>b. ASSUME NEW new \in Seq(Snapshot), Within(new, Known'), ReplaceBatch(new), UNCHANGED sent
      PROVE  RequestsKnown'
  BY <1>b, <1>c, <1>v, WithinReplace DEF RequestsKnown
<1>z. ASSUME NEW q, NEW snaps \in Seq(Snapshot), NEW shared,
             Within(snaps, Known'), Send(q, snaps, shared)
      PROVE  RequestsKnown'
  <2>1. \A p \in ReqIds : captured'[p] = IF p = q THEN snaps ELSE captured[p]
    BY <1>z, <1>c DEF Send, ReqsOK
  <2>2. \A p \in ReqIds : sent'[p] = IF p = q THEN ItemsOf(snaps) ELSE sent[p]
    BY <1>z, <1>c DEF Send, ReqsOK
  <2>3. ItemsOf(snaps) \subseteq Known'
    BY <1>z, WithinItems
  <2> QED
    BY <1>v, <1>z, <2>1, <2>2, <2>3 DEF RequestsKnown
<1>1. ASSUME NEW i \in Items, Stamp(i) \/ Insert(i) PROVE Goal
  BY <1>1, <1>t, <1>r DEF Stamp, Insert, thread, reqs
<1>2. CASE Start \/ Stop \/ ScanFlush
  BY <1>2, <1>t, <1>r DEF Start, Stop, ScanFlush, reqs
<1>3. CASE Tick
  <2>1. Within(todo', Known')
    BY <1>3, <1>c, ReadPending, WithinMore DEF Tick
  <2> QED
    BY <1>3, <2>1, <1>v, <1>r DEF Tick, ThreadKnown
<1>4. CASE ScanAdd
  <2>1. todo # <<>> /\ todo \in Seq(Snapshot) /\ batch \in Seq(Snapshot)
    BY <1>4, <1>c DEF ScanAdd, ThreadOK
  <2>2. Within(Tail(todo), Known') /\ Head(todo).item \in Known' /\ Head(todo) \in Snapshot
    BY <2>1, <1>v, WithinParts, HeadTail
  <2>3. Append(batch, Head(todo)) \in Seq(Snapshot) /\ Within(Append(batch, Head(todo)), Known')
    BY <2>1, <2>2, <1>v, AppendOne, WithinAppend
  <2>4. RequestsKnown'
    BY <1>4, <2>3, <1>b DEF ScanAdd
  <2>5. ThreadKnown'
    BY <1>4, <2>2, <2>3, <1>v DEF ScanAdd, ReplaceBatch, ThreadKnown
  <2> QED
    BY <2>4, <2>5
<1>5. CASE ScanOversize
  <2>1. Within(Tail(todo), Known')
    BY <1>5, <1>c, <1>v, WithinParts DEF ScanOversize, ThreadOK
  <2> QED
    BY <1>5, <2>1, <1>v, <1>r DEF ScanOversize, reqs, ThreadKnown
<1>6. CASE BatchRefused \/ EachRefused
  BY <1>6, <1>e, <1>r DEF BatchRefused, EachRefused, reqs
<1>7. CASE BatchMixed
  <2>1. ThreadKnown'
    BY <1>7, <1>v DEF BatchMixed, ThreadKnown
  <2> QED
    BY <1>7, <2>1, <1>r DEF BatchMixed, reqs
<1>8. CASE BatchSend
  <2>1. RequestsKnown'
    BY <1>8, <1>z, <1>c, <1>v DEF BatchSend, ThreadOK
  <2> QED
    BY <1>8, <2>1, <1>n DEF BatchSend
<1>9. CASE BatchThrows
  BY <1>9, <1>n, <1>r DEF BatchThrows, reqs
<1>10. CASE EachSend
  <2>0. each \in Seq(Snapshot) /\ each # <<>>
    BY <1>10, <1>c DEF EachSend, ThreadOK
  <2>1. <<Head(each)>> \in Seq(Snapshot)
    BY <2>0, HeadTail
  <2>3. Within(<<Head(each)>>, Known')
    BY <2>0, <1>v, WithinParts
  <2>2. RequestsKnown'
    BY <1>10, <1>z, <2>1, <2>3 DEF EachSend
  <2> QED
    BY <1>10, <2>2, <1>a DEF EachSend
<1>11. CASE EachThrows
  BY <1>11, <1>a, <1>r DEF EachThrows, reqs
<1>12. CASE ClearBatch
  <2>1. RequestsKnown'
    BY <1>12, <1>b, WithinEmpty, EmptySeq DEF ClearBatch
  <2>2. ThreadKnown'
    BY <1>12, <1>v, WithinEmpty DEF ClearBatch, ReplaceBatch, ThreadKnown
  <2> QED
    BY <2>1, <2>2
<1>13. ASSUME NEW q \in ReqIds, Answer(q) PROVE Goal
  <2>1. UNCHANGED captured /\ \A p \in ReqIds : sent'[p] \subseteq sent[p]
    BY <1>13, <1>c DEF Answer, ReqsOK
  <2>2. RequestsKnown'
    BY <1>v, <2>1 DEF RequestsKnown
  <2> QED
    BY <1>13, <2>2, <1>t DEF Answer, thread
<1>14. ASSUME NEW q \in ReqIds, CallbackEmpty(q) PROVE Goal
  BY <1>14, <1>t, <1>r DEF CallbackEmpty, thread
<1>15. ASSUME NEW q \in ReqIds, HandleSuccess(q) \/ HandleExhausted(q) \/ WriteFails(q) PROVE Goal
  BY <1>15, <1>d, <1>t DEF HandleSuccess, WriteSuccess, HandleExhausted, WriteFails, thread, TypeInv, ReqsOK
<1>16. ASSUME NEW q \in ReqIds, HandleError(q) PROVE Goal
  BY <1>16, <1>d, <1>t, <1>r DEF HandleError, CountError, thread
<1>17. CASE RefreshPermits \/ UNCHANGED vars
  BY <1>17, <1>t, <1>r DEF RefreshPermits, vars, thread, reqs
<1>18. CASE Crash \/ Exit
  BY <1>18, WithinEmpty DEF Crash, Exit, ProcessEnds, ThreadKnown, RequestsKnown
<1> QED
  BY <1>1, <1>2, <1>3, <1>4, <1>5, <1>6, <1>7, <1>8, <1>9, <1>10, <1>11, <1>12,
     <1>13, <1>14, <1>15, <1>16, <1>17, <1>18 DEF Next, SchedulerStep, Callback

-----------------------------------------------------------------------------
(* One flush per tick *)

(* What one batch collects fits a request; and no request shares its list   *)
(* with a tick that is under way.                                           *)
OneFlush(K) ==
  /\ pc # "return"
  /\ pc \in {"forward", "each"} => todo = <<>>
  /\ pc \in {"off", "idle", "stopped"} => batch = <<>> /\ todo = <<>>
  /\ Len(batch) + Len(todo) <= BatchSize
  /\ total <= Len(batch) * K
  /\ \A q \in ReqIds : alias[q] => pc \in {"idle", "stopped"}

(* One more document of at most K messages: arithmetic for ScanAdd.         *)
LEMMA OneMore ==
  ASSUME NEW K \in Nat, NEW n \in Nat, NEW t \in Nat, NEW x \in Nat, t <= n * K, x <= K
  PROVE  t + x <= (n + 1) * K
<1>1. (n + 1) * K = n * K + K
  BY SMT
<1>2. n * K \in Nat
  BY SMT
<1> QED
  BY <1>1, <1>2

(* Fewer documents are not more messages. *)
LEMMA FewerFit ==
  ASSUME NEW K \in Nat, NEW n \in Nat, NEW m \in Nat, n <= m
  PROVE  n * K <= m * K
BY SMT

(* The next document always fits. *)
LEMMA NextFits ==
  ASSUME NEW K \in Nat, SmallBatches(K), TypeInv, OneFlush(K), pc = "scan"
  PROVE  /\ Fits
         /\ total + SizeOf[Head(todo).item] <= (Len(batch) + 1) * K
         /\ Len(Tail(todo)) = Len(todo) - 1 /\ Len(todo) \in Nat \ {0} /\ Len(batch) \in Nat
<1>1. todo # <<>> /\ todo \in Seq(Snapshot) /\ batch \in Seq(Snapshot) /\ total \in Nat
  BY DEF TypeInv, ThreadOK
<1>2. /\ Len(Tail(todo)) = Len(todo) - 1 /\ Len(todo) \in Nat \ {0} /\ Len(batch) \in Nat
  BY <1>1, LenProperties, EmptySeq, HeadTailProperties
<1>3. Head(todo).item \in Items
  BY <1>1, HeadSnapshot
<1>4. SizeOf[Head(todo).item] \in Nat /\ SizeOf[Head(todo).item] <= K
  BY <1>3, Constants DEF SmallBatches
<1>5. total + SizeOf[Head(todo).item] <= (Len(batch) + 1) * K
  BY <1>1, <1>2, <1>4, OneMore DEF OneFlush
<1>6. Len(batch) + 1 <= BatchSize /\ BatchSize \in Nat /\ MaxPerRequest \in Nat
  BY <1>2, Constants DEF OneFlush
<1>7. (Len(batch) + 1) * K <= BatchSize * K
  BY <1>2, <1>6, FewerFit
<1>8. BatchSize * K <= MaxPerRequest
  BY DEF SmallBatches
<1>9. (Len(batch) + 1) * K \in Nat /\ BatchSize * K \in Nat
  BY <1>2, <1>6
<1>10. Fits
  BY <1>1, <1>4, <1>5, <1>6, <1>7, <1>8, <1>9 DEF Fits
<1> QED
  BY <1>2, <1>5, <1>10

(* A list no request shares is replaced without a trace in the requests.    *)
LEMMA ReplaceUnshared ==
  ASSUME ReqsOK, NEW new, ReplaceBatch(new), \A q \in ReqIds : ~alias[q]
  PROVE  UNCHANGED <<rstate, rok, captured, alias>>
<1>1. captured' = captured
  BY DEF ReqsOK, ReplaceBatch
<1>2. rstate' = rstate
  BY DEF ReqsOK, ReplaceBatch
<1>3. alias' = alias
  BY DEF ReqsOK, ReplaceBatch
<1>4. rok' = rok
  BY DEF ReqsOK, ReplaceBatch
<1> QED
  BY <1>1, <1>2, <1>3, <1>4

(* Every tick needs one flush at most. *)
LEMMA FlushStep ==
  ASSUME NEW K \in Nat, SmallBatches(K)
  PROVE  TypeInv /\ OneFlush(K) /\ [Next]_vars => OneFlush(K)'
<1> SUFFICES ASSUME TypeInv, OneFlush(K), [Next]_vars PROVE OneFlush(K)'
  OBVIOUS
<1>c. ThreadOK /\ ReqsOK
  BY DEF TypeInv
<1>k. BatchSize \in Nat /\ Len(<<>>) = 0 /\ 0 * K = 0
  BY Constants
<1>u. UNCHANGED thread /\ (\A q \in ReqIds : alias'[q] => alias[q]) => OneFlush(K)'
  BY DEF thread, OneFlush
<1>e. EndTick => OneFlush(K)'
  BY <1>k DEF EndTick, OneFlush
<1>n. Returns /\ todo = <<>> => OneFlush(K)'
  BY <1>e DEF Returns
<1>a. EachAdvance /\ pc = "each" /\ (\A q \in ReqIds : alias'[q] => alias[q]) => OneFlush(K)'
  <2> SUFFICES ASSUME EachAdvance, pc = "each", \A q \in ReqIds : alias'[q] => alias[q]
               PROVE  OneFlush(K)'
    OBVIOUS
  <2>1. CASE Tail(each) = <<>>
    BY <2>1, <1>n DEF EachAdvance, OneFlush
  <2>2. CASE Tail(each) # <<>>
    BY <2>2 DEF EachAdvance, OneFlush
  <2> QED
    BY <2>1, <2>2
<1>1. ASSUME NEW i \in Items, Stamp(i) \/ Insert(i) PROVE OneFlush(K)'
  BY <1>1, <1>u DEF Stamp, Insert, reqs
<1>2. CASE Start \/ Stop
  BY <1>2 DEF Start, Stop, reqs, OneFlush
<1>3. CASE Tick
  <2>1. Len(todo') <= BatchSize /\ Len(todo') \in Nat
    <3>1. todo' \in Seq(Snapshot)
      BY <1>3, ReadOK DEF Tick, TypeInv
    <3>2. Len(todo') <= BatchSize
      BY <1>3, ReadPending DEF Tick, TypeInv
    <3> QED
      BY <3>1, <3>2, LenProperties
  <2>2. batch' = <<>> /\ total' = total /\ batch = <<>> /\ pc' = "scan"
    BY <1>3 DEF Tick, OneFlush
  <2>3. \A q \in ReqIds : ~alias'[q]
    BY <1>3 DEF Tick
  <2> QED
    BY <1>k, <2>1, <2>2, <2>3 DEF OneFlush
<1>4. CASE ScanAdd
  <2>0. pc = "scan" /\ \A q \in ReqIds : ~alias[q]
    BY <1>4 DEF ScanAdd, OneFlush
  <2>1. /\ total' <= (Len(batch) + 1) * K
        /\ Len(Tail(todo)) = Len(todo) - 1 /\ Len(todo) \in Nat \ {0} /\ Len(batch) \in Nat
        /\ Len(batch) + Len(todo) <= BatchSize
    BY <1>4, <2>0, NextFits DEF ScanAdd, OneFlush
  <2>2. batch' = Append(batch, Head(todo)) /\ todo' = Tail(todo) /\ alias' = alias
    BY <1>4, <1>c, <2>0, ReplaceUnshared DEF ScanAdd, ReplaceBatch
  <2>3. Len(batch') = Len(batch) + 1
    <3>1. todo # <<>> /\ todo \in Seq(Snapshot) /\ batch \in Seq(Snapshot)
      BY <1>4, <1>c DEF ScanAdd, ThreadOK
    <3>2. Head(todo) \in Snapshot
      BY <3>1, HeadTail
    <3> QED
      BY <2>2, <3>1, <3>2, AppendProperties
  <2>4. pc' = (IF Tail(todo) = <<>> THEN "forward" ELSE "scan")
    BY <1>4 DEF ScanAdd
  <2>5. Len(batch') + Len(todo') <= BatchSize
    BY <2>1, <2>2, <2>3, <1>k
  <2>6. total' <= Len(batch') * K
    BY <2>1, <2>3
  <2>7. \A q \in ReqIds : ~alias'[q]
    BY <2>0, <2>2
  <2> QED
    BY <2>2, <2>4, <2>5, <2>6, <2>7 DEF OneFlush
<1>5. CASE ScanFlush \/ ScanOversize
  BY <1>5, NextFits DEF ScanFlush, ScanOversize
<1>6. CASE BatchRefused \/ EachRefused
  BY <1>6, <1>e DEF BatchRefused, EachRefused
<1>7. CASE BatchMixed
  BY <1>7 DEF BatchMixed, OneFlush, reqs
<1>8. CASE BatchSend \/ BatchThrows
  BY <1>8, <1>n DEF BatchSend, BatchThrows, OneFlush
<1>9. CASE EachSend
  <2>1. \A q \in ReqIds : alias'[q] => alias[q]
    BY <1>9, <1>c DEF EachSend, Send, ReqsOK
  <2> QED
    BY <1>9, <2>1, <1>a DEF EachSend
<1>10. CASE EachThrows
  BY <1>10, <1>a DEF EachThrows, reqs
<1>11. CASE ClearBatch
  BY <1>11 DEF ClearBatch, OneFlush
<1>12. ASSUME NEW q \in ReqIds, Answer(q) PROVE OneFlush(K)'
  BY <1>12, <1>u DEF Answer
<1>13. ASSUME NEW q \in ReqIds, CallbackEmpty(q) PROVE OneFlush(K)'
  BY <1>13, <1>c, <1>u DEF CallbackEmpty, ReqsOK
<1>14. ASSUME NEW q \in ReqIds, Advance(q), UNCHANGED thread PROVE OneFlush(K)'
  BY <1>14, <1>c, <1>u DEF Advance, ReqsOK
<1>15. ASSUME NEW q \in ReqIds, HandleSuccess(q) \/ HandleExhausted(q) \/ WriteFails(q) PROVE OneFlush(K)'
  BY <1>15, <1>14 DEF HandleSuccess, WriteSuccess, HandleExhausted, WriteFails
<1>16. ASSUME NEW q \in ReqIds, HandleError(q) PROVE OneFlush(K)'
  BY <1>16, <1>14, <1>u DEF HandleError, CountError
<1>17. CASE RefreshPermits \/ UNCHANGED vars
  BY <1>17, <1>u DEF RefreshPermits, vars, reqs
<1>18. CASE Crash \/ Exit
  BY <1>18, <1>k DEF Crash, Exit, ProcessEnds, OneFlush
<1> QED
  BY <1>1, <1>2, <1>3, <1>4, <1>5, <1>6, <1>7, <1>8, <1>9, <1>10, <1>11, <1>12,
     <1>13, <1>15, <1>16, <1>17, <1>18 DEF Next, SchedulerStep, Callback

-----------------------------------------------------------------------------
(* What a callback is about to call SUCCESS was executed *)

(* A request's callback holds documents the request forwards, and once it   *)
(* was answered without an error, documents Telegram has executed it for.   *)
Honest ==
  \A q \in ReqIds :
    /\ rstate[q] \in {"free", "sent"} => ~rok[q]
    /\ rok[q] => Within(captured[q], Reached)
    /\ rstate[q] = "sent" => Within(captured[q], sent[q])

TruthInv == Honest /\ SuccessMeansAnswered

(* Executing requests only adds to what was executed, and adds what they    *)
(* carry.                                                                   *)
LEMMA DeliverReaches ==
  ASSUME HistoryOK, NEW Q \in SUBSET ReqIds, Deliver(Q)
  PROVE  /\ Reached \subseteq Reached'
         /\ \A q \in Q : sent[q] \cap Items \subseteq Reached'
<1> DEFINE Carry(i) == {q \in Q : i \in sent[q]}
<1>0. \A i \in Items : IsFiniteSet(Carry(i)) /\ Cardinality(Carry(i)) \in Nat
  <2>1. IsFiniteSet(ReqIds)
    <3>1. MaxInFlight \in Nat
      BY ConstantsAssumption DEF ConstantsAssumption
    <3> QED
      BY <3>1, FS_Interval DEF ReqIds
  <2> QED
    BY <2>1, FS_Subset, FS_CardinalityType
<1>1. \A i \in Items : delivered'[i] =
        IF delivered[i] + Cardinality(Carry(i)) < 2 THEN delivered[i] + Cardinality(Carry(i)) ELSE 2
  BY DEF Deliver
<1>2. \A i \in Items : delivered[i] \in Nat
  BY DEF HistoryOK
<1>3. Reached \subseteq Reached'
  <2> SUFFICES ASSUME NEW i \in Items, delivered[i] > 0 PROVE delivered'[i] > 0
    BY DEF Reached
  <2> DEFINE n == Cardinality(Carry(i))
  <2>1. n \in Nat /\ delivered[i] \in Nat
    BY <1>0, <1>2
  <2>2. delivered'[i] = IF delivered[i] + n < 2 THEN delivered[i] + n ELSE 2
    BY <1>1
  <2> HIDE DEF n
  <2> QED
    BY <2>1, <2>2
<1>4. ASSUME NEW q \in Q, NEW i \in Items, i \in sent[q] PROVE i \in Reached'
  <2>1. q \in Carry(i)
    BY <1>4
  <2>2. Cardinality(Carry(i)) # 0
    BY <1>0, <2>1, FS_EmptySet
  <2> QED
    BY <1>0, <1>1, <1>2, <2>2 DEF Reached
<1> QED
  BY <1>3, <1>4

(* ... and adds no more than that. *)
LEMMA DeliverOnly ==
  ASSUME HistoryOK, NEW Q \in SUBSET ReqIds, Deliver(Q)
  PROVE  Reached' \subseteq Reached \union UNION {sent[q] : q \in Q}
<1> SUFFICES ASSUME NEW i \in Items, delivered[i] = 0, delivered'[i] # 0
             PROVE  {q \in Q : i \in sent[q]} # {}
  BY DEF Reached, HistoryOK
<1>1. SUFFICES ASSUME {q \in Q : i \in sent[q]} = {} PROVE FALSE
  OBVIOUS
<1>2. Cardinality({q \in Q : i \in sent[q]}) = 0
  BY <1>1, FS_EmptySet
<1>3. delivered'[i] = 0
  BY <1>2 DEF Deliver
<1> QED
  BY <1>3

(* Nothing that was executed is forgotten. *)
LEMMA ReachedGrows == TypeInv /\ [Next]_vars => Reached \subseteq Reached'
<1> SUFFICES ASSUME TypeInv, [Next]_vars PROVE Reached \subseteq Reached'
  OBVIOUS
<1>u. UNCHANGED delivered => Reached \subseteq Reached'
  BY DEF Reached
<1>h. UNCHANGED history => Reached \subseteq Reached'
  BY <1>u DEF history
<1>1. ASSUME NEW q \in ReqIds, Answer(q) PROVE Reached \subseteq Reached'
  <2>1. PICK ok \in BOOLEAN : Deliver(IF ok THEN {q} ELSE {})
    BY <1>1 DEF Answer
  <2> QED
    BY <2>1, DeliverReaches DEF TypeInv
<1>2. CASE Crash \/ Exit
  <2>1. PICK Q \in SUBSET {q \in ReqIds : rstate[q] = "sent"} : Deliver(Q)
    BY <1>2 DEF Crash, Exit, ProcessEnds
  <2> QED
    BY <2>1, DeliverReaches DEF TypeInv
<1>3. ASSUME NEW i \in Items, Stamp(i) \/ Insert(i) PROVE Reached \subseteq Reached'
  BY <1>3, <1>h DEF Stamp, Insert
<1>4. CASE Start \/ Stop \/ Tick \/ ScanAdd \/ ScanFlush \/ ScanOversize \/ ClearBatch
  BY <1>4, <1>u, <1>h DEF Start, Stop, Tick, ScanAdd, ScanFlush, ScanOversize, ClearBatch
<1>5. CASE BatchRefused \/ BatchMixed \/ BatchSend \/ BatchThrows
  BY <1>5, <1>u, <1>h DEF BatchRefused, BatchMixed, BatchSend, BatchThrows
<1>6. CASE EachRefused \/ EachSend \/ EachThrows
  BY <1>6, <1>u, <1>h DEF EachRefused, EachSend, EachThrows
<1>7. ASSUME NEW q \in ReqIds, Callback(q) \/ WriteFails(q) PROVE Reached \subseteq Reached'
  BY <1>7, <1>u, <1>h DEF Callback, CallbackEmpty, HandleSuccess, WriteSuccess, HandleError,
     CountError, HandleExhausted, WriteFails
<1>8. CASE RefreshPermits \/ UNCHANGED vars
  BY <1>8, <1>h DEF RefreshPermits, vars
<1> QED
  BY <1>1, <1>2, <1>3, <1>4, <1>5, <1>6, <1>7, <1>8 DEF Next, SchedulerStep

(* Every step keeps the callbacks honest. *)
LEMMA TruthStep ==
  ASSUME NEW K \in Nat
  PROVE  TypeInv /\ OneFlush(K) /\ TruthInv /\ [Next]_vars => TruthInv'
<1> SUFFICES ASSUME TypeInv, OneFlush(K), Honest, SuccessMeansAnswered, [Next]_vars
             PROVE  Honest' /\ SuccessMeansAnswered'
  BY DEF TruthInv
<1> DEFINE Goal == Honest' /\ SuccessMeansAnswered'
<1>c. StoreOK /\ ThreadOK /\ ReqsOK /\ Reached \subseteq Reached'
  BY ReachedGrows DEF TypeInv
<1>f. ASSUME NEW i \in Items, status[i] = "SUCCESS" PROVE delivered'[i] > 0
  BY <1>c, <1>f DEF SuccessMeansAnswered, Reached
<1>s. UNCHANGED status => SuccessMeansAnswered'
  BY <1>f DEF SuccessMeansAnswered
<1>w. ASSUME NEW q \in ReqIds, rok[q] PROVE Within(captured[q], Reached')
  BY <1>c, <1>w, WithinMore DEF Honest
<1>r. UNCHANGED <<rstate, rok, sent, captured>> => Honest'
  BY <1>w DEF Honest
<1>d. ASSUME NEW q \in ReqIds, captured[q] # <<>>, rstate[q] \in {"answered", "running", "failing"},
             Advance(q)
      PROVE  Honest'
  <2>1. rok[q] => Within(Tail(captured[q]), Reached')
    BY <1>c, <1>d, <1>w, WithinParts DEF ReqsOK
  <2>2. /\ captured'[q] = Tail(captured[q]) /\ rstate'[q] \in {"free", "running"}
        /\ rok'[q] => rok[q] /\ Tail(captured[q]) # <<>>
        /\ rstate'[q] = "free" => Tail(captured[q]) = <<>>
    BY <1>c, <1>d DEF Advance, ReqsOK
  <2>3. \A p \in ReqIds : p # q =>
          /\ captured'[p] = captured[p] /\ rstate'[p] = rstate[p] /\ rok'[p] = rok[p]
    BY <1>c, <1>d DEF Advance, ReqsOK
  <2>4. sent' = sent
    BY <1>d DEF Advance
  <2> QED
    BY <1>w, <2>1, <2>2, <2>3, <2>4 DEF Honest
<1>z. ASSUME Free # {}, NEW snaps \in Seq(Snapshot), NEW shared, Send(NextFree, snaps, shared)
      PROVE  Honest'
  <2> DEFINE q == NextFree
  <2>1. q \in ReqIds /\ rstate[q] = "free"
    <3>1. Free \subseteq Nat /\ \E n \in Nat : n \in Free
      BY <1>z DEF Free, ReqIds
    <3>2. \E n \in Free : \A m \in Free : n <= m
      <4>1. PICK n \in Free : \A m \in Free : ~(<<m, n>> \in OpToRel(<, Nat))
        BY <3>1, NatLessThanWellFounded, WFMin
      <4>2. \A m \in Free : ~(m < n)
        BY <3>1, <4>1 DEF OpToRel
      <4> QED
        BY <3>1, <4>2
    <3>3. q \in Free
      BY <3>2 DEF NextFree
    <3> QED
      BY <3>3 DEF Free
  <2>2. ~rok[q] /\ rok' = rok
    BY <1>z, <2>1 DEF Honest, Send
  <2>3. captured'[q] = snaps /\ sent'[q] = ItemsOf(snaps) /\ rstate'[q] = "sent"
    BY <1>z, <1>c, <2>1 DEF Send, ReqsOK
  <2>4. \A p \in ReqIds : p # q =>
          captured'[p] = captured[p] /\ sent'[p] = sent[p] /\ rstate'[p] = rstate[p]
    BY <1>z, <1>c DEF Send, ReqsOK
  <2>5. Within(snaps, ItemsOf(snaps))
    BY WithinItems
  <2> QED
    BY <1>w, <2>2, <2>3, <2>4, <2>5 DEF Honest
<1>1. ASSUME NEW i \in Items, Stamp(i) \/ Insert(i) PROVE Goal
  BY <1>1, <1>c, <1>f, <1>r DEF Stamp, Insert, reqs, SuccessMeansAnswered, StoreOK
<1>2. CASE Start \/ Stop \/ Tick \/ ScanFlush
  BY <1>2, <1>r, <1>s DEF Start, Stop, Tick, ScanFlush, store, reqs
<1>3. CASE ScanAdd
  <2>1. UNCHANGED <<rstate, rok, captured>>
    BY <1>3, <1>c, ReplaceUnshared DEF ScanAdd, OneFlush
  <2> QED
    BY <1>3, <2>1, <1>r, <1>s DEF ScanAdd, store
<1>4. CASE ScanOversize
  BY <1>4, <1>c, <1>f, <1>r DEF ScanOversize, reqs, SuccessMeansAnswered, StoreOK
<1>5. CASE BatchRefused \/ EachRefused \/ BatchMixed
  BY <1>5, <1>r, <1>s DEF BatchRefused, EachRefused, BatchMixed, store, reqs
<1>6. CASE BatchSend
  BY <1>6, <1>c, <1>z, <1>s DEF BatchSend, store, ThreadOK
<1>7. CASE BatchThrows \/ EachThrows
  <2>1. Honest'
    BY <1>7, <1>r DEF BatchThrows, EachThrows, reqs
  <2>2. \A i \in Items : status'[i] = "SUCCESS" => status[i] = "SUCCESS"
    BY <1>7 DEF BatchThrows, EachThrows, FailAll
  <2> QED
    BY <1>f, <2>1, <2>2 DEF SuccessMeansAnswered
<1>8. CASE EachSend
  <2>1. each \in Seq(Snapshot) /\ each # <<>>
    BY <1>8, <1>c DEF EachSend, ThreadOK
  <2>2. <<Head(each)>> \in Seq(Snapshot)
    BY <2>1, HeadTail
  <2> QED
    BY <1>8, <2>2, <1>z, <1>s DEF EachSend, store
<1>9. CASE ClearBatch
  BY <1>9 DEF ClearBatch, OneFlush
<1>10. ASSUME NEW q \in ReqIds, Answer(q) PROVE Goal
  <2>1. PICK ok \in BOOLEAN :
          rok' = [rok EXCEPT ![q] = ok] /\ Deliver(IF ok THEN {q} ELSE {})
    BY <1>10 DEF Answer
  <2>2. /\ rstate[q] = "sent" /\ rstate' = [rstate EXCEPT ![q] = "answered"]
        /\ sent' = [sent EXCEPT ![q] = {}] /\ captured' = captured
    BY <1>10 DEF Answer
  <2>3. ok => Within(captured[q], Reached')
    <3>1. ok => sent[q] \subseteq Reached'
      BY <2>1, <1>c, DeliverReaches DEF TypeInv, ReqsOK
    <3>2. Within(captured[q], sent[q])
      BY <2>2 DEF Honest
    <3> QED
      BY <3>1, <3>2, WithinMore
  <2>4. Honest'
    BY <1>c, <1>w, <2>1, <2>2, <2>3 DEF Honest, ReqsOK
  <2> QED
    BY <1>10, <2>4, <1>s DEF Answer, store
<1>11. ASSUME NEW q \in ReqIds, CallbackEmpty(q) PROVE Goal
  <2>1. Honest'
    BY <1>11, <1>c, <1>w DEF CallbackEmpty, Honest, ReqsOK
  <2> QED
    BY <1>11, <2>1, <1>s DEF CallbackEmpty, store
<1>12. ASSUME NEW q \in ReqIds, HandleSuccess(q) PROVE Goal
  <2>1. /\ captured[q] # <<>> /\ captured[q] \in Seq(Snapshot)
        /\ rok[q] /\ rstate[q] \in {"answered", "running"}
        /\ status' = [status EXCEPT ![Head(captured[q]).item] = "SUCCESS"]
        /\ Advance(q)
    BY <1>12, <1>c DEF HandleSuccess, WriteSuccess, InCallback, ReqsOK
  <2>2. Head(captured[q]).item \in Reached'
    BY <2>1, <1>w, WithinParts
  <2>3. SuccessMeansAnswered'
    BY <1>c, <1>f, <2>1, <2>2 DEF SuccessMeansAnswered, StoreOK, Reached
  <2> QED
    BY <1>d, <2>1, <2>3
<1>13. ASSUME NEW q \in ReqIds, HandleError(q) PROVE Goal
  <2>1. /\ captured[q] # <<>> /\ ~rok[q] /\ rstate[q] \in {"answered", "running"}
        /\ UNCHANGED status
    BY <1>13 DEF HandleError, CountError, InCallback
  <2>2. CASE Advance(q)
    BY <2>1, <2>2, <1>d, <1>s
  <2>3. CASE ~Advance(q)
    <3>1. rstate' = [rstate EXCEPT ![q] = "failing"] /\ UNCHANGED <<rok, sent, captured>>
      BY <1>13, <2>3 DEF HandleError, CountError
    <3>2. Honest'
      BY <3>1, <1>c, <1>w DEF Honest, ReqsOK
    <3> QED
      BY <3>2, <2>1, <1>s
  <2> QED
    BY <2>2, <2>3
<1>14. ASSUME NEW q \in ReqIds, HandleExhausted(q) PROVE Goal
  <2>1. captured[q] # <<>> /\ rstate[q] = "failing" /\ Advance(q)
    BY <1>14, <1>c DEF HandleExhausted, ReqsOK
  <2>2. \A i \in Items : status'[i] = "SUCCESS" => status[i] = "SUCCESS"
    BY <1>14, <1>c DEF HandleExhausted, StoreOK
  <2> QED
    BY <1>d, <1>f, <2>1, <2>2 DEF SuccessMeansAnswered
<1>15. ASSUME NEW q \in ReqIds, WriteFails(q) PROVE Goal
  BY <1>15, <1>d, <1>s DEF WriteFails, store
<1>16. CASE RefreshPermits \/ UNCHANGED vars
  BY <1>16, <1>r, <1>s DEF RefreshPermits, vars, store, reqs
<1>17. CASE Crash \/ Exit
  <2>1. ProcessEnds
    BY <1>17 DEF Crash, Exit
  <2>2. Honest'
    BY <2>1 DEF ProcessEnds, Honest
  <2> QED
    BY <2>1, <2>2, <1>s DEF ProcessEnds, store
<1> QED
  BY <1>1, <1>2, <1>3, <1>4, <1>5, <1>6, <1>7, <1>8, <1>9, <1>10, <1>11, <1>12,
     <1>13, <1>14, <1>15, <1>16, <1>17 DEF Next, SchedulerStep, Callback

(* The whole inductive invariant. *)
AllInv(K) == TypeInv /\ KnownInv /\ OneFlush(K) /\ TruthInv

(* It holds in every reachable state. *)
LEMMA AllInvariant ==
  ASSUME NEW K \in Nat, SmallBatches(K) PROVE Spec => []AllInv(K)
<1>1. Init => KnownInv
  BY WithinEmpty DEF Init, KnownInv, ThreadKnown, RequestsKnown
<1>2. Init => OneFlush(K)
  <2>1. BatchSize \in Nat /\ Len(<<>>) = 0 /\ 0 * K = 0
    BY Constants
  <2> QED
    BY <2>1 DEF Init, OneFlush
<1>3. Init => TruthInv
  BY WithinEmpty DEF Init, TruthInv, Honest, SuccessMeansAnswered
<1>4. AllInv(K) /\ [Next]_vars => AllInv(K)'
  BY TypeStep, KnownStep, FlushStep, TruthStep DEF AllInv
<1>5. Spec => []TypeInv
  BY TypeCorrect
<1>6. Init /\ TypeInv => AllInv(K)
  BY <1>1, <1>2, <1>3 DEF AllInv
<1> QED
  BY <1>4, <1>5, <1>6, PTL DEF Spec

(* SUCCESS is only ever written for a document of which Telegram executed a *)
(* request, however ticks, answers, callbacks, failures and restarts        *)
(* interleave.                                                              *)
THEOREM SuccessWasAnswered ==
  ASSUME NEW K \in Nat, SmallBatches(K) PROVE Spec => []SuccessMeansAnswered
<1>1. AllInv(K) => SuccessMeansAnswered
  BY DEF AllInv, TruthInv
<1> QED
  BY <1>1, AllInvariant, PTL

(* What Telegram executed it forwarded wholly, but for what it may leave    *)
(* messages out of.                                                         *)
Complete == Reached \subseteq whole \union Refusable

LEMMA CompleteDeliver ==
  ASSUME HistoryOK, Complete, NEW Q \in SUBSET ReqIds, Deliver(Q) PROVE Complete'
<1> DEFINE carried == UNION {sent[q] : q \in Q}
<1>1. PICK short \in SUBSET (carried \cap Refusable) : whole' = whole \union (carried \ short)
  BY DEF Deliver
<1>2. Reached' \subseteq Reached \union carried
  BY DeliverOnly
<1> QED
  BY <1>1, <1>2 DEF Complete

(* Only Telegram changes what it executed and forwarded. *)
LEMMA CompleteStep == TypeInv /\ Complete /\ [Next]_vars => Complete'
<1> SUFFICES ASSUME TypeInv, Complete, [Next]_vars PROVE Complete'
  OBVIOUS
<1>u. UNCHANGED <<delivered, whole>> => Complete'
  BY DEF Reached, Complete
<1>h. UNCHANGED history => Complete'
  BY <1>u DEF history
<1>1. ASSUME NEW q \in ReqIds, Answer(q) PROVE Complete'
  <2>1. PICK ok \in BOOLEAN : Deliver(IF ok THEN {q} ELSE {})
    BY <1>1 DEF Answer
  <2> QED
    BY <2>1, CompleteDeliver DEF TypeInv
<1>2. CASE Crash \/ Exit
  <2>1. PICK Q \in SUBSET {q \in ReqIds : rstate[q] = "sent"} : Deliver(Q)
    BY <1>2 DEF Crash, Exit, ProcessEnds
  <2> QED
    BY <2>1, CompleteDeliver DEF TypeInv
<1>3. ASSUME NEW i \in Items, Stamp(i) \/ Insert(i) PROVE Complete'
  BY <1>3, <1>h DEF Stamp, Insert
<1>4. CASE Start \/ Stop \/ Tick \/ ScanAdd \/ ScanFlush \/ ScanOversize \/ ClearBatch
  BY <1>4, <1>u, <1>h DEF Start, Stop, Tick, ScanAdd, ScanFlush, ScanOversize, ClearBatch
<1>5. CASE BatchRefused \/ BatchMixed \/ BatchSend \/ BatchThrows
  BY <1>5, <1>u, <1>h DEF BatchRefused, BatchMixed, BatchSend, BatchThrows
<1>6. CASE EachRefused \/ EachSend \/ EachThrows
  BY <1>6, <1>u, <1>h DEF EachRefused, EachSend, EachThrows
<1>7. ASSUME NEW q \in ReqIds, Callback(q) \/ WriteFails(q) PROVE Complete'
  BY <1>7, <1>u, <1>h DEF Callback, CallbackEmpty, HandleSuccess, WriteSuccess, HandleError,
     CountError, HandleExhausted, WriteFails
<1>8. CASE RefreshPermits \/ UNCHANGED vars
  BY <1>8, <1>h DEF RefreshPermits, vars
<1> QED
  BY <1>1, <1>2, <1>3, <1>4, <1>5, <1>6, <1>7, <1>8 DEF Next, SchedulerStep

(* What the database document says of SUCCESS, under both conditions it     *)
(* needs: no tick refills a list (SmallBatches), and Telegram leaves no     *)
(* message of an executed request out.                                      *)
THEOREM SuccessWasForwarded ==
  ASSUME NEW K \in Nat, SmallBatches(K), Refusable = {} PROVE Spec => []SuccessMeansForwarded
<1>1. SuccessMeansAnswered /\ Complete => SuccessMeansForwarded
  BY DEF SuccessMeansAnswered, SuccessMeansForwarded, Complete, Reached
<1>2. Init => Complete
  BY DEF Init, Complete, Reached
<1> QED
  BY <1>1, <1>2, CompleteStep, TypeCorrect, SuccessWasAnswered, PTL DEF Spec

-----------------------------------------------------------------------------
(* The refinement *)

(* A step of the queue is a step of the contract, or none. *)
LEMMA ContractStep ==
  ASSUME NEW K \in Nat
  PROVE  AllInv(K) /\ [Next]_vars => [Contract!Next]_<<status, Reached, whole>>
<1> SUFFICES ASSUME TypeInv, KnownInv, TruthInv, [Next]_vars
             PROVE  Contract!Next \/ UNCHANGED <<status, Reached, whole>>
  BY DEF AllInv, Contract!Next, Contract!promise
<1> DEFINE Goal == Contract!Next \/ UNCHANGED <<status, Reached, whole>>
<1>c. StoreOK /\ ThreadOK /\ ReqsOK /\ HistoryOK
  BY DEF TypeInv
<1>k. Known = Contract!Queued
  BY DEF Known, Contract!Queued
<1>u. UNCHANGED <<status, delivered, whole>> => Goal
  BY DEF Reached
<1>d. ASSUME UNCHANGED status, NEW Q \in SUBSET {q \in ReqIds : sent[q] \subseteq Known}, Deliver(Q)
      PROVE  Goal
  <2> DEFINE S == UNION {sent[q] : q \in Q}
  <2>1. S \subseteq Known /\ Known \subseteq Items
    BY DEF Known
  <2>2. Reached' = Reached \union S
    BY <1>c, <1>d, <2>1, DeliverReaches, DeliverOnly
  <2>3. PICK T \in SUBSET S : whole' = whole \union T
    BY <1>d DEF Deliver
  <2>4. S \in SUBSET Items /\ T \in SUBSET Items
    BY <2>1
  <2>5. Contract!Forward(S, T)
    BY <1>d, <1>k, <2>1, <2>2, <2>3 DEF Contract!Forward, Reached
  <2> QED
    BY <2>4, <2>5 DEF Contract!Next
<1>g. ASSUME NEW S \in SUBSET Known, UNCHANGED <<delivered, whole>>,
             status' = [i \in Items |-> IF i \in S THEN "FAILED" ELSE status[i]]
      PROVE  Goal
  <2>1. S \in SUBSET Items
    BY DEF Known
  <2>2. Contract!GiveUp(S)
    BY <1>g, <1>k DEF Contract!GiveUp
  <2> QED
    BY <2>1, <2>2 DEF Contract!Next
<1>o. ASSUME NEW i \in Known, UNCHANGED <<delivered, whole>>, status' = [status EXCEPT ![i] = "FAILED"]
      PROVE  Goal
  <2>1. status' = [j \in Items |-> IF j \in {i} THEN "FAILED" ELSE status[j]]
    BY <1>c, <1>o DEF StoreOK
  <2> QED
    BY <1>g, <1>o, <2>1
<1>m. ASSUME NEW snaps \in Seq(Snapshot), Within(snaps, Known), FailAll(snaps), UNCHANGED <<delivered, whole>>
      PROVE  Goal
  <2> DEFINE S == {snaps[k].item : k \in {m \in DOMAIN snaps : snaps[m].retry + 1 >= MaxRetry}}
  <2>1. S \subseteq Known
    BY <1>m DEF Within
  <2>2. status' = [i \in Items |-> IF i \in S THEN "FAILED" ELSE status[i]]
    BY <1>m DEF FailAll
  <2> QED
    BY <1>g, <1>m, <2>1, <2>2
<1>1. ASSUME NEW i \in Items, Stamp(i) \/ Insert(i) PROVE Goal
  <2>1. CASE Stamp(i)
    BY <2>1, <1>u DEF Stamp, history
  <2>2. CASE Insert(i)
    <3>1. Contract!Put(i)
      BY <2>2 DEF Insert, Writing, history, Contract!Put, Reached
    <3> QED
      BY <3>1 DEF Contract!Next
  <2> QED
    BY <1>1, <2>1, <2>2
<1>2. CASE Start \/ Stop \/ Tick \/ ScanAdd \/ ScanFlush \/ ClearBatch
  BY <1>2, <1>u DEF Start, Stop, Tick, ScanAdd, ScanFlush, ClearBatch, store, history
<1>3. CASE ScanOversize
  <2>1. Head(todo).item \in Known
    BY <1>3, <1>c, WithinParts DEF ScanOversize, ThreadOK, KnownInv, ThreadKnown
  <2> QED
    BY <1>3, <2>1, <1>o DEF ScanOversize
<1>4. CASE BatchRefused \/ BatchMixed \/ BatchSend \/ EachRefused \/ EachSend
  BY <1>4, <1>u DEF BatchRefused, BatchMixed, BatchSend, EachRefused, EachSend, store, history
<1>5. CASE BatchThrows
  BY <1>5, <1>c, <1>m DEF BatchThrows, ThreadOK, KnownInv, ThreadKnown
<1>6. CASE EachThrows
  <2>1. each \in Seq(Snapshot) /\ each # <<>> /\ Within(each, Known)
    BY <1>6, <1>c DEF EachThrows, ThreadOK, KnownInv, ThreadKnown
  <2>2. <<Head(each)>> \in Seq(Snapshot)
    BY <2>1, HeadTail
  <2>3. Within(<<Head(each)>>, Known)
    BY <2>1, WithinParts
  <2> QED
    BY <1>6, <2>2, <2>3, <1>m DEF EachThrows
<1>7. ASSUME NEW q \in ReqIds, Answer(q) PROVE Goal
  <2>1. PICK ok \in BOOLEAN : Deliver(IF ok THEN {q} ELSE {})
    BY <1>7 DEF Answer
  <2>2. (IF ok THEN {q} ELSE {}) \in SUBSET {p \in ReqIds : sent[p] \subseteq Known}
    BY DEF KnownInv, RequestsKnown
  <2> QED
    BY <1>7, <1>d, <2>1, <2>2 DEF Answer, store
<1>8. ASSUME NEW q \in ReqIds, CallbackEmpty(q) \/ HandleError(q) \/ WriteFails(q) PROVE Goal
  BY <1>8, <1>u DEF CallbackEmpty, HandleError, CountError, WriteFails, store, history
<1>9. ASSUME NEW q \in ReqIds, HandleSuccess(q) PROVE Goal
  <2>1. captured[q] # <<>> /\ captured[q] \in Seq(Snapshot) /\ Within(captured[q], Reached)
    BY <1>9, <1>c DEF HandleSuccess, WriteSuccess, ReqsOK, TruthInv, Honest
  <2>2. Head(captured[q]).item \in Reached
    BY <2>1, WithinParts
  <2>3. Contract!Succeed(Head(captured[q]).item)
    BY <1>9, <2>2 DEF HandleSuccess, WriteSuccess, history, Contract!Succeed, Reached
  <2> QED
    BY <2>2, <2>3 DEF Contract!Next, Reached
<1>10. ASSUME NEW q \in ReqIds, HandleExhausted(q) PROVE Goal
  <2>1. captured[q] # <<>> /\ captured[q] \in Seq(Snapshot) /\ Within(captured[q], Known)
    BY <1>10, <1>c DEF HandleExhausted, ReqsOK, KnownInv, RequestsKnown
  <2>2. Head(captured[q]).item \in Known
    BY <2>1, WithinParts
  <2> QED
    BY <1>10, <2>2, <1>o DEF HandleExhausted, history
<1>11. CASE RefreshPermits \/ UNCHANGED vars
  BY <1>11, <1>u DEF RefreshPermits, vars, store, history
<1>12. CASE Crash \/ Exit
  <2>1. PICK Q \in SUBSET {q \in ReqIds : rstate[q] = "sent"} : Deliver(Q)
    BY <1>12 DEF Crash, Exit, ProcessEnds
  <2>2. Q \in SUBSET {p \in ReqIds : sent[p] \subseteq Known}
    BY DEF KnownInv, RequestsKnown
  <2> QED
    BY <1>12, <1>d, <2>1, <2>2 DEF Crash, Exit, ProcessEnds, store
<1> QED
  BY <1>1, <1>2, <1>3, <1>4, <1>5, <1>6, <1>7, <1>8, <1>9, <1>10, <1>11, <1>12
     DEF Next, SchedulerStep, Callback

(* The queue implements its contract: every behaviour of ForwardQueue is,   *)
(* seen through status, delivered and whole, one of QueueContract.          *)
THEOREM QueueKeepsContract ==
  ASSUME NEW K \in Nat, SmallBatches(K) PROVE Spec => HonoursContract
<1>1. Init => Contract!Init
  BY DEF Init, Contract!Init
<1>2. AllInv(K) /\ [Next]_vars => [Contract!Next]_(Contract!promise)
  BY ContractStep DEF Contract!promise, Reached
<1> QED
  BY <1>1, <1>2, AllInvariant, PTL DEF Spec, HonoursContract, Contract!Spec

=============================================================================
