------------------------ MODULE ForwardOrder_proofs -------------------------
(***************************************************************************)
(* In which order, and how often, ForwardQueue tries a document.  Among     *)
(* inserted documents first attempts come in createTime order, for every    *)
(* value of the constants.                                                  *)
(* With batches that fit a request (SmallBatches) only a document that was  *)
(* tried is judged; and as long as no tick overlaps a callback and nothing  *)
(* fails, no document is forwarded twice and none is left PENDING without a *)
(* retry.                                                                   *)
(***************************************************************************)
EXTENDS ForwardContract_proofs

(* The copies the scheduler thread has still to try, in their order.  A     *)
(* batch that is sent is tried, though it is cleared only afterwards.       *)
Line == CASE pc = "each"   -> each \o todo
          [] pc = "return" -> todo
          [] OTHER         -> batch \o todo

-----------------------------------------------------------------------------
(* How the line moves *)

LEMMA LineType == TypeInv => Line \in Seq(Snapshot)
<1> SUFFICES ASSUME TypeInv PROVE Line \in Seq(Snapshot)
  OBVIOUS
<1>1. each \o todo \in Seq(Snapshot) /\ batch \o todo \in Seq(Snapshot) /\ todo \in Seq(Snapshot)
  BY ConcatProperties DEF TypeInv, ThreadOK
<1> QED
  BY <1>1 DEF Line

LEMMA NextLineType == TypeInv /\ [Next]_vars => (Line \in Seq(Snapshot))'
BY LineType, TypeStep, PTL

(* A list is its head and the rest. *)
LEMMA HeadAndTail ==
  ASSUME NEW t \in Seq(Snapshot), t # <<>>
  PROVE  /\ <<Head(t)>> \in Seq(Snapshot) /\ Tail(t) \in Seq(Snapshot)
         /\ <<Head(t)>> \o Tail(t) = t
<1>1. Head(t) \in Snapshot /\ Tail(t) \in Seq(Snapshot)
  BY HeadTail
<1> DEFINE h == <<Head(t)>>
<1>2. h \in Seq(Snapshot)
  BY <1>1
<1>3. /\ Len(h) = 1 /\ h[1] = Head(t) /\ Len(t) \in Nat \ {0}
      /\ Len(Tail(t)) = Len(t) - 1 /\ Head(t) = t[1]
      /\ \A k \in 1..Len(t) - 1 : Tail(t)[k] = t[k + 1]
  BY LenProperties, EmptySeq, HeadTailProperties, HeadTail
<1> DEFINE u == h \o Tail(t)
<1>4. /\ u \in Seq(Snapshot) /\ Len(u) = Len(h) + Len(Tail(t))
      /\ \A i \in 1..Len(h) + Len(Tail(t)) : u[i] = IF i <= Len(h) THEN h[i] ELSE Tail(t)[i - Len(h)]
  BY <1>1, <1>2, ConcatProperties
<1>5. Len(u) = Len(t)
  BY <1>3, <1>4
<1>6. ASSUME NEW i \in 1..Len(t) PROVE u[i] = t[i]
  <2>1. u[i] = IF i <= 1 THEN h[1] ELSE Tail(t)[i - 1]
    BY <1>3, <1>4
  <2>2. i > 1 => i - 1 \in 1..Len(t) - 1 /\ (i - 1) + 1 = i
    BY <1>3
  <2> QED
    BY <1>3, <2>1, <2>2
<1>7. u = t
  <2> HIDE DEF u
  <2> QED
    BY <1>4, <1>5, <1>6, SeqEqual
<1> QED
  BY <1>1, <1>2, <1>7

(* Taking the next document into the batch moves nothing in the line. *)
LEMMA ScanKeepsLine ==
  ASSUME NEW s \in Seq(Snapshot), NEW t \in Seq(Snapshot), t # <<>>
  PROVE  Append(s, Head(t)) \o Tail(t) = s \o t
<1>1. Head(t) \in Snapshot
  BY HeadTail
<1> DEFINE h == <<Head(t)>>
<1>2. h \in Seq(Snapshot) /\ Tail(t) \in Seq(Snapshot) /\ h \o Tail(t) = t
  BY HeadAndTail
<1>3. Append(s, Head(t)) = s \o h
  BY <1>1, AppendIsConcat
<1>4. (s \o h) \o Tail(t) = s \o (h \o Tail(t))
  BY <1>2, ConcatAssociative
<1> QED
  BY <1>2, <1>3, <1>4

(* The thread is idle with nothing in its hands. *)
IdleEmpty == pc \in {"off", "idle", "stopped"} => batch = <<>> /\ todo = <<>>

(* A tick fills the line when it is empty; a refused permit and the end of  *)
(* the process drop it; else what is tried leaves it from its head.         *)
LineMoves ==
  \/ Tick /\ Line' = todo' /\ tried' = tried
  \/ Line' = <<>> /\ tried' = tried
  \/ \E b \in Seq(Snapshot) : Line = b \o Line' /\ tried' = tried \union ItemsOf(b)

LEMMA LineStep == ASSUME TypeInv, IdleEmpty, [Next]_vars PROVE LineMoves /\ IdleEmpty'
<1> DEFINE Goal == LineMoves /\ IdleEmpty'
<1>c. /\ todo \in Seq(Snapshot) /\ batch \in Seq(Snapshot) /\ each \in Seq(Snapshot)
      /\ Line \in Seq(Snapshot)
      /\ pc \in {"scan", "return"} => todo # <<>>
      /\ pc = "each" => each # <<>>
  BY LineType DEF TypeInv, ThreadOK
<1>e. /\ \A t \in Seq(Snapshot) : <<>> \o t = t /\ t \o <<>> = t
      /\ <<>> \in Seq(Snapshot) /\ ItemsOf(<<>>) = {}
  BY ConcatEmptySeq, EmptySeq DEF ItemsOf
<1>k. Line' = Line /\ tried' = tried => LineMoves
  BY <1>c, <1>e DEF LineMoves
<1>u. UNCHANGED thread /\ tried' = tried => Goal
  BY <1>k DEF thread, Line, IdleEmpty
<1>d. EndTick => Line' = <<>> /\ IdleEmpty'
  BY <1>e DEF EndTick, Line, IdleEmpty
<1>n. ASSUME Returns PROVE Line' = todo /\ IdleEmpty'
  <2>1. CASE todo = <<>>
    BY <1>n, <1>d, <2>1 DEF Returns
  <2>2. CASE todo # <<>>
    BY <1>n, <2>2 DEF Returns, Line, IdleEmpty
  <2> QED
    BY <2>1, <2>2
<1>a. ASSUME EachAdvance, pc = "each" PROVE Goal
  <2> DEFINE h == <<Head(each)>>
  <2>1. /\ h \in Seq(Snapshot) /\ Tail(each) \in Seq(Snapshot) /\ h \o Tail(each) = each
        /\ ItemsOf(h) = {Head(each).item}
    BY <1>a, <1>c, HeadAndTail DEF ItemsOf
  <2>2. Line = h \o (Tail(each) \o todo)
    BY <1>a, <1>c, <2>1, ConcatAssociative DEF Line
  <2>3. Line' = Tail(each) \o todo /\ IdleEmpty'
    <3>1. CASE Tail(each) = <<>>
      BY <1>a, <1>c, <1>e, <1>n, <3>1 DEF EachAdvance
    <3>2. CASE Tail(each) # <<>>
      BY <1>a, <3>2 DEF EachAdvance, Line, IdleEmpty
    <3> QED
      BY <3>1, <3>2
  <2>4. Line = h \o Line' /\ tried' = tried \union ItemsOf(h)
    BY <1>a, <2>1, <2>2, <2>3 DEF EachAdvance
  <2> HIDE DEF h
  <2> QED
    BY <2>1, <2>3, <2>4 DEF LineMoves
<1>b. ASSUME pc = "forward", Returns, tried' = tried \union ItemsOf(batch) PROVE Goal
  <2>1. Line = batch \o Line' /\ IdleEmpty'
    BY <1>b, <1>n DEF Line
  <2> QED
    BY <1>b, <1>c, <2>1 DEF LineMoves
<1>1. ASSUME NEW i \in Items, Stamp(i) \/ Insert(i) PROVE Goal
  BY <1>1, <1>u DEF Stamp, Insert, history
<1>2. CASE Start \/ Stop
  <2>1. /\ batch' = batch /\ todo' = todo /\ tried' = tried
        /\ pc \in {"off", "idle"} /\ pc' \in {"idle", "stopped"}
    BY <1>2 DEF Start, Stop, history
  <2>2. Line' = Line
    BY <2>1 DEF Line
  <2> QED
    BY <1>k, <2>1, <2>2 DEF IdleEmpty
<1>3. CASE Tick
  <2>1. batch = <<>> /\ batch' = batch /\ pc' = "scan" /\ tried' = tried
    BY <1>3 DEF Tick, IdleEmpty
  <2>2. todo' \in Seq(Snapshot)
    BY <1>3, ReadOK DEF Tick, TypeInv
  <2>3. Line' = todo' /\ IdleEmpty'
    BY <1>e, <2>1, <2>2 DEF Line, IdleEmpty
  <2> QED
    BY <1>3, <2>1, <2>3 DEF LineMoves
<1>4. CASE ScanAdd
  <2>1. /\ batch' = Append(batch, Head(todo)) /\ todo' = Tail(todo) /\ tried' = tried
        /\ pc = "scan" /\ pc' \in {"forward", "scan"} /\ todo # <<>>
    BY <1>4, <1>c DEF ScanAdd, ReplaceBatch, history
  <2>2. Line' = Line
    BY <1>c, <2>1, ScanKeepsLine DEF Line
  <2> QED
    BY <1>k, <2>1, <2>2 DEF IdleEmpty
<1>5. CASE ScanFlush
  <2>1. UNCHANGED <<batch, todo, tried>> /\ pc = "scan" /\ pc' = "forward"
    BY <1>5 DEF ScanFlush, history
  <2>2. Line' = Line
    BY <2>1 DEF Line
  <2> QED
    BY <1>k, <2>1, <2>2 DEF IdleEmpty
<1>6. CASE ScanOversize
  <2> DEFINE h == <<Head(todo)>>
  <2>1. /\ h \in Seq(Snapshot) /\ Tail(todo) \in Seq(Snapshot) /\ h \o Tail(todo) = todo
        /\ ItemsOf(h) = {Head(todo).item}
    BY <1>6, <1>c, HeadAndTail DEF ScanOversize, ItemsOf
  <2>2. /\ pc = "scan" /\ batch = <<>> /\ batch' = batch /\ todo' = Tail(todo)
        /\ pc' = IF Tail(todo) = <<>> THEN "idle" ELSE "scan"
        /\ tried' = tried \union ItemsOf(h)
    BY <1>6, <2>1 DEF ScanOversize
  <2>3. Line = todo /\ Line' = Tail(todo) /\ IdleEmpty'
    BY <1>c, <1>e, <2>1, <2>2 DEF Line, IdleEmpty
  <2> HIDE DEF h
  <2> QED
    BY <2>1, <2>2, <2>3 DEF LineMoves
<1>7. CASE BatchRefused \/ EachRefused
  BY <1>7, <1>d DEF BatchRefused, EachRefused, LineMoves, history
<1>8. CASE BatchMixed
  <2>1. /\ UNCHANGED <<todo, tried>> /\ each' = batch /\ pc = "forward" /\ pc' = "each"
    BY <1>8 DEF BatchMixed, history
  <2>2. Line' = Line
    BY <2>1 DEF Line
  <2> QED
    BY <1>k, <2>1, <2>2 DEF IdleEmpty
<1>9. CASE BatchSend \/ BatchThrows
  BY <1>9, <1>b DEF BatchSend, BatchThrows
<1>10. CASE EachSend \/ EachThrows
  BY <1>10, <1>a DEF EachSend, EachThrows
<1>11. CASE ClearBatch
  <2>1. /\ UNCHANGED <<todo, tried>> /\ batch' = <<>> /\ pc = "return" /\ pc' = "scan"
    BY <1>11 DEF ClearBatch, ReplaceBatch, history
  <2>2. Line' = Line
    BY <1>c, <1>e, <2>1 DEF Line
  <2> QED
    BY <1>k, <2>1, <2>2 DEF IdleEmpty
<1>12. ASSUME NEW q \in ReqIds, Answer(q) \/ Callback(q) \/ WriteFails(q) PROVE Goal
  BY <1>12, <1>u DEF Answer, Callback, CallbackEmpty, HandleSuccess, WriteSuccess, HandleError,
     CountError, HandleExhausted, WriteFails, history
<1>13. CASE RefreshPermits \/ UNCHANGED vars
  BY <1>13, <1>u DEF RefreshPermits, vars, history
<1>14. CASE Crash \/ Exit
  BY <1>14, <1>e DEF Crash, Exit, ProcessEnds, Line, LineMoves, IdleEmpty
<1> QED
  BY <1>1, <1>2, <1>3, <1>4, <1>5, <1>6, <1>7, <1>8, <1>9, <1>10, <1>11, <1>12, <1>13, <1>14
  DEF Next, SchedulerStep

-----------------------------------------------------------------------------
(* First attempts *)

(* A document is inserted once, with its time, and tried afterwards. *)
InsertedOnce ==
  /\ \A m, n \in DOMAIN inserted : inserted[m] = inserted[n] => m = n
  /\ \A n \in DOMAIN inserted : inserted[n] \in Known /\ TimeAt(n) > 0
  /\ tried \subseteq Known

(* The documents that wait no more: tried, or judged. *)
Past == tried \union {i \in Items : status[i] \in {"SUCCESS", "FAILED"}}

(* Before each document of s the older ones that were inserted before it    *)
(* come first, but those in T.                                              *)
InTurn(s, T) ==
  \A k \in DOMAIN s, n \in DOMAIN inserted :
    inserted[n] = s[k].item =>
      \A m \in DOMAIN inserted :
        m < n /\ TimeAt(m) < TimeAt(n) =>
          inserted[m] \in T \/ \E j \in DOMAIN s : j < k /\ s[j].item = inserted[m]

(* What is older than a document of A, and was inserted before it, is in T. *)
Older(A, T) ==
  \A m, n \in DOMAIN inserted :
    m < n /\ TimeAt(m) < TimeAt(n) /\ inserted[n] \in A => inserted[m] \in T

OrderInv == IdleEmpty /\ InsertedOnce /\ InTurn(Line, Past) /\ Older(tried, Past)

LEMMA InTurnEmpty == ASSUME NEW T PROVE InTurn(<<>>, T)
BY EmptySeq DEF InTurn

(* Both stay when more documents wait no more. *)
LEMMA TurnMore ==
  ASSUME NEW s, NEW A, NEW T, NEW U, T \subseteq U
  PROVE  (InTurn(s, T) => InTurn(s, U)) /\ (Older(A, T) => Older(A, U))
BY DEF InTurn, Older

(* The rest of a list is in turn when what stands before it was tried. *)
LEMMA InTurnRest ==
  ASSUME NEW b \in Seq(Snapshot), NEW t \in Seq(Snapshot), NEW T, InTurn(b \o t, T)
  PROVE  InTurn(t, T \union ItemsOf(b)) /\ Older(ItemsOf(b), T \union ItemsOf(b))
<1> DEFINE s == b \o t
           l == Len(b)
<1>1. /\ l \in Nat /\ DOMAIN b = 1..l /\ DOMAIN t = 1..Len(t) /\ Len(t) \in Nat
      /\ s \in Seq(Snapshot) /\ Len(s) = l + Len(t)
      /\ \A k \in 1..l + Len(t) : s[k] = IF k <= l THEN b[k] ELSE t[k - l]
  BY LenProperties, ConcatProperties
<1>2. DOMAIN s = 1..l + Len(t)
  BY <1>1, LenProperties
<1> HIDE DEF s, l
<1>3. InTurn(s, T)
  BY DEF s
<1>4. \A k \in DOMAIN b : k \in DOMAIN s /\ s[k] = b[k]
  BY <1>1, <1>2
<1>5. ASSUME NEW j \in DOMAIN s
      PROVE  s[j].item \in ItemsOf(b) \/ (j - l \in DOMAIN t /\ s[j] = t[j - l])
  <2>1. CASE j <= l
    <3>1. j \in DOMAIN b /\ s[j] = b[j]
      BY <1>1, <1>2, <2>1
    <3> QED
      BY <3>1 DEF ItemsOf
  <2>2. CASE ~(j <= l)
    BY <1>1, <1>2, <2>2
  <2> QED
    BY <2>1, <2>2
<1>6. InTurn(t, T \union ItemsOf(b))
  <2> SUFFICES ASSUME NEW k \in DOMAIN t, NEW n \in DOMAIN inserted, inserted[n] = t[k].item,
                      NEW m \in DOMAIN inserted, m < n, TimeAt(m) < TimeAt(n),
                      inserted[m] \notin T, inserted[m] \notin ItemsOf(b)
               PROVE  \E j \in DOMAIN t : j < k /\ t[j].item = inserted[m]
    BY DEF InTurn
  <2>1. l + k \in DOMAIN s /\ s[l + k] = t[k]
    <3>1. l + k \in 1..l + Len(t) /\ ~(l + k <= l) /\ (l + k) - l = k
      BY <1>1
    <3> QED
      BY <1>1, <1>2, <3>1
  <2>2. PICK j \in DOMAIN s : j < l + k /\ s[j].item = inserted[m]
    BY <1>3, <2>1 DEF InTurn
  <2>3. j - l \in DOMAIN t /\ t[j - l].item = inserted[m]
    BY <1>5, <2>2
  <2>4. j - l < k
    BY <1>1, <1>2, <2>2
  <2> QED
    BY <2>3, <2>4
<1>7. Older(ItemsOf(b), T \union ItemsOf(b))
  <2> SUFFICES ASSUME NEW m \in DOMAIN inserted, NEW n \in DOMAIN inserted, m < n, TimeAt(m) < TimeAt(n),
                      NEW k \in DOMAIN b, inserted[n] = b[k].item, inserted[m] \notin T
               PROVE  inserted[m] \in ItemsOf(b)
    BY DEF Older, ItemsOf
  <2>1. k \in DOMAIN s /\ s[k] = b[k] /\ k <= l
    BY <1>1, <1>4
  <2>2. PICK j \in DOMAIN s : j < k /\ s[j].item = inserted[m]
    BY <1>3, <2>1 DEF InTurn
  <2>3. j \in DOMAIN b /\ s[j] = b[j]
    <3>1. j \in 1..l
      BY <1>1, <1>2, <2>1, <2>2
    <3> QED
      BY <1>1, <1>4, <3>1
  <2> QED
    BY <2>2, <2>3 DEF ItemsOf
<1> QED
  BY <1>6, <1>7

(* What a tick reads is in turn: an older document that it does not read    *)
(* has been judged.                                                         *)
LEMMA TickInTurn ==
  ASSUME StoreOK, InsertedOnce, NEW s \in GetPendingItems(BatchSize)
  PROVE  InTurn(s, Past)
<1>0. PICK f \in UpTo(BatchSize) : s = Read(f) /\ Sorted(f) /\ Oldest(f, BatchSize)
  BY Zenon DEF GetPendingItems
<1>1. PICK l \in 1..BatchSize : f \in [1..l -> PendingAt]
  BY Zenon DEF UpTo
<1>2. /\ DOMAIN s = 1..l /\ DOMAIN f = 1..l /\ DOMAIN inserted \subseteq Nat
      /\ \A k \in 1..l : s[k].item = inserted[f[k]] /\ f[k] \in PendingAt
      /\ \A n \in DOMAIN inserted : inserted[n] \in Items
  <2>1. inserted \in Seq(Items)
    BY DEF StoreOK
  <2>2. DOMAIN inserted = 1..Len(inserted) /\ Len(inserted) \in Nat
    BY <2>1, LenProperties
  <2>3. \A n \in DOMAIN inserted : inserted[n] \in Items
    BY <2>1, <2>2, ElementOfSeq
  <2>4. DOMAIN s = 1..l /\ DOMAIN f = 1..l
    BY <1>0, <1>1 DEF Read
  <2>5. \A k \in 1..l : s[k].item = inserted[f[k]] /\ f[k] \in PendingAt
    BY <1>0, <1>1 DEF Read
  <2> QED
    BY <2>2, <2>3, <2>4, <2>5
<1>3. SUFFICES ASSUME NEW k \in DOMAIN s, NEW n \in DOMAIN inserted, inserted[n] = s[k].item,
                      NEW m \in DOMAIN inserted, m < n, TimeAt(m) < TimeAt(n), inserted[m] \notin Past
               PROVE  \E j \in DOMAIN s : j < k /\ s[j].item = inserted[m]
  BY DEF InTurn
<1>t. TimeAt(m) \in Nat /\ TimeAt(n) \in Nat
  BY <1>2 DEF StoreOK, TimeAt
<1>4. n = f[k]
  BY <1>2, <1>3 DEF InsertedOnce, PendingAt
<1>5. m \in PendingAt
  <2>1. inserted[m] \in Items /\ inserted[m] \in Known
    BY <1>2 DEF InsertedOnce
  <2> QED
    BY <2>1, <1>3 DEF Past, Known, PendingAt, StoreOK, Statuses
<1>6. PICK j \in 1..l : f[j] = m
  <2>1. ~(TimeAt(f[k]) <= TimeAt(m))
    BY <1>3, <1>4, <1>t
  <2> QED
    BY <1>0, <1>2, <1>5, <2>1 DEF Oldest
<1>7. j < k
  <2>1. ~(k < j)
    <3>1. ~(TimeAt(f[k]) <= TimeAt(f[j]))
      BY <1>3, <1>4, <1>6, <1>t
    <3> QED
      BY <1>0, <1>2, <1>3, <3>1 DEF Sorted
  <2>2. j # k
    BY <1>2, <1>3, <1>4, <1>6
  <2>3. j \in Int /\ k \in Int
    BY <1>2
  <2> QED
    BY <2>1, <2>2, <2>3
<1> QED
  BY <1>2, <1>6, <1>7

(* Only an insert touches the order of the documents. *)
LEMMA InsertedStays ==
  ASSUME [Next]_vars, \A i \in Items : ~Insert(i) PROVE inserted' = inserted
<1>1. ASSUME SchedulerStep PROVE inserted' = inserted
  BY <1>1 DEF SchedulerStep, Tick, ScanAdd, ScanFlush, ScanOversize, BatchRefused, BatchMixed,
     BatchSend, BatchThrows, EachRefused, EachSend, EachThrows, ClearBatch, FailAll, store
<1>2. ASSUME NEW q \in ReqIds, Answer(q) \/ Callback(q) \/ WriteFails(q) PROVE inserted' = inserted
  BY <1>2 DEF Answer, Callback, CallbackEmpty, HandleSuccess, WriteSuccess, HandleError,
     CountError, HandleExhausted, WriteFails, store
<1>3. CASE Start \/ Stop \/ RefreshPermits \/ Crash \/ Exit \/ UNCHANGED vars
  BY <1>3 DEF Start, Stop, RefreshPermits, Crash, Exit, ProcessEnds, vars, store
<1>4. ASSUME NEW i \in Items, Stamp(i) PROVE inserted' = inserted
  BY <1>4 DEF Stamp
<1> QED
  BY <1>1, <1>2, <1>3, <1>4 DEF Next

(* A document in the collection keeps its time: only one that is not there  *)
(* yet reads the clock, or is lost with the process.                        *)
LEMMA TimesStay ==
  ASSUME TypeInv, InsertedOnce, [Next]_vars, NEW n \in DOMAIN inserted
  PROVE  createTime'[inserted[n]] = createTime[inserted[n]]
<1> DEFINE i == inserted[n]
<1>c. createTime \in [Items -> Nat] /\ i \in Items /\ status[i] # "NONE" /\ createTime[i] > 0
  BY DEF TypeInv, StoreOK, InsertedOnce, Known, TimeAt
<1>9. SUFFICES createTime'[i] = createTime[i]
  OBVIOUS
<1> HIDE DEF i
<1>1. ASSUME SchedulerStep PROVE createTime' = createTime
  BY <1>1 DEF SchedulerStep, Tick, ScanAdd, ScanFlush, ScanOversize, BatchRefused, BatchMixed,
     BatchSend, BatchThrows, EachRefused, EachSend, EachThrows, ClearBatch, FailAll, store
<1>2. ASSUME NEW q \in ReqIds, Answer(q) \/ Callback(q) \/ WriteFails(q) PROVE createTime' = createTime
  BY <1>2 DEF Answer, Callback, CallbackEmpty, HandleSuccess, WriteSuccess, HandleError,
     CountError, HandleExhausted, WriteFails, store
<1>3. CASE Start \/ Stop \/ RefreshPermits \/ UNCHANGED vars
  BY <1>3 DEF Start, Stop, RefreshPermits, vars, store
<1>4. ASSUME NEW j \in Items, Stamp(j) PROVE createTime'[i] = createTime[i]
  BY <1>4, <1>c DEF Stamp
<1>5. ASSUME NEW j \in Items, Insert(j) PROVE createTime' = createTime
  BY <1>5 DEF Insert
<1>6. CASE Crash \/ Exit
  BY <1>6, <1>c DEF Crash, Exit, ProcessEnds
<1> QED
  BY <1>1, <1>2, <1>3, <1>4, <1>5, <1>6 DEF Next

(* Two lists within a set, one after the other, are. *)
LEMMA WithinConcat ==
  ASSUME NEW s \in Seq(Snapshot), NEW t \in Seq(Snapshot), NEW S, Within(s, S), Within(t, S)
  PROVE  Within(s \o t, S)
<1>1. Len(s) \in Nat /\ Len(t) \in Nat /\ DOMAIN s = 1..Len(s) /\ DOMAIN t = 1..Len(t)
  BY LenProperties
<1>2. /\ s \o t \in Seq(Snapshot)
      /\ Len(s \o t) = Len(s) + Len(t)
      /\ \A i \in 1..Len(s) + Len(t) :
           (s \o t)[i] = IF i <= Len(s) THEN s[i] ELSE t[i - Len(s)]
  BY ConcatProperties
<1>3. DOMAIN (s \o t) = 1..Len(s) + Len(t)
  BY <1>2, LenProperties
<1>4. ASSUME NEW i \in 1..Len(s) + Len(t) PROVE (s \o t)[i].item \in S
  <2>1. CASE i <= Len(s)
    BY <1>1, <1>2, <2>1 DEF Within
  <2>2. CASE i > Len(s)
    <3>1. i - Len(s) \in DOMAIN t
      BY <1>1, <2>2
    <3>2. (s \o t)[i] = t[i - Len(s)]
      BY <1>1, <1>2, <2>2
    <3> QED
      BY <3>1, <3>2 DEF Within
  <2> QED
    BY <1>1, <2>1, <2>2
<1> QED
  BY <1>3, <1>4 DEF Within

(* Every copy the thread has still to try is of a document in the collection. *)
LEMMA LineKnown == ASSUME TypeInv, ThreadKnown PROVE Within(Line, Known)
<1>c. /\ todo \in Seq(Snapshot) /\ batch \in Seq(Snapshot) /\ each \in Seq(Snapshot)
      /\ Within(todo, Known) /\ Within(batch, Known) /\ Within(each, Known)
  BY DEF TypeInv, ThreadOK, ThreadKnown
<1>1. Within(each \o todo, Known) /\ Within(batch \o todo, Known)
  BY <1>c, WithinConcat
<1> QED
  BY <1>c, <1>1 DEF Line

(* What is tried next is in the line. *)
LEMMA TriedStep ==
  ASSUME TypeInv, LineMoves, [Next]_vars
  PROVE  /\ tried \subseteq tried'
         /\ tried' \subseteq tried \union ItemsOf(Line)
<1>1. ASSUME NEW b \in Seq(Snapshot), Line = b \o Line' PROVE ItemsOf(b) \subseteq ItemsOf(Line)
  <2>1. Line' \in Seq(Snapshot)
    BY NextLineType
  <2>2. /\ Len(b) \in Nat /\ DOMAIN b = 1..Len(b) /\ Len(Line') \in Nat
        /\ Line \in Seq(Snapshot) /\ Len(Line) = Len(b) + Len(Line')
        /\ \A i \in 1..Len(b) + Len(Line') : Line[i] = IF i <= Len(b) THEN b[i] ELSE Line'[i - Len(b)]
    BY <1>1, <2>1, ConcatProperties, LenProperties
  <2>3. DOMAIN Line = 1..Len(b) + Len(Line')
    BY <2>2, LenProperties
  <2>4. \A i \in DOMAIN b : i \in DOMAIN Line /\ Line[i] = b[i]
    BY <2>2, <2>3
  <2> QED
    BY <2>4 DEF ItemsOf
<1> QED
  BY <1>1 DEF LineMoves

LEMMA InsertedStep ==
  ASSUME TypeInv, KnownInv, InsertedOnce, LineMoves, [Next]_vars PROVE InsertedOnce'
<1>1. Known \subseteq Known'
  BY KnownGrows
<1>2. tried' \subseteq Known
  <2>1. ItemsOf(Line) \subseteq Known
    BY LineKnown, WithinItems DEF KnownInv
  <2> QED
    BY <2>1, TriedStep DEF InsertedOnce
<1>t. \A n \in DOMAIN inserted : createTime'[inserted[n]] = createTime[inserted[n]]
  BY TimesStay
<1>3. CASE inserted' = inserted
  BY <1>1, <1>2, <1>3, <1>t DEF InsertedOnce, TimeAt
<1>4. ASSUME NEW i \in Items, Insert(i) PROVE InsertedOnce'
  <2>1. /\ i \notin Known /\ i \in Known' /\ inserted \in Seq(Items)
        /\ inserted' = Append(inserted, i)
        /\ createTime' = createTime /\ createTime[i] > 0
    BY <1>4 DEF Insert, Writing, Known, TypeInv, StoreOK
  <2>2. /\ Len(inserted) \in Nat /\ DOMAIN inserted = 1..Len(inserted)
        /\ DOMAIN inserted' = 1..Len(inserted) + 1
        /\ inserted'[Len(inserted) + 1] = i
        /\ \A n \in 1..Len(inserted) : inserted'[n] = inserted[n]
    <3>1. /\ inserted' \in Seq(Items) /\ Len(inserted') = Len(inserted) + 1
          /\ inserted'[Len(inserted) + 1] = i
          /\ \A n \in 1..Len(inserted) : inserted'[n] = inserted[n]
      BY <2>1, AppendProperties
    <3> QED
      BY <2>1, <3>1, LenProperties
  <2>3. \A n \in DOMAIN inserted' : n \in DOMAIN inserted \/ n = Len(inserted) + 1
    BY <2>2
  <2> QED
    BY <1>1, <1>2, <2>1, <2>2, <2>3 DEF InsertedOnce, TimeAt
<1> QED
  BY <1>3, <1>4, InsertedStays

(* A verdict may be overwritten by another one, but is never taken back. *)
LEMMA PastGrows == ASSUME TypeInv, LineMoves, [Next]_vars PROVE Past \subseteq Past'
<1> DEFINE Verdict == {"SUCCESS", "FAILED"}
           Goal == \A i \in Items : status[i] \in Verdict => status'[i] \in Verdict
<1> SUFFICES Goal
  <2>1. tried \subseteq tried'
    BY TriedStep
  <2> QED
    BY <2>1 DEF Past
<1>s. status \in [Items -> Statuses]
  BY DEF TypeInv, StoreOK
<1>u. UNCHANGED status => Goal
  OBVIOUS
<1>w. ASSUME NEW j, NEW v \in Verdict, status' = [status EXCEPT ![j] = v] PROVE Goal
  BY <1>w, <1>s
<1>1. ASSUME NEW i \in Items, Stamp(i) \/ Insert(i) PROVE Goal
  BY <1>1, <1>s DEF Stamp, Insert, Writing
<1>2. CASE BatchThrows \/ EachThrows
  BY <1>2, <1>s DEF BatchThrows, EachThrows, FailAll
<1>3. ASSUME NEW q \in ReqIds, HandleSuccess(q) \/ HandleExhausted(q) PROVE Goal
  BY <1>3, <1>w DEF HandleSuccess, WriteSuccess, HandleExhausted
<1>4. ASSUME NEW q \in ReqIds,
             Answer(q) \/ CallbackEmpty(q) \/ HandleError(q) \/ WriteFails(q)
      PROVE  Goal
  BY <1>4, <1>u DEF Answer, CallbackEmpty, HandleError, CountError, WriteFails, store
<1>5. CASE Start \/ Stop \/ Tick \/ ScanAdd \/ ScanFlush \/ ClearBatch
  BY <1>5, <1>u DEF Start, Stop, Tick, ScanAdd, ScanFlush, ClearBatch, store
<1>6. CASE ScanOversize
  BY <1>6, <1>w DEF ScanOversize
<1>7. CASE BatchRefused \/ BatchMixed \/ BatchSend \/ EachRefused \/ EachSend
  BY <1>7, <1>u DEF BatchRefused, BatchMixed, BatchSend, EachRefused, EachSend, store
<1>8. CASE RefreshPermits \/ Crash \/ Exit \/ UNCHANGED vars
  BY <1>8, <1>u DEF RefreshPermits, Crash, Exit, ProcessEnds, vars, store
<1> QED
  BY <1>1, <1>2, <1>3, <1>4, <1>5, <1>6, <1>7, <1>8 DEF Next, SchedulerStep, Callback

LEMMA OrderStep ==
  ASSUME TypeInv, KnownInv, OrderInv, [Next]_vars PROVE OrderInv'
<1>l. LineMoves /\ IdleEmpty'
  BY LineStep DEF OrderInv
<1>c. StoreOK /\ Line \in Seq(Snapshot) /\ Line' \in Seq(Snapshot) /\ Past \subseteq Past'
  BY <1>l, LineType, NextLineType, PastGrows DEF TypeInv
<1>o. InsertedOnce /\ InTurn(Line, Past) /\ Older(tried, Past)
  BY DEF OrderInv
<1>1. InsertedOnce'
  BY <1>l, <1>o, InsertedStep
<1>t. \A n \in DOMAIN inserted : createTime'[inserted[n]] = createTime[inserted[n]]
  BY <1>o, TimesStay
<1>2. ASSUME NEW i \in Items, Insert(i) PROVE InTurn(Line, Past)' /\ Older(tried, Past)'
  <2>1. /\ i \notin Known /\ inserted \in Seq(Items) /\ inserted' = Append(inserted, i)
        /\ Line' = Line /\ tried' = tried /\ createTime' = createTime
    BY <1>2, <1>c DEF Insert, Writing, Known, StoreOK, thread, history, Line
  <2>2. /\ Len(inserted) \in Nat /\ DOMAIN inserted = 1..Len(inserted)
        /\ DOMAIN inserted' = 1..Len(inserted) + 1
        /\ inserted'[Len(inserted) + 1] = i
        /\ \A n \in 1..Len(inserted) : inserted'[n] = inserted[n]
    <3>1. /\ inserted' \in Seq(Items) /\ Len(inserted') = Len(inserted) + 1
          /\ inserted'[Len(inserted) + 1] = i
          /\ \A n \in 1..Len(inserted) : inserted'[n] = inserted[n]
      BY <2>1, AppendProperties
    <3> QED
      BY <2>1, <3>1, LenProperties
  <2>3. Within(Line, Known) /\ tried \subseteq Known
    BY <1>o, LineKnown DEF KnownInv, InsertedOnce
  <2>4. ASSUME NEW n \in DOMAIN inserted', inserted'[n] \in Known
        PROVE  /\ n \in DOMAIN inserted /\ inserted'[n] = inserted[n]
               /\ \A m \in DOMAIN inserted' : m < n =>
                    m \in DOMAIN inserted /\ inserted'[m] = inserted[m]
    BY <2>1, <2>2, <2>4
  <2>5. InTurn(Line, Past)'
    <3> SUFFICES ASSUME NEW k \in DOMAIN Line, NEW n \in DOMAIN inserted', inserted'[n] = Line[k].item,
                        NEW m \in DOMAIN inserted', m < n, TimeAt(m)' < TimeAt(n)',
                        inserted'[m] \notin Past'
                 PROVE  \E j \in DOMAIN Line : j < k /\ Line[j].item = inserted'[m]
      BY <2>1 DEF InTurn
    <3>1. /\ n \in DOMAIN inserted /\ inserted'[n] = inserted[n]
          /\ m \in DOMAIN inserted /\ inserted'[m] = inserted[m]
          /\ TimeAt(m) < TimeAt(n)
      BY <2>1, <2>3, <2>4 DEF Within, TimeAt
    <3> QED
      BY <1>c, <1>o, <3>1 DEF InTurn
  <2>6. Older(tried, Past)'
    <3> SUFFICES ASSUME NEW m \in DOMAIN inserted', NEW n \in DOMAIN inserted', m < n,
                        TimeAt(m)' < TimeAt(n)', inserted'[n] \in tried
                 PROVE  inserted'[m] \in Past'
      BY <2>1 DEF Older
    <3>1. /\ n \in DOMAIN inserted /\ inserted'[n] = inserted[n]
          /\ m \in DOMAIN inserted /\ inserted'[m] = inserted[m]
          /\ TimeAt(m) < TimeAt(n)
      BY <2>1, <2>3, <2>4 DEF TimeAt
    <3> QED
      BY <1>c, <1>o, <3>1 DEF Older
  <2> QED
    BY <2>5, <2>6
<1>3. ASSUME inserted' = inserted PROVE InTurn(Line, Past)' /\ Older(tried, Past)'
  <2>0. InTurn(Line, Past') /\ Older(tried, Past')
    BY <1>c, <1>o, TurnMore
  <2>t. \A n \in DOMAIN inserted : TimeAt(n)' = TimeAt(n)
    BY <1>3, <1>t DEF TimeAt
  <2>n. SUFFICES InTurn(Line', Past') /\ Older(tried', Past')
    <3>1. InTurn(Line', Past') => InTurn(Line, Past)'
      BY <1>3, <2>t DEF InTurn
    <3>2. Older(tried', Past') => Older(tried, Past)'
      BY <1>3, <2>t DEF Older
    <3> QED
      BY <3>1, <3>2
  <2>1. CASE Tick /\ Line' = todo' /\ tried' = tried
    <3>1. InTurn(todo', Past)
      BY <1>c, <1>o, <2>1, TickInTurn DEF Tick
    <3>2. InTurn(todo', Past')
      BY <1>c, <3>1, TurnMore
    <3> QED
      BY <2>0, <2>1, <3>2
  <2>2. CASE Line' = <<>> /\ tried' = tried
    BY <2>0, <2>2, InTurnEmpty
  <2>3. ASSUME NEW b \in Seq(Snapshot), Line = b \o Line', tried' = tried \union ItemsOf(b)
        PROVE  InTurn(Line', Past') /\ Older(tried', Past')
    <3>1. Past' \union ItemsOf(b) = Past'
      BY <2>3 DEF Past
    <3>2. InTurn(Line', Past') /\ Older(ItemsOf(b), Past')
      <4>1. InTurn(b \o Line', Past')
        BY <2>0, <2>3
      <4> QED
        BY <1>c, <3>1, <4>1, InTurnRest
    <3> QED
      BY <2>0, <2>3, <3>2 DEF Older
  <2> QED
    BY <1>l, <2>1, <2>2, <2>3 DEF LineMoves
<1> QED
  BY <1>l, <1>1, <1>2, <1>3, InsertedStays DEF OrderInv

LEMMA OrderInit == Init => OrderInv
<1> SUFFICES ASSUME Init PROVE OrderInv
  OBVIOUS
<1>1. DOMAIN inserted = {} /\ tried = {} /\ Line = <<>> /\ IdleEmpty
  BY EmptySeq, ConcatEmptySeq DEF Init, Line, IdleEmpty
<1> QED
  BY <1>1, InTurnEmpty DEF OrderInv, InsertedOnce, Older

LEMMA OrderInvariant == Spec => [](TypeInv /\ OrderInv)
<1>1. Init => KnownInv
  BY WithinEmpty DEF Init, KnownInv, ThreadKnown, RequestsKnown
<1>2. TypeInv /\ KnownInv /\ [Next]_vars => KnownInv'
  BY KnownStep
<1>3. TypeInv /\ KnownInv /\ OrderInv /\ [Next]_vars => OrderInv'
  BY OrderStep
<1> QED
  BY <1>1, <1>2, <1>3, OrderInit, TypeCorrect, PTL DEF Spec

(* No split, refusal of the limiter, failure or restart lets a younger      *)
(* document be tried before an older one that was in the collection first   *)
(* and still waits, whatever the sizes, limits and retries are, and however *)
(* reading the clock and inserting interleave.                              *)
THEOREM FirstAttemptsKeepOrder == Spec => []FirstAttemptsInOrder
<1>1. OrderInv => FirstAttemptsInOrder
  BY DEF OrderInv, Older, Past, FirstAttemptsInOrder
<1> QED
  BY <1>1, OrderInvariant, PTL

-----------------------------------------------------------------------------
(* Verdicts *)

(* What was judged, or is in a callback's hands, was tried. *)
Judged ==
  /\ \A i \in Items : status[i] \in {"SUCCESS", "FAILED"} => i \in tried
  /\ \A q \in ReqIds : Within(captured[q], tried)

(* A callback holds, and a verdict falls on, what was tried. *)
LEMMA JudgedStep ==
  ASSUME NEW K \in Nat, SmallBatches(K), TypeInv, OneFlush(K), Judged, IdleEmpty, [Next]_vars
  PROVE  Judged'
<1> DEFINE Goal == Judged'
<1>c. StoreOK /\ ThreadOK /\ ReqsOK
  BY DEF TypeInv
<1>t. tried \subseteq tried'
  BY LineStep, TriedStep
<1>w. \A q \in ReqIds : Within(captured[q], tried')
  BY <1>t, WithinMore DEF Judged
<1>v. \A i \in Items : status[i] \in {"SUCCESS", "FAILED"} => i \in tried'
  BY <1>t DEF Judged
<1>u. UNCHANGED <<status, captured>> => Goal
  BY <1>v, <1>w DEF Judged
<1>p. ASSUME NEW q \in ReqIds, captured[q] # <<>>, captured' = [captured EXCEPT ![q] = Tail(captured[q])]
      PROVE  \A r \in ReqIds : Within(captured'[r], tried')
  <2>1. Within(Tail(captured[q]), tried')
    BY <1>c, <1>p, <1>w, WithinParts DEF ReqsOK
  <2> QED
    BY <1>c, <1>p, <1>w, <2>1 DEF ReqsOK
<1>h. ASSUME NEW q \in ReqIds, captured[q] # <<>> PROVE Head(captured[q]).item \in tried'
  BY <1>c, <1>h, <1>w, WithinParts DEF ReqsOK
<1>j. ASSUME NEW q \in ReqIds, captured[q] # <<>>, NEW v,
             status' = [status EXCEPT ![Head(captured[q]).item] = v]
      PROVE  \A i \in Items : status'[i] \in {"SUCCESS", "FAILED"} => i \in tried'
  BY <1>c, <1>h, <1>j, <1>v DEF StoreOK
<1>s. ASSUME UNCHANGED status, NEW snaps \in Seq(Snapshot), NEW shared,
             Send(NextFree, snaps, shared), ItemsOf(snaps) \subseteq tried'
      PROVE  Goal
  <2>1. Within(snaps, tried')
    BY <1>s DEF Within, ItemsOf
  <2>2. captured' = [captured EXCEPT ![NextFree] = snaps]
    BY <1>s DEF Send
  <2>3. \A q \in ReqIds : Within(captured'[q], tried')
    BY <1>c, <1>w, <2>1, <2>2 DEF ReqsOK
  <2> QED
    BY <1>s, <1>v, <2>3 DEF Judged
<1>f. ASSUME UNCHANGED captured, NEW snaps \in Seq(Snapshot), FailAll(snaps),
             ItemsOf(snaps) \subseteq tried'
      PROVE  Goal
  <2>1. \A i \in Items : status'[i] = status[i] \/ i \in ItemsOf(snaps)
    BY <1>f DEF FailAll, ItemsOf
  <2> QED
    BY <1>f, <1>v, <1>w, <2>1 DEF Judged
<1>e. ASSUME pc = "each", EachAdvance
      PROVE  <<Head(each)>> \in Seq(Snapshot) /\ ItemsOf(<<Head(each)>>) \subseteq tried'
  <2>1. Head(each) \in Snapshot
    BY <1>c, <1>e, HeadTail DEF ThreadOK
  <2> QED
    BY <1>e, <2>1 DEF EachAdvance, ItemsOf
<1>1. ASSUME NEW i \in Items, Stamp(i) \/ Insert(i) PROVE Goal
  <2>1. \A j \in Items : status'[j] \in {"SUCCESS", "FAILED"} => status[j] = status'[j]
    BY <1>1, <1>c DEF Stamp, Insert, StoreOK
  <2>2. captured' = captured
    BY <1>1 DEF Stamp, Insert, reqs
  <2> QED
    BY <1>v, <1>w, <2>1, <2>2 DEF Judged
<1>2. CASE Start \/ Stop \/ Tick \/ BatchRefused \/ EachRefused \/ BatchMixed
  BY <1>2, <1>u DEF Start, Stop, Tick, BatchRefused, EachRefused, BatchMixed, store, reqs
<1>3. CASE ScanAdd
  <2>1. captured' = captured
    BY <1>3, <1>c, ReplaceUnshared DEF ScanAdd, OneFlush
  <2> QED
    BY <1>3, <1>u, <2>1 DEF ScanAdd, store
<1>4. CASE ScanFlush \/ ScanOversize \/ ClearBatch
  BY <1>4, NextFits DEF ScanFlush, ScanOversize, ClearBatch, OneFlush
<1>5. CASE BatchSend
  BY <1>5, <1>c, <1>s DEF BatchSend, ThreadOK, store
<1>6. CASE BatchThrows
  BY <1>6, <1>c, <1>f DEF BatchThrows, ThreadOK, reqs
<1>7. CASE EachSend
  BY <1>7, <1>e, <1>s DEF EachSend, store
<1>8. CASE EachThrows
  BY <1>8, <1>e, <1>f DEF EachThrows, reqs
<1>9. ASSUME NEW q \in ReqIds, Answer(q) \/ CallbackEmpty(q) PROVE Goal
  BY <1>9, <1>u DEF Answer, CallbackEmpty, store
<1>10. ASSUME NEW q \in ReqIds, HandleSuccess(q) \/ HandleExhausted(q) PROVE Goal
  <2>1. /\ captured[q] # <<>> /\ Advance(q)
        /\ \E v \in {"SUCCESS", "FAILED"} : status' = [status EXCEPT ![Head(captured[q]).item] = v]
    BY <1>10, <1>c DEF HandleSuccess, WriteSuccess, HandleExhausted, ReqsOK
  <2> QED
    BY <1>j, <1>p, <2>1 DEF Judged, Advance
<1>11. ASSUME NEW q \in ReqIds, HandleError(q) \/ WriteFails(q) PROVE Goal
  <2>1. /\ captured[q] # <<>> /\ status' = status
        /\ captured' = captured \/ captured' = [captured EXCEPT ![q] = Tail(captured[q])]
    BY <1>11 DEF HandleError, CountError, WriteFails, Advance, store
  <2> QED
    BY <1>p, <1>u, <1>v, <2>1 DEF Judged
<1>12. CASE RefreshPermits \/ UNCHANGED vars
  BY <1>12, <1>u DEF RefreshPermits, vars, store, reqs
<1>13. CASE Crash \/ Exit
  <2>1. status' = status /\ \A q \in ReqIds : captured'[q] = <<>>
    BY <1>13 DEF Crash, Exit, ProcessEnds, store
  <2> QED
    BY <1>v, <2>1, WithinEmpty DEF Judged
<1> QED
  BY <1>1, <1>2, <1>3, <1>4, <1>5, <1>6, <1>7, <1>8, <1>9, <1>10, <1>11, <1>12, <1>13
  DEF Next, SchedulerStep, Callback

LEMMA JudgedInvariant ==
  ASSUME NEW K \in Nat, SmallBatches(K) PROVE Spec => []Judged
<1>1. Init => Judged
  BY WithinEmpty DEF Init, Judged
<1>2. AllInv(K) /\ OrderInv /\ Judged /\ [Next]_vars => Judged'
  BY JudgedStep DEF AllInv, OrderInv
<1> QED
  BY <1>1, <1>2, AllInvariant, OrderInvariant, PTL DEF Spec

(* When a batch fits a request, only what was tried is judged, so that no   *)
(* document at all is tried before an older one that was inserted first.    *)
THEOREM NoneIsOvertaken ==
  ASSUME NEW K \in Nat, SmallBatches(K)
  PROVE  Spec => [](/\ \A i \in Items : status[i] \in {"SUCCESS", "FAILED"} => i \in tried
                    /\ Older(tried, tried))
<1>1. Judged /\ OrderInv =>
        /\ \A i \in Items : status[i] \in {"SUCCESS", "FAILED"} => i \in tried
        /\ Older(tried, tried)
  BY DEF Judged, OrderInv, Older, Past
<1> QED
  BY <1>1, JudgedInvariant, OrderInvariant, PTL

-----------------------------------------------------------------------------
(* Duplicates and spent documents *)

(* No tick has overlapped a callback, and nothing has failed. *)
Calm == faults = 0 /\ ~overlapped

Single(s) == \A j, k \in DOMAIN s : s[j].item = s[k].item => j = k

(* What the thread has still to try was not forwarded, and its copy is true. *)
LineOnce ==
  /\ Single(Line)
  /\ \A k \in DOMAIN Line :
       /\ status[Line[k].item] = "PENDING" /\ delivered[Line[k].item] = 0
       /\ retry[Line[k].item] = Line[k].retry /\ Line[k].retry < MaxRetry

(* What a callback has still to judge was forwarded once if and only if the *)
(* answer says so; only the error of its first document may be counted.     *)
HandOnce(q) ==
  LET c == captured[q]
  IN  /\ Single(c)
      /\ \A k \in DOMAIN c :
           /\ status[c[k].item] = "PENDING" /\ c[k].retry < MaxRetry
           /\ delivered[c[k].item] = IF rok[q] THEN 1 ELSE 0
           /\ (rstate[q] = "failing" /\ k = 1) \/ retry[c[k].item] = c[k].retry

(* No document is in two places. *)
Apart ==
  \A q \in ReqIds :
    /\ ItemsOf(Line) \cap ItemsOf(captured[q]) = {}
    /\ \A r \in ReqIds \ {q} : ItemsOf(captured[q]) \cap ItemsOf(captured[r]) = {}

Away(i) == i \notin ItemsOf(Line) /\ \A q \in ReqIds : i \notin ItemsOf(captured[q])

(* What is in neither place and may be tried was not, or failed before. *)
Waiting ==
  \A i \in Items : Away(i) /\ status[i] \in {"NONE", "PENDING"} =>
    delivered[i] = 0 /\ retry[i] < MaxRetry

(* A request under way carries what its callback will judge. *)
Carried ==
  \A q \in ReqIds :
    /\ rstate[q] = "sent" => sent[q] = ItemsOf(captured[q])
    /\ rstate[q] = "free" => captured[q] = <<>>

NotTwice == \A i \in Items : delivered[i] < 2

Places == LineOnce /\ (\A q \in ReqIds : HandOnce(q)) /\ Apart
Once == pc # "stopped" /\ Places /\ Waiting /\ Carried /\ NotTwice

OnceInv == Calm => Once

(* A list whose documents are distinct splits into its head and the rest. *)
LEMMA SingleParts ==
  ASSUME NEW s \in Seq(Snapshot), s # <<>>
  PROVE  /\ ItemsOf(s) = {Head(s).item} \union ItemsOf(Tail(s))
         /\ ItemsOf(<<Head(s)>>) = {Head(s).item}
         /\ Single(<<Head(s)>>)
         /\ Single(s) => Single(Tail(s)) /\ Head(s).item \notin ItemsOf(Tail(s))
<1>1. /\ Head(s) = s[1] /\ 1 \in DOMAIN s
      /\ DOMAIN Tail(s) \subseteq Nat \ {0}
      /\ \A k \in DOMAIN Tail(s) : k + 1 \in DOMAIN s /\ Tail(s)[k] = s[k + 1]
      /\ \A j \in DOMAIN s : j # 1 => j - 1 \in DOMAIN Tail(s) /\ (j - 1) + 1 = j
  <2>1. Len(s) \in Nat \ {0} /\ DOMAIN s = 1..Len(s) /\ Tail(s) \in Seq(Snapshot)
        /\ Len(Tail(s)) = Len(s) - 1
    BY LenProperties, EmptySeq, HeadTailProperties
  <2>2. DOMAIN Tail(s) = 1..Len(s) - 1
    BY <2>1, LenProperties
  <2> QED
    BY <2>1, <2>2, HeadTail
<1>2. ItemsOf(Tail(s)) \subseteq ItemsOf(s) /\ Head(s).item \in ItemsOf(s)
  BY <1>1 DEF ItemsOf
<1>3. ASSUME NEW j \in DOMAIN s, j # 1 PROVE s[j].item \in ItemsOf(Tail(s))
  <2>1. Tail(s)[j - 1] = s[j] /\ j - 1 \in DOMAIN Tail(s)
    BY <1>1, <1>3
  <2> QED
    BY <2>1 DEF ItemsOf
<1>4. ItemsOf(s) = {Head(s).item} \union ItemsOf(Tail(s))
  BY <1>1, <1>2, <1>3 DEF ItemsOf
<1>5. ItemsOf(<<Head(s)>>) = {Head(s).item} /\ Single(<<Head(s)>>)
  BY DEF ItemsOf, Single
<1>6. ASSUME Single(s) PROVE Single(Tail(s)) /\ Head(s).item \notin ItemsOf(Tail(s))
  <2>1. Single(Tail(s))
    <3> SUFFICES ASSUME NEW j \in DOMAIN Tail(s), NEW k \in DOMAIN Tail(s),
                        Tail(s)[j].item = Tail(s)[k].item
                 PROVE  j = k
      BY DEF Single
    <3>1. j + 1 = k + 1
      BY <1>1, <1>6 DEF Single
    <3> QED
      BY <1>1, <3>1
  <2>2. ASSUME NEW k \in DOMAIN Tail(s), Tail(s)[k].item = Head(s).item PROVE FALSE
    <3>1. k + 1 = 1 /\ k \in Nat \ {0}
      BY <1>1, <1>6, <2>2 DEF Single
    <3> QED
      BY <3>1
  <2> QED
    BY <2>1, <2>2 DEF ItemsOf
<1> QED
  BY <1>4, <1>5, <1>6

LEMMA ItemsOfEmpty == ItemsOf(<<>>) = {} /\ Single(<<>>)
BY EmptySeq DEF ItemsOf, Single

(* Where the line is. *)
LEMMA LineAt ==
  ASSUME NEW K \in Nat, TypeInv, OneFlush(K)
  PROVE  /\ pc = "forward" => Line = batch
         /\ pc = "each" => Line = each
         /\ pc \in {"off", "idle", "stopped"} => Line = <<>>
BY ConcatEmptySeq, EmptySeq DEF Line, OneFlush, TypeInv, ThreadOK

(* The next request of the bound is a free one. *)
LEMMA NextIsFree == ASSUME Free # {} PROVE NextFree \in Free
<1>1. Free \subseteq Nat
  BY DEF Free, ReqIds
<1>2. \E n \in Free : \A m \in Free : n <= m
  <2>1. PICK n \in Free : \A m \in Free : ~(<<m, n>> \in OpToRel(<, Nat))
    BY <1>1, NatLessThanWellFounded, WFMin
  <2>2. \A m \in Free : ~(m < n)
    BY <1>1, <2>1 DEF OpToRel
  <2> QED
    BY <1>1, <2>2
<1> QED
  BY <1>2 DEF NextFree

(* Facts about single documents are not touched by a step elsewhere. *)
LEMMA LineOnceStays ==
  ASSUME LineOnce, Line' = Line,
         \A i \in ItemsOf(Line) :
           status'[i] = status[i] /\ delivered'[i] = delivered[i] /\ retry'[i] = retry[i]
  PROVE  LineOnce'
<1>1. \A k \in DOMAIN Line : Line[k].item \in ItemsOf(Line)
  BY DEF ItemsOf
<1> QED
  BY <1>1 DEF LineOnce, Single

LEMMA HandOnceStays ==
  ASSUME NEW q \in ReqIds, HandOnce(q),
         captured'[q] = captured[q], rok'[q] = rok[q], rstate'[q] = rstate[q],
         \A i \in ItemsOf(captured[q]) :
           status'[i] = status[i] /\ delivered'[i] = delivered[i] /\ retry'[i] = retry[i]
  PROVE  HandOnce(q)'
<1>1. \A k \in DOMAIN captured[q] : captured[q][k].item \in ItemsOf(captured[q])
  BY DEF ItemsOf
<1> QED
  BY <1>1 DEF HandOnce, Single

(* Places that only lose documents stay apart. *)
LEMMA ApartStays ==
  ASSUME Apart, ItemsOf(Line') \subseteq ItemsOf(Line),
         \A q \in ReqIds : ItemsOf(captured'[q]) \subseteq ItemsOf(captured[q])
  PROVE  Apart'
<1>1. \A q \in ReqIds : ItemsOf(Line') \cap ItemsOf(captured'[q]) = {}
  BY DEF Apart
<1>2. \A q \in ReqIds : \A r \in ReqIds \ {q} : ItemsOf(captured'[q]) \cap ItemsOf(captured'[r]) = {}
  BY DEF Apart
<1> QED
  BY <1>1, <1>2 DEF Apart, ItemsOf

LEMMA AwayNext ==
  ASSUME NEW i PROVE Away(i)' <=> i \notin ItemsOf(Line') /\ \A q \in ReqIds : i \notin ItemsOf(captured'[q])
BY DEF Away, ItemsOf

(* The line is unchanged, or dropped, and the requests are as they were. *)
LEMMA OnceDrop ==
  ASSUME TypeInv, Once, pc' # "stopped", Line' = Line \/ Line' = <<>>,
         UNCHANGED <<status, retry, delivered, rstate, rok, sent, captured>>
  PROVE  Once'
<1>1. ItemsOf(Line') \subseteq ItemsOf(Line)
  BY ItemsOfEmpty
<1>2. LineOnce'
  BY EmptySeq DEF Once, Places, LineOnce, Single
<1>3. (\A q \in ReqIds : HandOnce(q))'
  BY DEF Once, Places, HandOnce, Single
<1>4. Apart'
  BY <1>1, ApartStays DEF Once, Places
<1>5. Waiting'
  <2> SUFFICES ASSUME NEW i \in Items, Away(i)', status[i] \in {"NONE", "PENDING"}
               PROVE  delivered[i] = 0 /\ retry[i] < MaxRetry
    BY DEF Waiting
  <2>1. CASE i \in ItemsOf(Line)
    BY <2>1 DEF Once, Places, LineOnce, ItemsOf
  <2>2. CASE i \notin ItemsOf(Line)
    BY <2>2, AwayNext DEF Away, Once, Waiting
  <2> QED
    BY <2>1, <2>2
<1>6. Carried' /\ NotTwice'
  BY DEF Once, Carried, NotTwice, ItemsOf
<1> QED
  BY <1>2, <1>3, <1>4, <1>5, <1>6 DEF Once, Places

(* A new document waits. *)
LEMMA OnceInsert ==
  ASSUME TypeInv, Once, NEW i \in Items, Insert(i) PROVE Once'
<1>c. StoreOK
  BY DEF TypeInv
<1>u. /\ status[i] = "NONE" /\ status' = [status EXCEPT ![i] = "PENDING"] /\ Line' = Line /\ pc' = pc
      /\ UNCHANGED <<retry, delivered, rstate, rok, sent, captured>>
  BY DEF Insert, Writing, thread, reqs, history, Line
<1>s. \A j \in Items : j # i => status'[j] = status[j]
  BY <1>c, <1>u DEF StoreOK
<1>l. /\ \A j \in ItemsOf(Line) : j \in Items /\ j # i
      /\ \A q \in ReqIds : \A j \in ItemsOf(captured[q]) : j \in Items /\ j # i
  <2>1. \A q \in ReqIds : captured[q] \in Seq(Snapshot)
    BY DEF TypeInv, ReqsOK
  <2>2. ItemsOf(Line) \subseteq Items /\ \A q \in ReqIds : ItemsOf(captured[q]) \subseteq Items
    BY <2>1, LineType, Elements
  <2>3. i \notin ItemsOf(Line)
    BY <1>u DEF Once, Places, LineOnce, ItemsOf
  <2>4. ASSUME NEW q \in ReqIds PROVE i \notin ItemsOf(captured[q])
    BY <1>u DEF Once, Places, HandOnce, ItemsOf
  <2> QED
    BY <2>2, <2>3, <2>4
<1>1. LineOnce'
  BY <1>u, <1>s, <1>l, LineOnceStays DEF Once, Places
<1>2. ASSUME NEW q \in ReqIds PROVE HandOnce(q)'
  BY <1>u, <1>s, <1>l, HandOnceStays DEF Once, Places
<1>3. Apart'
  BY <1>u, ApartStays DEF Once, Places
<1>4. Waiting'
  <2>1. \A j \in Items : Away(j)' <=> Away(j)
    BY <1>u, AwayNext DEF Away
  <2> QED
    BY <1>c, <1>u, <1>s, <2>1 DEF Once, Waiting
<1>5. Carried' /\ NotTwice'
  BY <1>u DEF Once, Carried, NotTwice, ItemsOf
<1> QED
  BY <1>u, <1>1, <1>2, <1>3, <1>4, <1>5 DEF Once, Places

(* A tick that finds no request under way reads waiting documents. *)
LEMMA OnceTick ==
  ASSUME TypeInv, InsertedOnce, Once, Tick, Free = ReqIds, Line = <<>>, Line' = todo'
  PROVE  Once'
<1>c. StoreOK /\ todo' \in GetPendingItems(BatchSize)
  BY DEF TypeInv, Tick
<1>u. pc' = "scan" /\ UNCHANGED <<status, retry, delivered, rstate, rok, sent, captured>>
  BY DEF Tick, store
<1>f. \A q \in ReqIds : captured[q] = <<>>
  BY DEF Once, Carried, Free
<1>w. \A i \in Items : status[i] = "PENDING" => delivered[i] = 0 /\ retry[i] < MaxRetry
  BY <1>f, ItemsOfEmpty DEF Once, Waiting, Away
<1> DEFINE t == todo'
<1>0. PICK f \in UpTo(BatchSize) : t = Read(f) /\ Sorted(f)
  BY <1>c, Zenon DEF GetPendingItems
<1>1. PICK l \in 1..BatchSize : f \in [1..l -> PendingAt]
  BY Zenon DEF UpTo
<1>2. /\ DOMAIN t = 1..l /\ DOMAIN f = 1..l
      /\ \A k \in 1..l : /\ t[k].item = inserted[f[k]] /\ t[k].retry = retry[inserted[f[k]]]
                         /\ f[k] \in DOMAIN inserted /\ status[inserted[f[k]]] = "PENDING"
  BY <1>0, <1>1 DEF Read, PendingAt
<1>3. \A n \in DOMAIN inserted : inserted[n] \in Items /\ n \in Nat
  <2>1. inserted \in Seq(Items)
    BY <1>c DEF StoreOK
  <2>2. DOMAIN inserted = 1..Len(inserted) /\ Len(inserted) \in Nat
    BY <2>1, LenProperties
  <2> QED
    BY <2>1, <2>2, ElementOfSeq
<1> HIDE DEF t
<1>4. Single(t)
  <2> SUFFICES ASSUME NEW j \in 1..l, NEW k \in 1..l, t[j].item = t[k].item PROVE j = k
    BY <1>2 DEF Single
  <2>1. f[j] = f[k]
    BY <1>2 DEF InsertedOnce
  <2>2. f[j] \in Nat /\ ~(j < k) /\ ~(k < j)
    BY <1>0, <1>2, <1>3, <2>1 DEF Sorted
  <2> QED
    BY <2>2
<1>5. \A k \in DOMAIN t : /\ status[t[k].item] = "PENDING" /\ delivered[t[k].item] = 0
                         /\ retry[t[k].item] = t[k].retry /\ t[k].retry < MaxRetry
  BY <1>2, <1>3, <1>w
<1>6. LineOnce'
  BY <1>u, <1>4, <1>5 DEF LineOnce, t, Single
<1>7. (\A q \in ReqIds : HandOnce(q))' /\ Apart'
  <2>1. \A q \in ReqIds : captured'[q] = <<>> /\ ItemsOf(captured[q])' = {}
    BY <1>u, <1>f, ItemsOfEmpty DEF ItemsOf
  <2> QED
    BY <2>1, EmptySeq DEF HandOnce, Single, Apart, ItemsOf
<1>8. Waiting' /\ Carried' /\ NotTwice'
  BY <1>u, <1>w, <1>f, ItemsOfEmpty DEF Once, Waiting, Carried, NotTwice, Away, ItemsOf
<1> QED
  BY <1>u, <1>6, <1>7, <1>8 DEF Once, Places

(* A part of the line goes to a free request. *)
LEMMA OnceHandOver ==
  ASSUME TypeInv, Once, pc' # "stopped",
         NEW n \in ReqIds, rstate[n] = "free", ~rok[n],
         NEW part \in Seq(Snapshot), Single(part), Single(Line'),
         \A k \in DOMAIN part : \E j \in DOMAIN Line : part[k] = Line[j],
         \A k \in DOMAIN Line' : \E j \in DOMAIN Line : Line'[k] = Line[j],
         ItemsOf(Line) = ItemsOf(part) \union ItemsOf(Line'),
         ItemsOf(part) \cap ItemsOf(Line') = {},
         rstate' = [rstate EXCEPT ![n] = "sent"],
         sent' = [sent EXCEPT ![n] = ItemsOf(part)],
         captured' = [captured EXCEPT ![n] = part],
         UNCHANGED <<status, retry, delivered, rok>>
  PROVE  Once'
<1>c. ReqsOK
  BY DEF TypeInv
<1>n. /\ captured'[n] = part /\ rstate'[n] = "sent" /\ sent'[n] = ItemsOf(part)
      /\ \A q \in ReqIds \ {n} : captured'[q] = captured[q] /\ rstate'[q] = rstate[q] /\ sent'[q] = sent[q]
  BY <1>c DEF ReqsOK
<1>e. ItemsOf(captured[n]) = {}
  BY ItemsOfEmpty DEF Once, Carried
<1>1. LineOnce'
  BY DEF Once, Places, LineOnce, Single
<1>2. ASSUME NEW q \in ReqIds PROVE HandOnce(q)'
  <2>1. CASE q # n
    BY <1>n, <2>1, HandOnceStays DEF Once, Places
  <2>2. CASE q = n
    <3>1. \A k \in DOMAIN part :
            /\ status[part[k].item] = "PENDING" /\ part[k].retry < MaxRetry
            /\ delivered[part[k].item] = 0 /\ retry[part[k].item] = part[k].retry
      BY DEF Once, Places, LineOnce
    <3> QED
      BY <1>n, <2>2, <3>1 DEF HandOnce, Single
  <2> QED
    BY <2>1, <2>2
<1>3. Apart'
  <2>1. ASSUME NEW q \in ReqIds PROVE ItemsOf(Line') \cap ItemsOf(captured'[q]) = {}
    BY <1>n DEF Once, Places, Apart
  <2>2. ASSUME NEW q \in ReqIds, NEW r \in ReqIds \ {q}
        PROVE  ItemsOf(captured'[q]) \cap ItemsOf(captured'[r]) = {}
    <3>1. CASE q = n
      BY <1>n, <3>1 DEF Once, Places, Apart
    <3>2. CASE q # n /\ r = n
      BY <1>n, <3>2 DEF Once, Places, Apart
    <3>3. CASE q # n /\ r # n
      BY <1>n, <3>3 DEF Once, Places, Apart
    <3> QED
      BY <3>1, <3>2, <3>3
  <2> QED
    BY <2>1, <2>2 DEF Apart, ItemsOf
<1>4. Waiting'
  <2>1. ASSUME NEW i \in Items, Away(i)' PROVE Away(i)
    <3>1. i \notin ItemsOf(Line') /\ i \notin ItemsOf(part)
          /\ \A q \in ReqIds \ {n} : i \notin ItemsOf(captured[q])
      BY <1>n, <2>1, AwayNext
    <3> QED
      BY <1>e, <3>1 DEF Away
  <2> QED
    BY <2>1 DEF Once, Waiting
<1>5. Carried'
  <2>1. \A q \in ReqIds : /\ rstate'[q] = "sent" => sent'[q] = ItemsOf(captured'[q])
                          /\ rstate'[q] = "free" => captured'[q] = <<>>
    BY <1>n DEF Once, Carried
  <2> QED
    BY <2>1 DEF Carried, ItemsOf
<1>6. NotTwice'
  BY DEF Once, NotTwice
<1> QED
  BY <1>1, <1>2, <1>3, <1>4, <1>5, <1>6 DEF Once, Places

(* A request takes the batch, or one document of it. *)
LEMMA OnceSend ==
  ASSUME NEW K \in Nat, TypeInv, OneFlush(K), Honest, Once, BatchSend \/ EachSend
  PROVE  Once'
<1>c. ThreadOK /\ ReqsOK /\ Line \in Seq(Snapshot)
  BY LineType DEF TypeInv
<1>f. NextFree \in ReqIds /\ rstate[NextFree] = "free" /\ ~rok[NextFree]
  BY NextIsFree DEF BatchSend, EachSend, Free, Honest
<1>l. Line # <<>> /\ Single(Line)
  BY <1>c, LineAt DEF BatchSend, EachSend, ThreadOK, Once, Places, LineOnce
<1>1. CASE BatchSend
  <2>1. /\ Line = batch /\ Send(NextFree, batch, TRUE) /\ UNCHANGED <<status, retry, delivered>>
        /\ pc' = "idle" /\ batch' = <<>> /\ todo' = <<>>
    BY <1>1, LineAt DEF BatchSend, Returns, EndTick, OneFlush, store
  <2>2. Line' = <<>>
    BY <2>1, ConcatEmptySeq, EmptySeq DEF Line
  <2>3. \A k \in DOMAIN Line : \E j \in DOMAIN Line : Line[k] = Line[j]
    OBVIOUS
  <2>4. /\ rstate' = [rstate EXCEPT ![NextFree] = "sent"]
        /\ sent' = [sent EXCEPT ![NextFree] = ItemsOf(Line)]
        /\ captured' = [captured EXCEPT ![NextFree] = Line]
        /\ rok' = rok
    BY <2>1 DEF Send
  <2>5. DOMAIN Line' = {} /\ ItemsOf(Line') = {} /\ Single(Line')
    BY <2>2, ItemsOfEmpty, EmptySeq
  <2> QED
    BY <1>c, <1>f, <1>l, <2>1, <2>3, <2>4, <2>5, OnceHandOver
<1>2. CASE EachSend
  <2>1. /\ Line = each /\ Send(NextFree, <<Head(Line)>>, FALSE) /\ UNCHANGED <<status, retry, delivered>>
        /\ todo = <<>> /\ EachAdvance
    BY <1>2, LineAt DEF EachSend, OneFlush, store
  <2>2. Line' = Tail(Line) /\ pc' # "stopped"
    <3>1. CASE Tail(each) = <<>>
      <4>1. pc' = "idle" /\ batch' = <<>> /\ todo' = <<>>
        BY <2>1, <3>1 DEF EachAdvance, Returns, EndTick
      <4> QED
        BY <2>1, <3>1, <4>1, ConcatEmptySeq, EmptySeq DEF Line
    <3>2. CASE Tail(each) # <<>>
      BY <1>2, <2>1, <3>2 DEF EachAdvance, Line, EachSend
    <3> QED
      BY <3>1, <3>2
  <2> DEFINE part == <<Head(Line)>>
  <2>3. /\ ItemsOf(Line) = ItemsOf(part) \union ItemsOf(Line')
        /\ ItemsOf(part) \cap ItemsOf(Line') = {}
        /\ Single(part) /\ Single(Line')
    BY <1>c, <1>l, <2>2, SingleParts
  <2>4. /\ \A k \in DOMAIN part : part[k] = Line[1]
        /\ 1 \in DOMAIN Line
        /\ part \in Seq(Snapshot)
        /\ \A k \in DOMAIN Line' : k + 1 \in DOMAIN Line /\ Line'[k] = Line[k + 1]
    <3>1. /\ Len(Line) \in Nat \ {0} /\ DOMAIN Line = 1..Len(Line) /\ Tail(Line) \in Seq(Snapshot)
          /\ Len(Tail(Line)) = Len(Line) - 1
      BY <1>c, <1>l, LenProperties, EmptySeq, HeadTailProperties
    <3>2. DOMAIN Tail(Line) = 1..Len(Line) - 1
      BY <3>1, LenProperties
    <3>3. Head(Line) \in Snapshot /\ Head(Line) = Line[1]
      BY <1>c, <1>l, HeadTail
    <3> QED
      BY <1>c, <1>l, <2>2, <3>1, <3>2, <3>3, HeadTail
  <2>5. /\ rstate' = [rstate EXCEPT ![NextFree] = "sent"]
        /\ sent' = [sent EXCEPT ![NextFree] = ItemsOf(part)]
        /\ captured' = [captured EXCEPT ![NextFree] = part]
        /\ rok' = rok
    BY <2>1 DEF Send
  <2> HIDE DEF part
  <2> QED
    BY <1>f, <2>1, <2>2, <2>3, <2>4, <2>5, OnceHandOver
<1> QED
  BY <1>1, <1>2

(* What executing one request, or none, counts. *)
LEMMA DeliverOne ==
  ASSUME HistoryOK, NEW q \in ReqIds, NEW ok \in BOOLEAN, Deliver(IF ok THEN {q} ELSE {}),
         NEW i \in Items, delivered[i] < 2
  PROVE  delivered'[i] = IF ok /\ i \in sent[q] THEN delivered[i] + 1 ELSE delivered[i]
<1> DEFINE Q == IF ok THEN {q} ELSE {}
           C == {r \in Q : i \in sent[r]}
<1>1. delivered'[i] = IF delivered[i] + Cardinality(C) < 2 THEN delivered[i] + Cardinality(C) ELSE 2
  BY DEF Deliver
<1>2. delivered[i] \in 0..1
  BY DEF HistoryOK
<1>3. CASE ok /\ i \in sent[q]
  <2>1. C = {q}
    BY <1>3
  <2>2. Cardinality(C) = 1
    BY <2>1, FS_Singleton
  <2> HIDE DEF C
  <2> QED
    BY <1>1, <1>2, <1>3, <2>2
<1>4. CASE ~(ok /\ i \in sent[q])
  <2>1. C = {}
    BY <1>4
  <2>2. Cardinality(C) = 0
    BY <2>1, FS_EmptySet
  <2> HIDE DEF C
  <2> QED
    BY <1>1, <1>2, <1>4, <2>2
<1> QED
  BY <1>3, <1>4

(* An answer forwards what the callback will judge, or nothing. *)
LEMMA OnceAnswer ==
  ASSUME TypeInv, Honest, Once, NEW q \in ReqIds, Answer(q) PROVE Once'
<1>c. ReqsOK /\ HistoryOK
  BY DEF TypeInv
<1>0. PICK ok \in BOOLEAN : rok' = [rok EXCEPT ![q] = ok] /\ Deliver(IF ok THEN {q} ELSE {})
  BY DEF Answer
<1>u. /\ rstate[q] = "sent" /\ ~rok[q] /\ sent[q] = ItemsOf(captured[q])
      /\ rstate' = [rstate EXCEPT ![q] = "answered"] /\ sent' = [sent EXCEPT ![q] = {}]
      /\ Line' = Line /\ pc' = pc /\ UNCHANGED <<status, retry, captured>>
  BY DEF Answer, store, thread, Line, Once, Carried, Honest
<1>d. \A i \in Items : delivered'[i] = IF ok /\ i \in ItemsOf(captured[q]) THEN delivered[i] + 1 ELSE delivered[i]
  BY <1>c, <1>0, <1>u, DeliverOne DEF Once, NotTwice
<1>i. /\ ItemsOf(Line) \subseteq Items /\ \A r \in ReqIds : ItemsOf(captured[r]) \subseteq Items
  BY <1>c, LineType, Elements DEF ReqsOK
<1>z. \A i \in ItemsOf(captured[q]) : delivered[i] = 0
  BY <1>u DEF Once, Places, HandOnce, ItemsOf
<1>1. LineOnce'
  BY <1>u, <1>d, <1>i, LineOnceStays DEF Once, Places, Apart
<1>2. ASSUME NEW r \in ReqIds PROVE HandOnce(r)'
  <2>1. CASE r # q
    <3>1. \A i \in ItemsOf(captured[r]) : i \in Items /\ i \notin ItemsOf(captured[q])
      BY <1>i, <2>1 DEF Once, Places, Apart
    <3>2. rok'[r] = rok[r] /\ rstate'[r] = rstate[r] /\ captured'[r] = captured[r]
      BY <1>c, <1>0, <1>u, <2>1 DEF ReqsOK
    <3> QED
      BY <1>u, <1>d, <3>1, <3>2, HandOnceStays DEF Once, Places
  <2>2. CASE r = q
    <3>1. rok'[q] = ok /\ rstate'[q] = "answered" /\ captured'[q] = captured[q]
      BY <1>c, <1>0, <1>u DEF ReqsOK
    <3>2. \A k \in DOMAIN captured[q] : /\ captured[q][k].item \in ItemsOf(captured[q])
                                        /\ captured[q][k].item \in Items
      BY <1>i DEF ItemsOf
    <3>3. \A k \in DOMAIN captured[q] : delivered'[captured[q][k].item] = IF ok THEN 1 ELSE 0
      BY <1>d, <1>z, <3>2
    <3>4. /\ Single(captured[q])
          /\ \A k \in DOMAIN captured[q] :
               /\ status[captured[q][k].item] = "PENDING" /\ captured[q][k].retry < MaxRetry
               /\ retry[captured[q][k].item] = captured[q][k].retry
      BY <1>u DEF Once, Places, HandOnce
    <3> QED
      BY <1>u, <2>2, <3>1, <3>3, <3>4 DEF HandOnce, Single
  <2> QED
    BY <2>1, <2>2
<1>3. Apart'
  BY <1>u, ApartStays DEF Once, Places
<1>4. Waiting'
  <2>1. \A i \in Items : Away(i)' => Away(i) /\ i \notin ItemsOf(captured[q])
    BY <1>u, AwayNext DEF Away
  <2> QED
    BY <1>u, <1>d, <2>1 DEF Once, Waiting
<1>5. Carried'
  <2>1. \A r \in ReqIds : /\ rstate'[r] = "sent" => sent'[r] = ItemsOf(captured'[r])
                          /\ rstate'[r] = "free" => captured'[r] = <<>>
    BY <1>c, <1>u DEF Once, Carried, ReqsOK
  <2> QED
    BY <2>1 DEF Carried, ItemsOf
<1>6. NotTwice'
  BY <1>d, <1>z DEF Once, NotTwice
<1> QED
  BY <1>u, <1>1, <1>2, <1>3, <1>4, <1>5, <1>6 DEF Once, Places

(* The callback is through with its first document, which was judged or     *)
(* waits again with a retry left.                                           *)
LEMMA OnceAdvance ==
  ASSUME TypeInv, Once, NEW q \in ReqIds, captured[q] # <<>>, rstate[q] # "sent", Advance(q),
         Line' = Line, pc' = pc, delivered' = delivered,
         \A i \in Items \ {Head(captured[q]).item} : status'[i] = status[i] /\ retry'[i] = retry[i],
         LET i == Head(captured[q]).item
         IN  status'[i] \in {"NONE", "PENDING"} => delivered[i] = 0 /\ retry'[i] < MaxRetry
  PROVE  Once'
<1> DEFINE c == captured[q]
           h == Head(captured[q]).item
<1>c. ReqsOK /\ c \in Seq(Snapshot)
  BY DEF TypeInv, ReqsOK
<1>a. /\ captured' = [captured EXCEPT ![q] = Tail(c)]
      /\ rstate' = [rstate EXCEPT ![q] = IF Tail(c) = <<>> THEN "free" ELSE "running"]
      /\ rok' = [rok EXCEPT ![q] = @ /\ Tail(c) # <<>>]
      /\ sent' = sent
  BY DEF Advance
<1>q. /\ captured'[q] = Tail(c)
      /\ rstate'[q] = IF Tail(c) = <<>> THEN "free" ELSE "running"
      /\ rok'[q] = (rok[q] /\ Tail(c) # <<>>)
      /\ \A r \in ReqIds \ {q} : captured'[r] = captured[r] /\ rstate'[r] = rstate[r] /\ rok'[r] = rok[r]
  BY <1>a, <1>c DEF ReqsOK
<1>s. /\ Single(c) /\ Single(Tail(c)) /\ h \notin ItemsOf(Tail(c))
      /\ ItemsOf(c) = {h} \union ItemsOf(Tail(c))
  BY <1>c, SingleParts DEF Once, Places, HandOnce
<1>i. /\ ItemsOf(Line) \subseteq Items /\ \A r \in ReqIds : ItemsOf(captured[r]) \subseteq Items
  BY <1>c, LineType, Elements DEF ReqsOK
<1>h. /\ h \in Items /\ h \notin ItemsOf(Line)
      /\ \A r \in ReqIds \ {q} : h \notin ItemsOf(captured[r])
  BY <1>i, <1>s DEF Once, Places, Apart
<1>1. LineOnce'
  BY <1>i, <1>h, LineOnceStays DEF Once, Places
<1>2. ASSUME NEW r \in ReqIds PROVE HandOnce(r)'
  <2>1. CASE r # q
    BY <1>i, <1>h, <1>q, <2>1, HandOnceStays DEF Once, Places
  <2>2. CASE r = q
    <3> DEFINE t == Tail(c)
    <3>1. /\ \A k \in DOMAIN t : k \in Nat \ {0} /\ k + 1 \in DOMAIN c /\ t[k] = c[k + 1]
      <4>1. /\ Len(c) \in Nat \ {0} /\ DOMAIN c = 1..Len(c) /\ t \in Seq(Snapshot)
            /\ Len(t) = Len(c) - 1
        BY <1>c, LenProperties, EmptySeq, HeadTailProperties
      <4>2. DOMAIN t = 1..Len(c) - 1
        BY <4>1, LenProperties
      <4> QED
        BY <1>c, <4>1, <4>2, HeadTail
    <3>2. \A k \in DOMAIN t : t[k].item \in Items /\ t[k].item # h
      BY <1>i, <1>s, <1>h DEF ItemsOf
    <3>3. ASSUME NEW k \in DOMAIN t
          PROVE  /\ status[t[k].item] = "PENDING" /\ t[k].retry < MaxRetry
                 /\ delivered[t[k].item] = IF rok[q] THEN 1 ELSE 0
                 /\ retry[t[k].item] = t[k].retry
      <4>1. k + 1 \in DOMAIN c /\ t[k] = c[k + 1] /\ k + 1 # 1
        BY <3>1
      <4> HIDE DEF t
      <4> QED
        BY <4>1 DEF Once, Places, HandOnce
    <3>4. t # <<>> \/ DOMAIN t = {}
      BY EmptySeq
    <3>5. captured'[q] = t /\ (rok'[q] = (rok[q] /\ t # <<>>)) /\ Single(t)
      BY <1>q, <1>s
    <3> HIDE DEF t
    <3> QED
      BY <2>2, <3>2, <3>3, <3>4, <3>5, ZenonT(40) DEF HandOnce, Single
  <2> QED
    BY <2>1, <2>2
<1>3. Apart'
  <2>1. \A r \in ReqIds : ItemsOf(captured'[r]) \subseteq ItemsOf(captured[r])
    BY <1>q, <1>s
  <2> QED
    BY <2>1, ApartStays DEF Once, Places
<1>4. Waiting'
  <2> SUFFICES ASSUME NEW i \in Items, Away(i)', status'[i] \in {"NONE", "PENDING"}
               PROVE  delivered[i] = 0 /\ retry'[i] < MaxRetry
    BY DEF Waiting
  <2>1. CASE i = h
    BY <2>1
  <2>2. CASE i # h
    <3>1. i \notin ItemsOf(Line') /\ \A r \in ReqIds : i \notin ItemsOf(captured'[r])
      BY AwayNext
    <3>2. Away(i)
      BY <1>q, <1>s, <2>2, <3>1 DEF Away
    <3> QED
      BY <2>2, <3>2 DEF Once, Waiting
  <2> QED
    BY <2>1, <2>2
<1>5. Carried'
  <2>1. \A r \in ReqIds : /\ rstate'[r] = "sent" => sent'[r] = ItemsOf(captured'[r])
                          /\ rstate'[r] = "free" => captured'[r] = <<>>
    <3> TAKE r \in ReqIds
    <3>1. CASE r = q
      BY <1>q, <3>1, Zenon
    <3>2. CASE r # q
      BY <1>a, <1>q, <3>2 DEF Once, Carried
    <3> QED
      BY <3>1, <3>2
  <2> QED
    BY <2>1 DEF Carried, ItemsOf
<1>6. NotTwice'
  BY DEF Once, NotTwice
<1> QED
  BY <1>1, <1>2, <1>3, <1>4, <1>5, <1>6 DEF Once, Places

(* The callback writes a verdict, or counts the error of its first document.*)
LEMMA OnceJudge ==
  ASSUME TypeInv, Honest, Once, NEW q \in ReqIds,
         HandleSuccess(q) \/ HandleError(q) \/ HandleExhausted(q)
  PROVE  Once'
<1> DEFINE c == captured[q]
           h == Head(captured[q]).item
<1>c. /\ ReqsOK /\ StoreOK /\ HistoryOK
      /\ c \in Seq(Snapshot) /\ c # <<>>
  BY DEF TypeInv, ReqsOK, HandleSuccess, WriteSuccess, HandleError, CountError, HandleExhausted
<1>h. h \in Items /\ 1 \in DOMAIN c /\ c[1] = Head(c) /\ Head(c).retry \in Nat
  <2>1. Head(c) \in Snapshot /\ Head(c) = c[1]
    BY <1>c, HeadTail
  <2>2. 1 \in DOMAIN c
    BY <1>c, LenProperties, EmptySeq
  <2> QED
    BY <2>1, <2>2, <1>c, HeadSnapshot
<1>o. /\ status[h] = "PENDING" /\ Head(c).retry < MaxRetry
      /\ delivered[h] = IF rok[q] THEN 1 ELSE 0
      /\ rstate[q] # "failing" => retry[h] = Head(c).retry
  BY <1>h DEF Once, Places, HandOnce
<1>u. Line' = Line /\ pc' = pc /\ delivered' = delivered
  BY DEF HandleSuccess, WriteSuccess, HandleError, CountError, HandleExhausted, thread, history, Line
<1>1. CASE HandleSuccess(q)
  <2>1. /\ status' = [status EXCEPT ![h] = "SUCCESS"] /\ retry' = retry
        /\ Advance(q) /\ rstate[q] # "sent"
    BY <1>1 DEF HandleSuccess, WriteSuccess, InCallback
  <2>2. status'[h] = "SUCCESS" /\ \A i \in Items \ {h} : status'[i] = status[i] /\ retry'[i] = retry[i]
    BY <1>c, <1>h, <2>1 DEF StoreOK
  <2> QED
    BY <1>c, <1>u, <2>1, <2>2, OnceAdvance
<1>2. CASE HandleExhausted(q)
  <2>1. /\ status' = [status EXCEPT ![h] = "FAILED"] /\ retry' = retry
        /\ Advance(q) /\ rstate[q] # "sent"
    BY <1>2 DEF HandleExhausted
  <2>2. status'[h] = "FAILED" /\ \A i \in Items \ {h} : status'[i] = status[i] /\ retry'[i] = retry[i]
    BY <1>c, <1>h, <2>1 DEF StoreOK
  <2> QED
    BY <1>c, <1>u, <2>1, <2>2, OnceAdvance
<1>3. CASE HandleError(q)
  <2>1. /\ retry' = [retry EXCEPT ![h] = @ + 1] /\ status' = status
        /\ rstate[q] \in {"answered", "running"} /\ ~rok[q]
    BY <1>3 DEF HandleError, CountError, InCallback
  <2>2. /\ retry'[h] = Head(c).retry + 1 /\ delivered[h] = 0
        /\ \A i \in Items \ {h} : status'[i] = status[i] /\ retry'[i] = retry[i]
    BY <1>c, <1>h, <1>o, <2>1 DEF StoreOK
  <2>3. CASE Head(c).retry + 1 >= MaxRetry
    <3>1. rstate' = [rstate EXCEPT ![q] = "failing"] /\ UNCHANGED <<rok, sent, captured>>
      BY <1>3, <2>3 DEF HandleError, CountError
    <3>2. rstate'[q] = "failing" /\ \A r \in ReqIds \ {q} : rstate'[r] = rstate[r]
      BY <1>c, <3>1 DEF ReqsOK
    <3>i. ItemsOf(Line) \subseteq Items /\ \A r \in ReqIds : ItemsOf(captured[r]) \subseteq Items
      BY <1>c, LineType, Elements DEF ReqsOK
    <3>h. h \in ItemsOf(c)
      BY <1>h DEF ItemsOf
    <3>a. h \notin ItemsOf(Line) /\ \A r \in ReqIds \ {q} : h \notin ItemsOf(captured[r])
      BY <3>h DEF Once, Places, Apart
    <3>3. LineOnce'
      BY <1>u, <2>1, <2>2, <3>i, <3>a, LineOnceStays DEF Once, Places
    <3>4. ASSUME NEW r \in ReqIds PROVE HandOnce(r)'
      <4>1. CASE r # q
        BY <1>u, <2>1, <2>2, <3>1, <3>2, <3>i, <3>a, <4>1, HandOnceStays DEF Once, Places
      <4>2. CASE r = q
        <5>1. ASSUME NEW k \in DOMAIN c, k # 1
              PROVE  retry'[c[k].item] = c[k].retry
          <6>1. c[k].item # h
            BY <1>h, <5>1 DEF Once, Places, HandOnce, Single
          <6>2. c[k].item \in Items
            BY <1>c, Elements
          <6>3. retry[c[k].item] = c[k].retry
            BY <2>1 DEF Once, Places, HandOnce
          <6> QED
            BY <2>2, <6>1, <6>2, <6>3
        <5>2. /\ Single(c)
              /\ \A k \in DOMAIN c : /\ status[c[k].item] = "PENDING" /\ c[k].retry < MaxRetry
                                     /\ delivered[c[k].item] = IF rok[q] THEN 1 ELSE 0
          BY DEF Once, Places, HandOnce
        <5> QED
          BY <1>u, <2>1, <3>1, <3>2, <4>2, <5>1, <5>2 DEF HandOnce, Single
      <4> QED
        BY <4>1, <4>2
    <3>5. Apart'
      BY <1>u, <3>1, ApartStays DEF Once, Places
    <3>6. Waiting'
      <4>1. \A i \in Items : Away(i)' => Away(i) /\ i # h
        BY <1>u, <3>1, <3>h, AwayNext DEF Away
      <4> QED
        BY <1>u, <2>1, <2>2, <4>1 DEF Once, Waiting
    <3>7. Carried'
      <4>1. \A r \in ReqIds : /\ rstate'[r] = "sent" => sent[r] = ItemsOf(captured[r])
                              /\ rstate'[r] = "free" => captured[r] = <<>>
        BY <3>2 DEF Once, Carried
      <4> QED
        BY <3>1, <4>1 DEF Carried, ItemsOf
    <3> QED
      BY <1>u, <3>3, <3>4, <3>5, <3>6, <3>7 DEF Once, Places, NotTwice
  <2>4. CASE ~(Head(c).retry + 1 >= MaxRetry)
    <3>1. Advance(q)
      BY <1>3, <2>4 DEF HandleError, CountError
    <3>2. retry'[h] < MaxRetry
      BY <1>h, <2>2, <2>4, Constants
    <3> QED
      BY <1>c, <1>u, <2>1, <2>2, <3>1, <3>2, OnceAdvance
  <2> QED
    BY <2>3, <2>4
<1> QED
  BY <1>1, <1>2, <1>3

(* An answered request whose list is empty is done. *)
LEMMA OnceCallbackEmpty ==
  ASSUME TypeInv, Once, NEW q \in ReqIds, CallbackEmpty(q) PROVE Once'
<1>c. ReqsOK
  BY DEF TypeInv
<1>u. /\ rstate[q] = "answered" /\ captured[q] = <<>>
      /\ rstate' = [rstate EXCEPT ![q] = "free"] /\ rok' = [rok EXCEPT ![q] = FALSE]
      /\ Line' = Line /\ pc' = pc /\ UNCHANGED <<status, retry, delivered, sent, captured>>
  BY DEF CallbackEmpty, store, thread, history, Line
<1>q. /\ rstate'[q] = "free"
      /\ \A r \in ReqIds \ {q} : rstate'[r] = rstate[r] /\ rok'[r] = rok[r]
  BY <1>c, <1>u DEF ReqsOK
<1>1. LineOnce'
  BY <1>u, LineOnceStays DEF Once, Places
<1>2. ASSUME NEW r \in ReqIds PROVE HandOnce(r)'
  <2>1. CASE r # q
    BY <1>u, <1>q, <2>1, HandOnceStays DEF Once, Places
  <2>2. CASE r = q
    BY <1>u, <2>2, EmptySeq DEF HandOnce, Single
  <2> QED
    BY <2>1, <2>2
<1>3. Apart'
  BY <1>u, ApartStays DEF Once, Places
<1>4. Waiting'
  <2>1. \A i \in Items : Away(i)' => Away(i)
    BY <1>u, AwayNext DEF Away
  <2> QED
    BY <1>u, <2>1 DEF Once, Waiting
<1>5. Carried'
  <2>1. \A r \in ReqIds : /\ rstate'[r] = "sent" => sent[r] = ItemsOf(captured[r])
                          /\ rstate'[r] = "free" => captured[r] = <<>>
    BY <1>u, <1>q DEF Once, Carried
  <2> QED
    BY <1>u, <2>1 DEF Carried, ItemsOf
<1> QED
  BY <1>u, <1>1, <1>2, <1>3, <1>4, <1>5 DEF Once, Places, NotTwice

(* Every step keeps the documents in their places as long as all is calm. *)
LEMMA OnceStep ==
  ASSUME NEW K \in Nat, SmallBatches(K), AllInv(K), InsertedOnce, OnceInv, [Next]_vars
  PROVE  OnceInv'
<1>t. TypeInv /\ OneFlush(K) /\ Honest /\ ReqsOK
  BY DEF AllInv, TruthInv, TypeInv
<1>f. faults \in Nat /\ ~(faults + 1 = 0)
  BY <1>t DEF TypeInv, HistoryOK
<1>p. Calm => Once /\ pc # "stopped"
  BY DEF OnceInv, Once
<1>u. ASSUME UNCHANGED <<faults, overlapped>>, Once => Once' PROVE OnceInv'
  BY <1>u DEF OnceInv, Calm
<1>x. ASSUME faults' = faults + 1 PROVE OnceInv'
  BY <1>x, <1>f DEF OnceInv, Calm
<1>s. ASSUME pc' # "stopped", Line' = Line \/ Line' = <<>>,
             UNCHANGED <<status, retry, delivered, rstate, rok, sent, captured, faults, overlapped>>
      PROVE  OnceInv'
  BY <1>t, <1>u, <1>s, OnceDrop
<1>1. ASSUME NEW i \in Items, Insert(i) PROVE OnceInv'
  <2>1. UNCHANGED <<faults, overlapped>>
    BY <1>1 DEF Insert, history
  <2> QED
    BY <1>t, <1>1, <1>u, <2>1, OnceInsert
<1>2. CASE Start
  <2>1. pc' = "idle" /\ batch' = batch /\ todo' = todo /\ pc = "off"
        /\ UNCHANGED <<status, retry, delivered, rstate, rok, sent, captured, faults, overlapped>>
    BY <1>2 DEF Start, store, reqs, history
  <2>2. Line' = Line
    BY <2>1 DEF Line
  <2> QED
    BY <1>s, <2>1, <2>2
<1>3. CASE Stop \/ Crash \/ BatchThrows \/ EachThrows
  BY <1>3, <1>x DEF Stop, Crash, BatchThrows, EachThrows
<1>4. CASE Tick
  <2> SUFFICES ASSUME Calm' PROVE Once'
    BY DEF OnceInv
  <2>1. Calm /\ Free = ReqIds /\ pc = "idle" /\ pc' = "scan"
    BY <1>4 DEF Tick, Calm
  <2>2. Line = <<>>
    BY <1>t, <2>1, LineAt
  <2>3. Line' = todo'
    <3>1. batch = <<>> /\ batch' = batch /\ todo' \in Seq(Snapshot)
      BY <1>t, <1>4, <2>1, ReadOK DEF OneFlush, Tick, TypeInv
    <3> QED
      BY <2>1, <3>1, ConcatEmptySeq DEF Line
  <2> QED
    BY <1>t, <1>4, <1>p, <2>1, <2>2, <2>3, OnceTick
<1>5. CASE ScanAdd
  <2>1. UNCHANGED <<rstate, rok, captured>>
    BY <1>t, <1>5, ReplaceUnshared DEF ScanAdd, OneFlush
  <2>2. Line' = Line
    BY <1>t, <1>5, ScanKeepsLine DEF ScanAdd, ReplaceBatch, Line, TypeInv, ThreadOK
  <2> QED
    BY <1>5, <1>s, <2>1, <2>2 DEF ScanAdd, store, history
<1>6. CASE ScanFlush \/ ScanOversize \/ ClearBatch
  BY <1>t, <1>6, NextFits DEF ScanFlush, ScanOversize, ClearBatch, OneFlush
<1>7. CASE BatchRefused \/ EachRefused
  <2>1. Line' = <<>> /\ pc' = "idle"
    BY <1>7, ConcatEmptySeq, EmptySeq DEF BatchRefused, EachRefused, EndTick, Line
  <2> QED
    BY <1>7, <1>s, <2>1 DEF BatchRefused, EachRefused, store, reqs, history
<1>8. CASE BatchMixed
  <2>1. Line' = Line
    BY <1>t, <1>8, LineAt DEF BatchMixed, Line
  <2> QED
    BY <1>8, <1>s, <2>1 DEF BatchMixed, store, reqs, history
<1>9. CASE BatchSend \/ EachSend
  BY <1>t, <1>9, <1>u, OnceSend DEF BatchSend, EachSend
<1>10. ASSUME NEW q \in ReqIds, Answer(q) PROVE OnceInv'
  BY <1>t, <1>10, <1>u, OnceAnswer DEF Answer
<1>11. ASSUME NEW q \in ReqIds, HandleSuccess(q) \/ HandleError(q) \/ HandleExhausted(q) PROVE OnceInv'
  <2>1. UNCHANGED <<faults, overlapped>>
    BY <1>11 DEF HandleSuccess, WriteSuccess, HandleError, CountError, HandleExhausted, history
  <2> QED
    BY <1>t, <1>11, <1>u, <2>1, OnceJudge
<1>12. ASSUME NEW q \in ReqIds, CallbackEmpty(q) PROVE OnceInv'
  <2>1. UNCHANGED <<faults, overlapped>>
    BY <1>12 DEF CallbackEmpty, history
  <2> QED
    BY <1>t, <1>12, <1>u, <2>1, OnceCallbackEmpty
<1>13. ASSUME NEW q \in ReqIds, WriteFails(q) PROVE OnceInv'
  BY <1>13, <1>x DEF WriteFails
<1>14. CASE RefreshPermits \/ UNCHANGED vars \/ \E i \in Items : Stamp(i)
  <2>1. UNCHANGED thread
        /\ UNCHANGED <<status, retry, delivered, rstate, rok, sent, captured, faults, overlapped>>
    BY <1>14 DEF RefreshPermits, Stamp, vars, store, reqs, history
  <2>2. Line' = Line /\ pc' = pc
    BY <2>1 DEF thread, Line
  <2> QED
    BY <1>t, <1>u, <1>p, <2>1, <2>2, OnceDrop DEF Once
<1>15. CASE Exit
  <2>1. ~Calm'
    BY <1>15, <1>p DEF Exit, ProcessEnds, Calm
  <2> QED
    BY <2>1 DEF OnceInv
<1> QED
  BY <1>1, <1>2, <1>3, <1>4, <1>5, <1>6, <1>7, <1>8, <1>9, <1>10, <1>11, <1>12, <1>13, <1>14, <1>15
  DEF Next, SchedulerStep, Callback

LEMMA OnceInvariant ==
  ASSUME NEW K \in Nat, SmallBatches(K) PROVE Spec => []OnceInv
<1>1. Init => OnceInv
  <2> SUFFICES ASSUME Init PROVE Once
    BY DEF OnceInv
  <2>1. /\ pc = "off" /\ Line = <<>> /\ \A q \in ReqIds : captured[q] = <<>>
        /\ \A i \in Items : delivered[i] = 0 /\ retry[i] = 0
        /\ \A q \in ReqIds : rstate[q] = "free"
    BY EmptySeq, ConcatEmptySeq DEF Init, Line
  <2>2. LineOnce /\ (\A q \in ReqIds : HandOnce(q)) /\ Apart
    BY <2>1, EmptySeq, ItemsOfEmpty DEF LineOnce, HandOnce, Single, Apart
  <2>3. Waiting /\ Carried /\ NotTwice
    BY <2>1, Constants, ConstantsAssumption DEF Waiting, Carried, NotTwice, ConstantsAssumption
  <2> QED
    BY <2>1, <2>2, <2>3 DEF Once, Places
<1>2. AllInv(K) /\ OrderInv /\ OnceInv /\ [Next]_vars => OnceInv'
  BY OnceStep DEF OrderInv
<1> QED
  BY <1>1, <1>2, AllInvariant, OrderInvariant, PTL DEF Spec

(* A document reaches the target channel a second time only if a callback   *)
(* outlived its tick or something failed, whatever the sizes and limits.    *)
THEOREM NoDuplicateWithoutCause ==
  ASSUME NEW K \in Nat, SmallBatches(K) PROVE Spec => []NoNeedlessDuplicate
<1>1. OnceInv => NoNeedlessDuplicate
  BY DEF OnceInv, Calm, Once, NotTwice, NoNeedlessDuplicate
<1> QED
  BY <1>1, OnceInvariant, PTL

(* What is still PENDING once the callbacks are through has a retry left:   *)
(* the decision on the count a tick has read is the right one when no tick  *)
(* overlaps a callback.                                                     *)
THEOREM PendingIsNeverSpent ==
  ASSUME NEW K \in Nat, SmallBatches(K) PROVE Spec => []PendingHasRetriesLeft
<1>1. AllInv(K) /\ OnceInv => PendingHasRetriesLeft
  <2> SUFFICES ASSUME AllInv(K), OnceInv, Calm, Free = ReqIds, pc \in {"off", "idle"},
                      NEW i \in Items, status[i] = "PENDING"
               PROVE  retry[i] < MaxRetry
    BY DEF PendingHasRetriesLeft, Calm
  <2>1. Once /\ Line = <<>>
    BY LineAt DEF OnceInv, AllInv
  <2>2. Away(i)
    BY <2>1, ItemsOfEmpty DEF Away, Once, Carried, Free
  <2> QED
    BY <2>1, <2>2 DEF Once, Waiting
<1> QED
  BY <1>1, OnceInvariant, AllInvariant, PTL

=============================================================================
