---------------------------- MODULE ForwardQueue ----------------------------
(***************************************************************************)
(* The persistent forwarding queue of the tag forwarding plugin            *)
(* (QueueManager) and the scheduler that drains it to Telegram             *)
(* (ForwardScheduler).                                                     *)
(*                                                                         *)
(* Four kinds of threads meet here: message threads enqueue documents; the *)
(* single "forward-scheduler" thread runs processQueue at a fixed rate;    *)
(* TDLib executes the asynchronous ForwardMessages requests; and the       *)
(* common pool runs their completion callbacks.  A document has no         *)
(* "in flight" status: it stays PENDING until a callback writes its fate,  *)
(* so a later tick may read it, and send it, again.                        *)
(***************************************************************************)
EXTENDS Integers, Sequences, FiniteSets, FiniteSetsExt

CONSTANTS
  Items,          \* the documents of forward_queue (one _id each)
  KeyOf,          \* item -> its (sourceChatId, sourceMessageId)
  ChatOf,         \* item -> its sourceChatId
  SizeOf,         \* item -> how many messages it stands for (an album: many)
  Refusable,      \* items of which Telegram may leave a message out
  UniqueIndex,    \* does the collection carry idx_source_unique?
  BatchSize,      \* plugin.tag-based-forwarding.batch-size
  RateLimit,      \* ... .rate-limit-per-minute
  MaxRetry,       \* ... .max-retry-count
  MaxPerRequest,  \* MAX_FORWARD_MESSAGES_PER_REQUEST
  ClockSteps,     \* how far the clock moves from one createTime to the next
  Writers,        \* bound: threads between createTime and the insert
  MaxInFlight,    \* bound: requests whose callback has not finished
  MaxFaults       \* bound: crashes, shutdowns, failed sends and writes

ASSUME ConstantsAssumption ==
  /\ SizeOf \in [Items -> Nat \ {0}]
  /\ Refusable \subseteq Items
  /\ UniqueIndex \in BOOLEAN
  /\ BatchSize \in Nat \ {0}
  /\ RateLimit \in Nat \ {0}
  /\ MaxRetry \in Nat \ {0}
  /\ MaxPerRequest \in Nat \ {0}
  /\ ClockSteps \subseteq Nat
  /\ Writers \in Nat
  /\ MaxInFlight \in Nat
  /\ MaxFaults \in Nat

VARIABLES
  (* the collection *)
  status,       \* "NONE" before the document is inserted, else ForwardStatus
  retry,        \* retryCount of each document
  inserted,     \* the documents in the order of their inserts
  createTime,   \* of each document; 0: not read from the clock yet
  clock,        \* the latest createTime read
  (* the scheduler thread *)
  pc,           \* where processQueue stands; "off": not started
  todo,         \* snapshots of the current tick not yet looked at
  batch,        \* the tick's ArrayList; the request callbacks share it
  total,        \* totalMessageCount
  each,         \* rest of the batch forwardBatch forwards one by one
  permits,      \* permits left in the limiter's current period
  (* the requests *)
  rstate,       \* request -> "free","sent","answered","running","failing"
  rok,          \* request -> did TDLib answer without an error?
  sent,         \* request -> the items whose messages it forwards
  captured,     \* request -> what its callback will still iterate over
  alias,        \* request -> is captured the list processQueue still uses?
  (* history and bounds *)
  delivered,    \* item -> 0, 1 or 2 (more than one): executed requests
  whole,        \* items all of whose messages were forwarded
  windowSent,   \* requests sent in the limiter's current period
  tried,        \* items handed to forwardMessage(s), or failed as oversize
  overlapped,   \* did a tick start while a callback was outstanding?
  faults

store   == <<status, retry, inserted, createTime, clock>>
thread  == <<pc, todo, batch, total, each>>
limiter == <<permits, windowSent>>
reqs    == <<rstate, rok, sent, captured, alias>>
history == <<delivered, whole, tried, overlapped, faults>>
vars    == <<store, thread, limiter, reqs, history>>

ReqIds    == 1..MaxInFlight
Snapshot  == [item : Items, retry : Nat]
Statuses  == {"NONE", "PENDING", "SUCCESS", "FAILED"}
Free      == {q \in ReqIds : rstate[q] = "free"}

ItemsOf(snaps) == {snaps[k].item : k \in DOMAIN snaps}

TypeOK ==
  /\ status \in [Items -> Statuses]
  /\ retry \in [Items -> Nat]
  /\ inserted \in Seq(Items)
  /\ createTime \in [Items -> Nat]
  /\ clock \in Nat
  /\ pc \in {"off", "idle", "scan", "forward", "each", "return", "stopped"}
  /\ todo \in Seq(Snapshot)
  /\ batch \in Seq(Snapshot)
  /\ total \in Nat
  /\ each \in Seq(Snapshot)
  /\ permits \in 0..RateLimit
  /\ rstate \in [ReqIds -> {"free", "sent", "answered", "running", "failing"}]
  /\ rok \in [ReqIds -> BOOLEAN]
  /\ sent \in [ReqIds -> SUBSET Items]
  /\ captured \in [ReqIds -> Seq(Snapshot)]
  /\ alias \in [ReqIds -> BOOLEAN]
  /\ delivered \in [Items -> 0..2]
  /\ whole \in SUBSET Items
  /\ windowSent \in Nat
  /\ tried \in SUBSET Items
  /\ overlapped \in BOOLEAN
  /\ faults \in 0..MaxFaults

Init ==
  /\ status = [i \in Items |-> "NONE"]
  /\ retry = [i \in Items |-> 0]
  /\ inserted = <<>>
  /\ createTime = [i \in Items |-> 0]
  /\ clock = 0
  /\ pc = "off"
  /\ todo = <<>> /\ batch = <<>> /\ total = 0 /\ each = <<>>
  /\ permits = RateLimit
  /\ rstate = [q \in ReqIds |-> "free"]
  /\ rok = [q \in ReqIds |-> FALSE]
  /\ sent = [q \in ReqIds |-> {}]
  /\ captured = [q \in ReqIds |-> <<>>]
  /\ alias = [q \in ReqIds |-> FALSE]
  /\ delivered = [i \in Items |-> 0]
  /\ whole = {}
  /\ windowSent = 0
  /\ tried = {}
  /\ overlapped = FALSE
  /\ faults = 0

-----------------------------------------------------------------------------
(* QueueManager *)

(* Does the unique index, where it exists, let the document in?             *)
KeyFree(i) == UniqueIndex => \A j \in Items : KeyOf[j] = KeyOf[i] => status[j] = "NONE"

(* Message threads that have read createTime and insert next.               *)
Writing == {i \in Items : createTime[i] > 0 /\ status[i] = "NONE" /\ KeyFree(i)}

(* enqueue builds the document with Instant.now(); Mongo keeps milliseconds,*)
(* so two documents may carry the same time (a clock step of 0).            *)
Stamp(i) ==
  /\ createTime[i] = 0 /\ Cardinality(Writing) < Writers
  /\ \E d \in ClockSteps : clock' = clock + d /\ clock' > 0
  /\ createTime' = [createTime EXCEPT ![i] = clock']
  /\ UNCHANGED <<status, retry, inserted, thread, limiter, reqs, history>>

(* insert with status PENDING and retryCount 0.  A DuplicateKeyException of *)
(* the unique index is ignored: nothing changes, the document is dropped.   *)
Insert(i) ==
  /\ i \in Writing
  /\ status' = [status EXCEPT ![i] = "PENDING"]
  /\ inserted' = Append(inserted, i)
  /\ UNCHANGED <<retry, createTime, clock, thread, limiter, reqs, history>>

(* Mutant: the status criterion is missing. *)
AllAt == DOMAIN inserted

PendingAt == {k \in DOMAIN inserted : status[inserted[k]] = "PENDING"}

(* The documents at these positions, as they are now. *)
Read(f) == [k \in DOMAIN f |-> [item |-> inserted[f[k]], retry |-> retry[inserted[f[k]]]]]

UpTo(limit) == UNION {[1..n -> PendingAt] : n \in 1..limit}

(* Mutant: the sort is missing. *)
GetUnsortedItems(limit) ==
  {Read(f) : f \in {g \in UpTo(limit) : \A j, k \in DOMAIN g : j # k => g[j] # g[k]}}

TimeAt(k) == createTime[inserted[k]]

Sorted(f) ==
  \A j, k \in DOMAIN f : j < k => f[j] # f[k] /\ TimeAt(f[j]) <= TimeAt(f[k])

(* What f leaves out is not older than any of f, and f is full. *)
Oldest(f, limit) ==
  \A p \in PendingAt :
    \/ \E k \in DOMAIN f : f[k] = p
    \/ Len(f) = limit /\ \A k \in DOMAIN f : TimeAt(f[k]) <= TimeAt(p)

(* find status = PENDING, sort createTime ascending, limit: a copy of the   *)
(* documents as they are now.  (The possible answers: several where times   *)
(* are equal, none if no document is pending.)                              *)
GetPendingItems(limit) ==
  {Read(f) : f \in {g \in UpTo(limit) : Sorted(g) /\ Oldest(g, limit)}}

-----------------------------------------------------------------------------
(* The scheduler thread *)

(* start(), called once, when the application is ready: runs processQueue   *)
(* at a fixed rate on a thread of its own.  The session of                  *)
(* TelegramClientManager is set before that (its @PostConstruct blocks      *)
(* until the login, and fails the start otherwise) and is never cleared     *)
(* afterwards, so the early returns on !isReady() of forwardMessage and     *)
(* forwardMessages are unreachable and are left out.                        *)
Start ==
  /\ pc = "off"
  /\ pc' = "idle"
  /\ UNCHANGED <<store, todo, batch, total, each, limiter, reqs, history>>

(* stop(), when the application shuts down: waits for the running tick, and *)
(* leaves the callbacks alone; they go on until the process ends.           *)
Stop ==
  /\ pc = "idle" /\ faults < MaxFaults
  /\ pc' = "stopped"
  /\ faults' = faults + 1
  /\ UNCHANGED <<store, todo, batch, total, each, limiter, reqs,
                 delivered, whole, tried, overlapped>>

(* A tick reads the pending documents and starts a new list. *)
Tick ==
  /\ pc = "idle"
  /\ todo' \in GetPendingItems(BatchSize)
  /\ pc' = "scan"
  /\ alias' = [q \in ReqIds |-> FALSE]
  /\ overlapped' = (overlapped \/ Free # ReqIds)
  /\ UNCHANGED <<store, batch, total, each, limiter, rstate, rok, sent,
                 captured, delivered, whole, tried, faults>>

EndTick == pc' = "idle" /\ todo' = <<>> /\ batch' = <<>> /\ total' = 0 /\ each' = <<>>

(* The callbacks of this tick's batch requests hold the list itself.  One   *)
(* that has not begun sees the new content; one that is iterating stops at  *)
(* its next step (ConcurrentModificationException, or the end of the list). *)
ReplaceBatch(new) ==
  LET cut == {q \in ReqIds : alias[q] /\ rstate[q] = "running"}
      Rest(q) == IF ~alias[q] THEN captured[q]
                 ELSE CASE rstate[q] \in {"sent", "answered"} -> new
                        [] rstate[q] = "failing" -> <<Head(captured[q])>>
                        [] OTHER -> <<>>
  IN  /\ batch' = new
      /\ captured' = [q \in ReqIds |-> Rest(q)]
      /\ rstate' = [q \in ReqIds |-> IF q \in cut THEN "free" ELSE rstate[q]]
      /\ alias' = [q \in ReqIds |-> alias[q] /\ rstate[q] \in {"sent", "answered"}]
      /\ rok' = [q \in ReqIds |-> rok[q] /\ q \notin cut]

(* Mutant: the limit is tested before the item is counted. *)
FitsBefore == total < MaxPerRequest

Fits == total + SizeOf[Head(todo).item] <= MaxPerRequest

(* batch.add(item); after the last one the remaining batch is forwarded. *)
ScanAdd ==
  /\ pc = "scan" /\ Fits
  /\ ReplaceBatch(Append(batch, Head(todo)))
  /\ total' = total + SizeOf[Head(todo).item]
  /\ todo' = Tail(todo)
  /\ pc' = IF Tail(todo) = <<>> THEN "forward" ELSE "scan"
  /\ UNCHANGED <<store, each, limiter, sent, history>>

(* The item does not fit: forward what is collected first. *)
ScanFlush ==
  /\ pc = "scan" /\ ~Fits /\ batch # <<>>
  /\ pc' = "forward"
  /\ UNCHANGED <<store, todo, batch, total, each, limiter, reqs, history>>

(* The item alone is over the limit: FAILED at once. *)
ScanOversize ==
  /\ pc = "scan" /\ ~Fits /\ batch = <<>>
  /\ status' = [status EXCEPT ![Head(todo).item] = "FAILED"]
  /\ tried' = tried \union {Head(todo).item}
  /\ todo' = Tail(todo)
  /\ pc' = IF Tail(todo) = <<>> THEN "idle" ELSE "scan"
  /\ UNCHANGED <<retry, inserted, createTime, clock, batch, total, each, limiter, reqs,
                 delivered, whole, overlapped, faults>>

SameSource == \A k \in DOMAIN batch : ChatOf[batch[k].item] = ChatOf[batch[1].item]

(* forwardBatch returned true: in the loop, batch.clear() comes next; after *)
(* the loop the tick is over.                                               *)
Returns ==
  IF todo = <<>> THEN EndTick
  ELSE pc' = "return" /\ each' = <<>> /\ UNCHANGED <<todo, batch, total>>

(* rateLimiter.acquirePermission() of forwardBatch, timeout zero: refused,  *)
(* and the tick gives up.                                                   *)
BatchRefused ==
  /\ pc = "forward" /\ permits = 0
  /\ EndTick
  /\ UNCHANGED <<store, limiter, reqs, history>>

(* A batch of several source channels: its permit is spent, and each item   *)
(* needs one of its own.                                                    *)
BatchMixed ==
  /\ pc = "forward" /\ permits > 0 /\ ~SameSource
  /\ permits' = permits - 1
  /\ each' = batch
  /\ pc' = "each"
  /\ UNCHANGED <<store, todo, batch, total, windowSent, reqs, history>>

(* The next unused request of the bound. *)
NextFree == CHOOSE q \in Free : \A r \in Free : q <= r

(* Mutant: a request that takes no permit. *)
SendUnpaid(q, snaps, shared) ==
  /\ rstate' = [rstate EXCEPT ![q] = "sent"]
  /\ sent' = [sent EXCEPT ![q] = ItemsOf(snaps)]
  /\ captured' = [captured EXCEPT ![q] = snaps]
  /\ alias' = [alias EXCEPT ![q] = shared]
  /\ windowSent' = windowSent + 1
  /\ UNCHANGED <<permits, rok>>

Send(q, snaps, shared) ==
  /\ rstate' = [rstate EXCEPT ![q] = "sent"]
  /\ sent' = [sent EXCEPT ![q] = ItemsOf(snaps)]
  /\ captured' = [captured EXCEPT ![q] = snaps]
  /\ alias' = [alias EXCEPT ![q] = shared]
  /\ permits' = permits - 1
  /\ windowSent' = windowSent + 1
  /\ UNCHANGED rok

(* forwardMessages: one request for the whole batch. *)
BatchSend ==
  /\ pc = "forward" /\ permits > 0 /\ SameSource
  /\ Free # {}
  /\ Send(NextFree, batch, TRUE)
  /\ tried' = tried \union ItemsOf(batch)
  /\ Returns
  /\ UNCHANGED <<store, delivered, whole, overlapped, faults>>

(* handleForwardError for every item of snaps, on the scheduler thread. *)
FailAll(snaps) ==
  LET last == {snaps[k].item : k \in {m \in DOMAIN snaps : snaps[m].retry + 1 >= MaxRetry}}
  IN  /\ retry' = [i \in Items |-> IF i \in ItemsOf(snaps) THEN retry[i] + 1 ELSE retry[i]]
      /\ status' = [i \in Items |-> IF i \in last THEN "FAILED" ELSE status[i]]
      /\ UNCHANGED <<inserted, createTime, clock>>

(* client.send throws, as it does once a shutdown has closed the client. *)
BatchThrows ==
  /\ pc = "forward" /\ permits > 0 /\ SameSource
  /\ faults < MaxFaults
  /\ permits' = permits - 1
  /\ FailAll(batch)
  /\ tried' = tried \union ItemsOf(batch)
  /\ faults' = faults + 1
  /\ Returns
  /\ UNCHANGED <<windowSent, reqs, delivered, whole, overlapped>>

(* forwardMessage took the head of each: go on to the next, or return true. *)
EachAdvance ==
  /\ tried' = tried \union {Head(each).item}
  /\ IF Tail(each) = <<>> THEN Returns
     ELSE each' = Tail(each) /\ UNCHANGED <<pc, todo, batch, total>>

(* forwardMessage: no permit left, forwardBatch returns false. *)
EachRefused ==
  /\ pc = "each" /\ permits = 0
  /\ EndTick
  /\ UNCHANGED <<store, limiter, reqs, history>>

(* One request for one item; its callback holds the item, not the list.     *)
(* (The size test of forwardMessage cannot fail: ScanAdd admitted the item.) *)
EachSend ==
  /\ pc = "each" /\ permits > 0
  /\ Free # {}
  /\ Send(NextFree, <<Head(each)>>, FALSE)
  /\ EachAdvance
  /\ UNCHANGED <<store, delivered, whole, overlapped, faults>>

EachThrows ==
  /\ pc = "each" /\ permits > 0
  /\ faults < MaxFaults
  /\ permits' = permits - 1
  /\ FailAll(<<Head(each)>>)
  /\ EachAdvance
  /\ faults' = faults + 1
  /\ UNCHANGED <<windowSent, reqs, delivered, whole, overlapped>>

(* batch.clear(); the loop looks again at the item that did not fit. *)
ClearBatch ==
  /\ pc = "return"
  /\ ReplaceBatch(<<>>)
  /\ total' = 0
  /\ pc' = "scan"
  /\ UNCHANGED <<store, todo, each, limiter, sent, history>>

SchedulerStep ==
  \/ Tick
  \/ ScanAdd \/ ScanFlush \/ ScanOversize
  \/ BatchRefused \/ BatchMixed \/ BatchSend \/ BatchThrows
  \/ EachRefused \/ EachSend \/ EachThrows
  \/ ClearBatch

-----------------------------------------------------------------------------
(* TDLib's answer and the callback that follows it *)

(* Telegram executes the requests of Q.  It answers null for a message that *)
(* cannot be forwarded, and the request is no failure for that.             *)
Deliver(Q) ==
  LET reached == UNION {sent[q] : q \in Q}
  IN  /\ delivered' = [i \in Items |->
           LET n == delivered[i] + Cardinality({q \in Q : i \in sent[q]})
           IN  IF n < 2 THEN n ELSE 2]
      /\ \E short \in SUBSET (reached \cap Refusable) : whole' = whole \union (reached \ short)

(* Telegram executes the request, or refuses it with an error. *)
Answer(q) ==
  /\ rstate[q] = "sent"
  /\ \E ok \in BOOLEAN :
       /\ rok' = [rok EXCEPT ![q] = ok]
       /\ Deliver(IF ok THEN {q} ELSE {})
  /\ rstate' = [rstate EXCEPT ![q] = "answered"]
  /\ sent' = [sent EXCEPT ![q] = {}]
  /\ UNCHANGED <<store, thread, limiter, captured, alias,
                 tried, overlapped, faults>>

InCallback(q) == rstate[q] \in {"answered", "running"}

(* The callback goes on to the next item of its list, or is done. *)
Advance(q) ==
  LET rest == Tail(captured[q])
  IN  /\ captured' = [captured EXCEPT ![q] = rest]
      /\ rstate' = [rstate EXCEPT ![q] = IF rest = <<>> THEN "free" ELSE "running"]
      /\ alias' = [alias EXCEPT ![q] = @ /\ rest # <<>>]
      /\ rok' = [rok EXCEPT ![q] = @ /\ rest # <<>>]
      /\ UNCHANGED sent

(* The list was cleared under the callback: it has nothing to iterate. *)
CallbackEmpty(q) ==
  /\ rstate[q] = "answered" /\ captured[q] = <<>>
  /\ rstate' = [rstate EXCEPT ![q] = "free"]
  /\ alias' = [alias EXCEPT ![q] = FALSE]
  /\ rok' = [rok EXCEPT ![q] = FALSE]
  /\ UNCHANGED <<store, thread, limiter, sent, captured, history>>

WriteSuccess(q) ==
  /\ InCallback(q) /\ captured[q] # <<>>
  /\ status' = [status EXCEPT ![Head(captured[q]).item] = "SUCCESS"]
  /\ Advance(q)
  /\ UNCHANGED <<retry, inserted, createTime, clock, thread, limiter, history>>

(* Mutant: the callback does not look at error. *)
HandleAnySuccess(q) == WriteSuccess(q)

(* handleForwardSuccess: an unconditional write of SUCCESS by _id. *)
HandleSuccess(q) == rok[q] /\ WriteSuccess(q)

CountError(q, inc, exhausted) ==
  /\ InCallback(q) /\ ~rok[q] /\ captured[q] # <<>>
  /\ retry' = [retry EXCEPT ![Head(captured[q]).item] = @ + inc]
  /\ IF exhausted
       THEN /\ rstate' = [rstate EXCEPT ![q] = "failing"]
            /\ UNCHANGED <<rok, sent, captured, alias>>
       ELSE Advance(q)
  /\ UNCHANGED <<status, inserted, createTime, clock, thread, limiter, history>>

(* Mutants: > for >=; one error too early; incrementRetryCount forgotten. *)
HandleErrorLate(q)  == CountError(q, 1, Head(captured[q]).retry + 1 > MaxRetry)
HandleErrorEarly(q) == CountError(q, 1, Head(captured[q]).retry + 2 >= MaxRetry)
HandleErrorMute(q)  == CountError(q, 0, Head(captured[q]).retry + 1 >= MaxRetry)

(* Mutant: an error that is not the last puts the document back to PENDING. *)
HandleErrorRequeue(q) ==
  /\ InCallback(q) /\ ~rok[q] /\ captured[q] # <<>>
  /\ LET snap == Head(captured[q])
     IN  /\ retry' = [retry EXCEPT ![snap.item] = @ + 1]
         /\ status' = [status EXCEPT ![snap.item] =
              IF snap.retry + 1 >= MaxRetry THEN "FAILED" ELSE "PENDING"]
  /\ Advance(q)
  /\ UNCHANGED <<inserted, createTime, clock, thread, limiter, history>>

(* handleForwardError: increment retryCount in the database, but decide on  *)
(* the count the tick has read.                                             *)
HandleError(q) == CountError(q, 1, Head(captured[q]).retry + 1 >= MaxRetry)

(* The second write of handleForwardError: status FAILED. *)
HandleExhausted(q) ==
  /\ rstate[q] = "failing"
  /\ status' = [status EXCEPT ![Head(captured[q]).item] = "FAILED"]
  /\ Advance(q)
  /\ UNCHANGED <<retry, inserted, createTime, clock, thread, limiter, history>>

(* A write of the callback throws: logged, and the next item is handled. *)
WriteFails(q) ==
  /\ rstate[q] \in {"answered", "running", "failing"} /\ captured[q] # <<>>
  /\ faults < MaxFaults
  /\ faults' = faults + 1
  /\ Advance(q)
  /\ UNCHANGED <<store, thread, limiter, delivered, whole, tried, overlapped>>

Callback(q) ==
  CallbackEmpty(q) \/ HandleSuccess(q) \/ HandleError(q) \/ HandleExhausted(q)

-----------------------------------------------------------------------------
(* The environment *)

(* Mutant: unused permits are carried over. *)
CarryPermits ==
  /\ permits' = permits + RateLimit
  /\ windowSent' = 0
  /\ UNCHANGED <<store, thread, reqs, history>>

(* A new period of the limiter; unused permits do not add up. *)
RefreshPermits ==
  /\ permits' = RateLimit
  /\ windowSent' = 0
  /\ UNCHANGED <<store, thread, reqs, history>>

(* The process is gone: only the collection survives, documents not yet     *)
(* inserted are lost.  Requests under way may or may not have reached       *)
(* Telegram.                                                                *)
ProcessEnds ==
  /\ \E S \in SUBSET {q \in ReqIds : rstate[q] = "sent"} :
       Deliver(S)
  /\ pc' = "off"
  /\ todo' = <<>> /\ batch' = <<>> /\ total' = 0 /\ each' = <<>>
  /\ permits' = RateLimit /\ windowSent' = 0
  /\ rstate' = [q \in ReqIds |-> "free"]
  /\ captured' = [q \in ReqIds |-> <<>>]
  /\ alias' = [q \in ReqIds |-> FALSE]
  /\ rok' = [q \in ReqIds |-> FALSE]
  /\ sent' = [q \in ReqIds |-> {}]
  /\ createTime' = [i \in Items |-> IF status[i] = "NONE" THEN 0 ELSE createTime[i]]
  /\ UNCHANGED <<status, retry, inserted, clock, tried, overlapped>>

Crash == faults < MaxFaults /\ faults' = faults + 1 /\ ProcessEnds

(* The end of an orderly shutdown. *)
Exit == pc = "stopped" /\ ProcessEnds /\ UNCHANGED faults

Next ==
  \/ \E i \in Items : Stamp(i) \/ Insert(i)
  \/ Start \/ Stop \/ SchedulerStep
  \/ \E q \in ReqIds : Answer(q) \/ Callback(q) \/ WriteFails(q)
  \/ RefreshPermits \/ Crash \/ Exit

Spec == Init /\ [][Next]_vars

(* A fixed-rate executor, a client that answers every request, a pool that  *)
(* runs every callback, a clock, and an operator who starts the program     *)
(* again after it ended.                                                    *)
Fairness ==
  /\ WF_vars(Start) /\ WF_vars(SchedulerStep)
  /\ WF_vars(RefreshPermits) /\ WF_vars(Exit)
  /\ \A q \in ReqIds : WF_vars(Answer(q)) /\ WF_vars(Callback(q))

FairSpec == Spec /\ Fairness

-----------------------------------------------------------------------------
(* Properties *)

(* No more requests leave in one period of the limiter than it allows,      *)
(* whichever path of forwardBatch sends them (lines 219 and 327).           *)
RateRespected == windowSent + permits <= RateLimit

(* A request carries whole items of one source channel, and at most         *)
(* MAX_FORWARD_MESSAGES_PER_REQUEST messages: the split of processQueue     *)
(* never cuts an album (the comment at line 122).                           *)
RequestsFit ==
  \A q \in ReqIds : rstate[q] = "sent" =>
    /\ SumFunctionOnSet(SizeOf, sent[q]) <= MaxPerRequest
    /\ \A i, j \in sent[q] : ChatOf[i] = ChatOf[j]

(* FAILED is final judgement, not a transient error: the document has spent *)
(* its retries, although every decision is taken on a retryCount that was   *)
(* read one tick or more before it is used (line 429).                      *)
FailedMeansExhausted ==
  \A i \in Items : status[i] = "FAILED" =>
    retry[i] >= MaxRetry \/ SizeOf[i] > MaxPerRequest

(* SUCCESS is never written for a document of which Telegram executed no    *)
(* request, in whatever order answers, callbacks and restarts come.         *)
SuccessMeansAnswered ==
  \A i \in Items : status[i] = "SUCCESS" => delivered[i] > 0

(* What the database document and the callback's comment at line 301 say:   *)
(* SUCCESS is a successful forward, of every message of the document.       *)
SuccessMeansForwarded ==
  \A i \in Items : status[i] = "SUCCESS" => i \in whole

(* Telegram is asked twice for a document only if a callback outlived its   *)
(* tick, or the process, a send or a write failed: while each callback ends *)
(* before the next tick, a document sent is settled, or refused, once.      *)
NoNeedlessDuplicate ==
  faults = 0 /\ ~overlapped => \A i \in Items : delivered[i] < 2

(* The retry rule of the database document holds once the callbacks are     *)
(* through: a document still PENDING has retries left.                      *)
PendingHasRetriesLeft ==
  faults = 0 /\ ~overlapped /\ Free = ReqIds /\ pc \in {"off", "idle"} =>
    \A i \in Items : status[i] = "PENDING" => retry[i] < MaxRetry

(* First attempts follow createTime among documents the ticks could choose  *)
(* from: none that was inserted later, and is younger, overtakes one that   *)
(* still waits, whatever the split, the limiter, failures or restarts do.   *)
(* (One that a refilled list marked SUCCESS waits no more.  A document that *)
(* is older but inserted later may be overtaken: createTime is read before  *)
(* the insert, so the order is not that of createTime alone.)               *)
FirstAttemptsInOrder ==
  \A m, n \in DOMAIN inserted :
    m < n /\ TimeAt(m) < TimeAt(n) /\ inserted[n] \in tried =>
      inserted[m] \in tried \/ status[inserted[m]] # "PENDING"

(* Every queued document reaches SUCCESS or FAILED: no item, album or       *)
(* channel starves behind another one's retries or the limiter.             *)
EveryItemSettles ==
  \A i \in Items : status[i] = "PENDING" ~> status[i] \in {"SUCCESS", "FAILED"}

(* The queue with its ticks, copies, requests and callbacks keeps the       *)
(* contract of QueueContract: whatever overlaps, no document is lost or put *)
(* back, nothing is forwarded that was not queued, and SUCCESS is written   *)
(* only for what Telegram executed (QueueManager.updateStatus writes        *)
(* without looking, line 112).                                              *)
Contract == INSTANCE QueueContract
  WITH verdict <- status, executed <- {i \in Items : delivered[i] > 0}, forwarded <- whole

HonoursContract == Contract!Spec

(* What the database document says of the two final states.                 *)
FinalStatesAreFinal ==
  [][\A i \in Items : status[i] \in {"SUCCESS", "FAILED"} => status'[i] = status[i]]_vars

=============================================================================
