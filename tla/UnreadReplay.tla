---------------------------- MODULE UnreadReplay ----------------------------
(***************************************************************************)
(* What the program does with the messages that were posted while it was   *)
(* down: UnreadMessageSource replays the buffer of the last run, fetches   *)
(* the history of every monitored channel and handles what has no record   *)
(* in processed_messages.                                                  *)
(*                                                                         *)
(* All of it runs on the thread that starts the application, inside a      *)
(* @PostConstruct, while TDLib already delivers new messages on its own    *)
(* thread.  The timer that closes albums starts with the context, and the  *)
(* tag list is loaded only after that, at ApplicationReadyEvent.           *)
(*                                                                         *)
(* Every message takes the same way: the duplicate filter, raw_messages,   *)
(* and TagBasedMessageForwardingPlugin.doHandle, whose record marks it as  *)
(* handled for good.  MessageIntake has the details of the first two; here *)
(* the parts of an album wait in memory until the timer takes them, and    *)
(* the plugins get them as one entity, under the id of its first part.     *)
(***************************************************************************)
EXTENDS Integers, FiniteSets, FiniteSetsExt

CONSTANTS
  Messages,    \* message ids, in the order in which they are posted
  Channels,    \* monitored channels
  ChatOf,      \* message -> its channel
  Albums,      \* messages with mediaAlbumId # 0
  PartsOf,     \* message -> the parts of its album; a single message alone
  Tagged,      \* messages whose text holds a tag of the list
  Pushed,      \* bound: the messages TDLib pushes as updates
  PageSize,    \* maxMessagesPerFetch
  MaxTotal,    \* maxTotalMessages
  MaxRetries,  \* maxRetries
  None,        \* no channel
  MaxFaults,   \* bound: failures of the database, the parser and Jackson
  MaxCrashes   \* bound: crashes of a running process

ASSUME ConstantsAssumption ==
  /\ Messages \subseteq Nat \ {0}
  /\ None \notin Channels
  /\ ChatOf \in [Messages -> Channels]
  /\ Albums \subseteq Messages /\ Tagged \subseteq Messages /\ Pushed \subseteq Messages
  /\ PartsOf \in [Messages -> SUBSET Messages]
  /\ \A m \in Messages : m \in PartsOf[m] /\ (m \notin Albums => PartsOf[m] = {m})
  /\ \A m \in Messages : \A k \in PartsOf[m] :
       PartsOf[k] = PartsOf[m] /\ ChatOf[k] = ChatOf[m]
  /\ PageSize \in Nat \ {0} /\ MaxTotal \in Nat \ {0} /\ MaxRetries \in Nat
  /\ MaxFaults \in Nat /\ MaxCrashes \in Nat

VARIABLES
  (* Telegram *)
  posted,   \* messages posted so far
  heard,    \* messages TDLib has pushed as updates
  (* MongoDB *)
  stored,   \* raw_messages
  buffer,   \* unread_messages_buffer: message -> its status
  record,   \* processed_messages: message -> what its document says
  queued,   \* messages put into forward_queue
  (* the process *)
  phase,    \* how far the start-up is
  wired,    \* have the filters and plugins been registered yet?
  loaded,   \* TagMatcher.configurationLoaded
  seen,     \* filter cache; albums: the state is no longer COLLECTING
  open,     \* album parts that wait for the timer
  at, cur,  \* thread -> where it stands, and with which message
  hand,     \* the parts of the album that the timer has in work
  (* the start-up thread *)
  work,     \* buffered messages not yet handled
  chats,    \* channels not yet visited
  chan,     \* the channel being fetched or replayed
  from,     \* fromMessageId
  top,      \* newest message of the first page
  found,    \* allMessages; later those not yet saved to the buffer
  tries,    \* retryCount
  (* history and bounds *)
  cut,      \* did the fetch stop with older messages left?
  aborted,  \* channels given up in this start
  lost,     \* messages that may never be recorded, each for a known reason
  handled,  \* messages whose entity was recorded, under whichever id
  faults, crashes

telegram == <<posted, heard>>
mongo    == <<stored, buffer, record, queued>>
memory   == <<wired, loaded, seen, open>>
threads  == <<at, cur, hand>>
fetching == <<from, top, found, tries, cut>>
starting == <<phase, work, chats, chan, fetching>>
history  == <<lost, handled>>
bounds   == <<faults, crashes>>
vars     == <<telegram, mongo, memory, threads, starting, aborted, history, bounds>>

Threads  == {"boot", "live", "timer"}
Replay   == {"pending", "failed", "replay"}
Running  == phase # "down"
Of(c)    == {m \in Messages : ChatOf[m] = c}

TelegramOK == posted \subseteq Messages /\ heard \subseteq posted

MongoOK ==
  /\ stored \subseteq Messages /\ queued \subseteq Messages
  /\ buffer \in [Messages -> {"NONE", "PENDING", "PROCESSED", "FAILED"}]
  /\ record \in [Messages -> {"none", "error", "unmatched", "matched"}]

FlagsOK == wired \in BOOLEAN /\ loaded \in BOOLEAN /\ cut \in BOOLEAN

FilterOK == seen \subseteq Messages /\ open \subseteq Albums

ThreadsOK ==
  /\ at \in [Threads -> {"idle", "filter", "save", "plugin", "match", "enqueue",
                         "record", "done"}]
  /\ cur \in [Threads -> Messages \union {0}] /\ hand \subseteq Albums

StartOK ==
  /\ phase \in Replay \union {"down", "detect", "fetch", "buffer", "refreshed", "ready"}
  /\ work \subseteq Messages /\ chats \subseteq Channels
  /\ chan \in Channels \union {None}

FetchOK ==
  /\ from \in Nat /\ top \in Nat /\ found \subseteq Messages
  /\ tries \in 0..MaxRetries

HistoryOK ==
  aborted \subseteq Channels /\ lost \subseteq Messages /\ handled \subseteq Messages

BoundsOK == faults \in 0..MaxFaults /\ crashes \in 0..MaxCrashes

TypeOK ==
  /\ TelegramOK /\ MongoOK /\ FlagsOK /\ FilterOK /\ ThreadsOK
  /\ StartOK /\ FetchOK /\ HistoryOK /\ BoundsOK

Init ==
  /\ posted = {} /\ heard = {}
  /\ stored = {} /\ queued = {}
  /\ buffer = [m \in Messages |-> "NONE"]
  /\ record = [m \in Messages |-> "none"]
  /\ phase = "down"
  /\ wired = FALSE /\ loaded = FALSE /\ seen = {} /\ open = {}
  /\ at = [t \in Threads |-> "idle"] /\ cur = [t \in Threads |-> 0] /\ hand = {}
  /\ work = {} /\ chats = {} /\ chan = None
  /\ from = 0 /\ top = 0 /\ found = {} /\ tries = 0 /\ cut = FALSE
  /\ aborted = {} /\ lost = {} /\ handled = {}
  /\ faults = 0 /\ crashes = 0

Fault == faults < MaxFaults /\ faults' = faults + 1 /\ UNCHANGED crashes

-----------------------------------------------------------------------------
(* Telegram *)

Post(m) ==
  /\ m \notin posted
  /\ \A k \in posted : k < m
  /\ posted' = posted \union {m}
  /\ UNCHANGED <<heard, mongo, memory, threads, starting, aborted, history, bounds>>

(* An update with a message, new or missed; TDLib gives no promise when. *)
Hear(m) ==
  /\ Running
  /\ m \in posted \ heard /\ m \in Pushed
  /\ at["live"] = "idle"
  /\ heard' = heard \union {m}
  /\ at' = [at EXCEPT !["live"] = "filter"]
  /\ cur' = [cur EXCEPT !["live"] = m]
  /\ UNCHANGED hand
  /\ UNCHANGED <<posted, mongo, memory, starting, aborted, history, bounds>>

-----------------------------------------------------------------------------
(* One message, on any thread *)

Step(t, next) == at' = [at EXCEPT ![t] = next] /\ UNCHANGED <<cur, hand>>

Rest(t) ==
  /\ at' = [at EXCEPT ![t] = "idle"] /\ cur' = [cur EXCEPT ![t] = 0]
  /\ hand' = IF t = "timer" THEN {} ELSE hand

(* handleNewMessage returns normally whatever happened in it. *)
Return(t) == IF t = "boot" THEN Step(t, "done") ELSE Rest(t)

(* The messages of the entity the thread has in work; cur is its first. *)
Held(t) == IF t = "timer" THEN hand ELSE {cur[t]}

(* Before the filters are registered the chain is empty and lets all pass.  *)
(* For an album, both the state and raw_messages are asked by mediaAlbumId. *)
Refused(m) ==
  \/ m \in seen /\ (wired \/ m \in Albums)
  \/ PartsOf[m] \intersect stored # {} /\ wired

(* A part that is refused although no plugin has been, or will be, given it:*)
(* its album was closed, or stored, without it.                             *)
Late(m) == m \in Albums \ (open \union hand \union handled)

(* The filter marks a single message at once, an album when it is closed. *)
Filter(t) ==
  LET m == cur[t] IN
  /\ t # "timer" /\ at[t] = "filter"
  /\ \/ /\ Refused(m)
        /\ lost' = IF Late(m) THEN lost \union {m} ELSE lost
        /\ Return(t) /\ UNCHANGED <<seen, open>>
     \/ /\ ~Refused(m) /\ m \in Albums
        /\ open' = open \union {m}
        /\ Return(t) /\ UNCHANGED <<seen, lost>>
     \/ /\ ~Refused(m) /\ m \notin Albums
        /\ seen' = IF wired THEN seen \union {m} ELSE seen
        /\ Step(t, "save") /\ UNCHANGED <<open, lost>>
  /\ UNCHANGED <<telegram, mongo, wired, loaded, starting, aborted, handled, bounds>>

TimerMayRun == phase \in {"refreshed", "ready"} /\ at["timer"] = "idle"

(* The album leaves COLLECTING; what was collected is the timer's. *)
CloseAlbum(m) ==
  /\ TimerMayRun
  /\ m \in open
  /\ open' = open \ PartsOf[m]
  /\ seen' = seen \union PartsOf[m]
  /\ hand' = open \intersect PartsOf[m]
  /\ at' = [at EXCEPT !["timer"] = "save"]
  /\ cur' = [cur EXCEPT !["timer"] = m]
  /\ UNCHANGED <<telegram, mongo, wired, loaded, starting, aborted, history, bounds>>

(* The channel is not found in the database: the state is removed, but what *)
(* was collected has already left the buffer.                               *)
AlbumFails(m) ==
  /\ TimerMayRun
  /\ m \in open
  /\ Fault
  /\ open' = open \ PartsOf[m]
  /\ lost' = lost \union (open \intersect PartsOf[m])
  /\ UNCHANGED <<telegram, mongo, wired, loaded, seen, threads, starting, aborted, handled>>

(* Saving refuses a second document with the same mediaAlbumId. *)
Storable(parts) ==
  IF \E m \in parts : PartsOf[m] \intersect stored # {} THEN {{}}
  ELSE {{}} \union {{m} : m \in parts}

(* Every part is saved and parsed; the entity is made of those that could   *)
(* be parsed, and has the id of the first.                                  *)
SaveAlbum ==
  /\ at["timer"] = "save"
  /\ \E new \in Storable(hand), kept \in SUBSET hand :
       /\ IF kept = hand /\ (new = {Min(hand)} \/ Storable(hand) = {{}})
          THEN UNCHANGED bounds ELSE Fault
       /\ stored' = stored \union new
       /\ lost' = lost \union (hand \ kept)
       /\ \/ kept = {} /\ Rest("timer")
          \/ /\ kept # {}
             /\ hand' = kept /\ cur' = [cur EXCEPT !["timer"] = Min(kept)]
             /\ at' = [at EXCEPT !["timer"] = "plugin"]
  /\ UNCHANGED <<telegram, buffer, record, queued, memory, starting, aborted, handled>>

(* saveMessage swallows its own failures, and its result is ignored. *)
Save(t) ==
  /\ t # "timer" /\ at[t] = "save"
  /\ \/ stored' = stored \union {cur[t]} /\ UNCHANGED bounds
     \/ Fault /\ UNCHANGED stored
  /\ Step(t, "plugin")
  /\ UNCHANGED <<telegram, buffer, record, queued, memory, starting, aborted, history>>

(* The document of the entity, with the id of its first message only. *)
Write(t, says) ==
  /\ record' = [record EXCEPT ![cur[t]] = says]
  /\ handled' = handled \union Held(t)
  /\ lost' = lost \ Held(t)

(* doHandle up to markAsRead; without plugins the message ends here.  An    *)
(* album whose first part has a document is skipped with all its parts.     *)
Plugin(t) ==
  LET m == cur[t] IN
  /\ at[t] = "plugin"
  /\ \/ /\ ~wired
        /\ lost' = lost \union Held(t)
        /\ Return(t) /\ UNCHANGED record
     \/ /\ wired /\ record[m] # "none"
        /\ record' = IF record[m] = "error" THEN [record EXCEPT ![m] = "unmatched"] ELSE record
        /\ lost' = lost \union (Held(t) \ handled)
        /\ Return(t)
     \/ wired /\ record[m] = "none" /\ Step(t, "match") /\ UNCHANGED <<record, lost>>
  /\ UNCHANGED <<telegram, stored, buffer, queued, memory, starting, aborted, handled, bounds>>

(* The text of an album is that of all its parts. *)
Match(t) ==
  LET tagged == loaded /\ Held(t) \intersect Tagged # {} IN
  /\ at[t] = "match"
  /\ \/ tagged /\ Step(t, "enqueue") /\ UNCHANGED <<record, history>>
     \/ ~tagged /\ Write(t, "unmatched") /\ Return(t)
  /\ UNCHANGED <<telegram, stored, buffer, queued, memory, starting, aborted, bounds>>

(* Mutant: the record is written first. *)
EnqueueAfterRecord(t) ==
  /\ at[t] = "enqueue"
  /\ Write(t, "matched")
  /\ Step(t, "record")
  /\ UNCHANGED <<telegram, stored, buffer, queued, memory, starting, aborted, bounds>>

(* mediaGroupMessageIds has every part of the entity. *)
Enqueue(t) ==
  /\ at[t] = "enqueue"
  /\ queued' = queued \union Held(t)
  /\ Step(t, "record")
  /\ UNCHANGED <<telegram, stored, buffer, record, memory, starting, aborted, history, bounds>>

Record(t) ==
  /\ at[t] = "record"
  /\ Write(t, "matched")
  /\ Return(t)
  /\ UNCHANGED <<telegram, stored, buffer, queued, memory, starting, aborted, bounds>>

(* The filter rejects what it cannot look up; the exception of the channel's*)
(* lookup or of the parser ends the message; saveProcessedMessage swallows  *)
(* its failure, on the unmatched paths and in the catch as well.            *)
Drop(t) ==
  /\ at[t] \in {"filter", "save", "plugin", "match", "enqueue", "record"}
  /\ at[t] = "filter" => wired /\ ~Refused(cur[t])
  /\ at[t] = "save" => t # "timer"
  /\ at[t] = "plugin" => wired
  /\ Fault
  /\ lost' = lost \union (Held(t) \ handled)
  /\ Return(t)
  /\ UNCHANGED <<telegram, mongo, memory, starting, aborted, handled>>

(* The catch of doHandle: recorded as unread and unmatched. *)
HandleFails(t) ==
  /\ \/ at[t] \in {"match", "enqueue"}
     \/ at[t] = "plugin" /\ wired /\ record[cur[t]] = "none"
  /\ Fault
  /\ Write(t, "error")
  /\ Return(t)
  /\ UNCHANGED <<telegram, stored, buffer, queued, memory, starting, aborted>>

ThreadStep(t) ==
  \/ Filter(t) \/ Save(t) \/ Plugin(t) \/ Match(t) \/ Enqueue(t) \/ Record(t)
  \/ Drop(t) \/ HandleFails(t)

-----------------------------------------------------------------------------
(* The process *)

(* What the other threads have in hand, for themselves or after the filter *)
(* refused the replay's copy because of it. *)
Elsewhere == open \union hand \union (IF at["live"] = "idle" THEN {} ELSE {cur["live"]})

(* What is stored, or in hand elsewhere, but was not recorded may never be  *)
(* handled again: the filter of the next run refuses it, or its buffer      *)
(* entry is already PROCESSED.                                              *)
ProcessEnds ==
  /\ phase' = "down"
  /\ lost' = lost \union ((stored \union Elsewhere) \ handled)
  /\ wired' = FALSE /\ loaded' = FALSE /\ seen' = {} /\ open' = {}
  /\ at' = [t \in Threads |-> "idle"] /\ cur' = [t \in Threads |-> 0] /\ hand' = {}
  /\ work' = {} /\ chats' = {} /\ chan' = None
  /\ from' = 0 /\ top' = 0 /\ found' = {} /\ tries' = 0 /\ cut' = FALSE
  /\ aborted' = {}

Crash ==
  /\ Running /\ crashes < MaxCrashes
  /\ crashes' = crashes + 1
  /\ ProcessEnds
  /\ UNCHANGED <<telegram, mongo, handled, faults>>

InState(s) == {m \in Messages : buffer[m] = s}

(* Mutant: the list is loaded before the replay. *)
StartLoaded ==
  /\ phase = "down"
  /\ phase' = "pending"
  /\ work' = InState("PENDING")
  /\ wired' \in BOOLEAN
  /\ loaded' = TRUE
  /\ UNCHANGED <<telegram, mongo, seen, open, threads, chats, chan, fetching,
                 aborted, history, bounds>>

(* initialize: the messages the last run left PENDING.  The order in which  *)
(* the context creates its beans decides whether the registrations of the   *)
(* filters and plugins have run before this.                                *)
Start ==
  /\ phase = "down"
  /\ phase' = "pending"
  /\ work' = InState("PENDING")
  /\ wired' \in BOOLEAN
  /\ UNCHANGED <<telegram, mongo, loaded, seen, open, threads, chats, chan, fetching,
                 aborted, history, bounds>>

(* Mutant: the list is read again after the reset. *)
RetryUnlisted ==
  /\ phase = "pending" /\ work = {} /\ at["boot"] = "idle"
  /\ phase' = "failed"
  /\ buffer' = [m \in Messages |-> IF buffer[m] = "FAILED" THEN "PENDING" ELSE buffer[m]]
  /\ UNCHANGED <<telegram, stored, record, queued, memory, threads, work, chats, chan, fetching,
                 aborted, history, bounds>>

(* retryFailedMessages: saved as PENDING, then handled. *)
RetryFailed ==
  /\ phase = "pending" /\ work = {} /\ at["boot"] = "idle"
  /\ phase' = "failed"
  /\ work' = InState("FAILED")
  /\ buffer' = [m \in Messages |-> IF buffer[m] = "FAILED" THEN "PENDING" ELSE buffer[m]]
  /\ UNCHANGED <<telegram, stored, record, queued, memory, threads, chats, chan, fetching,
                 aborted, history, bounds>>

(* detectUnreadMessages *)
Detect ==
  /\ phase = "failed" /\ work = {} /\ at["boot"] = "idle"
  /\ phase' = "detect"
  /\ chats' = Channels
  /\ UNCHANGED <<telegram, mongo, memory, threads, work, chan, fetching, aborted, history, bounds>>

Refresh ==
  /\ phase = "detect" /\ chats = {}
  /\ phase' = "refreshed"
  /\ wired' = TRUE
  /\ UNCHANGED <<telegram, mongo, loaded, seen, open, threads, work, chats, chan, fetching,
                 aborted, history, bounds>>

(* onApplicationReady; loadTagConfiguration swallows its failures. *)
Ready ==
  /\ phase = "refreshed"
  /\ phase' = "ready"
  /\ \/ loaded' = TRUE /\ UNCHANGED bounds
     \/ Fault /\ UNCHANGED loaded
  /\ UNCHANGED <<telegram, mongo, wired, seen, open, threads, work, chats, chan, fetching,
                 aborted, history>>

(* The TTL index deletes documents of any status; here the program was down *)
(* for so long that it deleted them all.                                    *)
Expire ==
  /\ phase = "down"
  /\ buffer' = [m \in Messages |-> "NONE"]
  /\ UNCHANGED <<telegram, stored, record, queued, memory, threads, starting,
                 aborted, history, bounds>>

-----------------------------------------------------------------------------
(* UnreadMessageFetchService *)

Visit(c) ==
  /\ phase = "detect" /\ c \in chats
  /\ phase' = "fetch"
  /\ chats' = chats \ {c} /\ chan' = c
  /\ from' = 0 /\ top' = 0 /\ found' = {} /\ tries' = 0 /\ cut' = FALSE
  /\ UNCHANGED <<telegram, mongo, memory, threads, work, aborted, history, bounds>>

History == {m \in posted \intersect Of(chan) : from = 0 \/ m < from}

(* The newest messages of the history; TDLib decides how many, down to one. *)
Pages ==
  {p \in SUBSET History :
     /\ IsFiniteSet(p) /\ Cardinality(p) <= PageSize
     /\ p = {} => History = {}
     /\ \A m \in p, k \in History : k > m => k \in p}

Unprocessed(p) == {m \in p : record[m] = "none"}

ReadPage ==
  /\ phase = "fetch"
  /\ \E p \in Pages :
       LET all == found \union Unprocessed(p)
           end == p = {} \/ Cardinality(all) >= MaxTotal \/ Cardinality(p) < PageSize IN
       /\ found' = all
       /\ top' = IF p = {} \/ top > 0 THEN top ELSE Max(p)
       /\ from' = IF p = {} THEN from ELSE Min(p)
       /\ tries' = IF end THEN tries ELSE 0
       /\ phase' = IF end THEN "buffer" ELSE "fetch"
       /\ cut' = (end /\ p # History)
  /\ UNCHANGED <<telegram, mongo, memory, threads, work, chats, chan, aborted, history, bounds>>

(* The exception leaves processChannel; the other channels go on. *)
AbortChannel ==
  /\ phase' = "detect"
  /\ aborted' = aborted \union {chan}
  /\ chan' = None /\ work' = {}
  /\ from' = 0 /\ top' = 0 /\ found' = {} /\ tries' = 0 /\ cut' = FALSE
  /\ UNCHANGED chats

(* Mutant: the retry forgets the pages before, but not fromMessageId. *)
RetryAfresh ==
  /\ phase = "fetch"
  /\ tries < MaxRetries
  /\ tries' = tries + 1 /\ found' = {}
  /\ UNCHANGED <<telegram, mongo, memory, threads, phase, work, chats, chan,
                 from, top, cut, aborted, history, bounds>>

(* Mutant: one attempt too many. *)
RetryOnceMore ==
  /\ phase = "fetch"
  /\ tries <= MaxRetries
  /\ tries' = tries + 1
  /\ UNCHANGED <<telegram, mongo, memory, threads, phase, work, chats, chan,
                 from, top, found, cut, aborted, history, bounds>>

(* Mutant: the count starts anew where it should give up. *)
RetryForever ==
  /\ phase = "fetch"
  /\ tries' = (tries + 1) % (MaxRetries + 1)
  /\ UNCHANGED <<telegram, mongo, memory, threads, phase, work, chats, chan,
                 from, top, found, cut, aborted, history, bounds>>

(* A rate limit or a temporary error: the page is asked for again. *)
RetryPage ==
  /\ phase = "fetch"
  /\ tries < MaxRetries
  /\ tries' = tries + 1
  /\ UNCHANGED <<telegram, mongo, memory, threads, phase, work, chats, chan,
                 from, top, found, cut, aborted, history, bounds>>

(* Too many errors, or one that is not retried; a timeout is not.  The     *)
(* database, which filterUnprocessedMessages asks, may also fail here.      *)
FetchFails ==
  /\ phase = "fetch"
  /\ AbortChannel
  /\ UNCHANGED <<telegram, mongo, memory, threads, history, bounds>>

-----------------------------------------------------------------------------
(* UnreadMessageSourceBufferService *)

(* saveToBuffer, one message at a time *)
Buffer ==
  LET m == Min(found) IN
  /\ phase = "buffer" /\ found # {}
  /\ found' = found \ {m}
  /\ IF buffer[m] = "NONE"
     THEN buffer' = [buffer EXCEPT ![m] = "PENDING"] /\ work' = work \union {m}
     ELSE UNCHANGED <<buffer, work>>
  /\ UNCHANGED <<telegram, stored, record, queued, memory, threads, phase, chats, chan,
                 from, top, tries, cut, aborted, history, bounds>>

(* A message is not serialized or not saved: those before it stay PENDING. *)
BufferFails ==
  /\ phase = "buffer" /\ found # {}
  /\ Fault
  /\ AbortChannel
  /\ UNCHANGED <<telegram, mongo, memory, threads, history>>

Buffered ==
  /\ phase = "buffer" /\ found = {}
  /\ phase' = "replay"
  /\ from' = 0 /\ top' = 0 /\ tries' = 0 /\ cut' = FALSE
  /\ UNCHANGED <<telegram, mongo, memory, threads, work, chats, chan, found,
                 aborted, history, bounds>>

(* Mutant: the status is written before the message is handled. *)
TakeProcessed(m) ==
  /\ phase \in Replay /\ at["boot"] = "idle"
  /\ m \in work
  /\ work' = work \ {m}
  /\ at' = [at EXCEPT !["boot"] = "filter"]
  /\ cur' = [cur EXCEPT !["boot"] = m] /\ UNCHANGED hand
  /\ buffer' = [buffer EXCEPT ![m] = "PROCESSED"]
  /\ UNCHANGED <<telegram, stored, record, queued, memory, phase, chats, chan, fetching,
                 aborted, history, bounds>>

(* The fetched messages are handled in the order of their ids; those of the *)
(* last run in the order in which the database returns them.                *)
Take(m) ==
  /\ phase \in Replay /\ at["boot"] = "idle"
  /\ m \in work
  /\ phase = "replay" => \A k \in work : m <= k
  /\ work' = work \ {m}
  /\ at' = [at EXCEPT !["boot"] = "filter"]
  /\ cur' = [cur EXCEPT !["boot"] = m] /\ UNCHANGED hand
  /\ UNCHANGED <<telegram, mongo, memory, phase, chats, chan, fetching, aborted, history, bounds>>

(* The message is not deserialized, or its new status is not saved. *)
MarkFailed ==
  /\ at["boot"] \in {"filter", "done"}
  /\ Fault
  /\ buffer' = [buffer EXCEPT ![cur["boot"]] = "FAILED"]
  /\ Rest("boot")
  /\ UNCHANGED <<telegram, stored, record, queued, memory, starting, aborted, history>>

MarkProcessed ==
  /\ at["boot"] = "done"
  /\ buffer' = [buffer EXCEPT ![cur["boot"]] = "PROCESSED"]
  /\ Rest("boot")
  /\ UNCHANGED <<telegram, stored, record, queued, memory, starting, aborted, history, bounds>>

(* Neither status is saved.  While a channel is replayed this gives up the  *)
(* channel; during initialize the application does not start.               *)
MarkThrows ==
  /\ at["boot"] = "done"
  /\ Fault
  /\ \/ /\ phase = "replay"
        /\ AbortChannel
        /\ Rest("boot")
        /\ UNCHANGED <<memory, lost>>
     \/ phase # "replay" /\ ProcessEnds
  /\ UNCHANGED <<telegram, mongo, handled>>

Replayed ==
  /\ phase = "replay" /\ work = {} /\ at["boot"] = "idle"
  /\ phase' = "detect"
  /\ chan' = None
  /\ UNCHANGED <<telegram, mongo, memory, threads, work, chats, fetching, aborted, history, bounds>>

BootStep ==
  \/ RetryFailed \/ Detect \/ Refresh \/ Ready
  \/ \E c \in Channels : Visit(c)
  \/ ReadPage \/ RetryPage \/ FetchFails
  \/ Buffer \/ BufferFails \/ Buffered
  \/ \E m \in Messages : Take(m)
  \/ MarkFailed \/ MarkProcessed \/ MarkThrows \/ Replayed
  \/ ThreadStep("boot")

Next ==
  \/ \E m \in Messages : Post(m) \/ Hear(m) \/ CloseAlbum(m) \/ AlbumFails(m)
  \/ SaveAlbum
  \/ ThreadStep("live") \/ ThreadStep("timer")
  \/ Start \/ Crash \/ Expire
  \/ BootStep

Spec == Init /\ [][Next]_vars

(* The start-up thread is not blocked for good: every wait of it (limiter,  *)
(* request, back-off) has an end.                                           *)
Fairness == WF_vars(BootStep)

FairSpec == Spec /\ Fairness

-----------------------------------------------------------------------------
(* Properties *)

(* A record that says "matched" is never the only trace of the message: it  *)
(* is in forward_queue, whatever crashed or failed in between               *)
(* (doHandle: enqueue before saveProcessedMessage).                         *)
MatchedMeansQueued ==
  \A m \in Messages : record[m] = "matched" => m \in queued

(* The replay by itself never forwards a single message.  It runs before    *)
(* the tag list is loaded, so doHandle records what it replays as unmatched *)
(* for good; only what TDLib also pushed, or an album the timer closed      *)
(* after the start-up, can enter forward_queue.                             *)
StartupReplayNeverForwards == queued \subseteq heard \union Albums

(* A fetch that returns has every message of the channel, up to the newest  *)
(* it saw, that has no record: errors, retries and the messages recorded    *)
(* meanwhile make no gap.  The exceptions are the limit of messages and a   *)
(* page that TDLib cut short, which is taken for the end of the history.    *)
FetchHasNoGaps ==
  phase = "buffer" /\ ~cut =>
    \A m \in posted \intersect Of(chan) :
      m <= top => record[m] # "none" \/ m \in found \/ buffer[m] # "NONE"

(* A message whose buffer entry is PROCESSED was recorded, is handled by    *)
(* another thread or waits for the timer, or was lost to a crash, a failure,*)
(* a plugin list that was still empty or an album closed without it: no     *)
(* interleaving of the replay with the live thread and the timer loses one  *)
(* silently.  A part of an album counts as recorded when the document of    *)
(* its entity is there, under the id of whichever part came first.          *)
Recorded(m) == m \in handled /\ \E k \in PartsOf[m] : record[k] # "none"

ProcessedIsAccountedFor ==
  \A m \in Messages :
    buffer[m] = "PROCESSED" => Recorded(m) \/ m \in Elsewhere \union lost

(* Once the start-up is over, a buffer entry is PENDING only in a channel   *)
(* that was given up in this start.                                         *)
PendingMeansAborted ==
  phase \in {"refreshed", "ready"} =>
    \A m \in Messages : buffer[m] = "PENDING" => ChatOf[m] \in aborted

(* The start-up ends, however often requests fail: every page is retried a  *)
(* bounded number of times, and every page is older than the one before.    *)
StartUpEnds == (phase = "pending") ~> (phase \in {"ready", "down"})

=============================================================================
