---------------------------- MODULE MessageIntake ---------------------------
(***************************************************************************)
(* From a delivered message to the plugins: the duplicate filter           *)
(* (DuplicateMessageFilter), the album state machine and its timer         *)
(* (ChannelMonitorService) and the raw message store                       *)
(* (MessageStorageService).                                                *)
(*                                                                         *)
(* Message threads (TDLib's update thread, the replay of unread messages)  *)
(* run handleNewMessage concurrently; the single @Scheduled thread closes  *)
(* albums.  The filter runs outside every lock; the maps of one album are  *)
(* changed under its lock, which the timer holds while it processes.       *)
(*                                                                         *)
(* Left out: failedCache, which is written and never read, and the other   *)
(* two filters, whose verdict does not depend on this state.               *)
(***************************************************************************)
EXTENDS Integers

CONSTANTS
  Threads,        \* threads that call handleNewMessage
  Messages,       \* message ids, numbers
  Groups,         \* albums, (chatId, mediaAlbumId)
  GroupOf,        \* message -> its album, or None: mediaAlbumId = 0
  None,           \* no album, no message
  MaxDeliveries,  \* bound: deliveries, of all messages together
  MaxFaults,      \* bound: database and parser exceptions
  MaxCrashes      \* bound: restarts of the process

ASSUME ConstantsAssumption ==
  /\ Messages \subseteq Nat
  /\ None \notin Messages \union Groups
  /\ Messages \cap Groups = {}
  /\ GroupOf \in [Messages -> Groups \union {None}]
  /\ MaxDeliveries \in Nat /\ MaxFaults \in Nat /\ MaxCrashes \in Nat

VARIABLES
  (* message threads *)
  tpc,         \* thread -> where handleNewMessage stands
  tmsg,        \* thread -> the message it handles, or None
  (* the filter and the store *)
  cache,       \* processingCache: keys of messages and of albums
  raw,         \* message -> 0, 1 or 2 (more): documents in raw_messages
  (* the three maps of ChannelMonitorService *)
  state,       \* mediaGroupStates, "NONE" for an absent key
  buffer,      \* mediaGroupBuffer: message -> copies in its album's list
  stamp,       \* mediaGroupTimestamps: "none", "fresh", "due" (timed out)
  (* the timer thread *)
  scan,        \* albums timed out at "now" and not yet visited by forEach
  seen,        \* album whose timestamp was found due, lock not yet taken
  claimed,     \* timedOutGroups
  cur,         \* album being processed, its lock held; None: none
  work,        \* message -> copies not yet saved and parsed
  parsed,      \* messages of cur parsed so far
  (* history and bounds *)
  times,       \* message -> 0, 1 or 2 (more): how often the plugins saw it
  albums,      \* album -> 0, 1 or 2 (more): how often the plugins saw it
  raced,       \* single messages that two threads took past the filter
  excused,     \* keys met by a fault
  left, faults, crashes

threads == <<tpc, tmsg>>
maps    == <<state, buffer, stamp>>
timer   == <<scan, seen, claimed, cur, work, parsed>>
history == <<times, albums>>
bounds  == <<raced, excused, left, faults, crashes>>
vars    == <<threads, cache, raw, maps, timer, history, bounds>>

Singles    == {m \in Messages : GroupOf[m] = None}
Members(g) == {m \in Messages : GroupOf[m] = g}
Once(n)    == IF n < 2 THEN n + 1 ELSE 2

TypeOK ==
  /\ tpc \in [Threads -> {"idle", "filter", "mark", "handle", "save", "plugins"}]
  /\ tmsg \in [Threads -> Messages \union {None}]
  /\ cache \subseteq Messages \union Groups
  /\ raw \in [Messages -> 0..2]
  /\ state \in [Groups -> {"NONE", "COLLECTING", "PROCESSING", "COMPLETED"}]
  /\ buffer \in [Messages -> Nat]
  /\ stamp \in [Groups -> {"none", "fresh", "due"}]
  /\ seen \in Groups \union {None}
  /\ scan \subseteq Groups
  /\ claimed \subseteq Groups
  /\ cur \in Groups \union {None}
  /\ work \in [Messages -> Nat]
  /\ parsed \subseteq Messages
  /\ times \in [Messages -> 0..2]
  /\ albums \in [Groups -> 0..2]
  /\ excused \subseteq Messages \union Groups
  /\ raced \subseteq Messages
  /\ left \in 0..MaxDeliveries
  /\ faults \in 0..MaxFaults
  /\ crashes \in 0..MaxCrashes

NoMessages == [m \in Messages |-> 0]

Init ==
  /\ tpc = [t \in Threads |-> "idle"]
  /\ tmsg = [t \in Threads |-> None]
  /\ cache = {}
  /\ state = [g \in Groups |-> "NONE"]
  /\ buffer = NoMessages
  /\ stamp = [g \in Groups |-> "none"]
  /\ scan = {} /\ seen = None /\ claimed = {} /\ cur = None
  /\ work = NoMessages /\ parsed = {}
  /\ raw = NoMessages /\ times = NoMessages
  /\ albums = [g \in Groups |-> 0]
  /\ raced = {} /\ excused = {}
  /\ left = MaxDeliveries
  /\ faults = 0 /\ crashes = 0

-----------------------------------------------------------------------------
(* Message threads: filter chain *)

Goto(t, where) ==
  /\ tpc' = [tpc EXCEPT ![t] = where]
  /\ tmsg' = IF where = "idle" THEN [tmsg EXCEPT ![t] = None] ELSE tmsg

(* A live update, or the same message from the unread replay. *)
Deliver(t, m) ==
  /\ tpc[t] = "idle" /\ left > 0
  /\ tpc' = [tpc EXCEPT ![t] = "filter"]
  /\ tmsg' = [tmsg EXCEPT ![t] = m]
  /\ left' = left - 1
  /\ UNCHANGED <<cache, raw, maps, timer, history, raced, excused, faults, crashes>>

(* What the filter and saveMessage take as already there: for an album, any *)
(* of its messages.                                                         *)
Stored(m) == IF m \in Singles THEN raw[m] > 0
             ELSE \E n \in Members(GroupOf[m]) : raw[n] > 0

FilterKey(m) == IF m \in Singles THEN m ELSE GroupOf[m]

(* A single message that another thread has already taken past the filter. *)
HeldBeyond(t) ==
  {m \in Singles : m = tmsg[t] /\ \E u \in Threads \ {t} : tmsg[u] = m /\ tpc[u] # "filter"}

FilterWith(t, known) ==
  LET key == FilterKey(tmsg[t]) IN
  /\ tpc[t] = "filter"
  /\ IF key \in cache \/ known
       THEN Goto(t, "idle") /\ cache' = cache \union {key} /\ UNCHANGED raced
       ELSE Goto(t, "mark") /\ raced' = raced \union HeldBeyond(t) /\ UNCHANGED cache
  /\ UNCHANGED <<raw, maps, timer, history, excused, left, faults, crashes>>

(* Mutant: the database is not asked. *)
FilterByCache(t) == FilterWith(t, FALSE)

(* doFilter: cache, then database.  A hit in the database is cached. *)
Filter(t) == FilterWith(t, Stored(tmsg[t]))

(* The database query throws: AbstractMessageFilter accepts. *)
FilterFails(t) ==
  /\ tpc[t] = "filter" /\ faults < MaxFaults
  /\ Goto(t, "handle")
  /\ faults' = faults + 1
  /\ excused' = excused \union {FilterKey(tmsg[t])}
  /\ UNCHANGED <<cache, raw, maps, timer, history, raced, left, crashes>>

MarkKey(t, key) ==
  /\ tpc[t] = "mark"
  /\ cache' = cache \union {key}
  /\ Goto(t, "handle")
  /\ UNCHANGED <<raw, maps, timer, history, bounds>>

(* Mutant: the album is marked, for a single message too. *)
MarkAlbum(t) == MarkKey(t, GroupOf[tmsg[t]])

(* Only now is the message marked, under its own key even in an album. *)
Mark(t) == MarkKey(t, tmsg[t])

-----------------------------------------------------------------------------
(* Message threads: handleMediaGroupMessage and processSingleMessage *)

Collect(t, closed) ==
  LET m == tmsg[t]  g == GroupOf[m] IN
  /\ tpc[t] = "handle" /\ m \notin Singles
  /\ cur # g                         \* the timer holds the lock
  /\ Goto(t, "idle")
  /\ IF state[g] \in closed
       THEN UNCHANGED <<maps, scan>>
       ELSE /\ state' = [state EXCEPT ![g] = IF @ = "NONE" THEN "COLLECTING" ELSE @]
            /\ buffer' = [buffer EXCEPT ![m] = @ + 1]
            /\ stamp' = [stamp EXCEPT ![g] = "fresh"]
            /\ scan' = scan \ {g}
  /\ UNCHANGED <<cache, raw, seen, claimed, cur, work, parsed, history, bounds>>

(* Mutant: an album that is completed takes messages again. *)
CollectAfterwards(t) == Collect(t, {"PROCESSING"})

(* Under the album's lock: refused once the timer has claimed it.  An       *)
(* accepted message renews the timestamp that the running scan reads.       *)
HandleMediaGroupMessage(t) == Collect(t, {"PROCESSING", "COMPLETED"})

IsDuplicate(t, known) ==
  /\ tpc[t] = "handle" /\ tmsg[t] \in Singles
  /\ Goto(t, IF known THEN "plugins" ELSE "save")
  /\ UNCHANGED <<cache, raw, maps, timer, history, bounds>>

(* Mutant: what is in the cache is taken as saved. *)
SingleIsCached(t) == IsDuplicate(t, tmsg[t] \in cache)

(* saveMessage, first half: isDuplicate. *)
SingleIsDuplicate(t) == IsDuplicate(t, Stored(tmsg[t]))

(* saveMessage, second half: the insert.  Nothing creates the unique        *)
(* indexes that RawMessage declares (auto-index-creation is off), so the    *)
(* insert succeeds and its DuplicateKeyException branch is unreachable.     *)
SaveSingle(t) ==
  /\ tpc[t] = "save"
  /\ raw' = [raw EXCEPT ![tmsg[t]] = Once(@)]
  /\ Goto(t, "plugins")
  /\ UNCHANGED <<cache, maps, timer, history, bounds>>

(* The channel lookup or the parser throws, and the message is dropped; or  *)
(* the query or the insert of saveMessage does, and its result is ignored.  *)
SingleFails(t) ==
  /\ tmsg[t] \in Singles /\ faults < MaxFaults
  /\ \/ tpc[t] \in {"handle", "plugins"} /\ Goto(t, "idle")
     \/ tpc[t] \in {"handle", "save"} /\ Goto(t, "plugins")
  /\ faults' = faults + 1
  /\ excused' = excused \union {tmsg[t]}
  /\ UNCHANGED <<cache, raw, maps, timer, history, raced, left, crashes>>

(* Parse the message and hand it to the plugins, saved or not. *)
DispatchSingle(t) ==
  /\ tpc[t] = "plugins"
  /\ times' = [times EXCEPT ![tmsg[t]] = Once(@)]
  /\ Goto(t, "idle")
  /\ UNCHANGED <<cache, raw, maps, timer, albums, bounds>>

ThreadStep(t) ==
  \/ Filter(t) \/ Mark(t)
  \/ HandleMediaGroupMessage(t)
  \/ SingleIsDuplicate(t) \/ SaveSingle(t) \/ DispatchSingle(t)

-----------------------------------------------------------------------------
(* The timer: processTimedOutMediaGroups *)

(* One call per second, never two at once; a scan that finds nothing is     *)
(* left out.                                                                *)
StartScan ==
  /\ scan = {} /\ seen = None /\ claimed = {} /\ cur = None
  /\ \E g \in Groups : stamp[g] = "due"
  /\ scan' = {g \in Groups : stamp[g] = "due"}
  /\ UNCHANGED <<threads, cache, raw, maps, seen, claimed, cur, work, parsed, history, bounds>>

(* The timestamp is read before the lock is taken. *)
SeeDue(g) ==
  /\ g \in scan /\ seen = None
  /\ scan' = scan \ {g}
  /\ seen' = g
  /\ UNCHANGED <<threads, cache, raw, maps, claimed, cur, work, parsed, history, bounds>>

ClaimInto(g, groups) ==
  /\ seen = g
  /\ IF state[g] = "COLLECTING"
       THEN /\ state' = [state EXCEPT ![g] = "PROCESSING"]
            /\ claimed' = claimed \union groups
       ELSE UNCHANGED <<state, claimed>>
  /\ seen' = None
  /\ UNCHANGED <<threads, cache, raw, buffer, stamp, scan, cur, work, parsed, history, bounds>>

(* Mutant: the album changes state but is not put on the list. *)
ClaimUnlisted(g) == ClaimInto(g, {})

(* Under the lock; the timestamp is not read again. *)
Claim(g) == ClaimInto(g, {g})

(* After the scan: take the lock, remove buffer and timestamp. *)
TakeBuffer(g) ==
  /\ scan = {} /\ seen = None /\ cur = None
  /\ g \in claimed
  /\ claimed' = claimed \ {g}
  /\ buffer' = [m \in Messages |-> IF m \in Members(g) THEN 0 ELSE buffer[m]]
  /\ stamp' = [stamp EXCEPT ![g] = "none"]

(* processMediaGroup up to the channel lookup.  (Its test for an empty      *)
(* buffer never holds: MapsAgree.)                                          *)
BeginAlbum(g) ==
  /\ TakeBuffer(g)
  /\ cur' = g
  /\ work' = [m \in Messages |-> IF m \in Members(g) THEN buffer[m] ELSE 0]
  /\ UNCHANGED <<threads, cache, raw, state, scan, seen, parsed, history, bounds>>

(* The lookup throws: the state is reset, the buffer stays removed. *)
BeginAlbumFails(g) ==
  /\ TakeBuffer(g)
  /\ faults < MaxFaults
  /\ faults' = faults + 1
  /\ state' = [state EXCEPT ![g] = "NONE"]
  /\ UNCHANGED <<threads, cache, raw, scan, seen, cur, work, parsed, history,
                 raced, excused, left, crashes>>

(* Next message of the album, by id: saveMessage, parseMediaGroupItem.      *)
(* Only the timer saves album messages, so check and save are one step.     *)
ItemStep(m, saves, parses) ==
  /\ cur # None
  /\ work[m] > 0 /\ \A n \in Messages : work[n] > 0 => m <= n
  /\ work' = [work EXCEPT ![m] = @ - 1]
  /\ raw' = IF saves /\ ~Stored(m) THEN [raw EXCEPT ![m] = 1] ELSE raw
  /\ parsed' = IF parses THEN parsed \union {m} ELSE parsed
  /\ UNCHANGED <<threads, cache, maps, scan, seen, claimed, cur, history>>

SaveItem(m) == ItemStep(m, TRUE, TRUE) /\ UNCHANGED bounds

(* The save throws (logged, ignored) or the parser does (message dropped). *)
SaveItemFails(m) ==
  /\ faults < MaxFaults
  /\ ItemStep(m, FALSE, TRUE) \/ ItemStep(m, TRUE, FALSE)
  /\ faults' = faults + 1
  /\ excused' = excused \union {cur}
  /\ UNCHANGED <<raced, left, crashes>>

Finish(g, next) ==
  /\ cur = g
  /\ \A m \in Messages : work[m] = 0
  /\ albums' = IF parsed = {} THEN albums ELSE [albums EXCEPT ![g] = Once(@)]
  /\ times' = [m \in Messages |-> IF m \in parsed THEN Once(times[m]) ELSE times[m]]
  /\ state' = [state EXCEPT ![g] = next]
  /\ cache' = cache \union {g}
  /\ cur' = None
  /\ parsed' = {}
  /\ UNCHANGED <<threads, raw, buffer, stamp, scan, seen, claimed, work, bounds>>

(* Mutant: a finished album is forgotten. *)
FinishAndForget(g) == Finish(g, "NONE")

(* The plugins see the album; it is COMPLETED and marked in the cache.      *)
FinishAlbum(g) == Finish(g, "COMPLETED")

TimerStep ==
  \/ StartScan
  \/ \E g \in Groups : SeeDue(g) \/ Claim(g) \/ BeginAlbum(g) \/ FinishAlbum(g)
  \/ \E m \in Messages : SaveItem(m)

-----------------------------------------------------------------------------
(* The environment *)

(* media-group.timeout passes without a new message. *)
Elapse(g) ==
  /\ stamp[g] = "fresh"
  /\ stamp' = [stamp EXCEPT ![g] = "due"]
  /\ UNCHANGED <<threads, cache, raw, state, buffer, timer, history, bounds>>

(* The cache drops an entry: its TTL, or the size limit. *)
Expire(k) ==
  /\ k \in cache
  /\ cache' = cache \ {k}
  /\ UNCHANGED <<threads, raw, maps, timer, history, bounds>>

(* Only raw_messages survives; messages still unread may come again. *)
Crash ==
  /\ crashes < MaxCrashes
  /\ crashes' = crashes + 1
  /\ tpc' = [t \in Threads |-> "idle"]
  /\ tmsg' = [t \in Threads |-> None]
  /\ cache' = {}
  /\ state' = [g \in Groups |-> "NONE"]
  /\ buffer' = NoMessages
  /\ stamp' = [g \in Groups |-> "none"]
  /\ scan' = {} /\ seen' = None /\ claimed' = {} /\ cur' = None
  /\ work' = NoMessages /\ parsed' = {}
  /\ UNCHANGED <<raw, times, albums, raced, excused, left, faults>>

Next ==
  \/ \E t \in Threads :
       \/ \E m \in Messages : Deliver(t, m)
       \/ ThreadStep(t) \/ FilterFails(t) \/ SingleFails(t)
  \/ TimerStep
  \/ \E m \in Messages : SaveItemFails(m)
  \/ \E g \in Groups : BeginAlbumFails(g) \/ Elapse(g)
  \/ \E k \in Messages \union Groups : Expire(k)
  \/ Crash

Spec == Init /\ [][Next]_vars

(* Threads run, the clock advances, the scheduler fires. *)
Fairness ==
  /\ \A t \in Threads : WF_vars(ThreadStep(t))
  /\ \A g \in Groups : WF_vars(Elapse(g))
  /\ WF_vars(TimerStep)

FairSpec == Spec /\ Fairness

-----------------------------------------------------------------------------
(* Properties *)

(* The three maps of ChannelMonitorService never disagree: an album has a   *)
(* buffer and a timestamp exactly while it collects or waits, claimed, for  *)
(* the timer; so no claimed album is empty (line 322) and none is orphaned. *)
MapsAgree ==
  \A g \in Groups :
    LET waiting == state[g] = "COLLECTING" \/ (state[g] = "PROCESSING" /\ cur # g)
    IN  /\ (\E m \in Members(g) : buffer[m] > 0) <=> waiting
        /\ stamp[g] # "none" <=> waiting
        /\ state[g] = "PROCESSING" <=> (cur = g \/ g \in claimed)

(* The plugins see an album at most once, over live delivery, replay and    *)
(* cache expiry; even over a restart, unless a fault met it before.         *)
AlbumDispatchedOnce ==
  \A g \in Groups : albums[g] < 2 \/ (g \in excused /\ crashes > 0)

(* The plugins see a single message twice only if two threads took it past  *)
(* the filter at once, or a database fault met it: cache and store together *)
(* cover one delivery after another, the cache's expiry and a restart.      *)
OnlyRacesRepeatSingles ==
  \A m \in Singles : times[m] < 2 \/ m \in raced \union excused

(* What DuplicateMessageFilter says of its cache (lines 21 and 44): it      *)
(* keeps one message from being processed twice by concurrent threads.      *)
SingleDispatchedOnce == \A m \in Singles : times[m] < 2

(* The plugins never see a message, or an album, of which raw_messages      *)
(* knows nothing, faults aside: what is forwarded is recognised after a     *)
(* restart.                                                                 *)
StoredBeforePlugins ==
  \A m \in Messages : times[m] > 0 => Stored(m) \/ FilterKey(m) \in excused

(* A buffered album message reaches the plugins, if nothing fails.          *)
BufferedIsDispatched ==
  \A m \in Messages : buffer[m] > 0 ~> (times[m] > 0 \/ faults + crashes > 0)

(* "Reset the state to allow a retry" (line 360): when a failed album goes  *)
(* back to collecting, the messages it had are still there to be retried.   *)
RetryKeepsAlbum ==
  [][\A g \in Groups :
       state[g] = "PROCESSING" /\ state'[g] = "NONE" /\ crashes' = crashes
         => \E m \in Members(g) : buffer'[m] > 0]_vars

(* The message of an album is marked so that "the same message is not       *)
(* processed twice" (DuplicateMessageFilter, line 199).                     *)
AlbumHoldsMessageOnce == \A m \in Messages : buffer[m] < 2

=============================================================================
