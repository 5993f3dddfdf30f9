---------------------------- MODULE ConfigEvents ----------------------------
(***************************************************************************)
(* Two in-memory copies of what the administrator keeps in MongoDB: the    *)
(* set of monitored channels (ChannelMonitoringFilter) and the list of     *)
(* tags to forward (TagMatcher).  A REST thread writes the collection and  *)
(* then publishes a Spring event; the listener runs on the same thread,    *)
(* after the write, with no lock and no transaction around the two.  A     *)
(* channel event carries the new status; a tag event makes the listener    *)
(* read the collections again.  A channel set is read from the database    *)
(* once, by the first message.                                             *)
(*                                                                         *)
(* The tags of one kind of entity (authors) stand for those of all three.  *)
(***************************************************************************)
EXTENDS Integers, FiniteSets

CONSTANTS
  Requests,   \* REST threads
  Ready,      \* the thread of ApplicationReadyEvent
  Docs,       \* documents of telegram_channels (one _id each)
  ChannelOf,  \* document -> its channelId, under a unique index
  Authors,    \* documents of tag_authors
  Names,      \* their names (and aliases)
  None,       \* no document, no name
  MaxFaults   \* bound: database exceptions and restarts

ASSUME ConstantsAssumption ==
  /\ Ready \notin Requests
  /\ None \notin Docs \union Names
  /\ MaxFaults \in Nat

VARIABLES
  (* MongoDB *)
  doc,          \* document -> "none" (not there), "on" or "off": monitoringStatus
  chosen,       \* authors the enabled TagFilterConfig lists
  name,         \* author -> its name, None: not there
  (* ChannelMonitoringFilter *)
  monitoring,   \* monitoringChannels
  initialized,
  pending,      \* channels the first load has read and not yet added
  loading,      \* is the first load under way?
  (* TagMatcher *)
  tags,         \* expandedTagList
  loaded,       \* configurationLoaded
  (* the threads *)
  at,           \* thread -> its next step
  target,       \* thread -> the channel document or author it is about
  old, new,     \* thread -> the status it read, the one it will write
  read,         \* thread -> the authors its load has to look up, then the tags
  (* history and bounds *)
  alone,        \* threads that no operation on the same data has overlapped
  staleChannels,\* channels whose copy an overlap or a failure may have spoilt
  staleTags,    \* the same of the tag list
  begun,        \* has ApplicationReadyEvent been handled?
  faults

store   == <<doc, chosen, name>>
filter  == <<monitoring, initialized, pending, loading>>
matcher == <<tags, loaded>>
threads == <<at, target, old, new, read>>
vars    == <<store, filter, matcher, threads, alone, staleChannels, staleTags, begun, faults>>

Threads   == Requests \union {Ready}
Channels  == {ChannelOf[d] : d \in Docs}
Monitored == {ChannelOf[d] : d \in {e \in Docs : doc[e] = "on"}}
Expected  == {name[a] : a \in chosen} \ {None}

ChannelSteps == {"save", "delete", "publish", "remove"}
TagSteps     == {"config", "author", "detach", "erase", "find", "entities", "assign"}

AtChannel(c) == {t \in Requests : at[t] \in ChannelSteps /\ ChannelOf[target[t]] = c}
AtTags       == {t \in Threads : at[t] \in TagSteps}

StoreOK ==
  /\ doc \in [Docs -> {"none", "on", "off"}]
  /\ chosen \subseteq Authors
  /\ name \in [Authors -> Names \union {None}]

FilterOK ==
  /\ monitoring \subseteq Channels /\ pending \subseteq Channels
  /\ initialized \in BOOLEAN /\ loading \in BOOLEAN

MatcherOK == tags \subseteq Names /\ loaded \in BOOLEAN

ThreadsOK ==
  /\ at \in [Threads -> {"idle"} \union ChannelSteps \union TagSteps]
  /\ target \in [Threads -> Docs \union Authors \union {None}]
  /\ \A t \in Threads : at[t] \in ChannelSteps => t \in Requests /\ target[t] \in Docs
  /\ \A t \in Threads : at[t] \in {"author", "detach", "erase"} => target[t] \in Authors
  /\ old \in [Threads -> {"none", "on", "off"}]
  /\ new \in [Threads -> {"none", "on", "off"}]
  /\ read \in [Threads -> (SUBSET Authors) \union (SUBSET Names)]

HistoryOK ==
  /\ alone \subseteq Threads
  /\ staleChannels \subseteq Channels
  /\ staleTags \in BOOLEAN /\ begun \in BOOLEAN
  /\ faults \in 0..MaxFaults

TypeOK == StoreOK /\ FilterOK /\ MatcherOK /\ ThreadsOK /\ HistoryOK

Init ==
  /\ doc = [d \in Docs |-> "none"]
  /\ chosen = {}
  /\ name = [a \in Authors |-> None]
  /\ monitoring = {} /\ initialized = FALSE /\ pending = {} /\ loading = FALSE
  /\ tags = {} /\ loaded = FALSE
  /\ at = [t \in Threads |-> "idle"] /\ target = [t \in Threads |-> None]
  /\ old = [t \in Threads |-> "none"] /\ new = [t \in Threads |-> "none"]
  /\ read = [t \in Threads |-> {}]
  /\ alone = {} /\ staleChannels = {} /\ staleTags = FALSE /\ begun = FALSE
  /\ faults = 0

Fault == faults < MaxFaults /\ faults' = faults + 1

-----------------------------------------------------------------------------
(* Steps of a thread *)

Goto(t, s) == at' = [at EXCEPT ![t] = s]

(* A request starts; an operation on the same data is not alone any more. *)
Begin(t, s, d, others) ==
  /\ at[t] = "idle"
  /\ Goto(t, s)
  /\ target' = [target EXCEPT ![t] = d]
  /\ alone' = IF others = {} THEN alone \union {t} ELSE alone \ others

Return(t) ==
  /\ Goto(t, "idle")
  /\ target' = [target EXCEPT ![t] = None]
  /\ old' = [old EXCEPT ![t] = "none"] /\ new' = [new EXCEPT ![t] = "none"]
  /\ read' = [read EXCEPT ![t] = {}]
  /\ alone' = alone \ {t}

-----------------------------------------------------------------------------
(* ChannelService *)

Exists(c) == \E d \in Docs : ChannelOf[d] = c /\ doc[d] # "none"

(* create: existsByChannelId, then a new document *)
Create(t, d, status) ==
  /\ doc[d] = "none" /\ \A u \in Requests : target[u] # d
  /\ ~Exists(ChannelOf[d])
  /\ Begin(t, "save", d, AtChannel(ChannelOf[d]))
  /\ new' = [new EXCEPT ![t] = status]
  /\ UNCHANGED <<store, filter, matcher, old, read, staleChannels, staleTags, begun, faults>>

(* update: findById; without a status in the request the old one is kept.   *)
Update(t, d, status) ==
  /\ doc[d] # "none"
  /\ Begin(t, "save", d, AtChannel(ChannelOf[d]))
  /\ old' = [old EXCEPT ![t] = doc[d]]
  /\ new' = [new EXCEPT ![t] = status]
  /\ UNCHANGED <<store, filter, matcher, read, staleChannels, staleTags, begun, faults>>

(* deleteById: findById *)
Delete(t, d) ==
  /\ doc[d] # "none"
  /\ Begin(t, "delete", d, AtChannel(ChannelOf[d]))
  /\ UNCHANGED <<store, filter, matcher, old, new, read, staleChannels, staleTags, begun, faults>>

(* An overlap or a failure spoils the copy until an operation that runs     *)
(* alone writes it again.                                                   *)
Spoil(t, c) ==
  staleChannels' = IF t \in alone THEN staleChannels ELSE staleChannels \union {c}

(* save writes the whole document, and writes it anew if it was deleted in  *)
(* the meantime; the unique index refuses a second one of the channel.      *)
SaveChannel(t) ==
  LET d == target[t] IN
  /\ at[t] = "save"
  /\ \A e \in Docs \ {d} : ChannelOf[e] = ChannelOf[d] => doc[e] = "none"
  /\ doc' = [doc EXCEPT ![d] = new[t]]
  /\ IF old[t] = new[t]
     THEN Return(t) /\ Spoil(t, ChannelOf[d])
     ELSE Goto(t, "publish") /\ UNCHANGED <<target, old, new, read, alone, staleChannels>>
  /\ UNCHANGED <<chosen, name, filter, matcher, staleTags, begun, faults>>

SaveRefused(t) ==
  LET d == target[t] IN
  /\ at[t] = "save"
  /\ \E e \in Docs \ {d} : ChannelOf[e] = ChannelOf[d] /\ doc[e] # "none"
  /\ Return(t) /\ Spoil(t, ChannelOf[d])
  /\ UNCHANGED <<store, filter, matcher, staleTags, begun, faults>>

DeleteChannel(t) ==
  /\ at[t] = "delete"
  /\ doc' = [doc EXCEPT ![target[t]] = "none"]
  /\ Goto(t, "remove")
  /\ UNCHANGED <<chosen, name, filter, matcher, target, old, new, read, alone,
                 staleChannels, staleTags, begun, faults>>

(* The write throws: no event. *)
ChannelFails(t) ==
  /\ at[t] \in {"save", "delete"}
  /\ Fault
  /\ Return(t) /\ Spoil(t, ChannelOf[target[t]])
  /\ UNCHANGED <<store, filter, matcher, staleTags, begun>>

(* After its event a channel's copy is right again, unless the operation    *)
(* was overlapped, or the event fell into the first load.                   *)
Settle(t, c) ==
  staleChannels' = IF t \in alone /\ ~loading THEN staleChannels \ {c}
                                              ELSE staleChannels \union {c}

(* Mutant: the status before the update is published. *)
PublishOld(t) ==
  LET c == ChannelOf[target[t]] IN
  /\ at[t] = "publish"
  /\ monitoring' = IF old[t] = "on" THEN monitoring \union {c} ELSE monitoring \ {c}
  /\ Return(t) /\ Settle(t, c)
  /\ UNCHANGED <<store, initialized, pending, loading, matcher, staleTags, begun, faults>>

(* handleChannelAdded, handleChannelUpdated: the first ignores "off". *)
Publish(t) ==
  LET c == ChannelOf[target[t]] IN
  /\ at[t] = "publish"
  /\ \/ /\ new[t] = "on"
        /\ monitoring' = monitoring \union {c}
        /\ Settle(t, c)
     \/ /\ new[t] = "off" /\ old[t] # "none"
        /\ monitoring' = monitoring \ {c}
        /\ Settle(t, c)
     \/ /\ new[t] = "off" /\ old[t] = "none"
        /\ UNCHANGED monitoring
        /\ Spoil(t, c)
  /\ Return(t)
  /\ UNCHANGED <<store, initialized, pending, loading, matcher, staleTags, begun, faults>>

(* handleChannelRemoved *)
Remove(t) ==
  LET c == ChannelOf[target[t]] IN
  /\ at[t] = "remove"
  /\ monitoring' = monitoring \ {c}
  /\ Settle(t, c)
  /\ Return(t)
  /\ UNCHANGED <<store, initialized, pending, loading, matcher, staleTags, begun, faults>>

-----------------------------------------------------------------------------
(* ChannelMonitoringFilter: the first message loads the set, under a lock   *)
(* that the events do not take.                                             *)

FirstLoad ==
  /\ ~initialized /\ ~loading
  /\ loading' = TRUE
  /\ pending' = Monitored
  /\ UNCHANGED <<store, monitoring, initialized, matcher, threads, alone,
                 staleChannels, staleTags, begun, faults>>

AddLoaded(c) ==
  /\ loading /\ c \in pending
  /\ monitoring' = monitoring \union {c}
  /\ pending' = pending \ {c}
  /\ UNCHANGED <<store, initialized, loading, matcher, threads, alone,
                 staleChannels, staleTags, begun, faults>>

Initialized ==
  /\ loading /\ pending = {}
  /\ loading' = FALSE /\ initialized' = TRUE
  /\ UNCHANGED <<store, monitoring, pending, matcher, threads, alone,
                 staleChannels, staleTags, begun, faults>>

(* The query throws, but the filter counts as initialized. *)
FirstLoadFails ==
  /\ ~initialized /\ ~loading
  /\ Fault
  /\ initialized' = TRUE
  /\ staleChannels' = Channels
  /\ UNCHANGED <<store, monitoring, pending, loading, matcher, threads, alone, staleTags, begun>>

-----------------------------------------------------------------------------
(* TagFilterConfigServiceImpl, AuthorServiceImpl: a write, then the reload *)

ChangeConfig(t) ==
  /\ Begin(t, "config", None, AtTags)
  /\ UNCHANGED <<store, filter, matcher, old, new, read, staleChannels, staleTags, begun, faults>>

ChangeAuthor(t, a) ==
  /\ Begin(t, "author", a, AtTags)
  /\ UNCHANGED <<store, filter, matcher, old, new, read, staleChannels, staleTags, begun, faults>>

(* delete: findById and the configurations that list the author.  Without   *)
(* force a listed author is refused.                                        *)
DeleteAuthor(t, a) ==
  /\ name[a] # None
  /\ \/ a \in chosen /\ Begin(t, "detach", a, AtTags) /\ read' = [read EXCEPT ![t] = chosen]
     \/ a \notin chosen /\ Begin(t, "erase", a, AtTags) /\ UNCHANGED read
  /\ UNCHANGED <<store, filter, matcher, old, new, staleChannels, staleTags, begun, faults>>

(* onApplicationReady *)
Begun ==
  /\ ~begun
  /\ begun' = TRUE
  /\ Begin(Ready, "find", None, AtTags)
  /\ UNCHANGED <<store, filter, matcher, old, new, read, staleChannels, staleTags, faults>>

Then(t, s) == Goto(t, s) /\ UNCHANGED <<target, old, new, alone>>

SaveConfig(t) ==
  /\ at[t] = "config"
  /\ chosen' \in SUBSET Authors
  /\ Then(t, "find")
  /\ UNCHANGED <<doc, name, filter, matcher, read, staleChannels, staleTags, begun, faults>>

SaveAuthor(t) ==
  /\ at[t] = "author"
  /\ \E n \in Names : name' = [name EXCEPT ![target[t]] = n]
  /\ Then(t, "find")
  /\ UNCHANGED <<doc, chosen, filter, matcher, read, staleChannels, staleTags, begun, faults>>

(* With force the configuration is saved first, as it was read. *)
DetachAuthor(t) ==
  /\ at[t] = "detach"
  /\ chosen' = read[t] \ {target[t]}
  /\ Then(t, "erase")
  /\ UNCHANGED <<doc, name, filter, matcher, read, staleChannels, staleTags, begun, faults>>

EraseAuthor(t) ==
  /\ at[t] = "erase"
  /\ name' = [name EXCEPT ![target[t]] = None]
  /\ Then(t, "find")
  /\ UNCHANGED <<doc, chosen, filter, matcher, read, staleChannels, staleTags, begun, faults>>

(* The write throws: no event.  A deletion may have changed the             *)
(* configuration already.                                                   *)
TagWriteFails(t) ==
  /\ at[t] \in {"config", "author", "detach", "erase"}
  /\ Fault
  /\ Return(t)
  /\ staleTags' = (staleTags \/ t \notin alone \/ (at[t] = "erase" /\ read[t] # {}))
  /\ UNCHANGED <<store, filter, matcher, staleChannels, begun>>

(* loadTagConfiguration: the configurations ... *)
FindConfigs(t) ==
  /\ at[t] = "find"
  /\ read' = [read EXCEPT ![t] = chosen]
  /\ Then(t, "entities")
  /\ UNCHANGED <<store, filter, matcher, staleChannels, staleTags, begun, faults>>

(* Mutant: an author that is gone leaves its empty name behind. *)
FindEntitiesRaw(t) ==
  /\ at[t] = "entities"
  /\ read' = [read EXCEPT ![t] = {name[a] : a \in read[t]}]
  /\ Goto(t, "assign")
  /\ UNCHANGED <<store, filter, matcher, target, old, new, alone, staleChannels,
                 staleTags, begun, faults>>

(* ... the entities they name, where a failure is taken for none ... *)
FindEntities(t) ==
  /\ at[t] = "entities"
  /\ \/ /\ read' = [read EXCEPT ![t] = {name[a] : a \in read[t]} \ {None}]
        /\ UNCHANGED <<alone, faults>>
     \/ /\ Fault
        /\ read' = [read EXCEPT ![t] = {}]
        /\ alone' = alone \ {t}
  /\ Goto(t, "assign")
  /\ UNCHANGED <<store, filter, matcher, target, old, new, staleChannels, staleTags, begun>>

(* Mutant: the new tags are added to the old ones. *)
AssignMerged(t) ==
  /\ at[t] = "assign"
  /\ tags' = tags \union read[t] /\ loaded' = TRUE
  /\ staleTags' = (t \notin alone)
  /\ Return(t)
  /\ UNCHANGED <<store, filter, staleChannels, begun, faults>>

(* ... and the list, in one assignment. *)
Assign(t) ==
  /\ at[t] = "assign"
  /\ tags' = read[t] /\ loaded' = TRUE
  /\ staleTags' = (t \notin alone)
  /\ Return(t)
  /\ UNCHANGED <<store, filter, staleChannels, begun, faults>>

(* The query of the configurations throws: no tags at all. *)
LoadFails(t) ==
  /\ at[t] = "find"
  /\ Fault
  /\ tags' = {} /\ loaded' = FALSE
  /\ staleTags' = TRUE
  /\ Return(t)
  /\ UNCHANGED <<store, filter, staleChannels, begun>>

-----------------------------------------------------------------------------
(* A crash and a restart: both copies are read again. *)
Restart ==
  /\ Fault
  /\ monitoring' = {} /\ initialized' = FALSE /\ pending' = {} /\ loading' = FALSE
  /\ tags' = {} /\ loaded' = FALSE
  /\ at' = [t \in Threads |-> "idle"] /\ target' = [t \in Threads |-> None]
  /\ old' = [t \in Threads |-> "none"] /\ new' = [t \in Threads |-> "none"]
  /\ read' = [t \in Threads |-> {}]
  /\ alone' = {} /\ staleChannels' = {} /\ staleTags' = FALSE /\ begun' = FALSE
  /\ UNCHANGED store

ChannelStep(t) ==
  \/ SaveChannel(t) \/ SaveRefused(t) \/ DeleteChannel(t) \/ ChannelFails(t)
  \/ Publish(t) \/ Remove(t)

TagStep(t) ==
  \/ SaveConfig(t) \/ SaveAuthor(t) \/ DetachAuthor(t) \/ EraseAuthor(t) \/ TagWriteFails(t)
  \/ FindConfigs(t) \/ FindEntities(t) \/ Assign(t) \/ LoadFails(t)

(* REST requests are refused until the application is ready. *)
Request(t) ==
  /\ begun
  /\ \/ \E d \in Docs, s \in {"on", "off"} : Create(t, d, s) \/ Update(t, d, s)
     \/ \E d \in Docs : Delete(t, d)
     \/ ChangeConfig(t)
     \/ \E a \in Authors : ChangeAuthor(t, a) \/ DeleteAuthor(t, a)

Next ==
  \/ \E t \in Requests : Request(t) \/ ChannelStep(t)
  \/ \E t \in Threads : TagStep(t)
  \/ Begun \/ Restart
  \/ FirstLoad \/ Initialized \/ FirstLoadFails
  \/ \E c \in Channels : AddLoaded(c)

Spec == Init /\ [][Next]_vars

-----------------------------------------------------------------------------
(* Properties *)

(* Once loaded, and while no request about the channel is under way, the    *)
(* filter accepts a channel if and only if its document says that it is     *)
(* monitored, whatever sequence of requests led there.  The exceptions are  *)
(* a channel whose requests overlapped, one that changed during the first   *)
(* load, and a first load that failed; the next request that runs alone and *)
(* publishes the status repairs them.                                       *)
FilterFollowsStore ==
  initialized =>
    \A c \in Channels \ staleChannels :
      AtChannel(c) = {} => (c \in monitoring <=> c \in Monitored)

(* After the start, while no change and no load is under way, the tag list  *)
(* is what the enabled configuration and its authors say, unless loads      *)
(* overlapped or one failed; the next change that runs alone repairs it.    *)
TagsFollowStore ==
  begun /\ AtTags = {} /\ ~staleTags => loaded /\ tags = Expected

=============================================================================
