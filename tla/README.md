# CocoMonyaB: specifications and proofs

CocoMonyaB watches Telegram channels through TDLib. A message goes through a
filter chain, is stored, is handed to plugins, and, when its tags match, is
queued in MongoDB and forwarded to a target channel. These TLA+ modules describe
the parts of that path where the order of steps matters, and the interactive
pages of the API documentation that is kept beside it; TLC checks them on small
instances and TLAPS proves the most important properties for every value of the
constants.

Paths below are relative to `src/main/java/org/xlyo/cocomonyab/`, those that
begin with `docs/` to the repository.

## 1. Inventory

| Component | State it keeps | Operations | Hard parts |
|---|---|---|---|
| Sources (`source/`) | registry map, running flag and health of each source | register, start, stop, deliver | start and registration are check-then-act |
| Unread source (`source/unread/`) | collection `unread_messages_buffer`, detection flag | detect, fetch with retries, buffer, replay, retry of FAILED | restarts, timeouts, `PROCESSED` written while an album is only in memory |
| Filter chain (`filter/`) | set of monitored channels, `processingCache` | doFilter, channel events, reload, cache expiry | runs outside every lock; cache and database are two reads |
| Intake (`service/ChannelMonitorService`) | album state, buffer and timestamp maps, lock stripes | handleNewMessage, processTimedOutMediaGroups | timer against message threads, timestamp read before the lock |
| Raw store (`service/message/MessageStorageService`) | collection `raw_messages` | saveMessage | check, then insert; no unique index exists |
| Plugins (`plugin/`) | plugin list, `channel_messages`, `processed_messages` | process, storage plugin, forwarding plugin | exceptions swallowed; two writes of one fact |
| Tag matcher (`plugin/tagforward/component/TagMatcher`) | expanded tag list | load, match, reload on events | reload against match, two reloads in either order |
| Forwarding queue (`QueueManager`) | collection `forward_queue` | enqueue, getPendingItems, updateStatus, incrementRetryCount | updates without a condition on the old status; createTime is read before the insert |
| Scheduler (`ForwardScheduler`) | tick, batch, rate limiter | start, processQueue, stop, callbacks | asynchronous callbacks that do not read the answer, list shared with them, stale copies |
| Read marking (`service/MessageReadMarkingService`) | bounded queue, limiter | submit, drain | full queue, requeue at the tail |
| Channels, tag catalogue (`service/ChannelService`, `service/tag/`) | MongoDB documents | create, update, delete, import | check-then-save, save-then-publish |
| API documentation (`docs/t3d/tdlib/*.js`) | field, address, tabs, result section, menu, index files | type, search, tabs, reset, redirect, index arrival | late index files re-run old searches; delayed searches meet resets; the address does not give back every term |
| Client (`telegram/`), readiness (`SystemReadyService`) | session, ready flag | login at start-up, close at shutdown | none after start-up |

Interactions: TDLib's update thread and the unread replay call
`ChannelMonitorService.handleNewMessage` concurrently; it calls the filter chain
(synchronously, without a lock), then either the album maps (under the album's
lock) or the store and `PluginManager.process`. A `@Scheduled` thread closes
albums and calls store and plugins while it holds the album's lock. The
forwarding plugin calls `QueueManager.enqueue`; the `forward-scheduler` thread
reads the collection; TDLib answers later, and the common pool runs the
callbacks. The unread replay runs on the thread that starts the application,
before the tag list exists, while TDLib already pushes updates. REST threads
write channels, tags and the filter configuration and publish Spring events,
whose listeners (channel filter, tag matcher) run on the same threads while
message threads read the copies. MongoDB and Telegram are the only state that
outlives the process. The documentation pages are separate from all of this: a
browser runs them, and they share nothing with the program.

What makes each part correct:

* queue and scheduler: the rate limit holds; a request is of one channel and
  within the size limit; SUCCESS is only written for what Telegram executed, FAILED
  only when retries are spent; every document settles; first attempts come in
  order; duplicates need a reason;
* intake: the three maps agree; an album and a single message reach the plugins
  once; nothing reaches them that is not stored; what is buffered gets out;
* unread replay: nothing fetched is lost or replayed for ever;
* channel filter and tag matcher: the cached set follows the database once
  events are handled; no message is judged by a half-loaded set;
* read marking: a record said to be read is marked, or known not to be;
* catalogue: a name is unique, a reference points to something;
* documentation search: what is shown, and the address, are of the text in the
  field; "no result" is not said before every index was searched.

## 2. Modules

| Module | Role |
|---|---|
| `ForwardQueue` | `QueueManager`, `ForwardScheduler`, requests, callbacks, limiter, process |
| `MCForwardQueue` | documents, channels and sizes for TLC |
| `ForwardQueue_proofs` | types, rate, size of requests, FAILED: theorems about `ForwardQueue` |
| `SumFacts` | lemmas about sums over finite sets |
| `QueueContract` | what the queue promises: the abstract specification of `ForwardQueue` |
| `ForwardContract_proofs` | SUCCESS is what Telegram executed, and the queue implements its contract, under `SmallBatches` |
| `ForwardOrder_proofs` | first attempts keep their order; under `SmallBatches` no needless duplicate, no spent PENDING document |
| `MessageIntake` | `DuplicateMessageFilter`, `ChannelMonitorService`, `MessageStorageService` |
| `MCMessageIntake` | messages and one album for TLC |
| `MessageIntake_proofs` | theorems about `MessageIntake` |
| `UnreadReplay` | `UnreadMessageSource` with its fetch and buffer services, and what a message goes through after them |
| `MCUnreadReplay` | a single message and an album for TLC |
| `UnreadReplay_proofs` | theorems about `UnreadReplay` |
| `ConfigEvents` | `ChannelMonitoringFilter` and `TagMatcher` with the services whose events they follow |
| `MCConfigEvents` | requests, documents and names for TLC |
| `ConfigEvents_proofs` | theorems about `ConfigEvents` |
| `DocSearch` | `search.js`, `search-page.js` and the index files of the API documentation |
| `MCDocSearch` | nine search terms for TLC |
| `DocSearch_proofs` | theorems about `DocSearch` |

### ForwardQueue

`status`, `retry`, `inserted` (the order of the inserts) and `createTime` are the
collection. `enqueue` is two steps: `Stamp` reads the clock, `Insert` writes the
document; up to `Writers` threads stand between them, and insert in any order.
`ClockSteps` says how far the clock moves from one reading to the next; 0 is two
documents of one millisecond, between which the sort does not decide
(`GetPendingItems` is a set of answers). `pc`,
`todo`, `batch`, `total` and `each` are where `processQueue` stands: `Tick` reads
the pending documents, `ScanAdd`, `ScanFlush` and `ScanOversize` are the cases of
its loop, `Batch*` is `forwardBatch` with `forwardMessages`, `Each*` is the
one-by-one path through `forwardMessage`, `ClearBatch` is line 162. `permits` and
`windowSent` are the limiter (timeout zero, so a refusal ends the tick).
A request is sent, answered (`Answer`), and its callback handles one document per
step (`HandleSuccess`, `HandleError`, then `HandleExhausted` for the second
write), so callbacks interleave with each other and with the scheduler. An answer
without an error need not mean that every message was forwarded: TDLib returns null
for one that cannot be, which the callback does not look at. `delivered` counts the
executed requests of a document, `whole` has those all of whose messages were
forwarded; of the documents in `Refusable` a request may leave messages out.

`todo` and `batch` hold copies: the retry decision uses the count of the copy,
the increment goes to the database. The callback of a batch request iterates the
very list that `processQueue` goes on using; `captured` is what it will still
see and `alias` says that the list is still the scheduler's. `ReplaceBatch`
applies every `clear` and `add` to the callbacks that share the list: one that
has not begun sees the new content, one under way ends with a
`ConcurrentModificationException` or at the end of the list. This sharing is why
the model cannot treat a batch as a value.

`Crash` keeps only the collection; requests under way may or may not have been
executed. `Stop` is the scheduler's shutdown (callbacks go on) and `Exit` the end
of the process after it. `WriteFails` and the two `*Throws` actions are the
exceptions of MongoDB and TDLib the code catches. The `!isReady()` returns are
left out because nothing can reach them: the session exists before `start()`
is called and is never cleared.

`UniqueIndex` says whether `idx_source_unique` exists. The entity declares it, but
`MongoIndexInitializer` does not create it and automatic index creation is off,
so FALSE is what the program does as it stands and TRUE is what
`docs/arch/数据库结构文档.md` (lines 771-779) describes.

### QueueContract

`QueueContract` knows documents, their `verdict`, the set `executed` of those for
which Telegram executed a request, and the set `forwarded` of those all of whose
messages it forwarded: `Put`, `Forward`, `Succeed` (only of what was executed; the
queue does not learn more), `GiveUp`. It has no ticks, batches, requests or retries,
and it lets a later verdict replace an earlier one, because the program writes them
without a condition. `ForwardQueue` instantiates it with `verdict <- status`,
`executed` the documents delivered at least once and `forwarded <- whole`;
`HonoursContract` says that every behaviour of the queue is one of the contract. The
shared list (finding 2 below) is what breaks it where a tick fills two batches.

### MessageIntake

Each thread is at `filter`, `mark`, `handle`, `save` or `plugins`: the places
between which another thread may act. `Filter` is both checks of the duplicate
filter and `Mark` the later `put`; `HandleMediaGroupMessage` is one step because it
holds the album's lock (it waits while `cur` is its album). The timer reads the
timestamps without a lock (`StartScan`, `SeeDue`), claims under the lock
(`Claim`), and after the scan processes each claimed album while holding its lock
(`BeginAlbum`, `SaveItem` per message, `FinishAlbum`). `stamp` tells "timed out"
from "fresh"; `Elapse` is the clock. `Expire` drops a cache entry at any time,
because the TTL and the size limit of the cache may do so. Of an album only the
first message ends in `raw_messages`, since `isDuplicate` asks for the album
(`ItemStep`). `raced` is history: the single messages that two threads took past
the filter, which reads its cache in one step and writes it in another.

The other filters of the chain accept or reject a message independently of this
state and are left out; so is `failedCache`, which is never read. `RawMessage`'s
unique indexes are never created, so the `DuplicateKeyException` branch is not
reachable and not modelled.

### UnreadReplay

`phase` is where the start-up thread is inside `@PostConstruct`: it handles what
the last run left PENDING (`Start`), then what it left FAILED (`RetryFailed`),
then visits every channel (`Detect`, `Visit`): `ReadPage` until the history ends
(`fetch`), `Buffer` one message at a time (`buffer`), `Take` and the two `Mark*`
steps for each (`replay`). `Refresh` is the end of the context's refresh, `Ready`
the `ApplicationReadyEvent`, at which `TagMatcher` loads its list. So during the
whole replay `loaded` is FALSE; the timer, too, only runs after `Refresh`.
`wired` says whether the filters and plugins have been registered when the source
is initialised: nothing orders the two beans, so `Start` leaves it open.

TDLib decides how long a page is (any length from one up), whether a request
fails, and when it pushes a message as an update (`Hear`). A page shorter than
`PageSize` ends the fetch; `cut` remembers that older messages were left. A retry
asks for the same page again. An error that is not retried gives the channel up
(`AbortChannel`), and the loop goes on with the next.

The three threads (`boot`, `live`, `timer`) take a message through `filter`, `save`,
`plugin`, `match`, `enqueue` and `record`: a coarser `MessageIntake`, in which the
filter is one step, followed by `doHandle` in full. The parts of an album wait in
`open` until the timer takes them (`CloseAlbum`; `hand` has them). `SaveAlbum` saves
the first (the store takes the others for duplicates), drops the parts that cannot
be parsed, and makes one entity of the rest, under the id of the first. The plugin
looks up and records that id only (`Write`); `handled` is history, the parts whose
entity was recorded. `Pushed` bounds what TDLib also pushes, so that a part may be
known to the replay alone. A part that comes after its album was closed or stored is
refused (`Late`).

`record` is `processed_messages`; what it says decides whether a later start fetches
the message again. `Drop` and `HandleFails` are the error paths, including a
`saveProcessedMessage` that fails and is swallowed. `lost` collects the messages that
no document accounts for, with the reason known: a crash between the store and the
record, an album in memory at a crash, an empty plugin list, a failure, an album
closed without the part.
`Expire` is the TTL index of the buffer; it is modelled while the program is down,
long enough for every document to have gone.

### ConfigEvents

A REST thread reads (`Create`, `Update`, `Delete`, `ChangeConfig`, ...), writes
(`SaveChannel`, ..., `EraseAuthor`) and then runs the listener of its event itself
(`Publish`, `Remove`, or the load `FindConfigs`, `FindEntities`, `Assign`). Each is
a step, because neither a lock nor a transaction holds them together. The first
message loads the channel set (`FirstLoad`, `AddLoaded` per channel,
`Initialized`) under a lock that the events do not take. A load of the tag list
that cannot read one kind of entity takes it for none; one that cannot read the
configurations leaves an empty list.

`alone`, `staleChannels` and `staleTags` are history: which operations nothing has
overlapped, and which copies an overlap or a failure may have spoilt. The two
properties say that this is all that can spoil them, and that the next operation
that runs alone repairs them. Authors stand for works and characters, whose
services and listeners do the same.

### DocSearch

A page is the search page or any other page with the box in the header. The five
index files arrive in any order or not at all (`IndexLoads`, `IndexFails`); each
calls `updateSearchResults`, a closure over the last search that started before
all of them were there (`rerun`). On the search page `TypeOnPage`, `PageTimer`,
`ClickTab`, `Turn*` and `ResetPage` are the handlers, `PageSearch` is
`doPageSearch` with `setSearchUrl` and `renderResults`. The address is modelled as
it is read: `ReadBack` says what `URLSearchParams` makes of `encodeURI` of a term, a
shorter query, a category or the redirect flag (`Written`). `Opened` are the addresses
such a page is opened with: those it writes, and those a browser makes of the
template in `setSearchUrlTemplate`, where the term is escaped. A category that does
not exist (`Stray`) makes `renderResults` throw (`RenderStray`). In the box, `TypeInBox`, `BoxTimer`,
`Select`, `Escape` and `LeaveBox` are jQuery UI's autocomplete (external) with
`doSearch` and the `select` handler of `search.js`. How a term matches an entry is
data: `Found` gives each category's number of matches and best score.

## 3. Runs

| Run | Instance | What it shows |
|---|---|---|
| `ForwardQueueOverlap` | 2 documents, equal or different createTimes, 2 requests in flight, no faults | without a flush inside a tick SUCCESS is only written for what was executed, and the contract is kept; a duplicate or a spent PENDING document needs an overlap; first attempts keep their order |
| `ForwardQueueRestart` | 2 documents with 2 writers, one that Telegram may forward in part, 1 request, 1 fault, fairness | every document settles; the types hold; contract and order survive crashes, partial answers and inserts in either order |
| `ForwardQueueSplit` | 4 documents (a single, 2 albums, an oversize album sharing a key), batch 3, limit 3, unique index | rate, request size, FAILED, order of first attempts |
| `ForwardQueueFinal` | 2 documents, 2 requests in flight | violated: final states are overwritten |
| `ForwardQueueAlias` | 3 documents, 1 request, flush inside the tick | violated: a callback marks SUCCESS what was not forwarded |
| `MessageIntake` | 2 threads, album of 2, single, 3 deliveries, 1 fault, 1 restart, fairness | maps agree; an album is dispatched once; a single message twice only after a race or a fault; stored before dispatched; what is buffered is dispatched unless a fault or restart intervenes |
| `MessageIntakeRace` | the same without faults and restarts | violated: two threads pass the filter with one message |
| `MessageIntakeRetry` | album of 2, 1 fault | violated: nothing is left to retry |
| `MessageIntakeTwice` | album of 2, 4 deliveries | violated: a message is in its album twice |
| `UnreadReplay` | a channel with a single message and an album of 2, one part of which TDLib does not push; pages of 2, limit 3, 1 retry, 1 fault, 1 crash, fairness | what is PROCESSED or matched can be accounted for; fetches have no gaps unless cut; only given-up channels leave PENDING; the start-up ends; no single message it replays is forwarded |
| `ConfigEvents` | 2 requests, 2 documents of one channel, 1 author, 2 names, 1 fault | both copies follow the database, except after an overlap or a failure |
| `DocSearch` | 9 terms, 5 categories | page, address, tabs and menu agree with the text whatever order keys, timers, resets and index files come in; a term that `encodeURI` protects is found again |

Bounds. Two documents of different channels give the mixed-batch path, four with
sizes 1, 2, 2 and 4 against a limit of 3 give every case of the split: what fits,
two albums that do not fit together, and one that never fits. Two
requests in flight are the least for callbacks to overtake each other, and two
retries the least that tell a stale count from a current one. `MaxRetry`,
`RateLimit` and `BatchSize` are configuration; `MaxInFlight` (a request is not sent
while none of the request slots is free), `MaxFaults`, `MaxDeliveries` and `MaxCrashes` are bounds
of the model. One album suffices because albums meet only in the timer's list
and in the stripes of `groupLocks`; the theorems cover any number.
Two `Writers` are the least that insert out of order; the Split and Overlap
runs have one, as they ask other questions. `ClockSteps` are 0 and 1, or 1, because
only the order of the times matters. `Refusable` has the single message, the shortest
document that is forwarded in part. `ForwardQueueSplit` uses a `VIEW` without the
history variables none of its properties mentions. `MaxDeliveries` counts the
deliveries of all messages together.

`UnreadReplay`: three messages give a page that is full, one that is cut short, a
message pushed while it is fetched, and a second page. The single message and the
album are the two ways through the filter; of the album's two parts the first may
come alone, late, or not at all, and the tag is in the second. `Pushed` and the one
channel keep the instance small; the theorems cover any number of channels, albums
and parts. One crash with one fault covers a replay after a crash, and a
fault in it; `MaxTotal`, `PageSize` and `MaxRetries` are configuration,
`MaxFaults` and `MaxCrashes` bounds of the model. `ConfigEvents`: two documents of one
channel allow it to be deleted and created again under a new `_id`; two requests
are the least that overlap, two names the least that tell an old list from a new
one; symmetry over requests and over documents, neither of which is ordered or
named. `MaxFaults` bounds exceptions and restarts together. `DocSearch`: the terms
are one with results in many categories (so that there are tabs), one in few, one
without any, one that ends with a dot with more members than types, the case
`search-page.js:107` treats specially, and five that `encodeURI` does not protect: cut
by `#`, with a category and the redirect after `&`, with a category that does not
exist, with nothing but a category, and `+`, which is read as a blank. It needs no
bounds beyond the terms.

`CHECK_DEADLOCK FALSE` everywhere but in `DocSearch`: a queue with nothing
pending, an intake with no message left, a program whose crashes, faults and posts
are used up are at rest.

Fairness. `WF(SchedulerStep)` and `WF(Start)`: `scheduleAtFixedRate` on a thread of
its own, whose task catches every exception. `WF(Answer)` and `WF(Callback)`:
TDLib completes each request's future, with an error if need be, and the common
pool runs the callback. `WF(RefreshPermits)`: the limiter's period. `WF(Exit)`:
a shutdown ends. A send that is answered succeeds or counts a retry, so no fairness
between success and failure is needed. In `MessageIntake`: threads run, the clock advances,
`@Scheduled(fixedDelay = 1000)` fires. Faults, crashes and deliveries have none. In `UnreadReplay`:
`WF(BootStep)`, one thread, each of whose waits ends: the limiter's permit, the
request (30 seconds), the back-off. Nothing makes a request succeed: `StartUpEnds`
rests on the bound of the retries and on every page being older than the last.
`ConfigEvents` and `DocSearch` state no liveness and no fairness.

The findings. Five runs end in a violation (1, 2, 6, 7, 8). In the other six the
program does less than its documentation says, and the property that holds is
weaker for it; the exception it makes is named.

1. `FinalStatesAreFinal`, violated: `数据库结构文档.md:784-785` calls SUCCESS and FAILED
   final; `updateStatus` has no condition and documents in flight stay PENDING.
2. `SuccessMeansForwarded`, violated: the comment at `ForwardScheduler.java:301`; the
   callback iterates the list that lines 162 and 178 have changed by then. It
   takes more than 100 messages in one tick: at the default `batch-size` of 10 and
   ten messages to an album only an album that holds a message twice (see 7) gets
   there; with a larger `batch-size`, which nothing forbids, ordinary albums do. The
   document may not even have been tried: the tick that refilled the list can be
   refused its permit, and a younger document is then forwarded while the older one
   never is. `FirstAttemptsInOrder` therefore speaks of documents that still wait,
   and `ForwardQueueSplit` contains this case.
3. SUCCESS of a document that was forwarded in part or not at all:
   `数据库结构文档.md:784` says "转发成功", the bundled
   `TdApi.ForwardMessages.html:102` that TDLib answers null for a message it cannot
   forward; the callbacks (`ForwardScheduler.java:290-306`, `382-391`) do not read the
   answer. `SuccessMeansAnswered` and the contract therefore ask of SUCCESS only that
   Telegram executed a request; `ForwardQueueRestart` contains such answers, and
   `SuccessMeansForwarded` is false in it.
4. First in, first out: `数据库结构文档.md:792-794` promises it, by `createTime`, which
   `QueueManager.java:56` reads before the insert at line 61. With a tick between two
   inserts a younger document is sent before an older one. `FirstAttemptsInOrder` speaks
   of documents inserted in the order of their times; `ForwardQueueRestart` has the others.
5. The parts of an album: `UnreadMessageFetchService.java:198-200` means to leave out
   what is processed, but of an album only the first part has a record
   (`ChannelMonitorService.java:432-433`, `TagBasedMessageForwardingPlugin.java:409`). Every
   start fetches and buffers the others again; their entries become PROCESSED without
   a record. `ProcessedIsAccountedFor` takes a part for recorded if its album's document
   is there, under whichever id.
6. `RetryKeepsAlbum`, violated: the comment at `ChannelMonitorService.java:360`; the
   buffer was removed at line 319.
7. `AlbumHoldsMessageOnce`, violated: the comment at `DuplicateMessageFilter.java:199`;
   the mark is never read for album messages.
8. `SingleDispatchedOnce`, violated: `DuplicateMessageFilter.java:21-22`, `45` and `120` say
   that the cache prevents concurrent duplicates; `getIfPresent` (121) and `put` (149) are
   two steps. `OnlyRacesRepeatSingles` says that nothing else but a fault repeats one.
9. `StartupReplayNeverForwards` holds, and should not: `UnreadMessageSource.java:49`
   promises that no message posted while the program was down is missed, but the
   replay is over before the tag list is loaded, and `doHandle` (line 337) records
   what it sees without a list as processed and unmatched, for good. Only albums,
   which the timer closes later, and what TDLib pushes itself can be forwarded.
10. `FetchHasNoGaps` has the exception `cut`: the comment at
   `UnreadMessageFetchService.java:123` takes a short page for the end of the
   history; TDLib's documentation (`docs/t3d/tdlib/.../TdApi.GetChatHistory.html:234`)
   says that it may return fewer messages than asked for at any time.
11. `AddressReopensTab` has the exception `Whole`: `search-page.js:234` writes the query
   with `encodeURI`, which leaves `#`, `&` and `+`; lines 267-269 read it with
   `URLSearchParams`. `Object#toString` is reopened as `Object`, `a&c=members` with a tab.
   The exception of `RedirectIsNoTrap`, a term that spells `r`, is of the same kind.

## 4. Proofs

The theorems are of the form `Spec => []Inv`, from the named assumptions on
the constants only (types, and positive sizes and limits); those of
`ForwardContract_proofs`, and most of `ForwardOrder_proofs`, have one more premise;
one is a step simulation, one an action property.

`ForwardQueue_proofs`

* `TypesAreRight`. The inductive form `TypeInv` adds what the actions rely on: a
  batch that is forwarded is not empty, `todo` is not empty while scanning, a
  failing callback still has its document, an empty batch counts zero.
* `RateIsRespected`. `windowSent + permits <= RateLimit` is inductive given the
  types: each send pays one permit, other steps only lose permits.
* `FailedIsExhausted`. FAILED is decided on copies. The strengthening says that no
  copy, in `todo`, `batch`, `each` or a callback, is ahead of the database
  (`CopiesBehind`), and that a callback between its two writes has a spent document
  (`FailingExhausted`). `RetryNeverFalls` carries the first over each step: the counts
  only grow, so copies stay behind, and "copy + 1 >= MaxRetry" after the
  increment gives "stored >= MaxRetry".
* `RequestsAlwaysFit`. `BatchFits`: the running total counts at least the messages of
  the batch and never passes the limit, and so does each document left of a mixed
  batch. "At least", because a batch that held a document twice would count it twice.
  The sums are the library's `SumFunctionOnSet`, a recursive function over subsets,
  which `SumFacts` makes usable: the sum of a finite set of naturals is a natural
  number and does not depend on the order (`SumAnyOrder`), and one more element
  adds its number (`SumAdd`). The library's induction theorems cannot be
  instantiated here, so these lemmas argue by a least counterexample, a set of least
  cardinality for which they fail.

`ForwardContract_proofs`

* Premise: `SmallBatches(K)`, no document has more than K messages and
  `BatchSize * K <= MaxPerRequest`, so that no tick can fill two batches. It is
  what the default configuration gives for documents of ten messages; the run
  `ForwardQueueAlias` is what happens without it.
* `SuccessWasAnswered`. `OneFlush` says that batch and rest of a tick fit one
  request and that a callback shares the list only while the scheduler is idle;
  `KnownInv` that all copies are of documents in the collection; `Honest` that what
  a callback will still mark SUCCESS was in its request, and was executed once the
  answer said so.
* `SuccessWasForwarded` has the premise `Refusable = {}` besides: then `whole` is what
  was delivered. Partial answers and the shared list are thus all that stands
  between SUCCESS and what the documentation says of it.
* `QueueKeepsContract`: `Init` maps to the contract's `Init`, and each action to one
  of its actions (`Answer` to `Forward`, `HandleSuccess` to `Succeed`, ...) or to a
  stutter, under the same invariant; answers that leave messages out are included.

`ForwardOrder_proofs`

* `Line` is the list of copies the thread has still to try: the batch, or what
  `forwardBatch` has left of a mixed one, and the rest of the tick. `LineStep` shows
  that every step drops it, takes what it tries from its front (nothing, one
  document or a batch), or, in a tick, fills it.
* `FirstAttemptsKeepOrder`, without a premise, for any number of writers and any
  clock. `InTurn`: before each document of the line come those that were inserted
  before it and are older, or they wait no more (`Past`: tried or judged). A tick
  sets that up, because an older document it does not read is not PENDING; a verdict
  is overwritten by another verdict at most, so `Past` only grows. A document that is
  inserted now comes after all that are there, whatever its time.
* `NoneIsOvertaken`. Under `SmallBatches` what callbacks hold, and what was judged, was
  tried (`Judged`); with the invariant above, every older document that was inserted
  earlier was tried before a younger one. Without the premise this is false, see
  finding 2 in section 3; without "inserted earlier", see finding 4.
* `NoDuplicateWithoutCause`, `PendingIsNeverSpent` (the same premise). While nothing has failed and no
  tick has overlapped a callback (`Calm`), every document is in one place (`Apart`): in
  the line, not forwarded, with a true copy (`LineOnce`); in the hands of one callback,
  forwarded exactly if the answer says so (`HandOnce`); or in neither, and then judged,
  or not forwarded and with a retry left (`Waiting`).

`MessageIntake_proofs`

* `TypesAreRight`, with `Handling`: an idle thread has no message and only single
  messages get past `handle`.
* `MapsAlwaysAgree`: `MapsAgree` with "the album in process is not claimed".
* `PluginsSeeOnlyStored`: a message at `plugins`, or parsed in the current album, is
  stored or met a fault.
* `AlbumOnce`: once an album was dispatched, its state is COMPLETED until a
  restart, and after one it is in the store (or a fault met it), so nothing of it
  passes the filter.
* `OnlyRacesRepeat`: at most one thread is past the filter with a single message that
  neither a fault nor a race excuses; while it is, and afterwards, the store or
  the thread's own place bars the others. The race itself is `HeldBeyond`, in the
  step that passes the filter.

`UnreadReplay_proofs`

* `TypesHold`. The inductive form adds `Busy` (a thread that is not idle has a
  message) and `Visiting` (what is fetched or replayed is a channel). `LeastMember` and `GreatestMember` show that
  the library's `Min` and `Max` of a finite set of naturals are in it.
* `MatchedIsQueued`: a thread at `record` has queued its message already.
* `ReplayNeverForwards`. `Staged`: the list is not loaded before `ready`, and then
  the start-up thread has finished; `Sources`: the live thread has only what was
  heard, the timer only albums. So nothing else gets to `enqueue`.
* `FetchIsComplete`. Inductive is `Fetched`: every message of the channel from
  `from` up to `top` has a record or is in `found`; records stay. A page is a top segment of
  what is older than `from`, so it extends that range without a gap.
* `ProcessedIsKept` and `PendingIsAborted`. `Booked` says where the work is:
  what is to be handled is PENDING, and what is PENDING is to be handled, in the
  start-up thread's hands, or in a channel given up. What the filter refuses, or the
  start-up thread has finished, is handled, in another thread's hands, with the timer
  or lost, and what is handled has its entity's document among the parts of its
  album: the thread that refuses a message is never the last to hold it.

`ConfigEvents_proofs`

* `TypesAreRight`, with `Fitting`: what a thread has read fits its next step.
* `FilterIsRight`. `Lonely`: an operation that is alone is the only one on its
  data; `OneDocument`: a channel has at most one document; `Known`: what an operation
  that is alone has read is still what the database says. `Copies` then compares the
  copy with the database for every channel nobody has written about without
  announcing it.
* `TagsAreRight`: the same for the list, by the step at which the load stands
  (`Listed`, `TagCopy`).

`DocSearch_proofs` (for any terms; a category has a score exactly if it has matches)

* `TypesHold`. `Life` says what the handlers rely on: a search that is to be run again
  has a term, a page starts empty, and the search page answers no input before every
  index file has answered (`AllAnswered`: `search-page.js` waits for all of them).
* `PageIsCurrent`, `AddressIsStable`, `OneTabIsEnough`, `RedirectIsLeft`, for any `ReadBack`, by `PageInv`: a
  delayed search never redirects, a blank field shows nothing, and the tabs are those
  of the answer that is shown (`TabsShowAnswer`), so that a tab one clicks has
  results. `SearchReopens` is the heart of the second: the tab is in the address only
  if it was fixed, and without it the leading tab does not depend on the one before.
  `LeadingIs` and `TabHasEntries` show that the tab a search ends with has entries.
* `TypingStays`: an action property, from the same invariant.
* `MenuFollowsBox`, `MenuCatchesUp`, `NoneIsTrue`, by `BoxInv`: an open menu is the
  answer from the indexes that are there to the term searched last, and that search
  is run again until all are (`MenuInv`); a re-run opens no other menu (`RerunInv`).
  `IndexKeepsMenu` is the step of a late index file.

Only model-checked: `EveryItemSettles`, `BufferedIsDispatched` and `StartUpEnds`
(liveness under fairness is out of TLAPS's reach). Every other property of a passing run
is a theorem; `SuccessMeansAnswered`, `HonoursContract`, `NoNeedlessDuplicate` and
`PendingHasRetriesLeft` under `SmallBatches`, which the run `ForwardQueueOverlap` satisfies.

## 5. What is not modelled

* Parsers, view objects, REST queries, console output, metrics: conversions and
  output. Whether the parser throws is modelled.
* MongoDB and data directory set-up, authentication: before anything else runs.
* A database exception on the scheduler thread ends the tick; only callback
  writes and sends are made to fail. `FailAll` writes its documents in one step.
* `saveAll` and `clearCache`: no caller. `startMonitoring` and `stopMonitoring` of
  the services, `reloadMonitoringChannels` and the event `RELOAD_ALL`: nothing in
  the program calls or publishes them. That the reload clears the set before it
  fills it therefore harms nobody yet.
* Read marking: a bounded queue with a limiter; what it drops when it is full is
  only a read flag at Telegram, which no other part reads.
* The channel message plugin: it checks and saves a document nothing else reads.
  `EmptyMessageFilter` has no state. The registry's map and the health flags are
  only displayed.
* The tag catalogue's uniqueness checks, references between works and characters,
  and imports: the tag list only depends on the entities a configuration lists,
  and no configuration lists what has just been imported.
* How a text is matched with tags (a substring test).
* The TTL of the unread buffer while the program runs: it is seven days, and a
  start handles what it buffers at once. The TTL of `forward_queue` (30 days, for
  documents of any status): a document PENDING for that long is deleted unforwarded.
* Of the documentation pages: how a term matches an entry (`findMatch` and the
  patterns), the navigation bar, the tables of a class page, copying a link, an
  address with an empty category, and blanks around a term that was read back.
* The Vue interface and the Python scripts.

## 6. What would come next

The remaining parts of the program have little order to get wrong. Worth adding,
in this order: what `NoNeedlessDuplicate` and `PendingHasRetriesLeft` become for ticks
that flush several batches, where a callback may hold documents it never sent;
a larger `ConfigEvents` with a character, whose work is deleted meanwhile; the
document pages' navigation; read marking, should anything come to depend on it.
