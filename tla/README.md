# TLA+ for the rating service

The repository is a service that keeps a weekly rating of traders: a client sends what its users do
(`user_registered`, `user_renamed`, `user_connected`, `user_disconnected`, `user_deal_won`), and the
service sends every connected user its place in the rating when it connects and once a minute. This
directory holds a model of it, checked with TLC and, in part, proved with TLAPS.

Everything is modelled with `PASS_NAMES_AROUND` defined (`CMakeLists.txt`), assertions active
and `workerPoolConcurrency` = 2 where a run needs a number.

## Inventory

| component | state | operations | talks to |
|---|---|---|---|
| Overseer (`service/overseer.cpp`) | session objects, the claimed buffer `inData` | start a session, receive and dispatch messages, switch buffers, handle a failure, tear down, recover or end | creates everything; claims buffers; sets and reads the stop flags |
| Rating announcer (`rating_announcer.cpp`) | next second of the minute, expiration of the week | sleep, recalculate, announce one second's users after the other | runs the calculator on its thread; fills the job queues |
| Rating calculator (`rating_calculator.cpp`) | silent and active users, rating vector, chrono sets | swap the buffers, wait for writers and readers, five passes over the buffer, rebuild the vector, wake the workers | buffers, rating data, error queue, `CoreDataSyncBlock` |
| Worker pool (`worker_pool.cpp`) | per worker: top-of-rating cache, queues | answer promises, announcements and errors; go to sleep for a refresh | reads the rating data; writes to the transport |
| Message dispatcher, buffers (`message_dispatcher.cpp`, `core_data.h`) | two `IncomingDataBuffer`s | one handler per message | job queue (a promise per connection) |
| Job queue (`job_queue.cpp`) | lock-free queues per worker, round-robin indices | enqueue, dequeue | announcer, calculator, listener to workers |
| Message builder, protocol, transport, streams, spinlock (`message_builder.h`, `ipc/`, `utils/`) | socket, write lock, byte buffers | handshake, framing, encoding | client |
| Date and time (`utils/date_time.h`) | none | week start, next minute and second | announcer, dispatcher |
| Test application (`test/`) | its own copy of the users | sends messages, judges reports | client side of the service |

Three kinds of threads run: the overseer, which is also the listener; the announcer; the workers.
They meet on `refreshInProgress`, `dataReaderCount`, `bufferWriterCount`, `currentBuffer`, a mutex
with a condition variable, and the queues. What is hard:

* the calculator takes no lock while it rewrites the rating: exclusion rests on counters that are
  decremented and incremented by others, some steps away from what they stand for;
* queues hold raw pointers to users that a recalculation may delete, and workers hold cached bytes;
* a session may end in any of these steps, and the next one starts on the same counters;
* jobs of one minute are spread over several workers, which write to one socket without waiting for one another;
* seconds are slept through one by one, late each time, while minutes and weeks are read from the clock;
* news is applied a minute at a time, by kind instead of by arrival, while the next minute's news comes in;
* the rating vector is patched in place, from its end, by offsets computed against the old rating.

What makes each part correct: the calculator is alone with the data and with the buffer it empties;
no wake-up, no announced user and no news gets lost; every refresh and every tear-down ends; the
patched vector is the sorted one; maps, vector and chrono sets agree; what is reported is what the
client can account for; ratings arrive once, whole, in order and in time, and are reset once a week. `PROJECT.json` lists the single hazards with their lines.

## Modules

| module | models | extends |
|---|---|---|
| `CoreSync` | the threads of a service and its sessions | |
| `MCCoreSync` | two workers | `CoreSync` |
| `CoreSyncLate` | the same without any assumption on pace, with a record of the threads a new minute has overtaken | `CoreSync` |
| `CoreSyncProofs` | theorems about both | `CoreSyncLate` |
| `MPSCQueue`, `MCMPSCQueue` | `push` and `tryPop` of the lock-free queue, by accesses to memory | |
| `FifoQueue` | abstract: what a queue promises its producers and its consumer | |
| `MPSCQueueProofs` | theorems about `MPSCQueue` | `MPSCQueue` |
| `JobDelivery`, `MCJobDelivery` | round robin, the workers' queues, refreshes, the write lock and the socket | |
| `JobDeliveryProofs` | theorems about `JobDelivery` | `JobDelivery` |
| `RatingAnnouncer` | the announcer against the clock: ticks, minutes, weeks, sessions | |
| `RatingAnnouncerProofs` | theorems about `RatingAnnouncer` | `RatingAnnouncer` |
| `RatingMessages`, `MCRatingMessages` | a worker's message buffers, and the client that reads from them | |
| `RatingMessagesProofs` | theorems about `RatingMessages` | `RatingMessages` |
| `RatingPatch` | patch entries and the loop that applies them, as operators | |
| `RatingPatchProofs` | lemmas about patches, rankings and the loop | `RatingPatch` |
| `RatingRebuild`, `MCRatingRebuild` | that loop, one iteration a step | `RatingPatch` |
| `RatingRebuildProofs` | theorems about `RatingRebuild` | `RatingRebuild`, `RatingPatchProofs` |
| `MessageDispatcher` | buffers, promises, a handler per message | |
| `RatingCalculator` | the passes over a minute's buffer | `RatingPatch`, `MessageDispatcher` |
| `RatingService` | dispatcher, double buffer, calculator and promised ratings together | `RatingCalculator` |
| `RatingBoard` | abstract: what the rating data promises | |
| `ClientView`, `MCClientView` | the service beside the test application's storage, and beside any other client | `RatingService` |
| `RatingServiceProofs` | theorems about `RatingService` and `ClientView` | `ClientView`, `RatingPatchProofs` |

### CoreSync

One program counter per thread, named for the statement to be executed next, and one step per access
to something shared. `O...` actions are `Overseer::run` and what it calls, `A...` are
`RatingAnnouncer::doWork` with `RatingCalculator::recalculate` inlined, `W...` are
`WorkerPool::doWork`. Data is reduced to who may touch it: `userDataQueue` is the set of workers whose
queue holds announced users, `topCached` those whose cache shows the current rating. Faults of the
environment (a lost connection, a malformed message, a refused handshake) are actions that the
constant `Faults` admits. Memory is sequentially consistent: the relaxed orderings of the code are
not modelled.

The constant `Paced` stands for a fact about time. A worker that wakes up counts itself some
instructions after the refresh is over, a listener claims its new buffer some instructions
after it gave up the old one, and nothing but time keeps the next recalculation, usually a minute
later, from starting in between. `Paced = TRUE` says that these instructions are over when a new
minute starts (`AMinuteOver` waits for `Settled`). It is an assumption and not a guarantee: an
announcer that is late does not sleep between its seconds (`rating_announcer.cpp:71`), and it is late
by as much as the listener kept it waiting. With `Paced = FALSE` in `CoreThreads.cfg`, `ReaderExclusion` fails,
although the comment in `rating_calculator.cpp:367` expects to be alone with the data: a worker that has left the
condition variable but has not counted itself yet is not waited for. `BufferExclusion` fails in the same way,
by a listener between `ORelease` and `OClaimNew`. `NoJobOutlivesRefresh` and `TopCacheFresh` fail as well: such a worker may
doze through two refreshes. `NoLostWakeup` holds at any pace.

`CoreSyncLate` says what is left without the assumption. `lateWorkers` and `lateListener` record who was in one of these
gaps when a refresh began, and `OnlyLateWorkersRead` and `OnlyLateListenerWrites` say that nobody else is in the
calculator's way, under any scheduling at all. Both are proved (below), and no run is needed for them.

A refused handshake throws before the session has claimed a buffer, so that the handler's `inData->...`
(`overseer.cpp:112-114`) is a null dereference (`OCaught` goes to `crashed`), although the exception is the recoverable one
and the message printed announces a recovery. `RefusedHandshakeRecovers` says what is announced, and `core_handshake` finds it violated.

One thing more the model has and no run shows: a refresh ends only when the listener has given up its buffer,
which it does after a message. A client that sends nothing stops the ratings that `README.md:13` wants each minute, and
`RatingsKeepComing` is stated for a client that keeps sending.

### MPSCQueue

A producer is at one of three places: before `push`, between making the node and `tail.exchange`,
and between the exchange and the store of the link. The consumer is before its loads, before `head.store`, or
before the `delete`. What only one thread can see is merged into the step next to it. The release and
acquire orderings of the code are what makes sequential consistency a fair picture here: the fields of a
node are written before the link that leads to it is stored. `Nodes` are addresses, and a deleted one may
be allocated again; with finitely many, a producer waits for an address, which a real one does
not. `chain` is a history variable, the nodes in the order of the exchanges.

`FifoQueue` says what is promised: a job takes its place with the exchange, and `tryPop` may fail while the
queue is empty or while some push is unfinished, which is weaker than a FIFO of atomic operations.
`CoreSync` uses no more than that: a worker polls, and a queue that looks empty is looked at again.
The exception is `depleteUserDataMessages`, which stops at the first failure; the announcer, the only
producer of that queue, is inside the recalculation then and has no push under way.

### JobDelivery

The way of a job from its producer to the socket. Each of the three queues of a worker has one producer (the calculator
for errors, the listener for promises, the announcer for users), so that of `FifoQueue` a plain sequence is left. A
producer deals its jobs out in turn (`current`); a worker empties its queues one after the other, and
builds each frame from the rating of the moment (`data`), which is why the job's own minute (`epoch`) can be
compared with it. The refresh, whose parts are `CoreSync`'s, is a flag that goes up, a wait for all workers
to sleep, and one step; `RaiseRefresh` waits for sleepers of the last refresh as `Paced` does. A frame
is written in two pieces, since `asio::write` repeats `write_some` until everything is out. The lock of
`blockedWriteMessage` is modelled as it is written: the `lock_guard` is an unnamed temporary and gone before
the write (`Lock`, `Unlock`, then `WriteFirst`). A promise to the id -1 looks like an empty queue
(`job_queue.cpp:141`); it is taken and never answered (`swallowed`), and ends the worker's turn at the
promises, but not what is behind it (`PromisesAreAnswered`).

### RatingAnnouncer

One thread and the clock, in ticks; the other threads are left to `CoreSync`. `expiration` is the only state
that outlives a session. Everything that waits (`sleep_until`) returns 1 to `Latency` ticks late, a recalculation takes up to
`MaxRecalculation`, everything else is immediate. A behaviour follows one thing: a deal, from its arrival to the
buffer, the rating and the reset (`followed = Never`), or the announcements of the first or of the last chrono set.

What the code does at the end of a week: the minute is over, the week's start has moved, and one more minute is served from
the old rating (`weekJustTurned`); then the announcer sleeps to a full second, looks up its set on the clock, and
the recalculation drops the old rating. A turn so takes two minutes and a second, and an announcer that finds
an old expiration when it starts drops the rating at once. `OldDealsExpire` and `DealsCountAllWeek` bound this
from both sides. They have two exceptions, in their statements: deals of a week's first minute (they are dropped with the old
rating) and deals of a week's last second, which may count as the next week's if a session is recovered in that second.

The turn takes the set from the clock but leaves `steadyIntervalStart` (`rating_announcer.cpp:94`), contrary to what the
comment above it says, and unlike the test application, which sets its own ticker anew
(`test/strategy.cpp:212-214`). The ticker is then ahead by up to a second per turn (`week_ticker`). It is why
`OnceAMinute` and `DealsCountAllWeek` grant a second, and why, in a second turn in one session, the first minute's deals may
be dropped although they came after the turn. The bounds `DealsCountSoon` and `MinutesAreRegular` are for
`Delay = 2 * Latency + MaxRecalculation` of less than a second; with a longer one the ticker is ahead by more after a turn, and
`OnceAMinute` fails by as much.

### RatingMessages

One worker, its buffer for ratings with the cached top, its buffer for errors, and a client that reads
what it has been sent. An action is a call of `cacheTopRatings`, `processRatingImpl` or `processError`
with everything they do to the streams. A stream is a sequence of cells instead of bytes: the size, the code, the
three numbers of a header as one, an entry with its name as one. That is sound because what is overwritten (header
and size) always has the size of what was there, and everything else is appended. `request` is a
history variable: what the message was made for. How many entries a pack has is computed by the
service from index ranges (`RangeBegin`, `RangeEnd`) and by the client from the user's place
(`EntryCount`); `ExpectedPlace` is where the test application looks for an entry in its own rating.
`PackIsRead` and `PlacesAgree` say that these fit together. They need
`TopPositions <= CompetitionDistance + 1`, which 10 and 10 meet and nothing in the code asks for: with a longer top
the client would count fewer entries for a user near the first place than the service sends.

### RatingPatch, RatingCalculator, RatingService

Users are their ids, which are positive numbers (their order is what ties are broken by); the rating is a
sequence of ids. `RatingPatch` has the multiset of patches as a sequence in its order, and each
iteration of the loop as `ApplyPatch`, with a field `fits` that is `FALSE` once an assertion of
`ratingMoveBlock` or `ratingInsert` has failed. Deals are taken to be positive: nothing rejects
one of amount 0 (`message_dispatcher.cpp:35`), and for an active user its new entry would then sort
before the old one and the assertion at `rating_calculator.cpp:85` fail, as `rebuild_loop` reports when
`DealAmounts` has 0. A pass of the calculator is a function from the core
data and the buffer to the core data; `Recalculated` is their composition, in the order of
`RatingCalculatorImpl::recalculate`.

`RatingService` takes the recalculation in two steps, as the threads do: `Swap` exchanges the
buffers, `Recalculate` does the rest, and in between the listener fills the other buffer and workers
still answer promises. That the passes may be one step is what `CoreSync` shows
(`ReaderExclusion`, `BufferExclusion`). Whether the week has turned is left open in every minute.
`Recover` is the data's side of a failed session: buffers and queues are destroyed with what they hold, the core data
stays, and a recalculation that has begun is finished before. On the board it is `Lose`: news that has
come in since the last turn is gone, and nothing else.

`RatingBoard` is the specification of this data without any of its machinery: news, a turn once a
minute, and any sorted ranking in which users without new winnings come in the same order as before. Whom to report
to each minute it leaves open. `RatingService!ImplementsBoard` is the refinement: members are silent and
active users, scores are `amountWon`, the ranking is the vector, open
and closed news are the two buffers. Names are not part of the board.

The chrono sets, by which the announcer goes, are `ChronoSetsFollow`: they hold raw pointers to the records of active users, and
each such user has to be in the set of its second and in no other, over reconnections, first deals and the deletion of all
records at the week's turn. Here code and documentation disagree. `README.md:13` has the service report "each minute ...
for every connected user", and `worker_pool.cpp:170` can give a place, one past the last, to a user who is not in the rating. But a
connected user without winnings this week is a silent user and in no chrono set (`rating_calculator.cpp:277` only notes its
second): it gets a rating when it connects, and none each minute until its first deal. After Monday's reset this is
everybody who stays connected. (`README.md:56` speaks of "all the eligible users" and leaves open who is.) Neither
the board nor `ChronoSetsFollow` takes the code's side: the one has no reports, the other is about the records there are.

`ClientView` adds what the test application does: it registers an id once, connects users that are
not connected, gives deals to users that are, and uses fake ids that are never registered. It ends with its session
(`TestAppLost`), and then any client may follow, which sends what it likes about anybody (`OtherClientStep`): so one run checks the
board against all sequences of messages, and the test application's own properties while it is there (`testing`). Its names
are left out; of two renames of a user in one minute the service keeps the first
(`DispatchUserRenamed`), the test application the last, which it does not notice as it accepts the last six.

Its storage calls a "user unrecognized" for a registered user unexpected, and a failure (`test/storage.cpp:276-277`).
`RegisteredAreRecognized` says that the service never sends one, and `promise_errors` finds it violated: a user that registers in one
minute and connects while the next recalculation is under way is neither in the buffer the dispatcher looks into, nor yet
in the rating data the worker looks into. That it can happen in no other case is `RefreshesHideRegistrations`, which is proved.

## Runs

| run | shows | bounds |
|---|---|---|
| `core_threads` | exclusion, drained queues, fresh caches, no lost wake-up, and the inductive invariant, under all faults and recoveries; minutes keep coming, sleepers serve again, announced users are served, for as long as a session holds | 2 workers, 1 second a minute: enough for a worker to be in every phase of a refresh against the other one, and for any number of minutes and sessions |
| `core_tear_down` | violated: a session's tear-down ends | the same, lost connections only |
| `core_handshake` | violated: a refused handshake is recovered from | the same, refused handshakes only |
| `queue_fifo` | refinement of the FIFO, no deleted node in use, the inductive invariant, every job is taken | 2 producers, 2 jobs, 4 addresses: both producers between exchange and link at once, behind a stub and a node with a job, and addresses in use again |
| `delivery` | jobs are written once, in the order of minutes, in their minute; promises are answered; the inductive invariant | 2 workers, 3 promises (one of them behind another in a queue, or behind one to -1), an error, an announced user, a refresh |
| `delivery_frames` | violated: frames are whole | 2 workers, 2 promises, no refresh |
| `week_turn` | the weekly reset, the pace of minutes and deals, the inductive invariant | seconds of 6 ticks, minutes of 3 seconds, weeks of 4 minutes (a turn takes more than two), 3 turns, wake-ups 1 or 2 ticks late, recalculations of up to 1: `Delay` is 5, one less than a second; an epoch that begins in mid-week |
| `week_ticker` | violated: a set is announced in its second | the same, recalculations take no time |
| `rebuild_loop` | assertions, final tail and result of the patching | all ratings of up to 4 users with 3 different winnings, all deals of 1 or 2: ties, overtaking by one, by two and by none, newcomers into every place, everybody at once |
| `messages_read` | a worker's cache survives its messages and refreshes; the client reads what was sent, entry by entry | the dimensions of the protocol, ratings of 12 lengths from 0 to 33 (around 10, 11, 21 and 31, where the formulas change), every place in them and one past it, 1 user id |
| `client_board` | refinement of the board, consistency of the rating and of the chrono sets, for any client and across recoveries; only fakes are complained about, connections agree, and the inductive invariant, for the test application | 2 users, one of them a fake for the test application, 2 seconds, 3 entries in both buffers together with the test application and 2 with another client, deals of 1 or 2, winnings up to 2, one waiting promise: a registration and a connection or a deal in one minute, ties and overtaking, news in both buffers at once, any sequence of minutes, week turns and sessions |
| `promise_errors` | violated: a registered user is recognized | the same |

Deadlock is checked where the system cannot stop; the runs of `CoreSync` admit faults that end the process,
and the rebuilding is over after its last patch. The violated runs each state what a comment, the README or
the test application says; `PROJECT.json` quotes it under "findings".

Fairness (`ThreadFairness`): every thread is scheduled (weak fairness of each thread's steps), and one
that finds the mutex free again and again gets it (strong fairness of taking the lock; mutexes
promise no more). Spurious wake-ups, faults and messages are not fair. `BusyClientSpec` adds a client
that keeps connecting and sending; without it no refresh need end. A session
that has failed (`Over`) serves nobody until the next one, which need not come (`core_tear_down`), so the liveness properties are
about each session for as long as it holds. `FairSpec` of the
queue lets a begun push go on and the worker poll, which its loop does while a service runs. `FairSpec` of `JobDelivery`
has each worker scheduled, and a refresh that everybody sleeps for ended, which `core_threads` shows; jobs and
refreshes are not fair. Its spinlock needs no more: what holds it is about to give it back, and a
worker that spins is scheduled while others are idle.

## Proofs

`CoreSyncProofs` proves, for any finite set of workers, any length of the minute and any faults:

* `TypeCorrect`: the type invariant;
* `LateInvHolds` and, from it, `ReadersExcluded` (`OnlyLateWorkersRead`), `ListenerExcluded` (`OnlyLateListenerWrites`) and
  `SleepersAreWoken` (`NoLostWakeup`), without any assumption on pace;
* `ThreadInvHolds` and, from it, `JobsAreDrained` and `CachesAreFresh`, assuming `Paced`.

None of these is inductive. That a counted worker does not read during a recalculation follows from the
reader count being zero when the wait ended, which needs `dataReaderCount` to be the number of workers that
are counted (`CountInv`; cardinalities change by one with each step), which needs all workers to be
started at once (`SessionInv`); and it stays so because a worker can come back only when the flag is down, which
`LateRefreshInv` ties to the announcer's place, together with the fact that whoever is between waking and counting while the flag
is up was there when it was raised. The listener's side: there is exactly one claim (`FirstClaimInv`), and it is on the
current buffer, on the one being waited for, or the listener is late (`LateClaimInv`). `LockInv`
says who holds the mutex, from which no lost wake-up follows: between a worker's look at the flag and
its falling asleep the flag cannot be cleared.

With `Paced` nobody is late. `RefreshInv` and `ClaimInv` are the same two arguments then: no worker is between waking and
counting, and no listener between two buffers, when a new minute begins. From there `ReaderExclusion` and `BufferExclusion`
as the run has them follow (`ThreadInvIsEnough`), and `JobInv` and `CacheInv` follow a worker's queue and
cache around a refresh. `ThreadInv` is the conjunction; each part is shown to be kept by each
thread's steps, action by action.

`MPSCQueueProofs` proves, for any producers, jobs and addresses:

* `QueueInvHolds`: the nodes from head to tail are a chain without repetition (`ChainInv`); each is linked to the
  next one, except behind a push between exchange and link (`LinkInv`); what a producer holds is a
  node of its own or two neighbours of the chain (`ProducerInv`); the consumer is about to take the second
  node or to delete one that has left (`ConsumerInv`);
* `NodesAreSafe`: no deleted node is in use. The consumer moves past a node only when its link is set,
  and then no producer is going to store into it: `ProducerInv` says the link it stores is still null;
* `QueueIsFifo`: the refinement of `FifoQueue`, one lemma for each action. The only failing `tryPop` of a queue
  with jobs is the case of `LinkInv` with a producer at its link.

`RatingMessagesProofs` proves, for all dimensions with `TopPositions <= CompetitionDistance + 1`, ratings and users:

* `CountsAgree`: the two formulas for the number of entries agree;
* `CacheIsKept`, `PacksAreRead`, `PlacesDoAgree`: the properties of `messages_read`, from `MessagesInv`, which
  adds the types of the streams. What a sequence of `operator<<`, `setPos` and `rewind` leaves is stated
  once for each kind of message (`CacheFacts`, `MessageFacts`, `SizeFacts`, `RewindFacts`), what the client
  makes of it in `ReadFacts`, and that its places are the promised ones in `PlacesCover`.

`JobDeliveryProofs` proves, for any number of workers, jobs, ids and refreshes:

* `TypeCorrect`, and `DeliveryInvHolds`: a worker that sleeps through a refresh holds no frame and has no
  announced user left (`SleepersAreDone`); since the rating changes only when all sleep, a frame in the making is of the
  current rating (`HeldIsCurrent`), an announcement in a queue of the current minute (`QueuedIsCurrent`), and what is on the socket
  not later (`WrittenInOrder`);
* `RatingsAreOrdered` and `AnnouncementsAreCurrent`, which follow from it. None of this needs the write lock;
* `JobsStayConserved`. The count is turned into an invariant of places (`PlacesInv`): a job is in one queue, or in one worker's
  hands, or once on the socket, or has been taken for the mark of an empty queue. `NumbersInv` keeps the numbers of jobs apart. What
  is at the head of a queue is nowhere else, so that whoever takes it has the only one (`DequeuedJob`); `AppendedJob` and `TakenJob`
  are about the queues alone, whose other jobs move up by a place. None of this needs the lock either, only that each queue has
  one worker to empty it.

`RatingAnnouncerProofs` proves, for all lengths of ticks, seconds, minutes and weeks:

* `TypeCorrect`: the ranges of what `DateTime` divides out of the clock (`NextFullSecondIsNext`, `WeekStartIsPast`,
  `SecondIndexIsSet`), and that the ticker is never ahead of the clock but in a sleep (`TypeInv`);
* `PaceInvHolds`, assuming `Delay < TicksPerSecond`: `TickerInv` bounds the clock's lead over the ticker, most after a turn's
  resync, from which two ticks recover; `ServedInv` and `PendingInv` bound the ticker's lead over the last announcement and
  over a deal that waits, by `MinuteEnd`, which a tick leaves alone and a minute moves by a minute;
* `DealsAreCountedSoon` and `MinutesStayRegular`, the sum of the two leads.
* `WeekInvHolds`, assuming also `Calendar`: a week has at least four minutes and begins with a full second, as `DateTime`'s 10080
  minutes from a Monday's midnight do. Without the first, the two minutes of a turn may be a whole week; without the
  second, a session that sleeps to a full second could wake up in the next week. `ExpirationInv` says that
  `m_ratingExpirationDate` is the start of a week, and that a rating is marked for dropping only when this week is over (`Due`);
  `TurnInv` that the old rating is served for a minute that begins in its week and one more, and that a session recovered
  at the end of a week has a ticker that is not late yet (`Fresh`); `IncomingInv`, `DrainingInv` and `RatingInv` bound how long
  before or after the rating's week a deal came, on its way from the buffer into the rating;
* `DealsStayAllWeek` and `OldDealsAlwaysExpire`, the weekly reset from both sides, which follow from it and the fact that starts
  of weeks are a week apart (`WeeksAreApart`).

`RatingRebuildProofs` proves the properties of `rebuild_loop`, for any finite set of users, any winnings and any
positive deals: `PatchesAlwaysFit`, `TailIsAlwaysFinal` and `RebuildGivesTheReference`. The argument is in
`RatingPatchProofs`, which has no variables and is used for the service as well:

* `LoopInv` is the invariant of the loop. What is covered (`lengthDone` and the old positions passed) is where the
  next patch in the order of `Precedes` begins (`Covers`); in front of it the vector is still the old rating; behind it is a gap of
  `offset` slots, the new entries still to place less the old ones still to leave; behind the gap it is the new rating. That the gap
  is never negative is the assertion of `ratingMoveBlock`, and follows from `UsersRiseByDeals`: a new entry never sorts
  behind the old one of the same user;
* a place in the new rating is a number of users: `PlacesAreCounted` says that who is in place i has i - 1 better ones. A block that
  is moved holds users without deals, whose better ones are those before them in the old rating, less the risen, plus the
  fresh (`UnmovedUsersAreRanked`); `NewUsersAreRanked` is the same count for an inserted user. That `Reference` sorts at all is
  `InOrderIsSorted`, about ranks in any total order;
* `LoopStep` is one iteration, `LoopStart` and `LoopEnd` the two ends of the loop. Induction over the patches is over the
  iterations of a function, from the least one that breaks the invariant (`LeastNumber`, `LoopsRun`), which needs no induction theorem. `RebuildIsRight`
  is the outcome: `Rebuild` fits and gives `Reference`, whatever the rating, the users and the deals of a minute.

`RatingServiceProofs` proves the service's properties of `client_board` for any users and names, any number of seconds,
any positive deals, any bounds and any sequence of messages, minutes, week turns and recoveries:

* `RatingStaysConsistent`, from `ServiceInv`: the rating data is sorted and knows its places, and the chrono sets are exactly
  the active users by second (`RatingForm`); the buffers hold sums that are positive (`NewsForm`), and the closed one is empty
  between refreshes. Each pass of the calculator has a lemma on what it leaves of `RatingForm`. All but the last leave the rating alone
  or drop it; the last, `DealsRateUsers`, is `RebuildIsRight` and a count of places (`ReferenceIsARating`);
* `ChronoSetsDoFollow`, from the same invariant;
* `ServiceIsABoard`: the refinement of `RatingBoard`. `RecalculationIsATurn` is its core: what the passes do one after the other, by
  kind of news, is one turn of the board. `RecalculationTurns` has the scores, and the order that undisturbed users keep,
  which the patches never compare; `RecalculationKnowsUsers` has members and seconds. `Swap` is the closing of the news, a
  rename and a kept promise are stutters;
* `ClientsSeeTheService`: the service beside its client (`ClientSpec`) does nothing the service alone does not do, which
  carries these theorems over.

Both modules assume `Positive`: every deal is of more than 0. The code does not check this (see the hazard at
`message_dispatcher.cpp:35`), and it is needed: with a deal of 0 the assertion fails. The client never sends one
(`test/strategy.cpp:369` draws from 1 to 500).

It also proves the test application's properties of `client_board` for any users and fakes, names, seconds and deals, `Positive` or not:

* `ViewInvHolds`: a registration is in the rating data, in the closed buffer or in the open one, and only in one
  of them; all other news is of users whose registration is in no later place, or of fakes (`RegistrationsInv`); and
  where a user will be once both buffers are processed is where the client has it (`ConnectionsInv`). The service's own
  data says neither, which is why the properties are not inductive;
* `OnlyFakesReported`, `ConnectionsDoAgree` and `RefreshesHideRegistrations`, which follow from it. The last one bounds the
  finding of `promise_errors`. The calculator's passes have a
  lemma each, on which users are known afterwards, in which second, and who is complained about;
  `RecalculationKnowsUsers` chains them: as registrations come first, only those are strangers that are
  in no buffer either.

Left to TLC: liveness, also the queue's and the delivery's, which is out of the prover's reach; `OnceAMinute`, whose bound
depends on the phase of the ticker over several turns.

## Not modelled

The decoding of the client's messages and the bytes of all of them, the widths of integers, failing allocations, relaxed memory
orderings, and the test application's validation of ratings (it ranks users in a multimap of its own, in which ties
have another order, and accepts what is in the neighbourhood). `DateTime::nextFullMinute` has no caller. `main.cpp` parses the command
line. ASIO is vendored and not this program's logic: it is 97% of the lines in the repository, and modelled only
as a socket that takes bytes in pieces, fails, or delivers.

What the runs do not reach: deals of amount 0 (above), sums beyond `monetary_t`, and a second registration of an id
within the minute of the first, which is dropped without the error that a later one gets (`message_dispatcher.cpp:13`); no
document says which it should be.

## Plan

Done: the threads (`CoreSync`), their queues (`MPSCQueue`, `JobDelivery`), the messages (`RatingMessages`), the clock
(`RatingAnnouncer`), the rating (`RatingPatch` to `RatingService` against `RatingBoard`) and its client (`ClientView`).

What could follow:

1. The client's validation of ratings in `ClientView`, against the board's freedom in ties.
2. Decoding of the client's messages, cell by cell as in `RatingMessages`.
3. A proof of `OnceAMinute`.
