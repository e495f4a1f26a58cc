------------------------------ MODULE CoreSync ------------------------------
(***************************************************************************)
(* The threads of the rating service and the atomics, mutex and condition  *)
(* variable they meet on.                                                  *)
(*                                                                         *)
(*   overseer   the main thread: Overseer::run, which is also the listener *)
(*              that puts incoming messages into a double buffer           *)
(*   announcer  RatingAnnouncer::doWork and, inside it,                    *)
(*              RatingCalculator::recalculate                              *)
(*   workers    WorkerPool::doWork, one per job queue                      *)
(*                                                                         *)
(* The program counters are named for the statement about to be executed.  *)
(* Memory is sequentially consistent here; the rating data, the incoming   *)
(* messages and the contents of the rating messages are abstracted away:   *)
(* what is kept is who may touch them and when.                            *)
(***************************************************************************)
EXTENDS Integers, FiniteSets

CONSTANTS
  Workers,          \* the worker threads (workerPoolConcurrency of them)
  SecondsPerMinute, \* chrono sets per announcing cycle, 60 in the code
  Paced,            \* TRUE: the announcer keeps its one-second schedule and
                    \* the others need less than a second of it for the few
                    \* instructions after a wake-up or a buffer switch;
                    \* FALSE: it catches up without sleeping, or a thread is
                    \* not scheduled for longer than that
  Faults            \* the faults of the environment that may happen

FaultKinds == {"disconnect", "malformed", "handshake"}

ASSUME CoreSyncAssumption ==
  /\ IsFiniteSet(Workers)
  /\ SecondsPerMinute \in Nat \ {0}
  /\ Paced \in BOOLEAN
  /\ Faults \subseteq FaultKinds

VARIABLES
  link,               \* the client's connection, "up" or "down"
  currentBuffer,      \* IncomingDataDoubleBuffer: the buffer to write to
  bufferWriterCount,  \* IncomingDataBuffer: the writers of each buffer
  refreshInProgress,  \* CoreDataSyncBlock
  dataReaderCount,    \* CoreDataSyncBlock
  dataLock,           \* CoreDataSyncBlock: TRUE while the mutex is held
  badFlag,            \* SystemStopSignals
  unrecoverableError, \* SystemStopSignals
  pcO, inData,        \* the overseer and the buffer it has claimed
  pcA, chronoSetIndex,\* the announcer and the next second it announces
  pcW,                \* the workers
  userDataQueue,      \* the workers whose queue of user data pointers is
                      \* not empty
  topCached           \* the workers whose rating buffer starts with the top
                      \* positions of the rating as it is now

bufferVars == <<currentBuffer, bufferWriterCount>>
lockVars   == <<refreshInProgress, dataLock>>
stopVars   == <<badFlag, unrecoverableError>>
overseer   == <<pcO, inData>>
announcer  == <<pcA, chronoSetIndex>>
jobVars    == <<userDataQueue, topCached>>
syncVars   == <<lockVars, dataReaderCount, stopVars>>
vars == <<link, bufferVars, lockVars, dataReaderCount, stopVars, overseer,
          announcer, pcW, jobVars>>

Buffers  == {0, 1}
NoBuffer == 2        \* inData while it is still nullptr

(* The buffer RatingCalculator::recalculate took out of use last.          *)
Drained == 1 - currentBuffer

Running == {"loop", "receive", "check", "release", "claimNew", "dispatch"}

(* Worker states in which it reads the rating data, in which it is counted *)
(* by dataReaderCount, and in which it is between the end of a refresh and *)
(* the fetch_add that announces it as a reader again.                      *)
Reading == {"start", "deplete", "serve", "cache"}
Counted == Reading \cup {"loop", "poll", "lock", "leave", "failing", "failed",
                         "stopped"}
Dozing  == {"wait", "block", "asleep", "relock", "wake"}
Ended   == {"off", "gone", "stopped"}
OverseerStates  == Running \cup {"construct", "launch", "claim",
                     "startAnnouncer", "startWorkers", "caught", "caughtFatal",
                     "signal", "signalFatal", "joinWorkers", "joinAnnouncer",
                     "decide", "crashed", "terminated"}
AnnouncerStates == {"off", "sleep", "swap", "raise", "waitWriters",
                     "waitReaders", "recalculate", "lock", "clear", "notify",
                     "announce", "gone"}
WorkerStates    == Counted \cup Dozing \cup {"off", "gone"}

(* The state of the objects main() creates before Overseer::run.           *)
Init ==
  /\ link = "down"
  /\ currentBuffer = 0
  /\ bufferWriterCount = [b \in Buffers |-> 0]
  /\ refreshInProgress = FALSE
  /\ dataReaderCount = 0
  /\ dataLock = FALSE
  /\ badFlag = FALSE
  /\ unrecoverableError = FALSE
  /\ pcO = "construct" /\ inData = NoBuffer
  /\ pcA = "off" /\ chronoSetIndex = 0
  /\ pcW = [w \in Workers |-> "off"]
  /\ userDataQueue = {} /\ topCached = {}

-----------------------------------------------------------------------------
(* The overseer.                                                           *)

OGoto(from, to) == pcO = from /\ pcO' = to
DataUntouched   == UNCHANGED <<announcer, pcW, jobVars>>
OMove(from, to) ==
  /\ OGoto(from, to)
  /\ UNCHANGED <<link, bufferVars, syncVars, inData>>
  /\ DataUntouched

(* A new PluggableInfrastructure: buffers, queues and task handles are new, *)
(* the core data and the synchronization block are kept.                   *)
OConstruct ==
  /\ OGoto("construct", "launch")
  /\ inData' = NoBuffer
  /\ currentBuffer' = 0
  /\ bufferWriterCount' = [b \in Buffers |-> 0]
  /\ userDataQueue' = {} /\ topCached' = {}
  /\ pcA' = "off" /\ pcW' = [w \in Workers |-> "off"]
  /\ UNCHANGED <<link, syncVars, chronoSetIndex>>

(* A client connects and its handshake is accepted ...                     *)
OLaunch ==
  /\ OGoto("launch", "claim")
  /\ link' = "up"
  /\ UNCHANGED <<bufferVars, syncVars, inData>>
  /\ DataUntouched

(* ... or it is not, and launch() throws.                                  *)
OLaunchFails ==
  /\ OMove("launch", "caught")
  /\ "handshake" \in Faults

(* Mutant: the claim on the first buffer is not counted.                   *)
OClaimUncounted ==
  /\ OGoto("claim", "startAnnouncer")
  /\ inData' = currentBuffer
  /\ UNCHANGED <<link, bufferVars, syncVars>>
  /\ DataUntouched

OClaim ==
  /\ OGoto("claim", "startAnnouncer")
  /\ inData' = currentBuffer
  /\ bufferWriterCount' = [bufferWriterCount EXCEPT ![currentBuffer] = @ + 1]
  /\ UNCHANGED <<link, currentBuffer, syncVars>>
  /\ DataUntouched

OStartAnnouncer ==
  /\ OGoto("startAnnouncer", "startWorkers")
  /\ pcA' = "sleep"
  /\ UNCHANGED <<link, bufferVars, syncVars, inData,
                 chronoSetIndex, pcW, jobVars>>

(* Mutant: the workers are started before they are counted as readers.     *)
OStartWorkersUncounted ==
  /\ OGoto("startWorkers", "loop")
  /\ pcW' = [w \in Workers |-> "start"]
  /\ UNCHANGED <<link, bufferVars, syncVars, inData, announcer, jobVars>>

(* WorkerPool::start stores the number of readers, then starts them.       *)
OStartWorkers ==
  /\ OGoto("startWorkers", "loop")
  /\ dataReaderCount' = Cardinality(Workers)
  /\ pcW' = [w \in Workers |-> "start"]
  /\ UNCHANGED <<link, bufferVars, lockVars, stopVars, inData, announcer,
                 jobVars>>

OLoop == OMove("loop", IF badFlag THEN "joinWorkers" ELSE "receive")

OReceive ==
  /\ OMove("receive", "check")
  /\ link = "up"

(* The connection is lost ...                                              *)
OReceiveFails ==
  /\ OMove("receive", "caught")
  /\ link = "down"

(* ... or the message has a code MessageBuilder::build does not know.      *)
OReceiveMalformed ==
  /\ OMove("receive", "caughtFatal")
  /\ "malformed" \in Faults

(* Load currentBuffer into newBuffer and compare it with the claimed one.  *)
OCheck == OMove("check", IF currentBuffer = inData THEN "dispatch" ELSE "release")

(* Mutant: the old buffer is not released.                                 *)
OReleaseForgotten ==
  /\ OGoto("release", "claimNew")
  /\ inData' = 1 - inData
  /\ UNCHANGED <<link, bufferVars, syncVars>>
  /\ DataUntouched

(* newBuffer is the other buffer, whatever currentBuffer is by now.        *)
ORelease ==
  /\ OGoto("release", "claimNew")
  /\ bufferWriterCount' = [bufferWriterCount EXCEPT ![inData] = @ - 1]
  /\ inData' = 1 - inData
  /\ UNCHANGED <<link, currentBuffer, syncVars>>
  /\ DataUntouched

OClaimNew ==
  /\ OGoto("claimNew", "dispatch")
  /\ bufferWriterCount' = [bufferWriterCount EXCEPT ![inData] = @ + 1]
  /\ UNCHANGED <<link, currentBuffer, syncVars, inData>>
  /\ DataUntouched

(* Dispatching writes into the buffer inData: see BufferExclusion.         *)
ODispatch == OMove("dispatch", "loop")

(* The catch clauses release the claim through inData, which is a null     *)
(* pointer when launch() has thrown.                                       *)
OCaught ==
  /\ \/ pcO = "caught"      /\ pcO' = IF inData = NoBuffer THEN "crashed" ELSE "signal"
     \/ pcO = "caughtFatal" /\ pcO' = IF inData = NoBuffer THEN "crashed" ELSE "signalFatal"
  /\ bufferWriterCount' =
       IF inData = NoBuffer THEN bufferWriterCount
       ELSE [bufferWriterCount EXCEPT ![inData] = @ - 1]
  /\ UNCHANGED <<link, currentBuffer, syncVars, inData>>
  /\ DataUntouched

OSignal ==
  /\ \/ OGoto("signal", "joinWorkers") /\ UNCHANGED unrecoverableError
     \/ OGoto("signalFatal", "joinWorkers") /\ unrecoverableError' = TRUE
  /\ badFlag' = TRUE
  /\ UNCHANGED <<link, bufferVars, lockVars, dataReaderCount, inData>>
  /\ DataUntouched

(* m_pluggable.reset(): fields are destroyed from the last to the first,   *)
(* the worker pool and then the announcer waiting for their tasks.         *)
OJoinWorkers ==
  /\ OMove("joinWorkers", "joinAnnouncer")
  /\ \A w \in Workers : pcW[w] \in Ended

OJoinAnnouncer ==
  /\ OGoto("joinAnnouncer", "decide")
  /\ pcA \in {"off", "gone"}
  /\ link' = "down"
  /\ UNCHANGED <<bufferVars, syncVars, inData>>
  /\ DataUntouched

ODecide ==
  /\ OGoto("decide", IF unrecoverableError THEN "terminated" ELSE "construct")
  /\ IF unrecoverableError THEN UNCHANGED stopVars
     ELSE badFlag' = FALSE /\ unrecoverableError' = FALSE
  /\ UNCHANGED <<link, bufferVars, lockVars, dataReaderCount, inData>>
  /\ DataUntouched

(* What the overseer does when it is scheduled, what it waits for a client *)
(* to do, and what only a faulty client makes it do.                       *)
OverseerProgress ==
  \/ OConstruct \/ OClaim \/ OStartAnnouncer \/ OStartWorkers \/ OLoop
  \/ OReceiveFails \/ OCheck \/ ORelease \/ OClaimNew \/ ODispatch
  \/ OCaught \/ OSignal \/ OJoinWorkers \/ OJoinAnnouncer \/ ODecide
ClientStep   == OLaunch \/ OReceive
OverseerStep == OverseerProgress \/ ClientStep \/ OLaunchFails \/ OReceiveMalformed

-----------------------------------------------------------------------------
(* The announcer.                                                          *)

AGoto(from, to)  == pcA = from /\ pcA' = to
StopUntouched    == UNCHANGED <<link, stopVars, overseer, pcW>>
AMove(from, to)  ==
  /\ AGoto(from, to)
  /\ UNCHANGED <<bufferVars, lockVars, dataReaderCount, chronoSetIndex, jobVars>>
  /\ StopUntouched

(* sleep_until(nextFullSecond), then the index of that second.             *)
AWakeUp ==
  /\ AGoto("sleep", "swap")
  /\ chronoSetIndex' \in 0 .. SecondsPerMinute - 1
  /\ UNCHANGED <<bufferVars, lockVars, dataReaderCount, jobVars>>
  /\ StopUntouched

(* recalculate(): currentBuffer.exchange                                   *)
ASwap ==
  /\ AGoto("swap", "raise")
  /\ currentBuffer' = 1 - currentBuffer
  /\ UNCHANGED <<bufferWriterCount, lockVars, dataReaderCount, chronoSetIndex,
                 jobVars>>
  /\ StopUntouched

ARaise ==
  /\ AGoto("raise", "waitWriters")
  /\ refreshInProgress' = TRUE
  /\ UNCHANGED <<bufferVars, dataLock, dataReaderCount, chronoSetIndex, jobVars>>
  /\ StopUntouched

(* The two spinning loops are left when they load zero.                    *)
AWaitWriters ==
  /\ AMove("waitWriters", "waitReaders")
  /\ bufferWriterCount[Drained] = 0

AWaitReaders ==
  /\ AMove("waitReaders", "recalculate")
  /\ dataReaderCount = 0

(* RatingCalculatorImpl::recalculate rewrites the rating: what the workers *)
(* have cached of it is old from here on.                                  *)
ARecalculate ==
  /\ AGoto("recalculate", "lock")
  /\ topCached' = {}
  /\ UNCHANGED <<bufferVars, lockVars, dataReaderCount, chronoSetIndex,
                 userDataQueue>>
  /\ StopUntouched

(* Mutant: the flag is cleared without taking the mutex.                   *)
ALockSkipped == AMove("lock", "clear")

ALock ==
  /\ AGoto("lock", "clear")
  /\ ~dataLock
  /\ dataLock' = TRUE
  /\ UNCHANGED <<bufferVars, refreshInProgress, dataReaderCount, chronoSetIndex,
                 jobVars>>
  /\ StopUntouched

(* Mutant: the flag stays set.                                             *)
AClearForgotten ==
  /\ AGoto("clear", "notify")
  /\ dataLock' = FALSE
  /\ UNCHANGED <<bufferVars, refreshInProgress, dataReaderCount, chronoSetIndex,
                 jobVars>>
  /\ StopUntouched

(* The store to refreshInProgress and the end of the lock's scope.         *)
AClear ==
  /\ AGoto("clear", "notify")
  /\ refreshInProgress' = FALSE
  /\ dataLock' = FALSE
  /\ UNCHANGED <<bufferVars, dataReaderCount, chronoSetIndex, jobVars>>
  /\ StopUntouched

(* Mutant: notify_one.                                                     *)
ANotifyOne ==
  /\ AGoto("notify", "announce")
  /\ \/ (\A w \in Workers : pcW[w] # "asleep") /\ UNCHANGED pcW
     \/ \E w \in Workers : pcW[w] = "asleep" /\ pcW' = [pcW EXCEPT ![w] = "relock"]
  /\ UNCHANGED <<link, bufferVars, lockVars, dataReaderCount, stopVars, overseer,
                 chronoSetIndex, jobVars>>

ANotify ==
  /\ AGoto("notify", "announce")
  /\ pcW' = [w \in Workers |-> IF pcW[w] = "asleep" THEN "relock" ELSE pcW[w]]
  /\ UNCHANGED <<link, bufferVars, lockVars, dataReaderCount, stopVars, overseer,
                 chronoSetIndex, jobVars>>

(* Mutant: one second too many.                                            *)
AAnnouncePastEnd ==
  /\ AGoto("announce", "announce")
  /\ chronoSetIndex <= SecondsPerMinute
  /\ ~badFlag
  /\ \E Q \in SUBSET Workers : userDataQueue' = userDataQueue \cup Q
  /\ chronoSetIndex' = chronoSetIndex + 1
  /\ UNCHANGED <<bufferVars, lockVars, dataReaderCount, topCached>>
  /\ StopUntouched

(* One second's set of users is enqueued, round-robin over the workers:    *)
(* any set of queues may receive a user.                                   *)
AAnnounce ==
  /\ AGoto("announce", "announce")
  /\ chronoSetIndex < SecondsPerMinute
  /\ ~badFlag
  /\ \E Q \in SUBSET Workers : userDataQueue' = userDataQueue \cup Q
  /\ chronoSetIndex' = chronoSetIndex + 1
  /\ UNCHANGED <<bufferVars, lockVars, dataReaderCount, topCached>>
  /\ StopUntouched

AStop ==
  /\ AMove("announce", "gone")
  /\ chronoSetIndex < SecondsPerMinute
  /\ badFlag

(* Nobody is in the few instructions a Paced execution allots less than a  *)
(* second for: those between a wake-up and the fetch_add that follows it,  *)
(* and those between giving up one buffer and claiming the other.          *)
Settled ==
  /\ pcO # "claimNew"
  /\ \A w \in Workers : pcW[w] \notin Dozing

(* The minute is over: the stop flag is not looked at again before the     *)
(* next recalculation. The next minute starts at second 0, or in the       *)
(* middle of the minute when the week has turned.                          *)
AMinuteOver ==
  /\ AGoto("announce", "swap")
  /\ chronoSetIndex = SecondsPerMinute
  /\ Paced => Settled
  /\ chronoSetIndex' \in 0 .. SecondsPerMinute - 1
  /\ UNCHANGED <<bufferVars, lockVars, dataReaderCount, jobVars>>
  /\ StopUntouched

AnnouncerStep ==
  \/ AWakeUp \/ ASwap \/ ARaise \/ AWaitWriters \/ AWaitReaders
  \/ ARecalculate \/ ALock \/ AClear \/ ANotify \/ AAnnounce \/ AStop
  \/ AMinuteOver

-----------------------------------------------------------------------------
(* The workers.                                                            *)

WGoto(w, from, to)  == pcW[w] = from /\ pcW' = [pcW EXCEPT ![w] = to]
OthersUntouched     == UNCHANGED <<link, bufferVars, refreshInProgress,
                                   overseer, announcer>>
WMove(w, from, to)  ==
  /\ WGoto(w, from, to)
  /\ OthersUntouched
  /\ UNCHANGED <<dataLock, dataReaderCount, stopVars, jobVars>>

(* cacheTopRatings, on the way into the loop or after a refresh            *)
WCacheTop(w) ==
  /\ WGoto(w, "start", "loop") \/ WGoto(w, "cache", "serve")
  /\ topCached' = topCached \cup {w}
  /\ OthersUntouched
  /\ UNCHANGED <<dataLock, dataReaderCount, stopVars, userDataQueue>>

(* A worker that leaves by the stop flag stays in dataReaderCount.         *)
WLoop(w) == WMove(w, "loop", IF badFlag THEN "stopped" ELSE "poll")

WPoll(w) == WMove(w, "poll", IF refreshInProgress THEN "deplete" ELSE "serve")

(* Mutant: the worker goes to sleep with jobs in its queue.                *)
WDepleteSkipped(w) == WMove(w, "deplete", "lock")

(* depleteUserDataMessages: the queue is emptied before the worker goes to *)
(* sleep; its producer, the announcer, enqueues nothing during a refresh.  *)
WDeplete(w) ==
  /\ WGoto(w, "deplete", "lock")
  /\ userDataQueue' = userDataQueue \ {w}
  /\ OthersUntouched
  /\ UNCHANGED <<dataLock, dataReaderCount, stopVars, topCached>>

WLock(w) ==
  /\ WGoto(w, "lock", "leave") \/ WGoto(w, "relock", "wait")
  /\ ~dataLock
  /\ dataLock' = TRUE
  /\ OthersUntouched
  /\ UNCHANGED <<dataReaderCount, stopVars, jobVars>>

WLeave(w) ==
  /\ WGoto(w, "leave", "wait")
  /\ dataReaderCount' = dataReaderCount - 1
  /\ OthersUntouched
  /\ UNCHANGED <<dataLock, stopVars, jobVars>>

(* The predicate of wait(): with the lock held, load refreshInProgress.    *)
WWait(w) ==
  /\ WGoto(w, "wait", IF refreshInProgress THEN "block" ELSE "wake")
  /\ dataLock' = IF refreshInProgress THEN dataLock ELSE FALSE
  /\ OthersUntouched
  /\ UNCHANGED <<dataReaderCount, stopVars, jobVars>>

(* Releasing the lock and joining the waiters of the condition variable is *)
(* one step; nothing that happens before it can wake this worker.          *)
WBlock(w) ==
  /\ WGoto(w, "block", "asleep")
  /\ dataLock' = FALSE
  /\ OthersUntouched
  /\ UNCHANGED <<dataReaderCount, stopVars, jobVars>>

WSpuriousWakeUp(w) == WMove(w, "asleep", "relock")

(* Mutant: the top ratings are not cached again after a refresh.           *)
WReturnUncached(w) ==
  /\ WGoto(w, "wake", "serve")
  /\ dataReaderCount' = dataReaderCount + 1
  /\ OthersUntouched
  /\ UNCHANGED <<dataLock, stopVars, jobVars>>

(* The fetch_add comes after the lock has been released.                   *)
WReturn(w) ==
  /\ WGoto(w, "wake", "cache")
  /\ dataReaderCount' = dataReaderCount + 1
  /\ OthersUntouched
  /\ UNCHANGED <<dataLock, stopVars, jobVars>>

(* Errors, promised ids and announced users: all three queues are emptied. *)
WServe(w) ==
  /\ WGoto(w, "serve", "loop")
  /\ userDataQueue' = userDataQueue \ {w}
  /\ OthersUntouched
  /\ UNCHANGED <<dataLock, dataReaderCount, stopVars, topCached>>

(* A send on a lost connection throws, in the middle of emptying a queue.  *)
WSendFails(w) ==
  /\ link = "down"
  /\ \/ WMove(w, "deplete", "failing") /\ w \in userDataQueue
     \/ WMove(w, "serve", "failing")

WSignal(w) ==
  /\ WGoto(w, "failing", "failed")
  /\ badFlag' = TRUE
  /\ OthersUntouched
  /\ UNCHANGED <<dataLock, dataReaderCount, unrecoverableError, jobVars>>

(* Mutant: a worker that has thrown stays in dataReaderCount.              *)
WGoneUncounted(w) == WMove(w, "failed", "gone")

WGone(w) ==
  /\ WGoto(w, "failed", "gone")
  /\ dataReaderCount' = dataReaderCount - 1
  /\ OthersUntouched
  /\ UNCHANGED <<dataLock, stopVars, jobVars>>

(* What a scheduled worker does by itself: all but the spurious wake-up.   *)
WorkerProgress(w) ==
  \/ WCacheTop(w) \/ WLoop(w) \/ WPoll(w) \/ WDeplete(w) \/ WLock(w)
  \/ WLeave(w) \/ WWait(w) \/ WBlock(w) \/ WReturn(w) \/ WServe(w)
  \/ WSendFails(w) \/ WSignal(w) \/ WGone(w)

WorkerStep(w) == WorkerProgress(w) \/ WSpuriousWakeUp(w)

-----------------------------------------------------------------------------
(* The client goes away while a session is established.                    *)
Disconnect ==
  /\ "disconnect" \in Faults
  /\ link = "up"
  /\ link' = "down"
  /\ UNCHANGED <<bufferVars, lockVars, dataReaderCount, stopVars, overseer,
                 announcer, pcW, jobVars>>

(* main() returns after Overseer::run; a crash ends the process.           *)
Next ==
  /\ pcO \notin {"terminated", "crashed"}
  /\ \/ OverseerStep
     \/ AnnouncerStep
     \/ \E w \in Workers : WorkerStep(w)
     \/ Disconnect

Spec == Init /\ [][Next]_vars

(* Every thread is scheduled, and one that finds the mutex free again and   *)
(* again gets it. Nothing is assumed of the client: the overseer waits for *)
(* it in OLaunch and OReceive.                                             *)
ThreadFairness ==
  /\ WF_vars(OverseerProgress)
  /\ WF_vars(AnnouncerStep)
  /\ SF_vars(ALock)
  /\ \A w \in Workers : WF_vars(WorkerProgress(w)) /\ SF_vars(WLock(w))

ThreadSpec == Spec /\ ThreadFairness

(* A client that connects and never stops sending.                         *)
BusyClientSpec == ThreadSpec /\ WF_vars(ClientStep)

-----------------------------------------------------------------------------
(* Properties.                                                             *)

TypeOK ==
  /\ link \in {"up", "down"}
  /\ currentBuffer \in Buffers
  /\ bufferWriterCount \in [Buffers -> Int]
  /\ refreshInProgress \in BOOLEAN
  /\ dataReaderCount \in Int
  /\ dataLock \in BOOLEAN
  /\ badFlag \in BOOLEAN /\ unrecoverableError \in BOOLEAN
  /\ pcO \in OverseerStates /\ inData \in Buffers \cup {NoBuffer}
  /\ pcA \in AnnouncerStates /\ chronoSetIndex \in 0 .. SecondsPerMinute
  /\ pcW \in [Workers -> WorkerStates]
  /\ userDataQueue \subseteq Workers /\ topCached \subseteq Workers

(* "wait till the worker threads are asleep" (rating_calculator.cpp:367):  *)
(* while the calculator rewrites the rating data no worker reads it.       *)
ReaderExclusion ==
  pcA = "recalculate" => \A w \in Workers : pcW[w] \notin Reading

(* "wait till the buffer is out of use" (rating_calculator.cpp:363): while *)
(* the calculator empties a buffer the listener does not write into it.    *)
BufferExclusion ==
  pcA = "recalculate" /\ pcO = "dispatch" => inData # Drained

(* A user data pointer that the announcer has put into a queue is not      *)
(* dereferenced after a recalculation that may have deleted the user: when *)
(* the recalculation starts every queue is empty, or nobody will read it.  *)
NoJobOutlivesRefresh ==
  pcA = "recalculate" => \A w \in userDataQueue : pcW[w] = "gone"

(* "protection against a ... race condition when a worker thread           *)
(* decrements the reader counter but doesn't proceed to waiting yet"       *)
(* (rating_calculator.cpp:378): no worker sleeps through the notification  *)
(* of a refresh that is over.                                              *)
NoLostWakeup ==
  (\E w \in Workers : pcW[w] = "asleep") => refreshInProgress \/ pcA = "notify"

(* "buffer must be restored ... otherwise cache will be broken"            *)
(* (worker_pool.cpp:241): a rating is only ever sent with the top of the   *)
(* rating it was computed with.                                            *)
TopCacheFresh ==
  \A w \in Workers : pcW[w] \in {"deplete", "serve"} => w \in topCached

(* A refused handshake is a "recoverable transport error"                  *)
(* (overseer.cpp:112, thrown in transport.h:177) that is followed by       *)
(* "Attempting recovery..." (overseer.cpp:137). It is not: see OCaught.    *)
RefusedHandshakeRecovers == pcO # "crashed"

(* A session that has failed: nobody is served before the next one, and    *)
(* whether that comes is for TearDownEnds to say.                          *)
Over == badFlag \/ link = "down"

(* As long as a session holds, the announcer comes back to announcing      *)
(* again and again (if the client keeps sending: BusyClientSpec).          *)
RatingsKeepComing ==
  []<>((pcA = "announce" /\ chronoSetIndex < SecondsPerMinute) \/ Over)

(* A worker that has gone to sleep for a refresh comes back to serve.      *)
SleeperServesAgain ==
  \A w \in Workers : pcW[w] = "asleep" ~> pcW[w] = "serve" \/ Over

(* Every announced user is served.                                         *)
AnnouncedIsServed ==
  \A w \in Workers : w \in userDataQueue ~> w \notin userDataQueue \/ Over

(* "cleanup and waiting on the async tasks to stop ... Attempting          *)
(* recovery" (overseer.cpp:128, 137): a session that is being torn down is *)
(* followed by a new one or by the end of the service.                     *)
TearDownEnds == pcO = "joinWorkers" ~> pcO \in {"construct", "terminated"}

-----------------------------------------------------------------------------
(* The inductive invariant behind the safety properties of a Paced service.*)

(* Who holds the mutex.                                                    *)
Holder(w) == pcW[w] \in {"leave", "wait", "block"}
LockInv ==
  /\ dataLock <=> pcA = "clear" \/ \E w \in Workers : Holder(w)
  /\ pcA = "clear" => \A w \in Workers : ~Holder(w)
  /\ \A v, w \in Workers : Holder(v) /\ Holder(w) => v = w

(* Which threads exist while the overseer is outside its loop.             *)
SessionInv ==
  /\ pcO \in {"construct", "decide"} => pcA \in {"off", "gone"}
  /\ pcO \in {"launch", "claim", "startAnnouncer"} => pcA = "off"
  /\ pcO = "startWorkers" => pcA \in {"sleep", "swap", "raise", "waitWriters"}
  /\ pcO \in {"caught", "caughtFatal"} /\ inData = NoBuffer => pcA = "off"
  /\ pcO \in {"launch", "claim", "startAnnouncer", "startWorkers"} =>
       \A w \in Workers : pcW[w] = "off"
  /\ pcO \in {"construct", "joinAnnouncer", "decide"} =>
       \A w \in Workers : pcW[w] \in Ended
  /\ pcA # "off" /\ pcO # "startWorkers" => \A w \in Workers : pcW[w] # "off"

(* dataReaderCount is the number of workers that may read, once they have  *)
(* been started.                                                           *)
CountedWorkers == {w \in Workers : pcW[w] \in Counted}
CountInv ==
  \/ \A w \in Workers : pcW[w] = "off"
  \/ (\A w \in Workers : pcW[w] # "off") /\ dataReaderCount = Cardinality(CountedWorkers)

(* The listener's claim, and how far the announcer can run ahead of it.    *)
Claiming == {"startAnnouncer", "startWorkers", "loop", "receive", "check",
             "release", "dispatch", "caught", "caughtFatal"}
ClaimInv ==
  /\ pcO \in {"launch", "claim"} =>
       currentBuffer = 0 /\ inData = NoBuffer /\ (\A b \in Buffers : bufferWriterCount[b] = 0)
  /\ pcO \in (Claiming \ {"caught", "caughtFatal"}) \cup {"claimNew"} => inData # NoBuffer
  /\ pcO \in Claiming /\ inData # NoBuffer =>
       \A b \in Buffers : bufferWriterCount[b] = IF b = inData THEN 1 ELSE 0
  /\ pcO \in Claiming /\ inData # NoBuffer =>
       inData = currentBuffer \/ pcA \in {"raise", "waitWriters"}
  /\ pcO \in {"startAnnouncer", "startWorkers"} =>
       inData = 0 /\ (currentBuffer = 0 <=> pcA \in {"off", "sleep", "swap"})
  /\ pcO = "release" => inData # currentBuffer
  /\ pcO = "claimNew" =>
       /\ \A b \in Buffers : bufferWriterCount[b] = 0
       /\ inData = currentBuffer
       /\ pcA \notin {"off", "sleep", "swap"}

(* The refresh flag, and what the workers can be doing around a refresh.   *)
RefreshInv ==
  /\ refreshInProgress <=>
       pcA \in {"waitWriters", "waitReaders", "recalculate", "lock", "clear"}
  /\ ~refreshInProgress => \A w \in Workers : pcW[w] \notin {"deplete", "lock", "leave", "block"}
  /\ pcA \in {"recalculate", "lock", "clear"} => \A w \in Workers : pcW[w] \notin Counted
  /\ refreshInProgress => \A w \in Workers : pcW[w] # "wake"
  /\ pcA \in {"off", "sleep", "swap", "raise"} => \A w \in Workers : pcW[w] \notin Dozing

(* Where a worker's queue is known to be empty.                            *)
JobInv ==
  /\ \A w \in userDataQueue : pcW[w] # "off"
  /\ refreshInProgress =>
       \A w \in userDataQueue : pcW[w] \notin {"lock", "leave"} \cup Dozing

CacheInv ==
  \A w \in Workers : pcW[w] \in {"loop", "poll", "deplete", "serve"} => w \in topCached

(* ThreadInv is inductive; the safety properties above follow from it.     *)
ThreadInv ==
  /\ LockInv /\ SessionInv /\ CountInv /\ ClaimInv /\ RefreshInv /\ JobInv
  /\ CacheInv /\ NoLostWakeup
=============================================================================
