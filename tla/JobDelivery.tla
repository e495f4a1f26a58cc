---------------------------- MODULE JobDelivery ----------------------------
(***************************************************************************)
(* The way of a job to the client: JobQueue deals the jobs out to the      *)
(* workers' queues in turn, a worker empties its three queues one after    *)
(* the other, and what it makes of a job is written to the one socket, for *)
(* which ServerSideTransport has a spinlock.                               *)
(*                                                                         *)
(* Each of the queues has one producer, so that a lock-free queue of       *)
(* MPSCQueue is a FIFO that is empty or not; the refresh, whose parts are  *)
(* in CoreSync, is one step here that waits for all workers to sleep.      *)
(* A frame reaches the socket in two pieces: asio::write repeats           *)
(* write_some, and the socket may take any part of a frame.                *)
(***************************************************************************)
EXTENDS Integers, Sequences, FiniteSets

CONSTANTS
  Concurrency,  \* workers, numbered from 0
  Ids,          \* the client's ids, InvalidId may be one of them
  MaxPromises, MaxErrors, MaxUsers,  \* bounds: jobs of each kind
  MaxEpoch      \* bound: refreshes

InvalidId == -1  \* UserDataConstants::invalidId and invalidRating
Workers == 0 .. Concurrency - 1
Kinds == {"error", "promise", "user"}

ASSUME DeliveryAssumption ==
  /\ Concurrency \in Nat \ {0} /\ MaxEpoch \in Nat
  /\ Ids \subseteq Nat \cup {InvalidId} /\ Ids # {}

VARIABLES
  queue,      \* [Kinds -> [Workers -> sequence of jobs]]
  current,    \* [Kinds -> Workers], the producers' currentQueueIndex
  made,       \* history: jobs made of each kind, which numbers them
  swallowed,  \* history: jobs taken for the mark of an empty queue
  pc,         \* of the workers
  frame,      \* [Workers -> the frame being written, and what it waits for]
  locked,     \* Spinlock::locked
  wire,       \* what has been written to the socket
  refreshing, epoch

queueVars == <<queue, current, made>>
vars == <<queueVars, swallowed, pc, frame, locked, wire, refreshing, epoch>>

NoFrame == [stage |-> "none"]

Init ==
  /\ queue = [k \in Kinds |-> [w \in Workers |-> <<>>]]
  /\ current = [k \in Kinds |-> 0] /\ made = [k \in Kinds |-> 0]
  /\ swallowed = {}
  /\ pc = [w \in Workers |-> "top"] /\ frame = [w \in Workers |-> NoFrame]
  /\ locked = FALSE /\ wire = <<>>
  /\ refreshing = FALSE /\ epoch = 0

-----------------------------------------------------------------------------
(* The producers.                                                          *)
(* Whose job it is matters for promises only.                              *)
AnyId == CHOOSE id \in Ids : TRUE

Job(kind, id) == [kind |-> kind, number |-> made[kind] + 1, id |-> id, epoch |-> epoch]

(* Mutant: the index wraps around too late.                                *)
EnqueuePastEnd(kind, id) ==
  /\ queue' = [queue EXCEPT ![kind][current[kind]] = Append(@, Job(kind, id))]
  /\ current' = [current EXCEPT ![kind] = (@ + 1) % (Concurrency + 1)]
  /\ made' = [made EXCEPT ![kind] = @ + 1]

(* JobQueue::Impl::enqueueErrorJob and the two enqueueRatingJob            *)
Enqueue(kind, id) ==
  /\ queue' = [queue EXCEPT ![kind][current[kind]] = Append(@, Job(kind, id))]
  /\ current' = [current EXCEPT ![kind] = (@ + 1) % Concurrency]
  /\ made' = [made EXCEPT ![kind] = @ + 1]

(* The listener, at any time.                                              *)
PromiseRating(id) ==
  /\ made["promise"] < MaxPromises /\ Enqueue("promise", id)
  /\ UNCHANGED <<swallowed, pc, frame, locked, wire, refreshing, epoch>>

(* The announcer: users between refreshes, errors while it recalculates.   *)
AnnounceUser ==
  /\ ~refreshing
  /\ made["user"] < MaxUsers /\ Enqueue("user", AnyId)
  /\ UNCHANGED <<swallowed, pc, frame, locked, wire, refreshing, epoch>>

(* A minute is long enough for the workers to wake up (Paced in CoreSync). *)
RaiseRefresh ==
  /\ ~refreshing /\ epoch < MaxEpoch
  /\ \A w \in Workers : pc[w] # "asleep"
  /\ refreshing' = TRUE
  /\ UNCHANGED <<queueVars, swallowed, pc, frame, locked, wire, epoch>>

AllAsleep == refreshing /\ \A w \in Workers : pc[w] = "asleep"

ReportError ==
  /\ AllAsleep
  /\ made["error"] < MaxErrors /\ Enqueue("error", AnyId)
  /\ UNCHANGED <<swallowed, pc, frame, locked, wire, refreshing, epoch>>

(* Mutant: not all workers are waited for.                                 *)
EndRefreshEarly ==
  /\ refreshing /\ \E w \in Workers : pc[w] = "asleep"
  /\ refreshing' = FALSE /\ epoch' = epoch + 1
  /\ UNCHANGED <<queueVars, swallowed, pc, frame, locked, wire>>

EndRefresh ==
  /\ AllAsleep
  /\ refreshing' = FALSE /\ epoch' = epoch + 1
  /\ UNCHANGED <<queueVars, swallowed, pc, frame, locked, wire>>

-----------------------------------------------------------------------------
(* A worker, WorkerPool::doWork.  One that has a frame goes on with it.    *)
Idle(w) == frame[w] = NoFrame

Go(w, from, to) == pc[w] = from /\ pc' = [pc EXCEPT ![w] = to]

(* Mutant: the users stay in the queue.                                    *)
TopUndepleted(w) ==
  /\ Go(w, "top", IF refreshing THEN "asleep" ELSE "errors")
  /\ UNCHANGED <<queueVars, swallowed, frame, locked, wire, refreshing, epoch>>

Top(w) ==
  /\ Go(w, "top", IF refreshing THEN "depleting" ELSE "errors")
  /\ UNCHANGED <<queueVars, swallowed, frame, locked, wire, refreshing, epoch>>

(* A job is taken from the queue, and its frame built from the rating of   *)
(* the day.                                                                *)
Take(w, kind) ==
  LET job == Head(queue[kind][w])
  IN  /\ queue[kind][w] # <<>>
      /\ queue' = [queue EXCEPT ![kind][w] = Tail(@)]
      /\ frame' = [frame EXCEPT ![w] = [stage |-> "locking", job |-> job, data |-> epoch]]
      /\ UNCHANGED <<current, made, swallowed, pc, locked, wire, refreshing, epoch>>

TakeError(w) == pc[w] = "errors" /\ Idle(w) /\ Take(w, "error")

ErrorsDone(w) ==
  /\ Idle(w) /\ queue["error"][w] = <<>>
  /\ Go(w, "errors", "promises")
  /\ UNCHANGED <<queueVars, swallowed, frame, locked, wire, refreshing, epoch>>

TakePromise(w) ==
  /\ pc[w] = "promises" /\ Idle(w)
  /\ queue["promise"][w] # <<>> /\ Head(queue["promise"][w]).id # InvalidId
  /\ Take(w, "promise")

(* Mutant: the last look at the queue takes a promise with it.             *)
PromisesDoneTaking(w) ==
  /\ Idle(w) /\ Go(w, "promises", "users")
  /\ \/ queue["promise"][w] = <<>> /\ UNCHANGED <<queue, swallowed>>
     \/ /\ queue["promise"][w] # <<>>
        /\ swallowed' = swallowed \cup {Head(queue["promise"][w])}
        /\ queue' = [queue EXCEPT !["promise"][w] = Tail(@)]
  /\ UNCHANGED <<current, made, frame, locked, wire, refreshing, epoch>>

(* An empty queue gives the id InvalidId, and so does a promise to it.     *)
PromisesDone(w) ==
  /\ Idle(w)
  /\ \/ queue["promise"][w] = <<>> /\ UNCHANGED <<queue, swallowed>>
     \/ /\ queue["promise"][w] # <<>> /\ Head(queue["promise"][w]).id = InvalidId
        /\ swallowed' = swallowed \cup {Head(queue["promise"][w])}
        /\ queue' = [queue EXCEPT !["promise"][w] = Tail(@)]
  /\ Go(w, "promises", "users")
  /\ UNCHANGED <<current, made, frame, locked, wire, refreshing, epoch>>

(* depleteUserDataMessages, in the loop or before the refresh.             *)
TakeUser(w) == pc[w] \in {"users", "depleting"} /\ Idle(w) /\ Take(w, "user")

(* Mutant: the loop does not look at the refresh flag again.               *)
UsersDoneUnchecked(w) ==
  /\ Idle(w) /\ queue["user"][w] = <<>>
  /\ Go(w, "users", "errors") \/ Go(w, "depleting", "asleep")
  /\ UNCHANGED <<queueVars, swallowed, frame, locked, wire, refreshing, epoch>>

UsersDone(w) ==
  /\ Idle(w) /\ queue["user"][w] = <<>>
  /\ Go(w, "users", "top") \/ Go(w, "depleting", "asleep")
  /\ UNCHANGED <<queueVars, swallowed, frame, locked, wire, refreshing, epoch>>

WakeUp(w) ==
  /\ ~refreshing
  /\ Go(w, "asleep", "errors")
  /\ UNCHANGED <<queueVars, swallowed, frame, locked, wire, refreshing, epoch>>

-----------------------------------------------------------------------------
(* blockedWriteMessage: the lock_guard is a temporary.                     *)
Stage(w, from, to) == frame[w].stage = from /\ frame' = [frame EXCEPT ![w].stage = to]

Piece(w, part) == [job |-> frame[w].job, data |-> frame[w].data, part |-> part, by |-> w]

Lock(w) ==
  /\ ~locked /\ locked' = TRUE
  /\ Stage(w, "locking", "unlocking")
  /\ UNCHANGED <<queueVars, swallowed, pc, wire, refreshing, epoch>>

Unlock(w) ==
  /\ locked' = FALSE
  /\ Stage(w, "unlocking", "writing")
  /\ UNCHANGED <<queueVars, swallowed, pc, wire, refreshing, epoch>>

(* writeMessage, send                                                      *)
WriteFirst(w) ==
  /\ Stage(w, "writing", "finishing")
  /\ wire' = Append(wire, Piece(w, "first"))
  /\ UNCHANGED <<queueVars, swallowed, pc, locked, refreshing, epoch>>

WriteRest(w) ==
  /\ frame[w].stage = "finishing" /\ frame' = [frame EXCEPT ![w] = NoFrame]
  /\ wire' = Append(wire, Piece(w, "rest"))
  /\ UNCHANGED <<queueVars, swallowed, pc, locked, refreshing, epoch>>

Worker(w) ==
  \/ Top(w) \/ TakeError(w) \/ ErrorsDone(w) \/ TakePromise(w) \/ PromisesDone(w)
  \/ TakeUser(w) \/ UsersDone(w) \/ WakeUp(w)
  \/ Lock(w) \/ Unlock(w) \/ WriteFirst(w) \/ WriteRest(w)

Next ==
  \/ \E id \in Ids : PromiseRating(id)
  \/ AnnounceUser \/ RaiseRefresh \/ ReportError \/ EndRefresh
  \/ \E w \in Workers : Worker(w)

Spec == Init /\ [][Next]_vars

(* Workers are scheduled, and a refresh that all of them sleep for ends.   *)
FairSpec == Spec /\ WF_vars(EndRefresh) /\ \A w \in Workers : WF_vars(Worker(w))

-----------------------------------------------------------------------------
Jobs == [kind : Kinds, number : Nat, id : Ids, epoch : 0 .. MaxEpoch]
Frames ==
  {NoFrame} \cup
  [stage : {"locking", "unlocking", "writing", "finishing"}, job : Jobs, data : 0 .. MaxEpoch]

(* Types of queues, workers, frames and socket.                            *)
TypeOK ==
  /\ queue \in [Kinds -> [Workers -> Seq(Jobs)]]
  /\ current \in [Kinds -> Workers] /\ made \in [Kinds -> Nat]
  /\ swallowed \subseteq Jobs
  /\ pc \in [Workers -> {"top", "errors", "promises", "users", "depleting", "asleep"}]
  /\ frame \in [Workers -> Frames] /\ locked \in BOOLEAN
  /\ wire \in Seq([job : Jobs, data : 0 .. MaxEpoch, part : {"first", "rest"}, by : Workers])
  /\ refreshing \in BOOLEAN /\ epoch \in 0 .. MaxEpoch

IsJob(job, k, n) == job.kind = k /\ job.number = n

(* Every job is in one queue, in one worker's hands or written, and once,  *)
(* except for promises to InvalidId, which a worker takes for the end of   *)
(* its queue.                                                              *)
JobsAreConserved ==
  \A k \in Kinds : \A n \in 1 .. made[k] :
    1 = Cardinality({wi \in Workers \X (1 .. n) :
                       wi[2] \in DOMAIN queue[k][wi[1]] /\ IsJob(queue[k][wi[1]][wi[2]], k, n)})
        + Cardinality({w \in Workers : frame[w] # NoFrame /\ IsJob(frame[w].job, k, n)})
        + Cardinality({i \in DOMAIN wire : wire[i].part = "rest" /\ IsJob(wire[i].job, k, n)})
        + Cardinality({job \in swallowed : IsJob(job, k, n) /\ k = "promise" /\ job.id = InvalidId})

(* Whichever workers write them, ratings of a minute follow on the socket  *)
(* all ratings of the minutes before.                                      *)
RatingsInOrder ==
  \A i, j \in DOMAIN wire :
    i < j /\ wire[i].job.kind # "error" /\ wire[j].job.kind # "error" => wire[i].data <= wire[j].data

(* A user announced in a minute gets the rating of that minute.            *)
AnnouncedInTheMinute ==
  \A i \in DOMAIN wire : wire[i].job.kind = "user" => wire[i].data = wire[i].job.epoch

(* Why ratings are in order: a worker that sleeps through a refresh has    *)
(* used up what was announced and written what it has made of it, so that  *)
(* nothing of a minute is left when the rating changes.                    *)
SleepersAreDone ==
  \A w \in Workers : pc[w] = "asleep" =>
    frame[w] = NoFrame /\ (refreshing => queue["user"][w] = << >>)

HeldIsCurrent ==
  \A w \in Workers : frame[w] # NoFrame =>
    frame[w].data = epoch /\ (frame[w].job.kind = "user" => frame[w].job.epoch = epoch)

QueuedIsCurrent ==
  \A k \in Kinds : \A w \in Workers : \A i \in DOMAIN queue[k][w] :
    queue[k][w][i].kind = k /\ (k = "user" => queue[k][w][i].epoch = epoch)

WrittenInOrder ==
  /\ \A i \in DOMAIN wire : wire[i].data <= epoch
  /\ \A i, j \in DOMAIN wire : i < j => wire[i].data <= wire[j].data

DeliveryInv ==
  SleepersAreDone /\ HeldIsCurrent /\ QueuedIsCurrent /\ WrittenInOrder /\ AnnouncedInTheMinute

(* A connected user gets the rating it has been promised, also behind a    *)
(* promise to InvalidId and through any number of refreshes.               *)
PromisesAreAnswered ==
  \A n \in 1 .. MaxPromises :
    (\E w \in Workers : \E i \in DOMAIN queue["promise"][w] :
        queue["promise"][w][i].number = n /\ queue["promise"][w][i].id # InvalidId)
    ~> (\E i \in DOMAIN wire : wire[i].part = "rest" /\ IsJob(wire[i].job, "promise", n))

(* A message is a whole frame: the client reads its size, then as many     *)
(* bytes (GenericMessageLayer::receive).                                   *)
FramesAreWhole ==
  \A i \in DOMAIN wire :
    wire[i].part = "first" /\ i < Len(wire) => wire[i + 1] = [wire[i] EXCEPT !.part = "rest"]
=============================================================================
