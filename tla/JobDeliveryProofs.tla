------------------------- MODULE JobDeliveryProofs -------------------------
(***************************************************************************)
(* Theorems about JobDelivery, for any number of workers, ids and jobs:    *)
(* types, the order of the ratings on the socket, and that no job is lost  *)
(* or sent twice.                                                          *)
(***************************************************************************)
EXTENDS JobDelivery, SequenceTheorems, FiniteSetTheorems, TLAPS

Pieces == [job : Jobs, data : 0 .. MaxEpoch, part : {"first", "rest"}, by : Workers]
WorkerPlaces == {"top", "errors", "promises", "users", "depleting", "asleep"}

(* A worker's actions, as one step of it is taken apart below.             *)
LEMMA NextCases ==
  ASSUME Next
  PROVE  \/ \E id \in Ids : PromiseRating(id)
         \/ AnnounceUser \/ RaiseRefresh \/ ReportError \/ EndRefresh
         \/ \E w \in Workers :
              \/ Top(w) \/ TakeError(w) \/ ErrorsDone(w) \/ TakePromise(w) \/ PromisesDone(w)
              \/ TakeUser(w) \/ UsersDone(w) \/ WakeUp(w)
              \/ Lock(w) \/ Unlock(w) \/ WriteFirst(w) \/ WriteRest(w)
BY DEF Next, Worker

(* The jobs that producers make have the type of jobs.                     *)
LEMMA JobType ==
  ASSUME TypeOK, NEW k \in Kinds, NEW id \in Ids
  PROVE  Job(k, id) \in Jobs
BY DEF TypeOK, Job, Jobs

LEMMA AnyIdType == AnyId \in Ids
BY DeliveryAssumption DEF AnyId

(* Enqueue keeps the types of the queues.                                  *)
LEMMA EnqueueType ==
  ASSUME TypeOK, NEW k \in Kinds, NEW id \in Ids, Enqueue(k, id)
  PROVE  /\ queue' \in [Kinds -> [Workers -> Seq(Jobs)]]
         /\ current' \in [Kinds -> Workers] /\ made' \in [Kinds -> Nat]
<1> DEFINE w == current[k]
<1>1. w \in Workers BY DEF TypeOK
<1>2. Append(queue[k][w], Job(k, id)) \in Seq(Jobs)
  BY <1>1, JobType, AppendProperties DEF TypeOK
<1>3. queue' \in [Kinds -> [Workers -> Seq(Jobs)]]
  BY <1>1, <1>2 DEF TypeOK, Enqueue
<1>4. (w + 1) % Concurrency \in Workers
  BY <1>1, DeliveryAssumption DEF Workers
<1>5. current' \in [Kinds -> Workers]
  BY <1>4 DEF TypeOK, Enqueue
<1>6. made' \in [Kinds -> Nat]
  BY DEF TypeOK, Enqueue
<1> QED BY <1>3, <1>5, <1>6

(* Take keeps the types of queues and frames.                              *)
LEMMA TakeType ==
  ASSUME TypeOK, NEW w \in Workers, NEW k \in Kinds, Take(w, k)
  PROVE  /\ queue' \in [Kinds -> [Workers -> Seq(Jobs)]]
         /\ frame' \in [Workers -> Frames]
<1>1. queue[k][w] \in Seq(Jobs) /\ queue[k][w] # << >>
  BY DEF TypeOK, Take
<1>2. Head(queue[k][w]) \in Jobs /\ Tail(queue[k][w]) \in Seq(Jobs)
  BY <1>1, HeadTailProperties
<1>3. queue' \in [Kinds -> [Workers -> Seq(Jobs)]]
  BY <1>2 DEF TypeOK, Take
<1>4. [stage |-> "locking", job |-> Head(queue[k][w]), data |-> epoch] \in Frames
  BY <1>2 DEF TypeOK, Frames
<1>5. frame' \in [Workers -> Frames]
  BY <1>4 DEF TypeOK, Take
<1> QED BY <1>3, <1>5

(* What a worker writes is typed.                                          *)
LEMMA PieceType ==
  ASSUME TypeOK, NEW w \in Workers, NEW part \in {"first", "rest"}, frame[w] # NoFrame
  PROVE  Piece(w, part) \in Pieces /\ Append(wire, Piece(w, part)) \in Seq(Pieces)
<1>1. frame[w].job \in Jobs /\ frame[w].data \in 0 .. MaxEpoch
  BY DEF TypeOK, Frames
<1>2. Piece(w, part) \in Pieces
  BY <1>1 DEF Piece, Pieces
<1> QED BY <1>2, AppendProperties DEF TypeOK, Pieces

(* Every stage but the first belongs to a frame, and leads to one.         *)
LEMMA StageType ==
  ASSUME TypeOK, NEW w \in Workers,
         NEW from \in {"locking", "unlocking", "writing"},
         NEW to \in {"unlocking", "writing", "finishing"},
         Stage(w, from, to)
  PROVE  frame[w] # NoFrame /\ frame' \in [Workers -> Frames]
<1>1. frame[w] # NoFrame BY DEF Stage, NoFrame
<1>2. [frame[w] EXCEPT !.stage = to] \in Frames
  BY <1>1 DEF TypeOK, Frames
<1>3. frame' \in [Workers -> Frames] BY <1>2 DEF TypeOK, Stage
<1> QED BY <1>1, <1>3

LEMMA GoType ==
  ASSUME TypeOK, NEW w \in Workers, NEW from, NEW to \in WorkerPlaces, Go(w, from, to)
  PROVE  pc' \in [Workers -> WorkerPlaces]
BY DEF TypeOK, Go, WorkerPlaces

-----------------------------------------------------------------------------
(* Types.                                                                  *)
LEMMA TypeInit == Init => TypeOK
<1> SUFFICES ASSUME Init PROVE TypeOK
  OBVIOUS
<1>1. 0 \in Workers BY DeliveryAssumption DEF Workers
<1>2. << >> \in Seq(Jobs) /\ << >> \in Seq(Pieces) BY EmptySeq
<1>3. 0 \in 0 .. MaxEpoch BY DeliveryAssumption
<1>4. NoFrame \in Frames BY DEF Frames
<1> QED BY <1>1, <1>2, <1>3, <1>4 DEF Init, TypeOK, Pieces

(* A refresh begins while there are epochs left, and uses up one.          *)
EpochsLeft == refreshing => epoch < MaxEpoch

LEMMA TypeStep ==
  ASSUME TypeOK, EpochsLeft, [Next]_vars
  PROVE  TypeOK' /\ EpochsLeft'
<1>1. CASE UNCHANGED vars
  BY <1>1 DEF TypeOK, EpochsLeft, vars, queueVars
<1>2. ASSUME NEW k \in Kinds, NEW id \in Ids, Enqueue(k, id),
             UNCHANGED <<swallowed, pc, frame, locked, wire, refreshing, epoch>>
      PROVE  TypeOK' /\ EpochsLeft'
  BY <1>2, EnqueueType DEF TypeOK, EpochsLeft
<1>3. ASSUME NEW id \in Ids, PromiseRating(id) PROVE TypeOK' /\ EpochsLeft'
  BY <1>2, <1>3 DEF PromiseRating, Kinds
<1>4. CASE AnnounceUser
  BY <1>2, <1>4, AnyIdType DEF AnnounceUser, Kinds
<1>5. CASE ReportError
  BY <1>2, <1>5, AnyIdType DEF ReportError, Kinds
<1>6. CASE RaiseRefresh
  BY <1>6 DEF RaiseRefresh, TypeOK, EpochsLeft, queueVars
<1>7. CASE EndRefresh
  <2>1. epoch + 1 \in 0 .. MaxEpoch
    BY <1>7, DeliveryAssumption DEF EndRefresh, AllAsleep, TypeOK, EpochsLeft
  <2> QED BY <1>7, <2>1 DEF EndRefresh, TypeOK, EpochsLeft, queueVars
<1>8. ASSUME NEW w \in Workers PROVE Worker(w) => TypeOK' /\ EpochsLeft'
  <2>1. ASSUME NEW from, NEW to \in WorkerPlaces, Go(w, from, to),
               UNCHANGED <<queueVars, swallowed, frame, locked, wire, refreshing, epoch>>
        PROVE  TypeOK' /\ EpochsLeft'
    BY <2>1, GoType DEF TypeOK, EpochsLeft, queueVars, WorkerPlaces
  <2>2. CASE Top(w) BY <2>1, <2>2 DEF Top, WorkerPlaces
  <2>3. CASE ErrorsDone(w) BY <2>1, <2>3 DEF ErrorsDone, WorkerPlaces
  <2>4. CASE UsersDone(w) BY <2>1, <2>4 DEF UsersDone, WorkerPlaces
  <2>5. CASE WakeUp(w) BY <2>1, <2>5 DEF WakeUp, WorkerPlaces
  <2>6. ASSUME NEW k \in Kinds, Take(w, k) PROVE TypeOK' /\ EpochsLeft'
    BY <2>6, TakeType DEF TypeOK, EpochsLeft, Take
  <2>7. CASE TakeError(w) BY <2>6, <2>7 DEF TakeError, Kinds
  <2>8. CASE TakePromise(w) BY <2>6, <2>8 DEF TakePromise, Kinds
  <2>9. CASE TakeUser(w) BY <2>6, <2>9 DEF TakeUser, Kinds
  <2>10. CASE PromisesDone(w)
    <3>1. pc' \in [Workers -> WorkerPlaces]
      BY <2>10, GoType DEF PromisesDone, WorkerPlaces
    <3>2. queue["promise"][w] \in Seq(Jobs)
      BY DEF TypeOK, Kinds
    <3>3. queue["promise"][w] # << >> =>
            Head(queue["promise"][w]) \in Jobs /\ Tail(queue["promise"][w]) \in Seq(Jobs)
      BY <3>2, HeadTailProperties
    <3>4. CASE UNCHANGED <<queue, swallowed>>
      BY <2>10, <3>1, <3>4 DEF PromisesDone, TypeOK, EpochsLeft, WorkerPlaces
    <3>5. CASE /\ queue["promise"][w] # << >>
               /\ swallowed' = swallowed \cup {Head(queue["promise"][w])}
               /\ queue' = [queue EXCEPT !["promise"][w] = Tail(@)]
      <4>1. queue' \in [Kinds -> [Workers -> Seq(Jobs)]]
        BY <3>3, <3>5 DEF TypeOK, Kinds
      <4>2. swallowed' \subseteq Jobs
        BY <3>3, <3>5 DEF TypeOK
      <4> QED BY <2>10, <3>1, <4>1, <4>2 DEF PromisesDone, TypeOK, EpochsLeft, WorkerPlaces
    <3> QED BY <2>10, <3>4, <3>5 DEF PromisesDone
  <2>11. CASE Lock(w)
    BY <2>11, StageType DEF Lock, TypeOK, EpochsLeft, queueVars
  <2>12. CASE Unlock(w)
    BY <2>12, StageType DEF Unlock, TypeOK, EpochsLeft, queueVars
  <2>13. CASE WriteFirst(w)
    <3>1. frame[w] # NoFrame /\ frame' \in [Workers -> Frames]
      BY <2>13, StageType DEF WriteFirst
    <3>2. wire' \in Seq(Pieces)
      BY <2>13, <3>1, PieceType DEF WriteFirst
    <3> QED BY <2>13, <3>1, <3>2 DEF WriteFirst, TypeOK, EpochsLeft, queueVars, Pieces
  <2>14. CASE WriteRest(w)
    <3>1. frame[w] # NoFrame
      BY <2>14 DEF WriteRest, NoFrame
    <3>2. wire' \in Seq(Pieces)
      BY <2>14, <3>1, PieceType DEF WriteRest
    <3>3. frame' \in [Workers -> Frames]
      BY <2>14 DEF WriteRest, TypeOK, Frames
    <3> QED BY <2>14, <3>2, <3>3 DEF WriteRest, TypeOK, EpochsLeft, queueVars, Pieces
  <2> QED
    BY <2>2, <2>3, <2>4, <2>5, <2>7, <2>8, <2>9, <2>10, <2>11, <2>12, <2>13, <2>14 DEF Worker
<1> QED
  BY <1>1, <1>3, <1>4, <1>5, <1>6, <1>7, <1>8 DEF Next

(* Queues, frames and socket hold what they are meant to hold, whatever    *)
(* the workers' interleaving (JobQueue, WorkerPool::doWork).               *)
THEOREM TypeCorrect == Spec => []TypeOK
<1>1. Init => TypeOK /\ EpochsLeft
  BY TypeInit DEF Init, EpochsLeft
<1>2. TypeOK /\ EpochsLeft /\ [Next]_vars => TypeOK' /\ EpochsLeft'
  BY TypeStep
<1> QED BY <1>1, <1>2, PTL DEF Spec
-----------------------------------------------------------------------------
(* The order of the ratings.                                               *)
LEMMA DeliveryInit == Init => DeliveryInv
BY DEF Init, DeliveryInv, SleepersAreDone, HeldIsCurrent, QueuedIsCurrent, WrittenInOrder,
       AnnouncedInTheMinute

(* A job joins its queue with the kind of the queue and the epoch of today. *)
LEMMA EnqueueKeeps ==
  ASSUME TypeOK, QueuedIsCurrent, NEW k \in Kinds, NEW id \in Ids, Enqueue(k, id), epoch' = epoch
  PROVE  QueuedIsCurrent'
<1> DEFINE c == current[k]
<1>1. c \in Workers /\ queue[k][c] \in Seq(Jobs) /\ Job(k, id) \in Jobs
  BY JobType DEF TypeOK
<1>2. /\ Len(queue[k][c]) \in Nat
      /\ Append(queue[k][c], Job(k, id)) \in Seq(Jobs)
      /\ Len(Append(queue[k][c], Job(k, id))) = Len(queue[k][c]) + 1
      /\ \A i \in 1 .. Len(queue[k][c]) : Append(queue[k][c], Job(k, id))[i] = queue[k][c][i]
      /\ Append(queue[k][c], Job(k, id))[Len(queue[k][c]) + 1] = Job(k, id)
  BY <1>1, AppendProperties, LenProperties
<1>3. Job(k, id).kind = k /\ Job(k, id).epoch = epoch
  BY DEF Job
<1>4. SUFFICES ASSUME NEW l \in Kinds, NEW w \in Workers, NEW i \in DOMAIN queue'[l][w]
               PROVE  queue'[l][w][i].kind = l /\ (l = "user" => queue'[l][w][i].epoch = epoch)
  BY DEF QueuedIsCurrent
<1>5. CASE l = k /\ w = c
  <2>1. queue'[l][w] = Append(queue[k][c], Job(k, id))
    BY <1>1, <1>5 DEF Enqueue, TypeOK
  <2>2. i \in 1 .. Len(queue[k][c]) + 1
    BY <1>2, <1>4, <2>1, LenProperties
  <2>3. CASE i = Len(queue[k][c]) + 1
    BY <1>2, <1>3, <1>5, <2>1, <2>3
  <2>4. CASE i # Len(queue[k][c]) + 1
    <3>1. i \in 1 .. Len(queue[k][c]) BY <1>2, <2>2, <2>4
    <3>2. i \in DOMAIN queue[k][c] BY <1>1, <3>1, LenProperties
    <3> QED BY <1>1, <1>2, <1>5, <2>1, <3>1, <3>2 DEF QueuedIsCurrent
  <2> QED BY <2>3, <2>4
<1>6. CASE ~(l = k /\ w = c)
  <2>1. queue'[l][w] = queue[l][w]
    BY <1>1, <1>6 DEF Enqueue, TypeOK
  <2> QED BY <1>4, <2>1 DEF QueuedIsCurrent
<1> QED BY <1>5, <1>6

(* What is left of a queue whose first job is gone.                        *)
LEMMA TailKeeps ==
  ASSUME TypeOK, QueuedIsCurrent, NEW k \in Kinds, NEW w \in Workers, queue[k][w] # << >>,
         queue' = [queue EXCEPT ![k][w] = Tail(@)], epoch' = epoch
  PROVE  QueuedIsCurrent'
<1>1. queue[k][w] \in Seq(Jobs)
  BY DEF TypeOK
<1>2. /\ Len(queue[k][w]) \in Nat
      /\ Tail(queue[k][w]) \in Seq(Jobs)
      /\ Len(Tail(queue[k][w])) = Len(queue[k][w]) - 1
      /\ \A i \in 1 .. Len(Tail(queue[k][w])) : Tail(queue[k][w])[i] = queue[k][w][i + 1]
  BY <1>1, HeadTailProperties, LenProperties
<1>3. SUFFICES ASSUME NEW l \in Kinds, NEW v \in Workers, NEW i \in DOMAIN queue'[l][v]
               PROVE  queue'[l][v][i].kind = l /\ (l = "user" => queue'[l][v][i].epoch = epoch)
  BY DEF QueuedIsCurrent
<1>4. CASE l = k /\ v = w
  <2>1. queue'[l][v] = Tail(queue[k][w])
    BY <1>4 DEF TypeOK
  <2>2. i \in 1 .. Len(Tail(queue[k][w]))
    BY <1>2, <1>3, <2>1, LenProperties
  <2>3. i + 1 \in DOMAIN queue[k][w]
    BY <1>1, <1>2, <2>2, LenProperties
  <2> QED BY <1>2, <1>4, <2>1, <2>2, <2>3 DEF QueuedIsCurrent
<1>5. CASE ~(l = k /\ v = w)
  <2>1. queue'[l][v] = queue[l][v]
    BY <1>5 DEF TypeOK
  <2> QED BY <1>3, <2>1 DEF QueuedIsCurrent
<1> QED BY <1>4, <1>5

(* A piece of the current epoch goes behind all others.                    *)
LEMMA WriteKeeps ==
  ASSUME TypeOK, HeldIsCurrent, WrittenInOrder, AnnouncedInTheMinute,
         NEW w \in Workers, NEW part \in {"first", "rest"}, frame[w] # NoFrame,
         wire' = Append(wire, Piece(w, part)), epoch' = epoch
  PROVE  WrittenInOrder' /\ AnnouncedInTheMinute'
<1> DEFINE p == Piece(w, part)
<1>1. p \in Pieces /\ wire \in Seq(Pieces)
  BY PieceType DEF TypeOK, Pieces
<1>2. p.data = epoch /\ (p.job.kind = "user" => p.data = p.job.epoch)
  BY DEF HeldIsCurrent, Piece
<1>3. /\ Len(wire) \in Nat
      /\ wire' \in Seq(Pieces) /\ Len(wire') = Len(wire) + 1
      /\ \A i \in 1 .. Len(wire) : wire'[i] = wire[i]
      /\ wire'[Len(wire) + 1] = p
  BY <1>1, AppendProperties, LenProperties
<1>4. DOMAIN wire = 1 .. Len(wire) /\ DOMAIN wire' = 1 .. Len(wire) + 1
  BY <1>1, <1>3, LenProperties
<1>5. ASSUME NEW i \in DOMAIN wire', i # Len(wire) + 1
      PROVE  i \in DOMAIN wire /\ wire'[i] = wire[i]
  BY <1>3, <1>4, <1>5
<1>6. epoch \in Int /\ \A i \in DOMAIN wire : wire[i].data \in Int
  <2>1. ASSUME NEW i \in DOMAIN wire PROVE wire[i].data \in Int
    <3>1. wire[i] \in Pieces BY <1>1, <1>4, ElementOfSeq
    <3>2. wire[i].data \in 0 .. MaxEpoch BY <3>1 DEF Pieces
    <3> QED BY <3>2, DeliveryAssumption
  <2> QED BY <2>1, DeliveryAssumption DEF TypeOK
<1>7. \A i \in DOMAIN wire' : wire'[i].data <= epoch
  BY <1>2, <1>3, <1>5, <1>6 DEF WrittenInOrder
<1>8. ASSUME NEW i \in DOMAIN wire', NEW j \in DOMAIN wire', i < j
      PROVE  wire'[i].data <= wire'[j].data
  <2>1. i \in DOMAIN wire /\ wire'[i] = wire[i]
    BY <1>3, <1>4, <1>8
  <2>2. CASE j = Len(wire) + 1
    BY <1>2, <1>3, <2>1, <2>2 DEF WrittenInOrder
  <2>3. CASE j # Len(wire) + 1
    BY <1>5, <1>8, <2>1, <2>3 DEF WrittenInOrder
  <2> QED BY <2>2, <2>3
<1>9. AnnouncedInTheMinute'
  BY <1>2, <1>3, <1>5 DEF AnnouncedInTheMinute
<1> QED BY <1>7, <1>8, <1>9 DEF WrittenInOrder
LEMMA DeliveryStep ==
  ASSUME TypeOK, DeliveryInv, [Next]_vars
  PROVE  DeliveryInv'
<1> USE DEF DeliveryInv
<1>1. CASE UNCHANGED vars
  BY <1>1 DEF vars, queueVars, SleepersAreDone, HeldIsCurrent, QueuedIsCurrent, WrittenInOrder,
              AnnouncedInTheMinute
<1>2. ASSUME NEW k \in Kinds, NEW id \in Ids, Enqueue(k, id), k = "user" => ~refreshing,
             UNCHANGED <<swallowed, pc, frame, locked, wire, refreshing, epoch>>
      PROVE  DeliveryInv'
  <2>1. QueuedIsCurrent' BY <1>2, EnqueueKeeps
  <2>2. k # "user" => \A w \in Workers : queue'["user"][w] = queue["user"][w]
    BY <1>2 DEF Enqueue, TypeOK, Kinds
  <2>3. SleepersAreDone' BY <1>2, <2>2 DEF SleepersAreDone
  <2> QED BY <1>2, <2>1, <2>3 DEF HeldIsCurrent, WrittenInOrder, AnnouncedInTheMinute
<1>3. ASSUME NEW id \in Ids, PromiseRating(id) PROVE DeliveryInv'
  BY <1>2, <1>3 DEF PromiseRating, Kinds
<1>4. CASE AnnounceUser
  BY <1>2, <1>4, AnyIdType DEF AnnounceUser, Kinds
<1>5. CASE ReportError
  BY <1>2, <1>5, AnyIdType DEF ReportError, Kinds
<1>6. CASE RaiseRefresh
  BY <1>6 DEF RaiseRefresh, queueVars, SleepersAreDone, HeldIsCurrent, QueuedIsCurrent,
              WrittenInOrder, AnnouncedInTheMinute
<1>7. CASE EndRefresh
  <2>1. \A w \in Workers : frame[w] = NoFrame /\ queue["user"][w] = << >>
    BY <1>7 DEF EndRefresh, AllAsleep, SleepersAreDone
  <2>2. SleepersAreDone' /\ HeldIsCurrent'
    BY <1>7, <2>1 DEF EndRefresh, queueVars, SleepersAreDone, HeldIsCurrent
  <2>3. QueuedIsCurrent'
    BY <1>7, <2>1 DEF EndRefresh, queueVars, QueuedIsCurrent
  <2>4. epoch \in Int /\ epoch' = epoch + 1 /\ wire' = wire
    BY <1>7, DeliveryAssumption DEF EndRefresh, TypeOK
  <2>5. \A i \in DOMAIN wire : wire[i].data \in Int
    <3>1. wire \in Seq(Pieces) BY DEF TypeOK, Pieces
    <3>2. ASSUME NEW i \in DOMAIN wire PROVE wire[i].data \in Int
      <4>1. wire[i] \in Pieces BY <3>1, ElementOfSeq, LenProperties
      <4>2. wire[i].data \in 0 .. MaxEpoch BY <4>1 DEF Pieces
      <4> QED BY <4>2, DeliveryAssumption
    <3> QED BY <3>2
  <2>6. WrittenInOrder'
    BY <2>4, <2>5 DEF WrittenInOrder
  <2> QED BY <2>2, <2>3, <2>4, <2>6 DEF AnnouncedInTheMinute
<1>8. ASSUME NEW w \in Workers PROVE Worker(w) => DeliveryInv'
  (* A worker goes to another place.                                       *)
  <2>1. ASSUME NEW from, NEW to, Go(w, from, to),
               to = "asleep" => frame[w] = NoFrame /\ queue["user"][w] = << >>,
               UNCHANGED <<queueVars, swallowed, frame, locked, wire, refreshing, epoch>>
        PROVE  DeliveryInv'
    <3>1. SleepersAreDone'
      BY <2>1 DEF Go, TypeOK, queueVars, SleepersAreDone
    <3> QED BY <2>1, <3>1 DEF queueVars, HeldIsCurrent, QueuedIsCurrent, WrittenInOrder,
                             AnnouncedInTheMinute
  <2>2. CASE Top(w) BY <2>1, <2>2 DEF Top
  <2>3. CASE ErrorsDone(w) BY <2>1, <2>3 DEF ErrorsDone
  <2>4. CASE UsersDone(w) BY <2>1, <2>4 DEF UsersDone, Idle
  <2>5. CASE WakeUp(w) BY <2>1, <2>5 DEF WakeUp
  (* A worker takes a job.                                                 *)
  <2>6. ASSUME NEW k \in Kinds, Take(w, k), pc[w] # "asleep" PROVE DeliveryInv'
    <3>1. QueuedIsCurrent' BY <2>6, TailKeeps DEF Take
    <3>2. SleepersAreDone'
      BY <2>6 DEF Take, TypeOK, SleepersAreDone, Kinds
    <3>3. queue[k][w] \in Seq(Jobs) /\ queue[k][w] # << >>
      BY <2>6 DEF Take, TypeOK
    <3>4. 1 \in DOMAIN queue[k][w] /\ Head(queue[k][w]) = queue[k][w][1]
      BY <3>3, HeadTailProperties, LenProperties, EmptySeq
    <3>5. LET job == Head(queue[k][w]) IN job.kind = "user" => job.epoch = epoch
      BY <3>4 DEF QueuedIsCurrent
    <3>6. HeldIsCurrent'
      BY <2>6, <3>5 DEF Take, TypeOK, HeldIsCurrent
    <3> QED BY <2>6, <3>1, <3>2, <3>6 DEF Take, WrittenInOrder, AnnouncedInTheMinute
  <2>7. CASE TakeError(w) BY <2>6, <2>7 DEF TakeError, Kinds
  <2>8. CASE TakePromise(w) BY <2>6, <2>8 DEF TakePromise, Kinds
  <2>9. CASE TakeUser(w) BY <2>6, <2>9 DEF TakeUser, Kinds
  <2>10. CASE PromisesDone(w)
    <3>1. CASE UNCHANGED <<queue, swallowed>>
      BY <2>1, <2>10, <3>1 DEF PromisesDone, queueVars
    <3>2. CASE queue["promise"][w] # << >> /\ queue' = [queue EXCEPT !["promise"][w] = Tail(@)]
      <4>1. QueuedIsCurrent'
        BY <2>10, <3>2, TailKeeps DEF PromisesDone, Kinds
      <4>2. SleepersAreDone'
        BY <2>10, <3>2 DEF PromisesDone, Go, TypeOK, SleepersAreDone, Kinds
      <4> QED BY <2>10, <4>1, <4>2 DEF PromisesDone, HeldIsCurrent, WrittenInOrder,
                                      AnnouncedInTheMinute
    <3> QED BY <2>10, <3>1, <3>2 DEF PromisesDone
  (* A worker goes on with its frame: it is awake.                         *)
  <2>11. ASSUME NEW from \in {"locking", "unlocking", "writing"},
                NEW to \in {"unlocking", "writing", "finishing"}, Stage(w, from, to),
                UNCHANGED <<queueVars, swallowed, pc, refreshing, epoch>>
         PROVE  SleepersAreDone' /\ HeldIsCurrent' /\ QueuedIsCurrent'
    <3>1. frame[w] # NoFrame /\ frame[w] \in Frames
      BY <2>11, StageType DEF TypeOK
    <3>2. /\ \A v \in Workers \ {w} : frame'[v] = frame[v]
          /\ frame'[w] = [frame[w] EXCEPT !.stage = to]
      BY <2>11 DEF Stage, TypeOK
    <3>3. frame'[w].data = frame[w].data /\ frame'[w].job = frame[w].job
      BY <3>1, <3>2 DEF Frames
    <3>4. pc[w] # "asleep"
      BY <3>1 DEF SleepersAreDone
    <3>5. SleepersAreDone'
      BY <2>11, <3>2, <3>4 DEF SleepersAreDone, queueVars
    <3>6. HeldIsCurrent'
      <4>1. epoch' = epoch /\ HeldIsCurrent
        BY <2>11 DEF DeliveryInv
      <4>2. SUFFICES ASSUME NEW v \in Workers, frame'[v] # NoFrame
                     PROVE  /\ frame'[v].data = epoch
                            /\ frame'[v].job.kind = "user" => frame'[v].job.epoch = epoch
        BY <4>1 DEF HeldIsCurrent
      <4>3. CASE v = w
        BY <3>1, <3>3, <4>1, <4>3 DEF HeldIsCurrent
      <4>4. CASE v # w
        BY <3>2, <4>1, <4>2, <4>4 DEF HeldIsCurrent
      <4> QED BY <4>3, <4>4
    <3> QED BY <2>11, <3>5, <3>6 DEF QueuedIsCurrent, queueVars
  <2>12. CASE Lock(w)
    BY <2>11, <2>12 DEF Lock, WrittenInOrder, AnnouncedInTheMinute
  <2>13. CASE Unlock(w)
    BY <2>11, <2>13 DEF Unlock, WrittenInOrder, AnnouncedInTheMinute
  <2>14. CASE WriteFirst(w)
    <3>1. frame[w] # NoFrame
      BY <2>14, StageType DEF WriteFirst
    <3>2. WrittenInOrder' /\ AnnouncedInTheMinute'
      BY <2>14, <3>1, WriteKeeps DEF WriteFirst
    <3> QED BY <2>11, <2>14, <3>2 DEF WriteFirst
  <2>15. CASE WriteRest(w)
    <3>1. frame[w] # NoFrame
      BY <2>15 DEF WriteRest, NoFrame
    <3>2. WrittenInOrder' /\ AnnouncedInTheMinute'
      BY <2>15, <3>1, WriteKeeps DEF WriteRest
    <3>3. SleepersAreDone' /\ HeldIsCurrent' /\ QueuedIsCurrent'
      BY <2>15 DEF WriteRest, TypeOK, SleepersAreDone, HeldIsCurrent, QueuedIsCurrent, queueVars
    <3> QED BY <3>2, <3>3
  <2> QED
    BY <2>2, <2>3, <2>4, <2>5, <2>7, <2>8, <2>9, <2>10, <2>12, <2>13, <2>14, <2>15 DEF Worker
<1> QED
  BY <1>1, <1>3, <1>4, <1>5, <1>6, <1>7, <1>8 DEF Next

(* What workers hold and have written belongs to the right minute, for any *)
(* number of workers (WorkerPool::doWork, RatingCalculator::recalculate).  *)
THEOREM DeliveryInvHolds == Spec => []DeliveryInv
<1>1. Init => TypeOK /\ EpochsLeft /\ DeliveryInv
  BY TypeInit, DeliveryInit DEF Init, EpochsLeft
<1>2. TypeOK /\ EpochsLeft /\ DeliveryInv /\ [Next]_vars
        => TypeOK' /\ EpochsLeft' /\ DeliveryInv'
  BY TypeStep, DeliveryStep
<1> QED BY <1>1, <1>2, PTL DEF Spec

(* Ratings of a minute follow all ratings of the minutes before on the     *)
(* socket, without any lock (ServerSideTransport::blockedWriteMessage).    *)
THEOREM RatingsAreOrdered == Spec => []RatingsInOrder
<1>1. DeliveryInv => RatingsInOrder
  BY DEF DeliveryInv, WrittenInOrder, RatingsInOrder
<1> QED BY <1>1, DeliveryInvHolds, PTL

(* An announced user gets the rating of the minute of the announcement     *)
(* (depleteUserDataMessages before a worker goes to sleep).                *)
THEOREM AnnouncementsAreCurrent == Spec => []AnnouncedInTheMinute
<1>1. DeliveryInv => AnnouncedInTheMinute
  BY DEF DeliveryInv
<1> QED BY <1>1, DeliveryInvHolds, PTL

-----------------------------------------------------------------------------
(* Where a job is: in which queues, in whose hands, where on the socket,   *)
(* and whether it has been taken for the mark of an empty queue.           *)
At(q, k, n, w, i) == i \in DOMAIN q[k][w] /\ IsJob(q[k][w][i], k, n)
InQueues(q, k, n) == {wi \in Workers \X (1 .. n) : At(q, k, n, wi[1], wi[2])}
InHands(f, k, n) == {w \in Workers : f[w] # NoFrame /\ IsJob(f[w].job, k, n)}
OnWire(x, k, n) == {i \in DOMAIN x : x[i].part = "rest" /\ IsJob(x[i].job, k, n)}
TakenForEnd(s, k, n) == {job \in s : IsJob(job, k, n) /\ k = "promise" /\ job.id = InvalidId}

One(S) == \E x : S = {x}

(* A job is in one of these places, and there once.                        *)
InOnePlace(q, f, x, s, k, n) ==
  \/ One(InQueues(q, k, n)) /\ InHands(f, k, n) = {} /\ OnWire(x, k, n) = {} /\ TakenForEnd(s, k, n) = {}
  \/ InQueues(q, k, n) = {} /\ One(InHands(f, k, n)) /\ OnWire(x, k, n) = {} /\ TakenForEnd(s, k, n) = {}
  \/ InQueues(q, k, n) = {} /\ InHands(f, k, n) = {} /\ One(OnWire(x, k, n)) /\ TakenForEnd(s, k, n) = {}
  \/ InQueues(q, k, n) = {} /\ InHands(f, k, n) = {} /\ OnWire(x, k, n) = {} /\ One(TakenForEnd(s, k, n))

PlacesInv == \A k \in Kinds : \A n \in 1 .. made[k] : InOnePlace(queue, frame, wire, swallowed, k, n)

(* No job has a number that is still to be given, and none is further back *)
(* in its queue than its number.                                           *)
NumbersInv ==
  /\ \A k \in Kinds : \A w \in Workers :
       /\ Len(queue[k][w]) <= made[k]
       /\ \A i \in DOMAIN queue[k][w] : queue[k][w][i].number \in i .. made[k]
  /\ \A w \in Workers : frame[w] # NoFrame => frame[w].job.number <= made[frame[w].job.kind]
  /\ \A i \in DOMAIN wire : wire[i].job.number <= made[wire[i].job.kind]
  /\ \A job \in swallowed : job.number <= made[job.kind]

Queues == [Kinds -> [Workers -> Seq(Jobs)]]

LEMMA QueuePlace ==
  ASSUME NEW q, NEW k, NEW n \in Nat, NEW w \in Workers, NEW i \in 1 .. n
  PROVE  <<w, i>> \in InQueues(q, k, n) <=> At(q, k, n, w, i)
BY DEF InQueues

LEMMA QueuePlaces ==
  ASSUME NEW q, NEW k, NEW n \in Nat, NEW x \in InQueues(q, k, n)
  PROVE  \E w \in Workers : \E i \in 1 .. n : x = <<w, i>> /\ At(q, k, n, w, i)
BY DEF InQueues

(* A job that is appended is in its queue, and no other job has moved.     *)
LEMMA AppendedJob ==
  ASSUME NEW q \in Queues, NEW k \in Kinds, NEW c \in Workers, NEW job \in Jobs, NEW m \in Nat,
         IsJob(job, k, m), Len(q[k][c]) < m,
         \A w \in Workers : \A i \in DOMAIN q[k][w] : q[k][w][i].number < m,
         NEW r, r[k][c] = Append(q[k][c], job),
         \A l \in Kinds : \A w \in Workers : l # k \/ w # c => r[l][w] = q[l][w]
  PROVE  /\ One(InQueues(r, k, m))
         /\ \A l \in Kinds : \A n \in Nat : l # k \/ n < m => InQueues(r, l, n) = InQueues(q, l, n)
<1> DEFINE s == q[k][c]
           e == Len(s) + 1
<1>1. s \in Seq(Jobs)
  BY DEF Queues
<1>2. /\ Len(s) \in Nat /\ DOMAIN s = 1 .. Len(s)
      /\ Append(s, job) \in Seq(Jobs) /\ Len(Append(s, job)) = e
      /\ \A i \in 1 .. Len(s) : Append(s, job)[i] = s[i]
      /\ Append(s, job)[e] = job
  BY <1>1, AppendProperties, LenProperties
<1>3. DOMAIN Append(s, job) = 1 .. e
  BY <1>2, LenProperties
<1>4. /\ r[k][c] = Append(s, job)
      /\ \A l \in Kinds : \A w \in Workers : l # k \/ w # c => r[l][w] = q[l][w]
  BY DEF Queues
<1> HIDE DEF s
<1>5. s = q[k][c] /\ e \in 1 .. m
  BY <1>2 DEF s
<1>6. At(r, k, m, c, e)
  BY <1>2, <1>3, <1>4 DEF At
<1>7. ASSUME NEW w \in Workers, NEW i, At(r, k, m, w, i)
      PROVE  w = c /\ i = e
  <2>1. ASSUME w # c
        PROVE  FALSE
    BY <1>4, <1>7, <2>1 DEF At, IsJob
  <2>2. CASE w = c
    <3>1. i \in 1 .. e /\ Append(s, job)[i].number = m
      BY <1>3, <1>4, <1>7, <2>2 DEF At, IsJob
    <3>2. i # e => i \in 1 .. Len(s)
      BY <1>2, <3>1
    <3>3. i # e => Append(s, job)[i].number < m
      BY <1>2, <1>5, <3>2
    <3>4. QED
      BY <2>2, <3>1, <3>3
  <2>3. QED
    BY <2>1, <2>2
<1>8. InQueues(r, k, m) = {<<c, e>>}
  <2>1. <<c, e>> \in InQueues(r, k, m)
    BY <1>5, <1>6, QueuePlace
  <2>2. ASSUME NEW x \in InQueues(r, k, m)
        PROVE  x = <<c, e>>
    <3>1. PICK w \in Workers, i \in 1 .. m : x = <<w, i>> /\ At(r, k, m, w, i)
      BY QueuePlaces
    <3>2. w = c /\ i = e
      BY <1>7, <3>1
    <3>3. QED
      BY <3>1, <3>2
  <2>3. QED
    BY <2>1, <2>2
<1>9. ASSUME NEW l \in Kinds, NEW n \in Nat, l # k \/ n < m
      PROVE  InQueues(r, l, n) = InQueues(q, l, n)
  <2>1. ASSUME NEW w \in Workers, NEW i \in 1 .. n
        PROVE  At(r, l, n, w, i) <=> At(q, l, n, w, i)
    <3>1. CASE l # k \/ w # c
      BY <1>4, <3>1 DEF At
    <3>2. CASE l = k /\ w = c
      <4>1. n < m
        BY <1>9, <3>2
      <4>2. At(r, l, n, w, i) => i # e
        BY <1>2, <1>4, <3>2, <4>1 DEF At, IsJob
      <4>3. i # e => (i \in 1 .. e <=> i \in 1 .. Len(s))
        BY <1>2
      <4>4. i \in DOMAIN s => i # e
        BY <1>2
      <4>5. QED
        BY <1>2, <1>3, <1>4, <1>5, <3>2, <4>2, <4>3, <4>4 DEF At
    <3>3. QED
      BY <3>1, <3>2
  <2>2. \A w \in Workers : \A i \in 1 .. n : At(r, l, n, w, i) <=> At(q, l, n, w, i)
    BY <2>1
  <2>3. QED
    BY <2>2 DEF InQueues
<1>10. QED
  BY <1>8, <1>9 DEF One

LEMMA SuccessorsDiffer == \A a, b \in Nat : a + 1 = b + 1 => a = b
OBVIOUS

(* One queue is shorter by its first job, the others are as they were.     *)
Shorter(q, r, k, w) ==
  /\ r[k][w] = Tail(q[k][w])
  /\ \A l \in Kinds : \A v \in Workers : l # k \/ v # w => r[l][v] = q[l][v]

(* A job that is taken from its queue is in no queue, if it has been in    *)
(* no other place of one, and all others are in one still.                 *)
LEMMA TakenJob ==
  ASSUME NEW q \in Queues, NEW k \in Kinds, NEW w \in Workers, q[k][w] # << >>,
         NEW m \in Nat \ {0}, IsJob(Head(q[k][w]), k, m),
         \A v \in Workers : \A i \in DOMAIN q[k][v] : i <= q[k][v][i].number,
         \A v \in Workers : \A i \in DOMAIN q[k][v] : q[k][v][i].number \in Nat,
         NEW r, Shorter(q, r, k, w)
  PROVE  /\ InQueues(q, k, m) # {}
         /\ One(InQueues(q, k, m)) => InQueues(r, k, m) = {}
         /\ \A l \in Kinds : \A n \in Nat : l # k \/ n # m =>
              /\ InQueues(q, l, n) = {} => InQueues(r, l, n) = {}
              /\ One(InQueues(q, l, n)) => One(InQueues(r, l, n))
<1> DEFINE s == q[k][w]
           old(v, i) == IF v = w THEN i + 1 ELSE i
<1>1. s \in Seq(Jobs) /\ s # << >>
  BY DEF Queues
<1>2. /\ Len(s) \in Nat /\ DOMAIN s = 1 .. Len(s) /\ Len(s) >= 1 /\ Head(s) = s[1]
      /\ Tail(s) \in Seq(Jobs) /\ Len(Tail(s)) = Len(s) - 1
      /\ \A i \in 1 .. Len(Tail(s)) : Tail(s)[i] = s[i + 1]
  BY <1>1, HeadTailProperties, LenProperties, EmptySeq
<1>3. DOMAIN Tail(s) = 1 .. Len(s) - 1
  BY <1>2, LenProperties
<1>4. /\ r[k][w] = Tail(s)
      /\ \A l \in Kinds : \A v \in Workers : l # k \/ v # w => r[l][v] = q[l][v]
  BY DEF Shorter
<1>5. ASSUME NEW v \in Workers, NEW n \in Nat, NEW i \in Nat \ {0}
      PROVE  At(r, k, n, v, i) <=> At(q, k, n, v, old(v, i))
  <2>1. CASE v = w
    <3>1. old(v, i) = i + 1
      BY <2>1
    <3> HIDE DEF old, s
    <3>2. i \in 1 .. Len(s) - 1 <=> i + 1 \in 1 .. Len(s)
      BY <1>2
    <3>3. i \in DOMAIN r[k][w] <=> i + 1 \in DOMAIN s
      BY <1>2, <1>3, <1>4, <3>2
    <3>4. i \in DOMAIN r[k][w] => r[k][w][i] = s[i + 1]
      BY <1>2, <1>3, <1>4
    <3>5. /\ i \in DOMAIN r[k][v] <=> old(v, i) \in DOMAIN q[k][v]
          /\ i \in DOMAIN r[k][v] => r[k][v][i] = q[k][v][old(v, i)]
      BY <2>1, <3>1, <3>3, <3>4 DEF s
    <3>6. QED
      BY <3>5 DEF At
  <2>2. CASE v # w
    <3>1. old(v, i) = i /\ r[k][v] = q[k][v]
      BY <1>4, <2>2
    <3> HIDE DEF old
    <3>2. QED
      BY <3>1 DEF At
  <2>3. QED
    BY <2>1, <2>2
<1>12. \A v \in Workers : \A i \in Nat :
         old(v, i) \in Nat /\ (v = w => old(v, i) = i + 1) /\ (v # w => old(v, i) = i)
  OBVIOUS
<1>13. \A v \in Workers : \A n \in Nat : \A i \in Nat \ {0} :
         At(r, k, n, v, i) <=> At(q, k, n, v, old(v, i))
  BY <1>5
<1> HIDE DEF old
<1>6. At(q, k, m, w, 1)
  BY <1>2 DEF At
<1>7. <<w, 1>> \in InQueues(q, k, m)
  BY <1>6, QueuePlace
<1>8. ASSUME NEW v \in Workers, NEW n \in Nat, NEW i, At(q, k, n, v, i)
      PROVE  i \in 1 .. n
  <2>1. q[k][v] \in Seq(Jobs)
    BY DEF Queues
  <2>2. i \in 1 .. Len(q[k][v]) /\ Len(q[k][v]) \in Nat
    BY <1>8, <2>1, LenProperties DEF At
  <2>3. i <= n
    BY <1>8 DEF At, IsJob
  <2>4. QED
    BY <2>2, <2>3
<1>9. ASSUME One(InQueues(q, k, m)), NEW x \in InQueues(r, k, m)
      PROVE  FALSE
  <2>1. PICK v \in Workers, i \in 1 .. m : x = <<v, i>> /\ At(r, k, m, v, i)
    BY QueuePlaces
  <2>2. At(q, k, m, v, old(v, i))
    <3>1. i \in Nat \ {0}
      BY <2>1
    <3>2. QED
      BY <1>13, <2>1, <3>1, Zenon
  <2>3. <<v, old(v, i)>> \in InQueues(q, k, m)
    BY <1>8, <2>2, QueuePlace
  <2>4. <<v, old(v, i)>> = <<w, 1>>
    BY <1>7, <1>9, <2>3 DEF One
  <2>5. v = w /\ old(v, i) = 1
    BY <2>4, Zenon
  <2>6. QED
    BY <1>12, <2>5
<1>10. ASSUME NEW l \in Kinds, NEW n \in Nat, l # k \/ n # m
       PROVE  /\ InQueues(q, l, n) = {} => InQueues(r, l, n) = {}
              /\ One(InQueues(q, l, n)) => One(InQueues(r, l, n))
  <2>1. CASE l # k
    <3>1. \A v \in Workers : r[l][v] = q[l][v]
      BY <1>4, <2>1
    <3>2. InQueues(r, l, n) = InQueues(q, l, n)
      BY <3>1 DEF InQueues, At
    <3>3. QED
      BY <3>2
  <2>2. CASE l = k
    <3>1. n # m
      BY <1>10, <2>2
    (* Where a job is was its place, or the one before it.               *)
    <3>2. ASSUME NEW v \in Workers, NEW i \in 1 .. n, At(r, k, n, v, i)
          PROVE  <<v, old(v, i)>> \in InQueues(q, k, n)
      <4>1. i \in Nat \ {0} /\ i \in Nat
        BY <3>2
      <4>2. At(q, k, n, v, old(v, i))
        BY <1>13, <3>2, <4>1, Zenon
      <4>3. old(v, i) \in 1 .. n
        BY <1>8, <4>2, Zenon
      <4>4. QED
        BY <4>2, <4>3, QueuePlace
    <3>3. ASSUME NEW v \in Workers, NEW j \in 1 .. n, At(q, k, n, v, j)
          PROVE  \E i \in 1 .. n : At(r, k, n, v, i) /\ j = old(v, i)
      <4>1. CASE v = w
        <5>1. j # 1
          BY <1>2, <3>1, <3>3, <4>1 DEF At, IsJob
        <5>2. j - 1 \in 1 .. n /\ old(v, j - 1) = j
          BY <1>12, <4>1, <5>1
        <5>3. At(r, k, n, v, j - 1)
          <6>1. j - 1 \in Nat \ {0} /\ n \in Nat /\ At(q, k, n, v, old(v, j - 1))
            BY <3>3, <5>2
          <6>2. QED
            BY <1>13, <6>1, Zenon
        <5>4. QED
          BY <5>2, <5>3
      <4>2. CASE v # w
        <5>1. old(v, j) = j
          BY <1>12, <4>2
        <5>2. At(r, k, n, v, j)
          <6>1. j \in Nat \ {0} /\ n \in Nat /\ At(q, k, n, v, old(v, j))
            BY <3>3, <5>1
          <6>2. QED
            BY <1>13, <6>1, Zenon
        <5>3. QED
          BY <5>1, <5>2
      <4>3. QED
        BY <4>1, <4>2
    <3>4. ASSUME InQueues(q, k, n) = {}, NEW x \in InQueues(r, k, n)
          PROVE  FALSE
      <4>1. PICK v \in Workers, i \in 1 .. n : x = <<v, i>> /\ At(r, k, n, v, i)
        BY <3>4, QueuePlaces
      <4>2. QED
        BY <3>2, <3>4, <4>1
    <3>5. ASSUME One(InQueues(q, k, n))
          PROVE  One(InQueues(r, k, n))
      <4>1. PICK y : InQueues(q, k, n) = {y}
        BY <3>5 DEF One
      <4>2. PICK v \in Workers, j \in 1 .. n : y = <<v, j>> /\ At(q, k, n, v, j)
        BY <4>1, QueuePlaces
      <4>3. PICK i \in 1 .. n : At(r, k, n, v, i) /\ j = old(v, i)
        BY <3>3, <4>2
      <4>4. <<v, i>> \in InQueues(r, k, n)
        BY <4>3, QueuePlace
      <4>5. ASSUME NEW x \in InQueues(r, k, n)
            PROVE  x = <<v, i>>
        <5>1. PICK u \in Workers, h \in 1 .. n : x = <<u, h>> /\ At(r, k, n, u, h)
          BY <4>5, QueuePlaces
        <5>2. <<u, old(u, h)>> = <<v, old(v, i)>>
          BY <3>2, <4>1, <4>2, <4>3, <5>1
        <5>3. u = v /\ old(u, h) = old(v, i)
          BY <5>2, Zenon
        <5>4. h \in Nat /\ i \in Nat
          OBVIOUS
        <5>5. h = i
          <6>1. CASE v = w
            <7>1. old(u, h) = h + 1 /\ old(v, i) = i + 1
              BY <1>12, <5>3, <5>4, <6>1, Zenon
            <7>2. h + 1 = i + 1
              BY <5>3, <7>1, Zenon
            <7>3. QED
              BY <5>4, <7>2, SuccessorsDiffer, Zenon
          <6>2. CASE v # w
            <7>1. old(u, h) = h /\ old(v, i) = i
              BY <1>12, <5>3, <5>4, <6>2, Zenon
            <7>2. QED
              BY <5>3, <7>1
          <6>3. QED
            BY <6>1, <6>2
        <5>6. QED
          BY <5>1, <5>3, <5>5
      <4>6. QED
        BY <4>4, <4>5 DEF One
    <3>6. QED
      BY <2>2, <3>4, <3>5
  <2>3. QED
    BY <2>1, <2>2
<1>11. QED
  BY <1>7, <1>9, <1>10

-----------------------------------------------------------------------------
(* The types that are needed, and what a job's numbers say.                *)
LEMMA JobTypes ==
  ASSUME TypeOK, QueuedIsCurrent, NumbersInv
  PROVE  /\ queue \in Queues /\ \A k \in Kinds : made[k] \in Nat
         /\ \A k \in Kinds : \A w \in Workers : queue[k][w] \in Seq(Jobs) /\ Len(queue[k][w]) \in Nat
         /\ \A k \in Kinds : \A w \in Workers : \A i \in DOMAIN queue[k][w] :
              /\ i \in Nat \ {0} /\ queue[k][w][i] \in Jobs /\ queue[k][w][i].kind = k
              /\ queue[k][w][i].number \in Nat
              /\ i <= queue[k][w][i].number /\ queue[k][w][i].number <= made[k]
         /\ \A w \in Workers : frame[w] # NoFrame => frame[w].job \in Jobs
         /\ wire \in Seq(Pieces) /\ DOMAIN wire = 1 .. Len(wire) /\ Len(wire) \in Nat
         /\ \A i \in DOMAIN wire : wire[i] \in Pieces /\ wire[i].job \in Jobs
         /\ \A job \in swallowed : job \in Jobs
<1>1. queue \in Queues /\ \A k \in Kinds : made[k] \in Nat
  BY DEF TypeOK, Queues
<1>2. ASSUME NEW k \in Kinds, NEW w \in Workers
      PROVE  queue[k][w] \in Seq(Jobs) /\ Len(queue[k][w]) \in Nat /\ DOMAIN queue[k][w] = 1 .. Len(queue[k][w])
  BY <1>1, LenProperties DEF Queues
<1>3. ASSUME NEW k \in Kinds, NEW w \in Workers, NEW i \in DOMAIN queue[k][w]
      PROVE  /\ i \in Nat \ {0} /\ queue[k][w][i] \in Jobs /\ queue[k][w][i].kind = k
             /\ queue[k][w][i].number \in Nat
             /\ i <= queue[k][w][i].number /\ queue[k][w][i].number <= made[k]
  <2>1. i \in 1 .. Len(queue[k][w])
    BY <1>2, <1>3
  <2>2. queue[k][w][i] \in Jobs
    BY <1>2, <2>1, ElementOfSeq
  <2>3. queue[k][w][i].kind = k /\ queue[k][w][i].number \in i .. made[k]
    BY <1>3 DEF QueuedIsCurrent, NumbersInv
  <2>4. QED
    BY <1>1, <1>2, <2>1, <2>2, <2>3
<1>4. ASSUME NEW w \in Workers, frame[w] # NoFrame
      PROVE  frame[w].job \in Jobs
  BY <1>4 DEF TypeOK, Frames
<1>5. wire \in Seq(Pieces)
  BY DEF TypeOK, Pieces
<1>6. DOMAIN wire = 1 .. Len(wire) /\ Len(wire) \in Nat
  BY <1>5, LenProperties
<1>7. ASSUME NEW i \in DOMAIN wire
      PROVE  wire[i] \in Pieces /\ wire[i].job \in Jobs
  <2>1. wire[i] \in Pieces
    BY <1>5, <1>6, ElementOfSeq
  <2>2. QED
    BY <2>1 DEF Pieces
<1>8. swallowed \subseteq Jobs
  BY DEF TypeOK
<1>9. QED
  BY <1>1, <1>2, <1>3, <1>4, <1>5, <1>6, <1>7, <1>8

(* A new job is in its queue and nowhere else.                             *)
LEMMA EnqueuedJob ==
  ASSUME TypeOK, QueuedIsCurrent, NumbersInv, PlacesInv,
         NEW k \in Kinds, NEW id \in Ids, Enqueue(k, id),
         UNCHANGED <<swallowed, frame, wire>>
  PROVE  NumbersInv' /\ PlacesInv'
<1> DEFINE c == current[k]
           m == made[k] + 1
           job == Job(k, id)
<1>1. /\ c \in Workers /\ job \in Jobs /\ m \in Nat /\ made[k] \in Nat
      /\ IsJob(job, k, m)
  BY JobType DEF TypeOK, Job, IsJob
<1>2. /\ queue' = [queue EXCEPT ![k][c] = Append(@, job)] /\ made' = [made EXCEPT ![k] = m]
  BY DEF Enqueue
<1>3. made'[k] = m /\ \A l \in Kinds : (l # k => made'[l] = made[l]) /\ made[l] <= made'[l] /\ made'[l] \in Nat
  BY <1>1, <1>2 DEF TypeOK
<1> HIDE DEF job
<1>4. Len(queue[k][c]) < m
  BY <1>1, JobTypes DEF NumbersInv
<1>5. \A w \in Workers : \A i \in DOMAIN queue[k][w] : queue[k][w][i].number < m
  BY <1>1, JobTypes
<1>6. /\ One(InQueues(queue', k, m))
      /\ \A l \in Kinds : \A n \in Nat : l # k \/ n < m => InQueues(queue', l, n) = InQueues(queue, l, n)
  <2>1. queue \in Queues
    BY JobTypes
  <2>2. /\ queue'[k][c] = Append(queue[k][c], job)
        /\ \A l \in Kinds : \A w \in Workers : l # k \/ w # c => queue'[l][w] = queue[l][w]
    BY <1>1, <1>2 DEF TypeOK
  <2>3. k \in Kinds /\ c \in Workers /\ job \in Jobs /\ m \in Nat /\ IsJob(job, k, m)
    BY <1>1
  <2> DEFINE q == queue
             r == queue'
  <2>4. q \in Queues /\ r[k][c] = Append(q[k][c], job) /\ Len(q[k][c]) < m
    BY <1>4, <2>1, <2>2
  <2>5. /\ \A l \in Kinds : \A w \in Workers : l # k \/ w # c => r[l][w] = q[l][w]
        /\ \A w \in Workers : \A i \in DOMAIN q[k][w] : q[k][w][i].number < m
    BY <1>5, <2>2
  <2> HIDE DEF c, m, q, r
  <2>7. /\ One(InQueues(r, k, m))
        /\ \A l \in Kinds : \A n \in Nat : l # k \/ n < m => InQueues(r, l, n) = InQueues(q, l, n)
    BY <2>3, <2>4, <2>5, AppendedJob
  <2>8. QED
    BY <2>7 DEF q, r
<1>7. NumbersInv'
  <2>1. ASSUME NEW l \in Kinds, NEW w \in Workers
        PROVE  /\ Len(queue'[l][w]) <= made'[l]
               /\ \A i \in DOMAIN queue'[l][w] : queue'[l][w][i].number \in i .. made'[l]
    <3>1. queue[l][w] \in Seq(Jobs) /\ Len(queue[l][w]) \in Nat /\ Len(queue[l][w]) <= made[l]
      BY JobTypes DEF NumbersInv
    <3>2. \A i \in DOMAIN queue[l][w] : queue[l][w][i].number \in i .. made'[l]
      BY <1>3, JobTypes
    <3>3. CASE l = k /\ w = c
      <4>1. queue'[l][w] = Append(queue[k][c], job)
        BY <1>1, <1>2, <3>3 DEF TypeOK
      <4>2. /\ Append(queue[k][c], job) \in Seq(Jobs)
            /\ Len(Append(queue[k][c], job)) = Len(queue[k][c]) + 1
            /\ \A i \in 1 .. Len(queue[k][c]) : Append(queue[k][c], job)[i] = queue[k][c][i]
            /\ Append(queue[k][c], job)[Len(queue[k][c]) + 1] = job
        BY <1>1, <3>1, <3>3, AppendProperties
      <4>3. DOMAIN queue'[l][w] = 1 .. Len(queue[k][c]) + 1 /\ DOMAIN queue[k][c] = 1 .. Len(queue[k][c])
        BY <3>1, <3>3, <4>1, <4>2, LenProperties
      <4>4. job.number = m
        BY <1>1 DEF IsJob
      <4>5. ASSUME NEW i \in 1 .. Len(queue[k][c]) + 1
            PROVE  queue'[l][w][i].number \in i .. made'[l]
        <5>1. CASE i = Len(queue[k][c]) + 1
          <6>1. queue'[l][w][i].number = m
            BY <3>3, <4>1, <4>2, <4>4, <5>1
          <6>2. i <= m /\ made'[l] = m /\ m \in Nat /\ i \in Int
            BY <1>1, <1>3, <1>4, <3>1, <3>3, <5>1
          <6>3. QED
            BY <6>1, <6>2
        <5>2. CASE i \in 1 .. Len(queue[k][c])
          BY <3>2, <3>3, <4>1, <4>2, <4>3, <5>2
        <5>3. QED
          BY <3>1, <3>3, <4>5, <5>1, <5>2
      <4>6. QED
        BY <1>1, <1>3, <3>1, <3>3, <4>1, <4>2, <4>3, <4>5
    <3>4. CASE l # k \/ w # c
      <4>1. queue'[l][w] = queue[l][w]
        BY <1>1, <1>2, <3>4 DEF TypeOK
      <4>2. Len(queue[l][w]) <= made'[l]
        BY <1>3, <3>1, JobTypes
      <4>3. QED
        BY <3>2, <4>1, <4>2
    <3>5. QED
      BY <3>3, <3>4
  <2>2. \A j \in Jobs : j.kind \in Kinds /\ (j.number <= made[j.kind] => j.number <= made'[j.kind])
    BY <1>3, JobTypes DEF Jobs
  <2>3. QED
    BY <2>1, <2>2, JobTypes DEF NumbersInv
<1>8. ASSUME NEW l \in Kinds, NEW n \in 1 .. made'[l]
      PROVE  InOnePlace(queue', frame', wire', swallowed', l, n)
  <2>1. CASE l = k /\ n = m
    <3>1. \A j : IsJob(j, k, m) => ~(j.number <= made[j.kind])
      BY <1>1 DEF IsJob
    <3>2. InHands(frame, k, m) = {} /\ OnWire(wire, k, m) = {} /\ TakenForEnd(swallowed, k, m) = {}
      BY <3>1 DEF InHands, OnWire, TakenForEnd, NumbersInv
    <3>3. QED
      BY <1>6, <2>1, <3>2 DEF InOnePlace
  <2>2. CASE ~(l = k /\ n = m)
    <3>1. n \in Nat /\ n \in 1 .. made[l] /\ (l # k \/ n < m)
      BY <1>1, <1>3, <1>8, <2>2, JobTypes
    <3>2. InQueues(queue', l, n) = InQueues(queue, l, n)
      BY <1>6, <3>1
    <3>3. InOnePlace(queue, frame, wire, swallowed, l, n)
      BY <3>1 DEF PlacesInv
    <3>4. QED
      BY <3>2, <3>3 DEF InOnePlace
  <2>3. QED
    BY <2>1, <2>2
<1>9. QED
  BY <1>7, <1>8 DEF PlacesInv

(* A queue that is shorter by its first job.                               *)
LEMMA TailNumbers ==
  ASSUME TypeOK, QueuedIsCurrent, NumbersInv, NEW k \in Kinds, NEW w \in Workers,
         queue[k][w] # << >>, queue' = [queue EXCEPT ![k][w] = Tail(@)], made' = made
  PROVE  \A l \in Kinds : \A v \in Workers :
           /\ Len(queue'[l][v]) <= made'[l]
           /\ \A i \in DOMAIN queue'[l][v] : queue'[l][v][i].number \in i .. made'[l]
<1> SUFFICES ASSUME NEW l \in Kinds, NEW v \in Workers
             PROVE  /\ Len(queue'[l][v]) <= made'[l]
                    /\ \A i \in DOMAIN queue'[l][v] : queue'[l][v][i].number \in i .. made'[l]
  OBVIOUS
<1>1. made[l] \in Nat
  BY JobTypes
<1>2. CASE l = k /\ v = w
  <2>1. queue'[l][v] = Tail(queue[l][v]) /\ queue[l][v] \in Seq(Jobs) /\ queue[l][v] # << >>
    BY <1>2 DEF TypeOK
  <2> DEFINE s == queue[l][v]
  <2>2. /\ Len(s) \in Nat /\ DOMAIN s = 1 .. Len(s) /\ Tail(s) \in Seq(Jobs) /\ Len(Tail(s)) = Len(s) - 1
        /\ \A i \in 1 .. Len(Tail(s)) : Tail(s)[i] = s[i + 1]
    BY <2>1, HeadTailProperties, LenProperties
  <2>3. DOMAIN Tail(s) = 1 .. Len(s) - 1
    BY <2>2, LenProperties
  <2>4. Len(s) <= made[l] /\ \A i \in DOMAIN s : s[i].number \in i .. made[l]
    BY DEF NumbersInv
  <2> HIDE DEF s
  <2>5. Len(Tail(s)) <= made[l]
    BY <1>1, <2>2, <2>4
  <2>6. ASSUME NEW i \in DOMAIN Tail(s)
        PROVE  Tail(s)[i].number \in i .. made[l]
    <3>1. i + 1 \in DOMAIN s /\ Tail(s)[i] = s[i + 1]
      BY <2>2, <2>3
    <3>2. s[i + 1].number \in i + 1 .. made[l] /\ i \in Int
      BY <2>3, <2>4, <3>1
    <3>3. QED
      BY <1>1, <3>1, <3>2
  <2>7. QED
    BY <2>1, <2>5, <2>6 DEF s
<1>3. CASE l # k \/ v # w
  <2>1. queue'[l][v] = queue[l][v]
    BY <1>3 DEF TypeOK
  <2>2. QED
    BY <2>1 DEF NumbersInv
<1>4. QED
  BY <1>2, <1>3

(* A job that is taken from a queue is in none after that, and had been    *)
(* nowhere else.                                                           *)
LEMMA DequeuedJob ==
  ASSUME TypeOK, QueuedIsCurrent, NumbersInv, PlacesInv, NEW k \in Kinds, NEW w \in Workers,
         queue[k][w] # << >>, queue' = [queue EXCEPT ![k][w] = Tail(@)], made' = made
  PROVE  LET job == Head(queue[k][w])
             m == job.number
         IN  /\ job \in Jobs /\ IsJob(job, k, m) /\ m \in 1 .. made[k]
             /\ InQueues(queue', k, m) = {} /\ InHands(frame, k, m) = {}
             /\ OnWire(wire, k, m) = {} /\ TakenForEnd(swallowed, k, m) = {}
             /\ \A l \in Kinds : \A n \in Nat : l # k \/ n # m =>
                  /\ InQueues(queue, l, n) = {} => InQueues(queue', l, n) = {}
                  /\ One(InQueues(queue, l, n)) => One(InQueues(queue', l, n))
<1> DEFINE job == Head(queue[k][w])
           m == job.number
<1>1. queue[k][w] \in Seq(Jobs)
  BY DEF TypeOK
<1>2. 1 \in DOMAIN queue[k][w] /\ job = queue[k][w][1]
  BY <1>1, HeadTailProperties, LenProperties, EmptySeq
<1>3. /\ job \in Jobs /\ job.kind = k /\ m \in Nat /\ 1 <= m /\ m <= made[k] /\ made[k] \in Nat
  BY <1>2, JobTypes
<1>4. IsJob(job, k, m) /\ m \in 1 .. made[k] /\ m \in Nat \ {0}
  BY <1>3 DEF IsJob
<1> DEFINE q == queue
           r == queue'
<1>5. q \in Queues /\ q[k][w] # << >> /\ Shorter(q, r, k, w) /\ IsJob(Head(q[k][w]), k, m)
  BY <1>4, JobTypes DEF Shorter, TypeOK
<1>6. \A v \in Workers : \A i \in DOMAIN q[k][v] : i <= q[k][v][i].number
  BY JobTypes
<1>7. \A v \in Workers : \A i \in DOMAIN q[k][v] : q[k][v][i].number \in Nat
  BY JobTypes
<1>8. PlacesInv => InOnePlace(q, frame, wire, swallowed, k, m)
  BY <1>4 DEF PlacesInv
<1> HIDE DEF job, m, q, r
<1>9. /\ InQueues(q, k, m) # {}
      /\ One(InQueues(q, k, m)) => InQueues(r, k, m) = {}
      /\ \A l \in Kinds : \A n \in Nat : l # k \/ n # m =>
           /\ InQueues(q, l, n) = {} => InQueues(r, l, n) = {}
           /\ One(InQueues(q, l, n)) => One(InQueues(r, l, n))
  BY <1>4, <1>5, <1>6, <1>7, TakenJob
<1>10. /\ One(InQueues(q, k, m)) /\ InHands(frame, k, m) = {}
       /\ OnWire(wire, k, m) = {} /\ TakenForEnd(swallowed, k, m) = {}
  BY <1>8, <1>9 DEF InOnePlace
<1>11. QED
  BY <1>3, <1>4, <1>9, <1>10 DEF job, m, q, r

-----------------------------------------------------------------------------
(* The steps.  A job goes from its queue into a worker's hands, ...        *)
LEMMA TakingKeepsPlaces ==
  ASSUME TypeOK, QueuedIsCurrent, NumbersInv, PlacesInv, NEW w \in Workers, NEW k \in Kinds,
         Idle(w), Take(w, k)
  PROVE  NumbersInv' /\ PlacesInv'
<1> DEFINE job == Head(queue[k][w])
           m == job.number
<1>1. /\ queue[k][w] # << >> /\ queue' = [queue EXCEPT ![k][w] = Tail(@)]
      /\ UNCHANGED <<made, swallowed, wire>>
      /\ frame' = [frame EXCEPT ![w] = [stage |-> "locking", job |-> job, data |-> epoch]]
  BY DEF Take
<1>2. /\ job \in Jobs /\ IsJob(job, k, m) /\ m \in 1 .. made[k]
      /\ InQueues(queue', k, m) = {} /\ InHands(frame, k, m) = {}
      /\ OnWire(wire, k, m) = {} /\ TakenForEnd(swallowed, k, m) = {}
      /\ \A l \in Kinds : \A n \in Nat : l # k \/ n # m =>
           /\ InQueues(queue, l, n) = {} => InQueues(queue', l, n) = {}
           /\ One(InQueues(queue, l, n)) => One(InQueues(queue', l, n))
  BY <1>1, DequeuedJob
<1> HIDE DEF job
<1>3. /\ frame'[w] # NoFrame /\ frame'[w].job = job /\ frame[w] = NoFrame
      /\ \A v \in Workers : v # w => frame'[v] = frame[v]
  BY <1>1 DEF TypeOK, Idle, NoFrame
<1>4. NumbersInv'
  <2>1. \A l \in Kinds : \A v \in Workers :
          /\ Len(queue'[l][v]) <= made'[l]
          /\ \A i \in DOMAIN queue'[l][v] : queue'[l][v][i].number \in i .. made'[l]
    BY <1>1, TailNumbers
  <2>2. job.number <= made[job.kind]
    BY <1>2, JobTypes DEF IsJob
  <2>3. \A v \in Workers : frame'[v] # NoFrame => frame'[v].job.number <= made[frame'[v].job.kind]
    BY <1>3, <2>2 DEF NumbersInv
  <2>4. QED
    BY <1>1, <2>1, <2>3 DEF NumbersInv
<1>5. InHands(frame', k, m) = {w}
  BY <1>2, <1>3 DEF InHands
<1>6. ASSUME NEW l \in Kinds, NEW n \in Nat, l # k \/ n # m
      PROVE  InHands(frame', l, n) = InHands(frame, l, n)
  <2>1. ~IsJob(job, l, n)
    BY <1>2, <1>6 DEF IsJob
  <2>2. QED
    BY <1>3, <2>1 DEF InHands
<1>7. ASSUME NEW l \in Kinds, NEW n \in 1 .. made'[l]
      PROVE  InOnePlace(queue', frame', wire', swallowed', l, n)
  <2>1. CASE l = k /\ n = m
    BY <1>1, <1>2, <1>5, <2>1 DEF InOnePlace, One
  <2>2. CASE l # k \/ n # m
    <3>1. n \in Nat /\ InOnePlace(queue, frame, wire, swallowed, l, n)
      BY <1>1, <1>7, JobTypes DEF PlacesInv
    <3>2. /\ InQueues(queue, l, n) = {} => InQueues(queue', l, n) = {}
          /\ One(InQueues(queue, l, n)) => One(InQueues(queue', l, n))
      BY <1>2, <2>2, <3>1
    <3>3. InHands(frame', l, n) = InHands(frame, l, n)
      BY <1>6, <2>2, <3>1
    <3>4. QED
      BY <1>1, <3>1, <3>2, <3>3 DEF InOnePlace
  <2>3. QED
    BY <2>1, <2>2
<1>8. QED
  BY <1>4, <1>7 DEF PlacesInv

(* ... or is taken for the end of the queue; ...                           *)
LEMMA SwallowingKeepsPlaces ==
  ASSUME TypeOK, QueuedIsCurrent, NumbersInv, PlacesInv, NEW w \in Workers,
         queue["promise"][w] # << >>, Head(queue["promise"][w]).id = InvalidId,
         swallowed' = swallowed \cup {Head(queue["promise"][w])},
         queue' = [queue EXCEPT !["promise"][w] = Tail(@)],
         UNCHANGED <<made, frame, wire>>
  PROVE  NumbersInv' /\ PlacesInv'
<1> DEFINE k == "promise"
           job == Head(queue["promise"][w])
           m == job.number
<1>1. k \in Kinds /\ job.id = InvalidId /\ swallowed' = swallowed \cup {job}
  BY DEF Kinds
<1>2. /\ job \in Jobs /\ IsJob(job, k, m) /\ m \in 1 .. made[k]
      /\ InQueues(queue', k, m) = {} /\ InHands(frame, k, m) = {}
      /\ OnWire(wire, k, m) = {} /\ TakenForEnd(swallowed, k, m) = {}
      /\ \A l \in Kinds : \A n \in Nat : l # k \/ n # m =>
           /\ InQueues(queue, l, n) = {} => InQueues(queue', l, n) = {}
           /\ One(InQueues(queue, l, n)) => One(InQueues(queue', l, n))
  BY <1>1, DequeuedJob
<1> HIDE DEF job
<1>3. NumbersInv'
  <2>1. \A l \in Kinds : \A v \in Workers :
          /\ Len(queue'[l][v]) <= made'[l]
          /\ \A i \in DOMAIN queue'[l][v] : queue'[l][v][i].number \in i .. made'[l]
    BY <1>1, TailNumbers
  <2>2. job.number <= made[job.kind]
    BY <1>1, <1>2, JobTypes DEF IsJob
  <2>3. \A j \in swallowed' : j.number <= made[j.kind]
    BY <1>1, <2>2 DEF NumbersInv
  <2>4. QED
    BY <2>1, <2>3 DEF NumbersInv
<1>4. TakenForEnd(swallowed', k, m) = {job}
  BY <1>1, <1>2 DEF TakenForEnd
<1>5. ASSUME NEW l \in Kinds, NEW n \in Nat, l # k \/ n # m
      PROVE  TakenForEnd(swallowed', l, n) = TakenForEnd(swallowed, l, n)
  <2>1. ~IsJob(job, l, n)
    BY <1>2, <1>5 DEF IsJob
  <2>2. QED
    BY <1>1, <2>1 DEF TakenForEnd
<1>6. ASSUME NEW l \in Kinds, NEW n \in 1 .. made'[l]
      PROVE  InOnePlace(queue', frame', wire', swallowed', l, n)
  <2>1. CASE l = k /\ n = m
    BY <1>2, <1>4, <2>1 DEF InOnePlace, One
  <2>2. CASE l # k \/ n # m
    <3>1. n \in Nat /\ InOnePlace(queue, frame, wire, swallowed, l, n)
      BY <1>6, JobTypes DEF PlacesInv
    <3>2. /\ InQueues(queue, l, n) = {} => InQueues(queue', l, n) = {}
          /\ One(InQueues(queue, l, n)) => One(InQueues(queue', l, n))
      BY <1>2, <2>2, <3>1
    <3>3. TakenForEnd(swallowed', l, n) = TakenForEnd(swallowed, l, n)
      BY <1>5, <2>2, <3>1
    <3>4. QED
      BY <3>1, <3>2, <3>3 DEF InOnePlace
  <2>3. QED
    BY <2>1, <2>2
<1>7. QED
  BY <1>3, <1>6 DEF PlacesInv

(* ... from hand to hand of the lock it stays the same job ...             *)
LEMMA StagesKeepJobs ==
  ASSUME TypeOK, NEW w \in Workers,
         NEW from \in {"locking", "unlocking", "writing"},
         NEW to \in {"unlocking", "writing", "finishing"},
         Stage(w, from, to)
  PROVE  \A v \in Workers : (frame'[v] # NoFrame <=> frame[v] # NoFrame) /\ (frame[v] # NoFrame => frame'[v].job = frame[v].job)
<1>1. frame[w] # NoFrame /\ frame[w] \in Frames
  BY StageType DEF TypeOK
<1>2. /\ \A v \in Workers \ {w} : frame'[v] = frame[v]
      /\ frame'[w] = [frame[w] EXCEPT !.stage = to]
  BY DEF Stage, TypeOK
<1>3. frame'[w].job = frame[w].job /\ frame'[w] # NoFrame
  BY <1>1, <1>2 DEF Frames, NoFrame
<1>4. QED
  BY <1>1, <1>2, <1>3

(* ... and in its first piece it is not written yet, ...                   *)
LEMMA PieceWritten ==
  ASSUME TypeOK, QueuedIsCurrent, NumbersInv, NEW w \in Workers, NEW part \in {"first", "rest"},
         frame[w] # NoFrame, wire' = Append(wire, Piece(w, part)), made' = made
  PROVE  /\ \A i \in DOMAIN wire' : wire'[i].job.number <= made[wire'[i].job.kind]
         /\ \A k \in Kinds : \A n \in Nat :
              /\ part = "first" \/ ~IsJob(frame[w].job, k, n) => OnWire(wire', k, n) = OnWire(wire, k, n)
              /\ part = "rest" /\ IsJob(frame[w].job, k, n) /\ OnWire(wire, k, n) = {} => One(OnWire(wire', k, n))
<1> DEFINE p == Piece(w, part)
           e == Len(wire) + 1
<1>1. p \in Pieces /\ wire \in Seq(Pieces) /\ Len(wire) \in Nat /\ DOMAIN wire = 1 .. Len(wire)
  BY PieceType, JobTypes
<1>2. /\ wire' \in Seq(Pieces) /\ Len(wire') = e
      /\ \A i \in 1 .. Len(wire) : wire'[i] = wire[i]
      /\ wire'[e] = p
  BY <1>1, AppendProperties
<1>3. DOMAIN wire' = 1 .. e
  BY <1>2, LenProperties
<1>4. p.job = frame[w].job /\ p.part = part
  BY DEF Piece
<1> HIDE DEF p
<1>5. /\ e \in DOMAIN wire' /\ e \notin DOMAIN wire
      /\ \A i : i \in DOMAIN wire' <=> i \in DOMAIN wire \/ i = e
      /\ \A i \in DOMAIN wire : wire'[i] = wire[i]
  BY <1>1, <1>2, <1>3
<1>6. wire'[e].job = frame[w].job /\ wire'[e].part = part
  BY <1>2, <1>4
<1> HIDE DEF e
<1>7. \A i \in DOMAIN wire' : wire'[i].job.number <= made[wire'[i].job.kind]
  BY <1>5, <1>6 DEF NumbersInv
<1>8. ASSUME NEW k \in Kinds, NEW n \in Nat
      PROVE  /\ part = "first" \/ ~IsJob(frame[w].job, k, n) => OnWire(wire', k, n) = OnWire(wire, k, n)
             /\ part = "rest" /\ IsJob(frame[w].job, k, n) /\ OnWire(wire, k, n) = {} => One(OnWire(wire', k, n))
  <2>1. \A i : i \in OnWire(wire, k, n) <=> i \in DOMAIN wire /\ wire[i].part = "rest" /\ IsJob(wire[i].job, k, n)
    BY DEF OnWire
  <2>2. \A i : i \in OnWire(wire', k, n) <=> i \in DOMAIN wire' /\ wire'[i].part = "rest" /\ IsJob(wire'[i].job, k, n)
    BY DEF OnWire
  <2>3. \A i : i \in OnWire(wire', k, n) <=>
          i \in OnWire(wire, k, n) \/ (i = e /\ part = "rest" /\ IsJob(frame[w].job, k, n))
    BY <1>5, <1>6, <2>1, <2>2
  <2>4. part = "first" \/ ~IsJob(frame[w].job, k, n) => OnWire(wire', k, n) = OnWire(wire, k, n)
    BY <2>3
  <2>5. part = "rest" /\ IsJob(frame[w].job, k, n) /\ OnWire(wire, k, n) = {} => OnWire(wire', k, n) = {e}
    BY <2>3
  <2>6. QED
    BY <2>4, <2>5 DEF One
<1>9. QED
  BY <1>7, <1>8

LEMMA WritingKeepsPlaces ==
  ASSUME TypeOK, QueuedIsCurrent, NumbersInv, PlacesInv, NEW w \in Workers,
         Lock(w) \/ Unlock(w) \/ WriteFirst(w)
  PROVE  NumbersInv' /\ PlacesInv'
<1>1. /\ UNCHANGED <<queueVars, swallowed>>
      /\ \A v \in Workers : (frame'[v] # NoFrame <=> frame[v] # NoFrame) /\ (frame[v] # NoFrame => frame'[v].job = frame[v].job)
  BY StagesKeepJobs DEF Lock, Unlock, WriteFirst
<1>2. UNCHANGED <<queue, made, swallowed>>
  BY <1>1 DEF queueVars
<1>3. /\ \A i \in DOMAIN wire' : wire'[i].job.number <= made[wire'[i].job.kind]
      /\ \A k \in Kinds : \A n \in Nat : OnWire(wire', k, n) = OnWire(wire, k, n)
  <2>1. CASE wire' = wire
    BY <2>1 DEF NumbersInv
  <2>2. CASE WriteFirst(w)
    <3>1. wire' = Append(wire, Piece(w, "first")) /\ frame[w] # NoFrame
      BY <2>2, StageType DEF WriteFirst
    <3>2. QED
      BY <1>2, <3>1, PieceWritten
  <2>3. QED
    BY <2>1, <2>2 DEF Lock, Unlock
<1>4. NumbersInv'
  BY <1>1, <1>2, <1>3 DEF NumbersInv
<1>5. \A k \in Kinds : \A n \in Nat : InHands(frame', k, n) = InHands(frame, k, n)
  BY <1>1 DEF InHands
<1>6. ASSUME NEW k \in Kinds, NEW n \in 1 .. made'[k]
      PROVE  InOnePlace(queue', frame', wire', swallowed', k, n)
  <2>1. n \in Nat /\ InOnePlace(queue, frame, wire, swallowed, k, n)
    BY <1>2, <1>6, JobTypes DEF PlacesInv
  <2>2. InHands(frame', k, n) = InHands(frame, k, n) /\ OnWire(wire', k, n) = OnWire(wire, k, n)
    BY <1>3, <1>5, <2>1
  <2>3. QED
    BY <1>2, <2>1, <2>2 DEF InOnePlace
<1>7. QED
  BY <1>4, <1>6 DEF PlacesInv

(* ... until the rest is.                                                  *)
LEMMA FinishingKeepsPlaces ==
  ASSUME TypeOK, QueuedIsCurrent, NumbersInv, PlacesInv, NEW w \in Workers, WriteRest(w)
  PROVE  NumbersInv' /\ PlacesInv'
<1> DEFINE job == frame[w].job
<1>1. /\ frame[w] # NoFrame /\ wire' = Append(wire, Piece(w, "rest"))
      /\ UNCHANGED <<queue, made, swallowed>>
  BY DEF WriteRest, NoFrame, queueVars
<1>2. frame'[w] = NoFrame /\ \A v \in Workers : v # w => frame'[v] = frame[v]
  BY DEF WriteRest, TypeOK
<1>3. /\ \A i \in DOMAIN wire' : wire'[i].job.number <= made[wire'[i].job.kind]
      /\ \A k \in Kinds : \A n \in Nat :
           /\ ~IsJob(job, k, n) => OnWire(wire', k, n) = OnWire(wire, k, n)
           /\ IsJob(job, k, n) /\ OnWire(wire, k, n) = {} => One(OnWire(wire', k, n))
  BY <1>1, PieceWritten
<1>4. NumbersInv'
  BY <1>1, <1>2, <1>3 DEF NumbersInv
<1>5. ASSUME NEW k \in Kinds, NEW n \in 1 .. made'[k]
      PROVE  InOnePlace(queue', frame', wire', swallowed', k, n)
  <2>1. n \in Nat /\ InOnePlace(queue, frame, wire, swallowed, k, n)
    BY <1>1, <1>5, JobTypes DEF PlacesInv
  <2>2. CASE IsJob(job, k, n)
    <3>1. w \in InHands(frame, k, n)
      BY <1>1, <2>2 DEF InHands
    <3>2. One(InHands(frame, k, n)) /\ InQueues(queue, k, n) = {} /\ OnWire(wire, k, n) = {}
          /\ TakenForEnd(swallowed, k, n) = {}
      BY <2>1, <3>1 DEF InOnePlace
    <3>3. InHands(frame, k, n) = {w}
      BY <3>1, <3>2 DEF One
    <3>4. InHands(frame', k, n) = {}
      BY <1>2, <3>3 DEF InHands
    <3>5. One(OnWire(wire', k, n))
      BY <1>3, <2>1, <2>2, <3>2
    <3>6. QED
      BY <1>1, <3>2, <3>4, <3>5 DEF InOnePlace
  <2>3. CASE ~IsJob(job, k, n)
    <3>1. OnWire(wire', k, n) = OnWire(wire, k, n)
      BY <1>3, <2>1, <2>3
    <3>2. InHands(frame', k, n) = InHands(frame, k, n)
      BY <1>2, <2>3 DEF InHands
    <3>3. QED
      BY <1>1, <2>1, <3>1, <3>2 DEF InOnePlace
  <2>4. QED
    BY <2>2, <2>3
<1>6. QED
  BY <1>4, <1>5 DEF PlacesInv

LEMMA PlacesInit ==
  ASSUME Init
  PROVE  NumbersInv /\ PlacesInv
<1>1. \A k \in Kinds : made[k] = 0 /\ \A w \in Workers : queue[k][w] = << >>
  BY DEF Init
<1>2. Len(<< >>) = 0 /\ DOMAIN << >> = {}
  BY EmptySeq
<1>3. NumbersInv
  BY <1>1, <1>2 DEF Init, NumbersInv
<1>4. PlacesInv
  BY <1>1 DEF PlacesInv
<1>5. QED
  BY <1>3, <1>4

LEMMA PlacesStep ==
  ASSUME TypeOK, QueuedIsCurrent, NumbersInv, PlacesInv, [Next]_vars
  PROVE  NumbersInv' /\ PlacesInv'
<1>1. ASSUME UNCHANGED <<queue, made, swallowed, frame, wire>>
      PROVE  NumbersInv' /\ PlacesInv'
  BY <1>1 DEF NumbersInv, PlacesInv
<1>2. ASSUME NEW id \in Ids, PromiseRating(id)
      PROVE  NumbersInv' /\ PlacesInv'
  BY <1>2, EnqueuedJob DEF PromiseRating, Kinds
<1>3. ASSUME AnnounceUser \/ ReportError
      PROVE  NumbersInv' /\ PlacesInv'
  BY <1>3, EnqueuedJob, AnyIdType DEF AnnounceUser, ReportError, Kinds
<1>4. ASSUME RaiseRefresh \/ EndRefresh
      PROVE  NumbersInv' /\ PlacesInv'
  BY <1>1, <1>4 DEF RaiseRefresh, EndRefresh, queueVars
<1>5. ASSUME NEW w \in Workers, Top(w) \/ ErrorsDone(w) \/ UsersDone(w) \/ WakeUp(w)
      PROVE  NumbersInv' /\ PlacesInv'
  BY <1>1, <1>5 DEF Top, ErrorsDone, UsersDone, WakeUp, queueVars
<1>6. ASSUME NEW w \in Workers, TakeError(w) \/ TakePromise(w) \/ TakeUser(w)
      PROVE  NumbersInv' /\ PlacesInv'
  BY <1>6, TakingKeepsPlaces DEF TakeError, TakePromise, TakeUser, Kinds
<1>7. ASSUME NEW w \in Workers, PromisesDone(w)
      PROVE  NumbersInv' /\ PlacesInv'
  <2>1. UNCHANGED <<made, frame, wire>>
    BY <1>7 DEF PromisesDone
  <2>2. CASE UNCHANGED <<queue, swallowed>>
    BY <1>1, <2>1, <2>2
  <2>3. CASE /\ queue["promise"][w] # << >> /\ Head(queue["promise"][w]).id = InvalidId
             /\ swallowed' = swallowed \cup {Head(queue["promise"][w])}
             /\ queue' = [queue EXCEPT !["promise"][w] = Tail(@)]
    BY <2>1, <2>3, SwallowingKeepsPlaces
  <2>4. QED
    BY <1>7, <2>2, <2>3 DEF PromisesDone
<1>8. ASSUME NEW w \in Workers, Lock(w) \/ Unlock(w) \/ WriteFirst(w)
      PROVE  NumbersInv' /\ PlacesInv'
  BY <1>8, WritingKeepsPlaces
<1>9. ASSUME NEW w \in Workers, WriteRest(w)
      PROVE  NumbersInv' /\ PlacesInv'
  BY <1>9, FinishingKeepsPlaces
<1>10. CASE UNCHANGED vars
  BY <1>1, <1>10 DEF vars, queueVars
<1>11. CASE Next
  BY <1>2, <1>3, <1>4, <1>5, <1>6, <1>7, <1>8, <1>9, <1>11, NextCases
<1>12. QED
  BY <1>10, <1>11

(* The counts of what is in one place.                                     *)
LEMMA Counts == Cardinality({}) = 0 /\ \A S : One(S) => Cardinality(S) = 1
BY FS_EmptySet, FS_Singleton DEF One

(* Every job that has been made is in one queue, in one worker's hands or  *)
(* on the socket, once, or has been a promise to InvalidId: nothing is     *)
(* lost and nothing sent twice, however the workers interleave (JobQueue's *)
(* enqueue and dequeue, WorkerPool::doWork).                               *)
THEOREM JobsStayConserved == Spec => []JobsAreConserved
<1>1. Init => TypeOK /\ EpochsLeft /\ DeliveryInv /\ NumbersInv /\ PlacesInv
  BY TypeInit, DeliveryInit, PlacesInit DEF Init, EpochsLeft
<1>2. TypeOK /\ EpochsLeft /\ DeliveryInv /\ NumbersInv /\ PlacesInv /\ [Next]_vars
        => (TypeOK /\ EpochsLeft /\ DeliveryInv /\ NumbersInv /\ PlacesInv)'
  BY TypeStep, DeliveryStep, PlacesStep DEF DeliveryInv
<1>3. PlacesInv => JobsAreConserved
  <2> SUFFICES ASSUME PlacesInv, NEW k \in Kinds, NEW n \in 1 .. made[k]
               PROVE  1 = Cardinality(InQueues(queue, k, n)) + Cardinality(InHands(frame, k, n))
                          + Cardinality(OnWire(wire, k, n)) + Cardinality(TakenForEnd(swallowed, k, n))
    BY DEF JobsAreConserved, InQueues, At, InHands, OnWire, TakenForEnd
  <2>1. InOnePlace(queue, frame, wire, swallowed, k, n)
    BY DEF PlacesInv
  <2> DEFINE a == Cardinality(InQueues(queue, k, n))
             b == Cardinality(InHands(frame, k, n))
             c == Cardinality(OnWire(wire, k, n))
             d == Cardinality(TakenForEnd(swallowed, k, n))
  <2>2. \/ a = 1 /\ b = 0 /\ c = 0 /\ d = 0
        \/ a = 0 /\ b = 1 /\ c = 0 /\ d = 0
        \/ a = 0 /\ b = 0 /\ c = 1 /\ d = 0
        \/ a = 0 /\ b = 0 /\ c = 0 /\ d = 1
    BY <2>1, Counts, Zenon DEF InOnePlace
  <2> HIDE DEF a, b, c, d
  <2>3. 1 = a + b + c + d
    BY <2>2
  <2>4. QED
    BY <2>3 DEF a, b, c, d
<1>4. QED
  BY <1>1, <1>2, <1>3, PTL DEF Spec
=============================================================================
