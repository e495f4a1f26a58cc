---------------------------- MODULE RatingService ----------------------------
(***************************************************************************)
(* The data of the service from the message to the rating: the listener    *)
(* fills one incoming data buffer, a recalculation swaps it for the other  *)
(* one and then processes it, and workers keep the promises of a rating.   *)
(*                                                                         *)
(* The threads are those of CoreSync, which shows when each may touch      *)
(* what: between the swap and the end of the recalculation the listener    *)
(* goes on with the other buffer, and workers answer until they have all   *)
(* gone to sleep.                                                          *)
(***************************************************************************)
EXTENDS RatingCalculator

CONSTANTS
  MaxEntries,  \* bound: entries in the two buffers together
  MaxAmount,   \* bound: what a user wins in a week
  MaxPromises  \* bound: promises that wait

VARIABLES
  draining,    \* the buffer not in use
  refreshing   \* it has been swapped out and not processed yet

serviceVars == <<incoming, promises, core, draining, refreshing>>

Init ==
  /\ DispatcherInit /\ CoreInit
  /\ draining = EmptyBuffer /\ refreshing = FALSE

-----------------------------------------------------------------------------
Entries(buffer) ==
  Cardinality(DOMAIN buffer.usersRegistered) + Cardinality(DOMAIN buffer.usersRenamed)
  + Cardinality(DOMAIN buffer.connectionChanges) + Cardinality(DOMAIN buffer.dealsWon)

Won(u) ==
  (IF u \in DOMAIN incoming.dealsWon THEN incoming.dealsWon[u] ELSE 0)
  + (IF u \in DOMAIN draining.dealsWon THEN draining.dealsWon[u] ELSE 0)
  + (IF u \in Active(core) THEN core.activeUsers[u].amountWon ELSE 0)

WithinBounds == Entries(incoming') + Entries(draining) <= MaxEntries

Registered(u, name) ==
  DispatchUserRegistered(u, name) /\ WithinBounds /\ UNCHANGED <<core, draining, refreshing>>

RenamedTo(u, name) ==
  DispatchUserRenamed(u, name) /\ WithinBounds /\ UNCHANGED <<core, draining, refreshing>>

Connected(u, second) ==
  /\ DispatchUserConnected(u, second)
  /\ WithinBounds /\ Cardinality(promises') <= MaxPromises
  /\ UNCHANGED <<core, draining, refreshing>>

Disconnected(u) ==
  DispatchUserDisconnected(u) /\ WithinBounds /\ UNCHANGED <<core, draining, refreshing>>

DealWon(u, amount) ==
  /\ Won(u) + amount <= MaxAmount
  /\ DispatchUserDealWon(u, amount) /\ WithinBounds /\ UNCHANGED <<core, draining, refreshing>>

(* RatingCalculator::recalculate, the exchange of the buffers              *)
Swap ==
  /\ ~refreshing /\ core.fits
  /\ refreshing' = TRUE
  /\ draining' = incoming /\ incoming' = draining
  /\ UNCHANGED <<promises, core>>

(* Mutant of Recalculate: the maps are not cleared.                        *)
RecalculateUncleared(dropOldRating) ==
  /\ refreshing /\ core.fits
  /\ core' = Recalculated(core, draining, dropOldRating)
  /\ refreshing' = FALSE
  /\ UNCHANGED <<incoming, promises, draining>>

(* The rest of it. Every pass clears the map it has gone through.          *)
Recalculate(dropOldRating) ==
  /\ refreshing /\ core.fits
  /\ core' = Recalculated(core, draining, dropOldRating)
  /\ draining' = EmptyBuffer
  /\ refreshing' = FALSE
  /\ UNCHANGED <<incoming, promises>>

(* WorkerPool::processRating for a promise: whether the user is known, so  *)
(* that it gets the rating at its position or one past the last.           *)
ProcessRating(promise) == promise[1] \in Known(core) \/ promise[2]

KeepPromise(promise) ==
  /\ core.fits
  /\ promises' = promises \ {promise}
  /\ UNCHANGED <<incoming, core, draining, refreshing>>

(* A session ends and the next one begins (PluggableInfrastructure): it    *)
(* has new buffers and queues, the core data stays. A recalculation that   *)
(* has begun is finished before, as the announcer is waited for.           *)
Recover ==
  /\ ~refreshing /\ core.fits
  /\ incoming' = EmptyBuffer /\ draining' = EmptyBuffer /\ promises' = {}
  /\ UNCHANGED <<core, refreshing>>

ServiceNext ==
  \/ Swap
  \/ \E dropOldRating \in BOOLEAN : Recalculate(dropOldRating)
  \/ \E promise \in promises : KeepPromise(promise)

Next ==
  \/ \E u \in UserIds :
       \/ \E name \in Names : Registered(u, name) \/ RenamedTo(u, name)
       \/ \E second \in Seconds : Connected(u, second)
       \/ Disconnected(u)
       \/ \E amount \in DealAmounts : DealWon(u, amount)
  \/ ServiceNext
  \/ Recover

Spec == Init /\ [][Next]_serviceVars

-----------------------------------------------------------------------------
(* The rating holds every active user once, sorted by winnings, and every  *)
(* active user knows its place in it. What the patches of the next minute  *)
(* are computed from, and what a worker indexes with.                      *)
RatingConsistent ==
  /\ core.fits
  /\ Active(core) \cap Silent(core) = {}
  /\ Len(core.rating) = Cardinality(Active(core))
  /\ \A u \in Active(core) :
       LET position == core.activeUsers[u].rating
       IN  position \in 0 .. Len(core.rating) - 1 /\ core.rating[position + 1] = u
  /\ \A i \in 1 .. Len(core.rating) - 1 :
       core.activeUsers[core.rating[i]].amountWon >= core.activeUsers[core.rating[i + 1]].amountWon

SecondOf(u) ==
  IF u \in Active(core) THEN core.activeUsers[u].secondConnected
  ELSE IF u \in Silent(core) THEN core.silentUsers[u].secondConnected
  ELSE InvalidSecond

(* What the announcer goes by (rating_announcer.cpp:111). A chrono set     *)
(* points to records of active users that are alive and connected in its   *)
(* second, and to all of them: none dangles, is announced twice a minute   *)
(* or after it has gone away, and nobody who wins or moves is forgotten.   *)
(* This is about the records there are. The users that README.md:13 has    *)
(* reported each minute are more: a connected one without winnings has no  *)
(* such record, and the code announces it never (rating_calculator.cpp:277)*)
ChronoSetsFollow ==
  \A s \in Seconds :
    /\ \A u \in core.usersOnline[s] : u \in Active(core) /\ SecondOf(u) = s
    /\ \A u \in Active(core) : SecondOf(u) = s => u \in core.usersOnline[s]

-----------------------------------------------------------------------------
(* The service implements the rating board.                                *)
News(buffer) ==
  [joined |-> DOMAIN buffer.usersRegistered,
   second |-> [u \in UserIds |-> IF u \in DOMAIN buffer.connectionChanges
                                 THEN buffer.connectionChanges[u] ELSE SecondsPerMinute + 1],
   won    |-> buffer.dealsWon]

Board == INSTANCE RatingBoard WITH
  members <- Known(core),
  second  <- [u \in UserIds |-> SecondOf(u)],
  scores  <- [u \in Active(core) |-> core.activeUsers[u].amountWon],
  ranking <- core.rating,
  open    <- News(incoming),
  closed  <- News(draining),
  turning <- refreshing

(* Incremental recalculation on swapped buffers does what the board        *)
(* promises: no news is counted twice, or lost but with its session, and   *)
(* ratings are sorted and stable, across sessions as well.                 *)
ImplementsBoard == Board!BoardSpec
=============================================================================
