-------------------------- MODULE RatingCalculator --------------------------
(***************************************************************************)
(* RatingCalculatorImpl: one pass after the other over a minute's buffer.  *)
(* The data the passes share is one record,                                *)
(*   silentUsers   registered users without a deal this week: name, second *)
(*                 of the minute in which they connected                   *)
(*   activeUsers   the others: also amountWon and position in the rating   *)
(*   rating        the active users from the best to the worst             *)
(*   usersOnline   for each second the active users to announce then       *)
(*   errors        the error jobs enqueued by the passes of this minute    *)
(*   fits          FALSE once an assertion of the rebuilding has failed    *)
(* and a pass is a function of it and of the buffer.                       *)
(***************************************************************************)
EXTENDS RatingPatch, MessageDispatcher

VARIABLE core

NoUsersOnline == [s \in Seconds |-> {}]

CoreInit ==
  core = [silentUsers |-> Empty, activeUsers |-> Empty, rating |-> << >>,
          usersOnline |-> NoUsersOnline, errors |-> {}, fits |-> TRUE]

Active(d) == DOMAIN d.activeUsers
Silent(d) == DOMAIN d.silentUsers
Known(d)  == Active(d) \cup Silent(d)

Basic(user) == [name |-> user.name, secondConnected |-> user.secondConnected]

(* Mutant of DropRating: the rating vector is not cleared.                 *)
DropRatingUncleared(d) ==
  [d EXCEPT !.silentUsers = Merge(@, [u \in Active(d) |-> Basic(d.activeUsers[u])]),
            !.activeUsers = Empty,
            !.usersOnline = NoUsersOnline]

DropRating(d) ==
  [d EXCEPT !.silentUsers = Merge(@, [u \in Active(d) |-> Basic(d.activeUsers[u])]),
            !.activeUsers = Empty,
            !.usersOnline = NoUsersOnline,
            !.rating      = << >>]

ProcessRegistrations(d, in) ==
  LET new == DOMAIN in.usersRegistered
  IN  [d EXCEPT
        !.silentUsers = Merge(@, [u \in new \ Known(d) |->
            [name |-> in.usersRegistered[u], secondConnected |-> InvalidSecond]]),
        !.errors = @ \cup {<<"MultipleRegistration", u>> : u \in new \cap Known(d)}]

(* "users" with the names of "new" where there is one                      *)
Renamed(users, new) ==
  [u \in DOMAIN users |->
     IF u \in DOMAIN new THEN [users[u] EXCEPT !.name = new[u]] ELSE users[u]]

ProcessRenames(d, in) ==
  [d EXCEPT !.activeUsers = Renamed(@, in.usersRenamed),
            !.silentUsers = Renamed(@, in.usersRenamed),
            !.errors = @ \cup {<<"UserUnrecognized", u>> :
                               u \in DOMAIN in.usersRenamed \ Known(d)}]

Reconnected(users, changes) ==
  [u \in DOMAIN users |->
     IF u \in DOMAIN changes THEN [users[u] EXCEPT !.secondConnected = changes[u]]
     ELSE users[u]]

(* Mutant of ProcessConnectionChanges: the old record stays.               *)
ProcessConnectionsUnerased(d, in) ==
  LET changes == in.connectionChanges
  IN  [d EXCEPT
        !.usersOnline = [s \in Seconds |->
            @[s] \cup {u \in Active(d) \cap DOMAIN changes : changes[u] = s}],
        !.activeUsers = Reconnected(@, changes),
        !.silentUsers = Reconnected(@, changes),
        !.errors = @ \cup {<<"UserUnrecognized", u>> : u \in DOMAIN changes \ Known(d)}]

(* An active user is taken out of the chrono set of its old second and put *)
(* into that of its new one.                                               *)
ProcessConnectionChanges(d, in) ==
  LET changes == in.connectionChanges
      moved   == Active(d) \cap DOMAIN changes
  IN  [d EXCEPT
        !.usersOnline = [s \in Seconds |->
            (@[s] \ {u \in moved : d.activeUsers[u].secondConnected = s})
            \cup {u \in moved : changes[u] = s}],
        !.activeUsers = Reconnected(@, changes),
        !.silentUsers = Reconnected(@, changes),
        !.errors = @ \cup {<<"UserUnrecognized", u>> : u \in DOMAIN changes \ Known(d)}]

(* Silent users with a deal become active; the patches and the loop that   *)
(* applies them are Rebuild, ratingRefreshPositions numbers the result.    *)
ProcessDeals(d, in) ==
  LET deals   == [u \in DOMAIN in.dealsWon \cap Known(d) |-> in.dealsWon[u]]
      fresh   == Silent(d) \cap DOMAIN deals
      rebuilt == Rebuild(d.rating, d.activeUsers, deals)
      user(u) == IF u \in fresh THEN d.silentUsers[u] ELSE d.activeUsers[u]
      entry(u) ==
        [name            |-> user(u).name,
         secondConnected |-> user(u).secondConnected,
         amountWon       |-> Total(d.activeUsers, deals, u),
         rating          |-> (CHOOSE i \in DOMAIN rebuilt.rating : rebuilt.rating[i] = u) - 1]
      errors  == {<<"UserUnrecognized", u>> : u \in DOMAIN in.dealsWon \ Known(d)}
  IN  IF ~rebuilt.fits THEN [d EXCEPT !.fits = FALSE]
      ELSE [d EXCEPT
             !.rating      = rebuilt.rating,
             !.activeUsers = [u \in Active(d) \cup fresh |-> entry(u)],
             !.silentUsers = [u \in Silent(d) \ fresh |-> @[u]],
             !.usersOnline = [s \in Seconds |->
                 @[s] \cup {u \in fresh : d.silentUsers[u].secondConnected = s}],
             !.errors      = @ \cup errors]

(* Mutant of Recalculated: registrations come after renames.               *)
RecalculatedRenamesFirst(d, in, dropOldRating) ==
  LET start == [d EXCEPT !.errors = {}]
      d0 == IF dropOldRating THEN DropRating(start) ELSE start
      d1 == ProcessRegistrations(ProcessRenames(d0, in), in)
  IN  ProcessDeals(ProcessConnectionChanges(d1, in), in)

(* RatingCalculatorImpl::recalculate                                       *)
Recalculated(d, in, dropOldRating) ==
  LET start == [d EXCEPT !.errors = {}]
      d0 == IF dropOldRating THEN DropRating(start) ELSE start
      d1 == ProcessRegistrations(d0, in)
      d2 == ProcessRenames(d1, in)
      d3 == ProcessConnectionChanges(d2, in)
  IN  ProcessDeals(d3, in)
=============================================================================
