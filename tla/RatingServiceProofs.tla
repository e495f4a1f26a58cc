-------------------------- MODULE RatingServiceProofs --------------------------
(***************************************************************************)
(* The service's data for any users and names, any number of seconds, any  *)
(* deals of a positive amount, and any sequence of messages,               *)
(* recalculations and recoveries: the rating stays consistent, and the     *)
(* service implements the rating board. The client's view of it, for any   *)
(* fakes and deals of any amount.                                          *)
(***************************************************************************)
EXTENDS ClientView, RatingPatchProofs

-----------------------------------------------------------------------------
(* What one pass after the other does to the maps of users.                *)
Unrecognized(S) == {<<"UserUnrecognized", u>> : u \in S}

LEMMA UnrecognizedGrows ==
  ASSUME NEW S, NEW T, S \subseteq T
  PROVE  Unrecognized(S) \subseteq Unrecognized(T)
BY DEF Unrecognized

(* The shape of the core data: users are records, in one of the maps.      *)
CoreForm(d) ==
  /\ d = [silentUsers |-> d.silentUsers, activeUsers |-> d.activeUsers, rating |-> d.rating,
          usersOnline |-> d.usersOnline, errors |-> d.errors, fits |-> d.fits]
  /\ \A u \in Silent(d) : "secondConnected" \in DOMAIN d.silentUsers[u]
  /\ \A u \in Active(d) : "secondConnected" \in DOMAIN d.activeUsers[u]
  /\ Active(d) \cap Silent(d) = {}

SecondIn(d, u) ==
  IF u \in Active(d) THEN d.activeUsers[u].secondConnected
  ELSE IF u \in Silent(d) THEN d.silentUsers[u].secondConnected
  ELSE InvalidSecond

LEMMA InitialCore ==
  ASSUME CoreInit
  PROVE  CoreForm(core) /\ Known(core) = {} /\ core.errors = {}
BY DEF CoreInit, CoreForm, Known, Active, Silent, Empty

LEMMA ClearedErrors ==
  ASSUME NEW d, CoreForm(d)
  PROVE  LET start == [d EXCEPT !.errors = {}]
         IN  /\ CoreForm(start) /\ Known(start) = Known(d) /\ start.errors = {}
             /\ \A u : SecondIn(start, u) = SecondIn(d, u)
<1> DEFINE start == [d EXCEPT !.errors = {}]
<1>1. start = [d EXCEPT !.errors = {}]
  OBVIOUS
<1> HIDE DEF start
<1>2. /\ start.silentUsers = d.silentUsers /\ start.activeUsers = d.activeUsers
      /\ start.errors = {}
      /\ start = [silentUsers |-> start.silentUsers, activeUsers |-> start.activeUsers,
                  rating |-> start.rating, usersOnline |-> start.usersOnline,
                  errors |-> start.errors, fits |-> start.fits]
  BY <1>1 DEF CoreForm
<1>3. /\ CoreForm(start) /\ Known(start) = Known(d)
      /\ \A u : SecondIn(start, u) = SecondIn(d, u)
  BY <1>2 DEF CoreForm, Known, SecondIn, Active, Silent
<1>4. QED
  BY <1>2, <1>3 DEF start

LEMMA DropRatingKeepsUsers ==
  ASSUME NEW d, CoreForm(d)
  PROVE  /\ CoreForm(DropRating(d)) /\ Known(DropRating(d)) = Known(d)
         /\ \A u : SecondIn(DropRating(d), u) = SecondIn(d, u)
         /\ DropRating(d).errors = d.errors
<1> DEFINE e == DropRating(d)
           dropped == [u \in Active(d) |-> Basic(d.activeUsers[u])]
<1>1. /\ e.silentUsers = Merge(d.silentUsers, dropped)
      /\ e.activeUsers = Empty /\ e.errors = d.errors
      /\ e = [silentUsers |-> e.silentUsers, activeUsers |-> e.activeUsers, rating |-> e.rating,
              usersOnline |-> e.usersOnline, errors |-> e.errors, fits |-> e.fits]
  <2>1. e = [d EXCEPT !.silentUsers = Merge(@, dropped), !.activeUsers = Empty,
                      !.usersOnline = NoUsersOnline, !.rating = << >>]
    BY DEF DropRating
  <2> HIDE DEF e, dropped
  <2>2. QED
    BY <2>1 DEF CoreForm
<1>2. /\ Active(e) = {} /\ Silent(e) = Known(d)
      /\ \A u \in Silent(d) : e.silentUsers[u] = d.silentUsers[u]
      /\ \A u \in Active(d) : e.silentUsers[u] = Basic(d.activeUsers[u])
  BY <1>1 DEF Active, Silent, Known, Merge, Empty, CoreForm
<1> HIDE DEF e
<1>3. ASSUME NEW u \in Active(d)
      PROVE  /\ e.silentUsers[u].secondConnected = d.activeUsers[u].secondConnected
             /\ "secondConnected" \in DOMAIN e.silentUsers[u]
  <2>1. e.silentUsers[u] = Basic(d.activeUsers[u])
    BY <1>2
  <2>2. QED
    BY <2>1 DEF Basic
<1>4. CoreForm(e)
  BY <1>1, <1>2, <1>3 DEF CoreForm, Known
<1>5. \A u : SecondIn(e, u) = SecondIn(d, u)
  BY <1>2, <1>3 DEF SecondIn, Known
<1>6. Known(e) = Known(d) /\ e.errors = d.errors
  BY <1>1, <1>2 DEF Known
<1>7. QED
  BY <1>4, <1>5, <1>6 DEF e

LEMMA RegistrationsAddUsers ==
  ASSUME NEW d, NEW in, CoreForm(d)
  PROVE  LET e   == ProcessRegistrations(d, in)
             new == DOMAIN in.usersRegistered
         IN  /\ CoreForm(e) /\ Known(e) = Known(d) \cup new
             /\ \A u : SecondIn(e, u) = SecondIn(d, u)
             /\ new \cap Known(d) = {} => e.errors = d.errors
             /\ e.activeUsers = d.activeUsers /\ e.rating = d.rating
             /\ e.usersOnline = d.usersOnline /\ e.fits = d.fits
<1> DEFINE e == ProcessRegistrations(d, in)
           all == DOMAIN in.usersRegistered
           new == all \ Known(d)
           added == [u \in new |-> [name |-> in.usersRegistered[u], secondConnected |-> InvalidSecond]]
           again == {<<"MultipleRegistration", u>> : u \in all \cap Known(d)}
<1>1. /\ e.silentUsers = Merge(d.silentUsers, added)
      /\ e.activeUsers = d.activeUsers /\ e.errors = d.errors \cup again
      /\ e.rating = d.rating /\ e.usersOnline = d.usersOnline /\ e.fits = d.fits
      /\ e = [silentUsers |-> e.silentUsers, activeUsers |-> e.activeUsers, rating |-> e.rating,
              usersOnline |-> e.usersOnline, errors |-> e.errors, fits |-> e.fits]
  <2>1. e = [d EXCEPT !.silentUsers = Merge(@, added), !.errors = @ \cup again]
    BY DEF ProcessRegistrations
  <2> HIDE DEF e, added, again
  <2>2. QED
    BY <2>1 DEF CoreForm
<1>2. /\ Active(e) = Active(d) /\ Silent(e) = Silent(d) \cup new
      /\ \A u \in Silent(d) : e.silentUsers[u] = d.silentUsers[u]
      /\ \A u \in new : e.silentUsers[u] = added[u]
  <2> HIDE DEF e
  <2>1. DOMAIN added = new
    OBVIOUS
  <2> HIDE DEF added, again
  <2>2. QED
    BY <1>1, <2>1 DEF Active, Silent, Known, Merge
<1>3. ASSUME NEW u \in new
      PROVE  added[u].secondConnected = InvalidSecond /\ "secondConnected" \in DOMAIN added[u]
  OBVIOUS
<1>4. all \cap Known(d) = {} => again = {}
  OBVIOUS
<1> HIDE DEF e, added, again
<1>5. CoreForm(e)
  BY <1>1, <1>2, <1>3 DEF CoreForm, Known, Active
<1>6. \A u : SecondIn(e, u) = SecondIn(d, u)
  BY <1>1, <1>2, <1>3 DEF SecondIn, Known
<1>7. Known(e) = Known(d) \cup all
  BY <1>2 DEF Known
<1>8. QED
  BY <1>1, <1>4, <1>5, <1>6, <1>7 DEF e

LEMMA RenamedRecords ==
  ASSUME NEW map, NEW new,
         \A u \in DOMAIN map : "secondConnected" \in DOMAIN map[u]
  PROVE  /\ DOMAIN Renamed(map, new) = DOMAIN map
         /\ \A u \in DOMAIN map :
              /\ Renamed(map, new)[u].secondConnected = map[u].secondConnected
              /\ "secondConnected" \in DOMAIN Renamed(map, new)[u]
<1>1. DOMAIN Renamed(map, new) = DOMAIN map
  BY DEF Renamed
<1>2. ASSUME NEW u \in DOMAIN map
      PROVE  /\ Renamed(map, new)[u].secondConnected = map[u].secondConnected
             /\ "secondConnected" \in DOMAIN Renamed(map, new)[u]
  <2>1. Renamed(map, new)[u] = IF u \in DOMAIN new THEN [map[u] EXCEPT !.name = new[u]] ELSE map[u]
    BY DEF Renamed
  <2>2. QED
    BY <2>1
<1>3. QED
  BY <1>1, <1>2

LEMMA ReconnectedRecords ==
  ASSUME NEW map, NEW changes,
         \A u \in DOMAIN map : "secondConnected" \in DOMAIN map[u]
  PROVE  /\ DOMAIN Reconnected(map, changes) = DOMAIN map
         /\ \A u \in DOMAIN map :
              /\ Reconnected(map, changes)[u].secondConnected =
                   IF u \in DOMAIN changes THEN changes[u] ELSE map[u].secondConnected
              /\ "secondConnected" \in DOMAIN Reconnected(map, changes)[u]
<1>1. DOMAIN Reconnected(map, changes) = DOMAIN map
  BY DEF Reconnected
<1>2. ASSUME NEW u \in DOMAIN map
      PROVE  /\ Reconnected(map, changes)[u].secondConnected =
                  IF u \in DOMAIN changes THEN changes[u] ELSE map[u].secondConnected
             /\ "secondConnected" \in DOMAIN Reconnected(map, changes)[u]
  <2>1. Reconnected(map, changes)[u] =
          IF u \in DOMAIN changes THEN [map[u] EXCEPT !.secondConnected = changes[u]] ELSE map[u]
    BY DEF Reconnected
  <2>2. QED
    BY <2>1
<1>3. QED
  BY <1>1, <1>2

LEMMA RenamesKeepUsers ==
  ASSUME NEW d, NEW in, CoreForm(d)
  PROVE  LET e == ProcessRenames(d, in)
         IN  /\ CoreForm(e) /\ Known(e) = Known(d)
             /\ \A u : SecondIn(e, u) = SecondIn(d, u)
             /\ e.errors = d.errors \cup Unrecognized(DOMAIN in.usersRenamed \ Known(d))
<1> DEFINE e == ProcessRenames(d, in)
           strange == DOMAIN in.usersRenamed \ Known(d)
<1>1. e = [d EXCEPT !.activeUsers = Renamed(@, in.usersRenamed),
                    !.silentUsers = Renamed(@, in.usersRenamed),
                    !.errors = @ \cup Unrecognized(strange)]
  BY DEF ProcessRenames, Unrecognized
<1> HIDE DEF e, strange
<1>2. /\ e.silentUsers = Renamed(d.silentUsers, in.usersRenamed)
      /\ e.activeUsers = Renamed(d.activeUsers, in.usersRenamed)
      /\ e.errors = d.errors \cup Unrecognized(strange)
      /\ e = [silentUsers |-> e.silentUsers, activeUsers |-> e.activeUsers, rating |-> e.rating,
              usersOnline |-> e.usersOnline, errors |-> e.errors, fits |-> e.fits]
  BY <1>1 DEF CoreForm
<1>3. /\ Silent(e) = Silent(d)
      /\ \A u \in Silent(d) : /\ e.silentUsers[u].secondConnected = d.silentUsers[u].secondConnected
                              /\ "secondConnected" \in DOMAIN e.silentUsers[u]
  BY <1>2, RenamedRecords DEF Silent, CoreForm
<1>4. /\ Active(e) = Active(d)
      /\ \A u \in Active(d) : /\ e.activeUsers[u].secondConnected = d.activeUsers[u].secondConnected
                              /\ "secondConnected" \in DOMAIN e.activeUsers[u]
  BY <1>2, RenamedRecords DEF Active, CoreForm
<1>5. CoreForm(e)
  BY <1>2, <1>3, <1>4 DEF CoreForm
<1>6. Known(e) = Known(d) /\ \A u : SecondIn(e, u) = SecondIn(d, u)
  BY <1>3, <1>4 DEF SecondIn, Known
<1>7. QED
  BY <1>2, <1>5, <1>6 DEF e, strange

LEMMA ConnectionsMoveUsers ==
  ASSUME NEW d, NEW in, CoreForm(d)
  PROVE  LET e == ProcessConnectionChanges(d, in)
         IN  /\ CoreForm(e) /\ Known(e) = Known(d)
             /\ \A u \in Known(d) : SecondIn(e, u) =
                  IF u \in DOMAIN in.connectionChanges THEN in.connectionChanges[u] ELSE SecondIn(d, u)
             /\ e.errors = d.errors \cup Unrecognized(DOMAIN in.connectionChanges \ Known(d))
<1> DEFINE e == ProcessConnectionChanges(d, in)
           changes == in.connectionChanges
           strange == DOMAIN changes \ Known(d)
<1>1. e = [d EXCEPT !.usersOnline = e.usersOnline,
                    !.activeUsers = Reconnected(@, changes),
                    !.silentUsers = Reconnected(@, changes),
                    !.errors = @ \cup Unrecognized(strange)]
  <2> DEFINE chrono(s) == (d.usersOnline[s] \ {u \in Active(d) \cap DOMAIN changes :
                                                d.activeUsers[u].secondConnected = s})
                          \cup {u \in Active(d) \cap DOMAIN changes : changes[u] = s}
             sets == [s \in Seconds |-> chrono(s)]
  <2>1. e = [d EXCEPT !.usersOnline = sets,
                      !.activeUsers = Reconnected(@, changes),
                      !.silentUsers = Reconnected(@, changes),
                      !.errors = @ \cup Unrecognized(strange)]
    BY DEF ProcessConnectionChanges, Unrecognized
  <2> HIDE DEF e, sets, strange, changes
  <2>2. e.usersOnline = sets
    BY <2>1 DEF CoreForm
  <2>3. QED
    BY <2>1, <2>2
<1> HIDE DEF e, strange, changes
<1>2. /\ e.silentUsers = Reconnected(d.silentUsers, changes)
      /\ e.activeUsers = Reconnected(d.activeUsers, changes)
      /\ e.errors = d.errors \cup Unrecognized(strange)
      /\ e = [silentUsers |-> e.silentUsers, activeUsers |-> e.activeUsers, rating |-> e.rating,
              usersOnline |-> e.usersOnline, errors |-> e.errors, fits |-> e.fits]
  BY <1>1 DEF CoreForm
<1>3. /\ Silent(e) = Silent(d)
      /\ \A u \in Silent(d) :
           /\ e.silentUsers[u].secondConnected =
                IF u \in DOMAIN changes THEN changes[u] ELSE d.silentUsers[u].secondConnected
           /\ "secondConnected" \in DOMAIN e.silentUsers[u]
  BY <1>2, ReconnectedRecords DEF Silent, CoreForm
<1>4. /\ Active(e) = Active(d)
      /\ \A u \in Active(d) :
           /\ e.activeUsers[u].secondConnected =
                IF u \in DOMAIN changes THEN changes[u] ELSE d.activeUsers[u].secondConnected
           /\ "secondConnected" \in DOMAIN e.activeUsers[u]
  BY <1>2, ReconnectedRecords DEF Active, CoreForm
<1>5. CoreForm(e)
  BY <1>2, <1>3, <1>4 DEF CoreForm
<1>6. /\ Known(e) = Known(d)
      /\ \A u \in Known(d) :
           SecondIn(e, u) = IF u \in DOMAIN changes THEN changes[u] ELSE SecondIn(d, u)
  BY <1>3, <1>4 DEF SecondIn, Known
<1>7. QED
  BY <1>2, <1>5, <1>6 DEF e, strange, changes

LEMMA DealsKeepUsers ==
  ASSUME NEW d, NEW in, CoreForm(d)
  PROVE  LET e == ProcessDeals(d, in)
         IN  /\ CoreForm(e) /\ Known(e) = Known(d)
             /\ \A u : SecondIn(e, u) = SecondIn(d, u)
             /\ e.errors \in {d.errors, d.errors \cup Unrecognized(DOMAIN in.dealsWon \ Known(d))}
<1> DEFINE e       == ProcessDeals(d, in)
           deals   == [u \in DOMAIN in.dealsWon \cap Known(d) |-> in.dealsWon[u]]
           fresh   == Silent(d) \cap DOMAIN deals
           rebuilt == Rebuild(d.rating, d.activeUsers, deals)
           user(u) == IF u \in fresh THEN d.silentUsers[u] ELSE d.activeUsers[u]
           entry(u) ==
             [name            |-> user(u).name,
              secondConnected |-> user(u).secondConnected,
              amountWon       |-> Total(d.activeUsers, deals, u),
              rating          |-> (CHOOSE i \in DOMAIN rebuilt.rating : rebuilt.rating[i] = u) - 1]
           active  == [u \in Active(d) \cup fresh |-> entry(u)]
           silent  == [u \in Silent(d) \ fresh |-> d.silentUsers[u]]
           sets    == [s \in Seconds |->
                         d.usersOnline[s] \cup {u \in fresh : d.silentUsers[u].secondConnected = s}]
           strange == DOMAIN in.dealsWon \ Known(d)
<1>1. CASE ~rebuilt.fits
  <2>1. e = [d EXCEPT !.fits = FALSE]
    BY <1>1, Zenon DEF ProcessDeals
  <2> HIDE DEF e
  <2>2. /\ e.silentUsers = d.silentUsers /\ e.activeUsers = d.activeUsers /\ e.errors = d.errors
        /\ e = [silentUsers |-> e.silentUsers, activeUsers |-> e.activeUsers, rating |-> e.rating,
                usersOnline |-> e.usersOnline, errors |-> e.errors, fits |-> e.fits]
    BY <2>1 DEF CoreForm
  <2>3. /\ CoreForm(e) /\ Known(e) = Known(d) /\ e.errors = d.errors
        /\ \A u : SecondIn(e, u) = SecondIn(d, u)
    BY <2>2 DEF CoreForm, Known, SecondIn, Active, Silent
  <2>4. QED
    BY <2>3 DEF e
<1>2. CASE rebuilt.fits
  <2>1. e = [d EXCEPT !.rating = rebuilt.rating, !.activeUsers = active, !.silentUsers = silent,
                      !.usersOnline = sets, !.errors = @ \cup Unrecognized(strange)]
    BY <1>2 DEF ProcessDeals, Unrecognized
  <2>2. ASSUME NEW u \in Active(d) \cup fresh
        PROVE  active[u].secondConnected = SecondIn(d, u) /\ "secondConnected" \in DOMAIN active[u]
    <3>1. active[u] = entry(u)
      OBVIOUS
    <3>2. "secondConnected" \in DOMAIN entry(u) /\ entry(u).secondConnected = user(u).secondConnected
      OBVIOUS
    <3> HIDE DEF active, entry
    <3>3. user(u).secondConnected = SecondIn(d, u)
      BY DEF SecondIn, CoreForm
    <3>4. QED
      BY <3>1, <3>2, <3>3
  <2>3. DOMAIN active = Active(d) \cup fresh /\ DOMAIN silent = Silent(d) \ fresh
        /\ \A u \in Silent(d) \ fresh : silent[u] = d.silentUsers[u]
    OBVIOUS
  <2>4. fresh \subseteq Silent(d)
    OBVIOUS
  <2> HIDE DEF e, active, silent, sets, rebuilt, strange, fresh
  <2>5. /\ e.silentUsers = silent /\ e.activeUsers = active
        /\ e.errors = d.errors \cup Unrecognized(strange)
        /\ e = [silentUsers |-> e.silentUsers, activeUsers |-> e.activeUsers, rating |-> e.rating,
                usersOnline |-> e.usersOnline, errors |-> e.errors, fits |-> e.fits]
    BY <2>1 DEF CoreForm
  <2>6. Active(e) = Active(d) \cup fresh /\ Silent(e) = Silent(d) \ fresh
    BY <2>3, <2>5 DEF Active, Silent
  <2>7. CoreForm(e)
    BY <2>2, <2>3, <2>4, <2>5, <2>6 DEF CoreForm
  <2>8. Known(e) = Known(d)
    BY <2>4, <2>6 DEF Known
  <2>9. ASSUME NEW u
        PROVE  SecondIn(e, u) = SecondIn(d, u)
    <3>1. CASE u \in Active(d) \cup fresh
      BY <2>2, <2>5, <2>6, <3>1 DEF SecondIn
    <3>2. CASE u \in Silent(d) \ fresh
      BY <2>3, <2>5, <2>6, <3>2 DEF SecondIn, CoreForm
    <3>3. CASE u \notin Known(d)
      BY <2>4, <2>6, <3>3 DEF SecondIn, Known
    <3>4. QED
      BY <2>4, <3>1, <3>2, <3>3 DEF Known
  <2>10. QED
    BY <2>5, <2>7, <2>8, <2>9 DEF e, strange
<1>3. QED
  BY <1>1, <1>2

(* A recalculation adds the registered users, moves those who have come or *)
(* gone, and complains about the others in the news.                       *)
LEMMA RecalculationKnowsUsers ==
  ASSUME NEW d, NEW in, NEW drop \in BOOLEAN, CoreForm(d)
  PROVE  LET e == Recalculated(d, in, drop)
         IN  /\ CoreForm(e) /\ Known(e) = Known(d) \cup DOMAIN in.usersRegistered
             /\ \A u \in Known(e) : SecondIn(e, u) =
                  IF u \in DOMAIN in.connectionChanges THEN in.connectionChanges[u] ELSE SecondIn(d, u)
             /\ DOMAIN in.usersRegistered \cap Known(d) = {} =>
                  e.errors \subseteq Unrecognized(Heard(in) \ Known(e))
<1> DEFINE start == [d EXCEPT !.errors = {}]
           d0 == IF drop THEN DropRating(start) ELSE start
           d1 == ProcessRegistrations(d0, in)
           d2 == ProcessRenames(d1, in)
           d3 == ProcessConnectionChanges(d2, in)
           e  == ProcessDeals(d3, in)
<1>1. Recalculated(d, in, drop) = e
  BY DEF Recalculated
<1> HIDE DEF e
<1>2. /\ CoreForm(start) /\ Known(start) = Known(d) /\ start.errors = {}
      /\ \A u : SecondIn(start, u) = SecondIn(d, u)
  BY ClearedErrors
<1> HIDE DEF start
<1>3. /\ CoreForm(d0) /\ Known(d0) = Known(d) /\ d0.errors = {}
      /\ \A u : SecondIn(d0, u) = SecondIn(d, u)
  <2>1. CASE drop
    BY <1>2, <2>1, DropRatingKeepsUsers
  <2>2. CASE ~drop
    BY <1>2, <2>2
  <2>3. QED
    BY <2>1, <2>2
<1> HIDE DEF d0
<1>4. /\ CoreForm(d1) /\ Known(d1) = Known(d) \cup DOMAIN in.usersRegistered
      /\ DOMAIN in.usersRegistered \cap Known(d) = {} => d1.errors = {}
      /\ \A u : SecondIn(d1, u) = SecondIn(d, u)
  BY <1>3, RegistrationsAddUsers
<1> HIDE DEF d1
<1>5. /\ CoreForm(d2) /\ Known(d2) = Known(d1) /\ \A u : SecondIn(d2, u) = SecondIn(d, u)
      /\ d2.errors = d1.errors \cup Unrecognized(DOMAIN in.usersRenamed \ Known(d1))
  BY <1>4, RenamesKeepUsers
<1> HIDE DEF d2
<1>6. /\ CoreForm(d3) /\ Known(d3) = Known(d1)
      /\ \A u \in Known(d1) : SecondIn(d3, u) =
           IF u \in DOMAIN in.connectionChanges THEN in.connectionChanges[u] ELSE SecondIn(d, u)
      /\ d3.errors = d2.errors \cup Unrecognized(DOMAIN in.connectionChanges \ Known(d1))
  <2>1. /\ CoreForm(d3) /\ Known(d3) = Known(d2)
        /\ \A u \in Known(d2) : SecondIn(d3, u) =
             IF u \in DOMAIN in.connectionChanges THEN in.connectionChanges[u] ELSE SecondIn(d2, u)
        /\ d3.errors = d2.errors \cup Unrecognized(DOMAIN in.connectionChanges \ Known(d2))
    BY <1>5, ConnectionsMoveUsers
  <2> HIDE DEF d3
  <2>2. QED
    BY <1>5, <2>1
<1> HIDE DEF d3
<1>7. /\ CoreForm(e) /\ Known(e) = Known(d1) /\ \A u : SecondIn(e, u) = SecondIn(d3, u)
      /\ e.errors \in {d3.errors, d3.errors \cup Unrecognized(DOMAIN in.dealsWon \ Known(d1))}
  BY <1>6, DealsKeepUsers DEF e
<1>8. ASSUME DOMAIN in.usersRegistered \cap Known(d) = {}
      PROVE  e.errors \subseteq Unrecognized(Heard(in) \ Known(d1))
  <2> DEFINE renamed == DOMAIN in.usersRenamed \ Known(d1)
             moved   == DOMAIN in.connectionChanges \ Known(d1)
             won     == DOMAIN in.dealsWon \ Known(d1)
             heard   == Heard(in) \ Known(d1)
  <2>1. renamed \subseteq heard /\ moved \subseteq heard /\ won \subseteq heard
    BY DEF Heard
  <2>2. e.errors \subseteq Unrecognized(renamed) \cup Unrecognized(moved) \cup Unrecognized(won)
    BY <1>4, <1>5, <1>6, <1>7, <1>8
  <2> HIDE DEF renamed, moved, won, heard
  <2>3. /\ Unrecognized(renamed) \subseteq Unrecognized(heard)
        /\ Unrecognized(moved) \subseteq Unrecognized(heard)
        /\ Unrecognized(won) \subseteq Unrecognized(heard)
    BY <2>1, UnrecognizedGrows
  <2>4. e.errors \subseteq Unrecognized(heard)
    BY <2>2, <2>3
  <2>5. QED
    BY <2>4 DEF heard
<1>9. QED
  BY <1>1, <1>4, <1>6, <1>7, <1>8

-----------------------------------------------------------------------------
(* What a message does to the buffer in use.                               *)
BufferForm(b) ==
  b = [usersRegistered |-> b.usersRegistered, usersRenamed |-> b.usersRenamed,
       connectionChanges |-> b.connectionChanges, dealsWon |-> b.dealsWon]

LEMMA MergedMaps ==
  ASSUME NEW map, NEW key, NEW value
  PROVE  /\ DOMAIN Emplace(map, key, value) = DOMAIN map \cup {key}
         /\ DOMAIN Assign(map, key, value) = DOMAIN map \cup {key}
<1> DEFINE single == [k \in {key} |-> value]
<1>1. Emplace(map, key, value) = Merge(map, single) /\ Assign(map, key, value) = Merge(single, map)
  BY DEF Emplace, Assign
<1>2. DOMAIN single = {key}
  OBVIOUS
<1> HIDE DEF single
<1>3. QED
  BY <1>1, <1>2 DEF Merge

LEMMA AssignedValues ==
  ASSUME NEW map, NEW key, NEW value, NEW k \in DOMAIN map \cup {key}
  PROVE  Assign(map, key, value)[k] = IF k = key THEN value ELSE map[k]
<1> DEFINE single == [x \in {key} |-> value]
<1>1. Assign(map, key, value) = Merge(single, map)
  BY DEF Assign
<1>2. DOMAIN single = {key} /\ single[key] = value
  OBVIOUS
<1> HIDE DEF single
<1>3. Merge(single, map)[k] = IF k = key THEN value ELSE map[k]
  BY <1>2 DEF Merge
<1>4. QED
  BY <1>1, <1>3

LEMMA EmptyBufferIsEmpty ==
  /\ BufferForm(EmptyBuffer) /\ Heard(EmptyBuffer) = {}
  /\ DOMAIN EmptyBuffer.usersRegistered = {} /\ DOMAIN EmptyBuffer.connectionChanges = {}
BY DEF BufferForm, EmptyBuffer, Empty, Heard

-----------------------------------------------------------------------------
(* The rating in the core data: its users know their places, and the       *)
(* chrono sets have the active users by the second of their connection.    *)
RatingForm(d) ==
  /\ CoreForm(d) /\ d.fits
  /\ IsRating(d.rating, d.activeUsers)
  /\ \A u \in Active(d) : {"amountWon", "rating"} \subseteq DOMAIN d.activeUsers[u]
  /\ d.usersOnline = [s \in Seconds |-> {u \in Active(d) : SecondIn(d, u) = s}]

LEMMA RatingsWithoutUsers ==
  ASSUME NEW d, CoreForm(d), d.fits, d.rating = << >>, Active(d) = {},
         d.usersOnline = NoUsersOnline
  PROVE  RatingForm(d)
<1>1. IsRating(d.rating, d.activeUsers)
  BY DEF IsRating, Active
<1>2. d.usersOnline = [s \in Seconds |-> {u \in Active(d) : SecondIn(d, u) = s}]
  BY DEF NoUsersOnline
<1>3. QED
  BY <1>1, <1>2 DEF RatingForm

(* A pass that leaves the rating and what users have won alone.            *)
LeavesRating(d, e) ==
  /\ CoreForm(e) /\ e.fits = d.fits /\ e.rating = d.rating /\ Active(e) = Active(d)
  /\ \A u \in Active(d) :
       /\ e.activeUsers[u].amountWon = d.activeUsers[u].amountWon
       /\ e.activeUsers[u].rating = d.activeUsers[u].rating
       /\ {"amountWon", "rating"} \subseteq DOMAIN e.activeUsers[u]

LEMMA RatingIsLeft ==
  ASSUME NEW d, RatingForm(d), NEW e, LeavesRating(d, e),
         e.usersOnline = [s \in Seconds |-> {u \in Active(e) : SecondIn(e, u) = s}]
  PROVE  RatingForm(e)
<1>1. IsRating(e.rating, e.activeUsers)
  BY OtherFieldsDoNotCount DEF RatingForm, LeavesRating, Active
<1>2. QED
  BY <1>1 DEF RatingForm, LeavesRating

LEMMA ClearedErrorsLeaveRating ==
  ASSUME NEW d, RatingForm(d)
  PROVE  LET e == [d EXCEPT !.errors = {}] IN RatingForm(e) /\ LeavesRating(d, e)
<1> DEFINE e == [d EXCEPT !.errors = {}]
<1>1. /\ CoreForm(e) /\ \A u : SecondIn(e, u) = SecondIn(d, u)
  BY ClearedErrors DEF RatingForm
<1>2. /\ e.fits = d.fits /\ e.rating = d.rating /\ e.activeUsers = d.activeUsers
      /\ e.usersOnline = d.usersOnline
  BY DEF RatingForm, CoreForm
<1> HIDE DEF e
<1>3. LeavesRating(d, e)
  BY <1>1, <1>2 DEF LeavesRating, RatingForm, Active
<1>4. e.usersOnline = [s \in Seconds |-> {u \in Active(e) : SecondIn(e, u) = s}]
  BY <1>1, <1>2 DEF RatingForm, Active
<1>5. QED
  BY <1>3, <1>4, RatingIsLeft DEF e

LEMMA DropRatingForgetsRating ==
  ASSUME NEW d, RatingForm(d)
  PROVE  LET e == DropRating(d)
         IN  RatingForm(e) /\ Active(e) = {} /\ e.rating = << >>
<1> DEFINE e == DropRating(d)
<1>1. CoreForm(e)
  BY DropRatingKeepsUsers DEF RatingForm
<1>2. e.rating = << >> /\ e.activeUsers = Empty /\ e.usersOnline = NoUsersOnline /\ e.fits = d.fits
  <2> DEFINE dropped == [u \in Active(d) |-> Basic(d.activeUsers[u])]
  <2>1. e = [d EXCEPT !.silentUsers = Merge(@, dropped), !.activeUsers = Empty,
                      !.usersOnline = NoUsersOnline, !.rating = << >>]
    BY DEF DropRating
  <2> HIDE DEF e, dropped
  <2>2. QED
    BY <2>1 DEF RatingForm, CoreForm
<1> HIDE DEF e
<1>3. Active(e) = {}
  BY <1>2 DEF Active, Empty
<1>4. QED
  BY <1>1, <1>2, <1>3, RatingsWithoutUsers DEF RatingForm, e

LEMMA RegistrationsLeaveRating ==
  ASSUME NEW d, NEW in, RatingForm(d)
  PROVE  LET e == ProcessRegistrations(d, in) IN RatingForm(e) /\ LeavesRating(d, e)
<1> DEFINE e == ProcessRegistrations(d, in)
<1>1. /\ CoreForm(e) /\ \A u : SecondIn(e, u) = SecondIn(d, u)
      /\ e.activeUsers = d.activeUsers /\ e.rating = d.rating
      /\ e.usersOnline = d.usersOnline /\ e.fits = d.fits
  <2>1. CoreForm(d)
    BY DEF RatingForm
  <2>2. QED
    BY <2>1, RegistrationsAddUsers
<1> HIDE DEF e
<1>2. LeavesRating(d, e)
  BY <1>1 DEF LeavesRating, RatingForm, Active
<1>3. e.usersOnline = [s \in Seconds |-> {u \in Active(e) : SecondIn(e, u) = s}]
  BY <1>1 DEF RatingForm, Active
<1>4. QED
  BY <1>2, <1>3, RatingIsLeft DEF e

LEMMA RenamesLeaveRating ==
  ASSUME NEW d, NEW in, RatingForm(d)
  PROVE  LET e == ProcessRenames(d, in) IN RatingForm(e) /\ LeavesRating(d, e)
<1> DEFINE e == ProcessRenames(d, in)
           strange == DOMAIN in.usersRenamed \ Known(d)
<1>1. /\ CoreForm(e) /\ \A u : SecondIn(e, u) = SecondIn(d, u)
  BY RenamesKeepUsers DEF RatingForm
<1>2. e = [d EXCEPT !.activeUsers = Renamed(@, in.usersRenamed),
                    !.silentUsers = Renamed(@, in.usersRenamed),
                    !.errors = @ \cup Unrecognized(strange)]
  BY DEF ProcessRenames, Unrecognized
<1> HIDE DEF e, strange
<1>3. /\ e.fits = d.fits /\ e.rating = d.rating /\ e.usersOnline = d.usersOnline
      /\ e.activeUsers = Renamed(d.activeUsers, in.usersRenamed)
  BY <1>2 DEF RatingForm, CoreForm
<1>4. Active(e) = Active(d)
  BY <1>3 DEF Active, Renamed
<1>5. ASSUME NEW u \in Active(d)
      PROVE  /\ e.activeUsers[u].amountWon = d.activeUsers[u].amountWon
             /\ e.activeUsers[u].rating = d.activeUsers[u].rating
             /\ {"amountWon", "rating"} \subseteq DOMAIN e.activeUsers[u]
  <2> DEFINE old == d.activeUsers[u]
             new == e.activeUsers[u]
  <2>1. new = IF u \in DOMAIN in.usersRenamed THEN [old EXCEPT !.name = in.usersRenamed[u]] ELSE old
    BY <1>3 DEF Renamed, Active
  <2>2. {"amountWon", "rating"} \subseteq DOMAIN old
    BY DEF RatingForm
  <2> HIDE DEF old, new
  <2>3. new.amountWon = old.amountWon /\ new.rating = old.rating /\ DOMAIN new = DOMAIN old
    BY <2>1, <2>2
  <2>4. QED
    BY <2>2, <2>3 DEF old, new
<1>6. LeavesRating(d, e)
  BY <1>1, <1>3, <1>4, <1>5 DEF LeavesRating
<1>7. e.usersOnline = [s \in Seconds |-> {u \in Active(e) : SecondIn(e, u) = s}]
  BY <1>1, <1>3, <1>4 DEF RatingForm
<1>8. QED
  BY <1>6, <1>7, RatingIsLeft DEF e

LEMMA ConnectionsLeaveRating ==
  ASSUME NEW d, NEW in, RatingForm(d)
  PROVE  LET e == ProcessConnectionChanges(d, in) IN RatingForm(e) /\ LeavesRating(d, e)
<1> DEFINE e == ProcessConnectionChanges(d, in)
           changes == in.connectionChanges
           strange == DOMAIN changes \ Known(d)
           moved == Active(d) \cap DOMAIN changes
           sets == [s \in Seconds |-> (d.usersOnline[s] \ {u \in moved : d.activeUsers[u].secondConnected = s})
                                      \cup {u \in moved : changes[u] = s}]
<1>1. /\ CoreForm(e)
      /\ \A u \in Known(d) : SecondIn(e, u) = IF u \in DOMAIN changes THEN changes[u] ELSE SecondIn(d, u)
  BY ConnectionsMoveUsers DEF RatingForm
<1>2. e = [d EXCEPT !.usersOnline = sets,
                    !.activeUsers = Reconnected(@, changes),
                    !.silentUsers = Reconnected(@, changes),
                    !.errors = @ \cup Unrecognized(strange)]
  BY DEF ProcessConnectionChanges, Unrecognized
<1> HIDE DEF e, strange, sets
<1>3. /\ e.fits = d.fits /\ e.rating = d.rating /\ e.usersOnline = sets
      /\ e.activeUsers = Reconnected(d.activeUsers, changes)
  BY <1>2 DEF RatingForm, CoreForm
<1>4. Active(e) = Active(d)
  BY <1>3 DEF Active, Reconnected
<1>5. ASSUME NEW u \in Active(d)
      PROVE  /\ e.activeUsers[u].amountWon = d.activeUsers[u].amountWon
             /\ e.activeUsers[u].rating = d.activeUsers[u].rating
             /\ {"amountWon", "rating"} \subseteq DOMAIN e.activeUsers[u]
  <2> DEFINE old == d.activeUsers[u]
             new == e.activeUsers[u]
  <2>1. new = IF u \in DOMAIN changes THEN [old EXCEPT !.secondConnected = changes[u]] ELSE old
    BY <1>3 DEF Reconnected, Active
  <2>2. {"amountWon", "rating"} \subseteq DOMAIN old
    BY DEF RatingForm
  <2> HIDE DEF old, new
  <2>3. new.amountWon = old.amountWon /\ new.rating = old.rating /\ DOMAIN new = DOMAIN old
    BY <2>1, <2>2
  <2>4. QED
    BY <2>2, <2>3 DEF old, new
<1>6. LeavesRating(d, e)
  BY <1>1, <1>3, <1>4, <1>5 DEF LeavesRating
<1>7. ASSUME NEW s \in Seconds
      PROVE  sets[s] = {u \in Active(e) : SecondIn(e, u) = s}
  <2>1. sets[s] = (d.usersOnline[s] \ {u \in moved : d.activeUsers[u].secondConnected = s})
                  \cup {u \in moved : changes[u] = s}
    BY DEF sets
  <2>2. d.usersOnline[s] = {u \in Active(d) : SecondIn(d, u) = s}
    BY DEF RatingForm
  <2>3. \A u \in Active(d) : /\ SecondIn(d, u) = d.activeUsers[u].secondConnected
                             /\ SecondIn(e, u) = IF u \in moved THEN changes[u] ELSE SecondIn(d, u)
    BY <1>1 DEF SecondIn, Known
  <2>4. QED
    BY <1>4, <2>1, <2>2, <2>3
<1>8. e.usersOnline = [s \in Seconds |-> {u \in Active(e) : SecondIn(e, u) = s}]
  <2>1. sets = [s \in Seconds |-> sets[s]]
    BY DEF sets
  <2>2. QED
    BY <1>3, <1>7, <2>1
<1>9. QED
  BY <1>6, <1>8, RatingIsLeft DEF e

(* What the listener and the calculator leave of a buffer for the rating:  *)
(* deals of users with an id, which add up to something positive.          *)
DealsForm(won) ==
  /\ DOMAIN won \subseteq UserIds /\ IsFiniteSet(DOMAIN won)
  /\ \A u \in DOMAIN won : won[u] \in Int /\ won[u] > 0

Winners(d, won) == DOMAIN won \cap Known(d)

Deals(d, won) == [u \in Winners(d, won) |-> won[u]]

LEMMA DealsMakeAMinute ==
  ASSUME NEW d, RatingForm(d), NEW won, DealsForm(won)
  PROVE  Minute(d.rating, d.activeUsers, Deals(d, won))
<1> DEFINE deals == Deals(d, won)
<1>1. DOMAIN deals \subseteq DOMAIN won /\ \A u \in DOMAIN deals : deals[u] = won[u]
  BY DEF Deals, Winners
<1>2. IsFiniteSet(DOMAIN deals)
  BY <1>1, FS_Subset DEF DealsForm
<1> HIDE DEF deals
<1>3. AreDeals(d.activeUsers, deals)
  BY <1>1, <1>2, DispatcherAssumption DEF AreDeals, DealsForm
<1>4. QED
  BY <1>3 DEF Minute, RatingForm, deals

(* The pass over the deals makes the users with deals active and rates all *)
(* of them anew.                                                           *)
LEMMA DealsRateUsers ==
  ASSUME NEW d, NEW in, RatingForm(d), DealsForm(in.dealsWon)
  PROVE  LET e     == ProcessDeals(d, in)
             deals == Deals(d, in.dealsWon)
         IN  /\ RatingForm(e) /\ e.rating = Reference(d.activeUsers, deals)
             /\ IsRefreshed(d.activeUsers, deals, e.activeUsers)
<1> DEFINE e       == ProcessDeals(d, in)
           deals   == Deals(d, in.dealsWon)
           fresh   == Silent(d) \cap DOMAIN deals
           rebuilt == Rebuild(d.rating, d.activeUsers, deals)
           user(u) == IF u \in fresh THEN d.silentUsers[u] ELSE d.activeUsers[u]
           place(u) == CHOOSE i \in DOMAIN rebuilt.rating : rebuilt.rating[i] = u
           entry(u) ==
             [name            |-> user(u).name,
              secondConnected |-> user(u).secondConnected,
              amountWon       |-> Total(d.activeUsers, deals, u),
              rating          |-> place(u) - 1]
           active  == [u \in Active(d) \cup fresh |-> entry(u)]
           silent  == [u \in Silent(d) \ fresh |-> d.silentUsers[u]]
           sets    == [s \in Seconds |->
                         d.usersOnline[s] \cup {u \in fresh : d.silentUsers[u].secondConnected = s}]
           strange == DOMAIN in.dealsWon \ Known(d)
<1>1. Minute(d.rating, d.activeUsers, deals)
  BY DealsMakeAMinute
<1>2. rebuilt.fits /\ rebuilt.rating = Reference(d.activeUsers, deals)
  <2> HIDE DEF deals
  <2>1. QED
    BY <1>1, RebuildIsRight
<1>3. e = [d EXCEPT !.rating = rebuilt.rating, !.activeUsers = active, !.silentUsers = silent,
                    !.usersOnline = sets, !.errors = @ \cup Unrecognized(strange)]
  BY <1>2 DEF ProcessDeals, Unrecognized, Deals, Winners
<1>4. /\ CoreForm(e) /\ \A u : SecondIn(e, u) = SecondIn(d, u)
  BY DealsKeepUsers DEF RatingForm
<1>5. DOMAIN active = Active(d) \cup fresh
  OBVIOUS
<1>6. ASSUME NEW u \in Active(d) \cup fresh
      PROVE  /\ active[u].amountWon = Total(d.activeUsers, deals, u)
             /\ active[u].rating = place(u) - 1
             /\ {"amountWon", "rating"} \subseteq DOMAIN active[u]
  <2>1. active[u] = entry(u)
    OBVIOUS
  <2>2. /\ entry(u).amountWon = Total(d.activeUsers, deals, u)
        /\ entry(u).rating = place(u) - 1
        /\ {"amountWon", "rating"} \subseteq DOMAIN entry(u)
    <3> HIDE DEF place, user
    <3>1. QED
      OBVIOUS
  <2>3. QED
    BY <2>1, <2>2
<1>7. Active(d) \cup fresh = Active(d) \cup DOMAIN deals
  BY DEF Deals, Winners, Known
<1> HIDE DEF e, active, silent, sets, rebuilt, strange
<1>8. e.rating = rebuilt.rating /\ e.activeUsers = active /\ e.usersOnline = sets /\ e.fits = d.fits
  BY <1>3 DEF RatingForm, CoreForm
<1>9. IsRefreshed(d.activeUsers, deals, e.activeUsers)
  <2>1. \A u \in DOMAIN active : active[u].amountWon = Total(d.activeUsers, deals, u)
                                 /\ active[u].rating = place(u) - 1
    BY <1>5, <1>6
  <2>2. DOMAIN active = DOMAIN d.activeUsers \cup DOMAIN deals
    BY <1>5, <1>7 DEF Active
  <2> HIDE DEF deals, fresh
  <2>3. QED
    BY <1>2, <1>8, <2>1, <2>2 DEF IsRefreshed
<1>10. IsRating(e.rating, e.activeUsers)
  <2> HIDE DEF deals
  <2>1. QED
    BY <1>1, <1>2, <1>8, <1>9, ReferenceIsARating
<1>11. Active(e) = Active(d) \cup fresh
  BY <1>5, <1>8 DEF Active
<1>12. ASSUME NEW s \in Seconds
       PROVE  sets[s] = {u \in Active(e) : SecondIn(e, u) = s}
  <2>1. sets[s] = d.usersOnline[s] \cup {u \in fresh : d.silentUsers[u].secondConnected = s}
    BY DEF sets
  <2>2. d.usersOnline[s] = {u \in Active(d) : SecondIn(d, u) = s}
    BY DEF RatingForm
  <2>3. \A u \in fresh : SecondIn(d, u) = d.silentUsers[u].secondConnected
    BY DEF SecondIn, RatingForm, CoreForm
  <2> HIDE DEF fresh
  <2>4. QED
    BY <1>4, <1>11, <2>1, <2>2, <2>3
<1>13. e.usersOnline = [s \in Seconds |-> {u \in Active(e) : SecondIn(e, u) = s}]
  <2>1. sets = [s \in Seconds |-> sets[s]]
    BY DEF sets
  <2>2. QED
    BY <1>8, <1>12, <2>1
<1>14. RatingForm(e)
  BY <1>4, <1>5, <1>6, <1>8, <1>10, <1>11, <1>13 DEF RatingForm
<1>15. QED
  BY <1>2, <1>8, <1>9, <1>14 DEF e

LEMMA RatingIsLeftInTurn ==
  ASSUME NEW a, NEW b, NEW c, LeavesRating(a, b), LeavesRating(b, c)
  PROVE  LeavesRating(a, c)
BY DEF LeavesRating

(* All passes but the last only drop the rating or leave it.               *)
LEMMA RecalculationRates ==
  ASSUME NEW d, NEW in, NEW drop \in BOOLEAN, RatingForm(d), DealsForm(in.dealsWon)
  PROVE  LET e == Recalculated(d, in, drop)
         IN  \E m : /\ RatingForm(m) /\ Known(m) = Known(d) \cup DOMAIN in.usersRegistered
                    /\ IF drop THEN Active(m) = {} /\ m.rating = << >> ELSE LeavesRating(d, m)
                    /\ RatingForm(e)
                    /\ e.rating = Reference(m.activeUsers, Deals(m, in.dealsWon))
                    /\ IsRefreshed(m.activeUsers, Deals(m, in.dealsWon), e.activeUsers)
<1> DEFINE start == [d EXCEPT !.errors = {}]
           d0 == IF drop THEN DropRating(start) ELSE start
           d1 == ProcessRegistrations(d0, in)
           d2 == ProcessRenames(d1, in)
           d3 == ProcessConnectionChanges(d2, in)
           e  == ProcessDeals(d3, in)
           Kept(m) == IF drop THEN Active(m) = {} /\ m.rating = << >> ELSE LeavesRating(d, m)
<1>1. Recalculated(d, in, drop) = e
  BY DEF Recalculated
<1> HIDE DEF e
<1>2. RatingForm(start) /\ LeavesRating(d, start) /\ Known(start) = Known(d)
  BY ClearedErrorsLeaveRating, ClearedErrors DEF RatingForm
<1> HIDE DEF start
<1>3. RatingForm(d0) /\ Kept(d0) /\ Known(d0) = Known(d)
  <2>1. CASE drop
    BY <1>2, <2>1, DropRatingForgetsRating, DropRatingKeepsUsers DEF RatingForm
  <2>2. CASE ~drop
    BY <1>2, <2>2
  <2>3. QED
    BY <2>1, <2>2
<1> HIDE DEF d0
<1>4. \A a, b : Kept(a) /\ LeavesRating(a, b) => Kept(b)
  BY RatingIsLeftInTurn DEF LeavesRating
<1> HIDE DEF Kept
<1>5. RatingForm(d1) /\ Kept(d1) /\ Known(d1) = Known(d) \cup DOMAIN in.usersRegistered
  <2>1. RatingForm(d1) /\ LeavesRating(d0, d1)
    BY <1>3, RegistrationsLeaveRating
  <2>2. Known(d1) = Known(d0) \cup DOMAIN in.usersRegistered
    BY <1>3, RegistrationsAddUsers DEF RatingForm
  <2>3. QED
    BY <1>3, <1>4, <2>1, <2>2
<1> HIDE DEF d1
<1>6. RatingForm(d2) /\ Kept(d2) /\ Known(d2) = Known(d1)
  <2>1. RatingForm(d2) /\ LeavesRating(d1, d2)
    BY <1>5, RenamesLeaveRating
  <2>2. Known(d2) = Known(d1)
    BY <1>5, RenamesKeepUsers DEF RatingForm
  <2>3. QED
    BY <1>4, <1>5, <2>1, <2>2
<1> HIDE DEF d2
<1>7. RatingForm(d3) /\ Kept(d3) /\ Known(d3) = Known(d2)
  <2>1. RatingForm(d3) /\ LeavesRating(d2, d3)
    BY <1>6, ConnectionsLeaveRating
  <2>2. Known(d3) = Known(d2)
    BY <1>6, ConnectionsMoveUsers DEF RatingForm
  <2>3. QED
    BY <1>4, <1>6, <2>1, <2>2
<1> HIDE DEF d3
<1>8. /\ RatingForm(e) /\ e.rating = Reference(d3.activeUsers, Deals(d3, in.dealsWon))
      /\ IsRefreshed(d3.activeUsers, Deals(d3, in.dealsWon), e.activeUsers)
  BY <1>7, DealsRateUsers DEF e
<1>9. QED
  BY <1>1, <1>5, <1>6, <1>7, <1>8 DEF Kept

-----------------------------------------------------------------------------
(* The inductive invariant of the service's data.                          *)
Positive == \A amount \in DealAmounts : amount > 0

NewsForm(buffer) ==
  /\ BufferForm(buffer)
  /\ DOMAIN buffer.usersRegistered \subseteq UserIds
  /\ \A u \in DOMAIN buffer.connectionChanges :
       buffer.connectionChanges[u] \in Seconds \cup {InvalidSecond}
  /\ DealsForm(buffer.dealsWon)

ServiceInv ==
  /\ RatingForm(core) /\ Known(core) \subseteq UserIds
  /\ NewsForm(incoming) /\ NewsForm(draining)
  /\ ~refreshing => draining = EmptyBuffer

LEMMA EmptyBufferHasNoNews == NewsForm(EmptyBuffer)
<1>1. EmptyBuffer.dealsWon = Empty /\ DOMAIN Empty = {}
  BY DEF EmptyBuffer, Empty
<1>2. DealsForm(EmptyBuffer.dealsWon)
  BY <1>1, FS_EmptySet DEF DealsForm
<1>3. QED
  BY <1>2, EmptyBufferIsEmpty DEF NewsForm

LEMMA ServiceInit ==
  ASSUME Init
  PROVE  ServiceInv
<1>1. CoreInit /\ incoming = EmptyBuffer /\ draining = EmptyBuffer
  BY DEF Init, DispatcherInit
<1>2. RatingForm(core)
  <2>1. /\ core.fits /\ core.rating = << >> /\ Active(core) = {}
        /\ core.usersOnline = NoUsersOnline
    BY <1>1 DEF CoreInit, Active, Empty
  <2>2. QED
    BY <1>1, <2>1, InitialCore, RatingsWithoutUsers
<1>3. QED
  BY <1>1, <1>2, InitialCore, EmptyBufferHasNoNews DEF ServiceInv

(* What the listener writes into the buffer in use.                        *)
LEMMA RegistrationsAreNews ==
  ASSUME NewsForm(incoming), NEW u \in UserIds, NEW name, Registered(u, name)
  PROVE  NewsForm(incoming') /\ UNCHANGED <<core, draining, refreshing>>
<1>1. /\ incoming' = [incoming EXCEPT !.usersRegistered = Emplace(@, u, name)]
      /\ UNCHANGED <<core, draining, refreshing>>
  BY DEF Registered, DispatchUserRegistered
<1>2. /\ BufferForm(incoming') /\ incoming'.dealsWon = incoming.dealsWon
      /\ incoming'.connectionChanges = incoming.connectionChanges
      /\ incoming'.usersRegistered = Emplace(incoming.usersRegistered, u, name)
  BY <1>1 DEF NewsForm, BufferForm
<1>3. DOMAIN incoming'.usersRegistered = DOMAIN incoming.usersRegistered \cup {u}
  <2>1. DOMAIN Emplace(incoming.usersRegistered, u, name) = DOMAIN incoming.usersRegistered \cup {u}
    BY MergedMaps
  <2>2. QED
    BY <1>2, <2>1
<1>4. QED
  BY <1>1, <1>2, <1>3 DEF NewsForm

LEMMA RenamesAreNews ==
  ASSUME NewsForm(incoming), NEW u, NEW name, RenamedTo(u, name)
  PROVE  /\ NewsForm(incoming') /\ UNCHANGED <<core, draining, refreshing>>
         /\ incoming'.usersRegistered = incoming.usersRegistered
         /\ incoming'.connectionChanges = incoming.connectionChanges
         /\ incoming'.dealsWon = incoming.dealsWon
<1>1. /\ incoming' = [incoming EXCEPT !.usersRenamed = Emplace(@, u, name)]
      /\ UNCHANGED <<core, draining, refreshing>>
  BY DEF RenamedTo, DispatchUserRenamed
<1>2. /\ BufferForm(incoming') /\ incoming'.dealsWon = incoming.dealsWon
      /\ incoming'.connectionChanges = incoming.connectionChanges
      /\ incoming'.usersRegistered = incoming.usersRegistered
  BY <1>1 DEF NewsForm, BufferForm
<1>3. QED
  BY <1>1, <1>2 DEF NewsForm

LEMMA MovesAreNews ==
  ASSUME NewsForm(incoming), NEW u, NEW second \in Seconds \cup {InvalidSecond},
         incoming' = [incoming EXCEPT !.connectionChanges = Assign(@, u, second)]
  PROVE  NewsForm(incoming')
<1> DEFINE old == incoming.connectionChanges
           new == Assign(old, u, second)
<1>1. /\ BufferForm(incoming') /\ incoming'.dealsWon = incoming.dealsWon
      /\ incoming'.connectionChanges = new
      /\ incoming'.usersRegistered = incoming.usersRegistered
  BY DEF NewsForm, BufferForm
<1>2. DOMAIN new = DOMAIN old \cup {u}
  BY MergedMaps
<1>3. \A v \in DOMAIN old \cup {u} : new[v] = IF v = u THEN second ELSE old[v]
  BY AssignedValues
<1> HIDE DEF new
<1>4. \A v \in DOMAIN new : new[v] \in Seconds \cup {InvalidSecond}
  BY <1>2, <1>3 DEF NewsForm
<1>5. QED
  BY <1>1, <1>4 DEF NewsForm

LEMMA DealsAddUp ==
  ASSUME Positive, NEW won, DealsForm(won), NEW u \in UserIds, NEW amount \in DealAmounts
  PROVE  DealsForm(Assign(won, u, amount + IF u \in DOMAIN won THEN won[u] ELSE 0))
<1> DEFINE sum == amount + IF u \in DOMAIN won THEN won[u] ELSE 0
           new == Assign(won, u, sum)
<1>1. sum \in Int /\ sum > 0
  BY DispatcherAssumption DEF Positive, DealsForm
<1> HIDE DEF sum
<1>2. DOMAIN new = DOMAIN won \cup {u}
  BY MergedMaps
<1>3. \A v \in DOMAIN won \cup {u} : new[v] = IF v = u THEN sum ELSE won[v]
  BY AssignedValues
<1> HIDE DEF new
<1>4. IsFiniteSet(DOMAIN new)
  BY <1>2, FS_AddElement DEF DealsForm
<1>5. DealsForm(new)
  BY <1>1, <1>2, <1>3, <1>4 DEF DealsForm
<1>6. QED
  BY <1>5 DEF new, sum

LEMMA DealsAreNews ==
  ASSUME Positive, NewsForm(incoming), NEW u \in UserIds, NEW amount \in DealAmounts,
         DealWon(u, amount)
  PROVE  NewsForm(incoming') /\ UNCHANGED <<core, draining, refreshing>>
<1> DEFINE won == incoming.dealsWon
           new == Assign(won, u, amount + IF u \in DOMAIN won THEN won[u] ELSE 0)
<1>1. /\ incoming' = [incoming EXCEPT !.dealsWon = new]
      /\ UNCHANGED <<core, draining, refreshing>>
  BY DEF DealWon, DispatchUserDealWon
<1>2. DealsForm(new)
  BY DealsAddUp DEF NewsForm
<1> HIDE DEF new
<1>3. /\ BufferForm(incoming') /\ incoming'.dealsWon = new
      /\ incoming'.connectionChanges = incoming.connectionChanges
      /\ incoming'.usersRegistered = incoming.usersRegistered
  BY <1>1 DEF NewsForm, BufferForm
<1>4. QED
  BY <1>1, <1>2, <1>3 DEF NewsForm

LEMMA NewsKeepServiceInv ==
  ASSUME ServiceInv, UNCHANGED <<core, draining, refreshing>>, NewsForm(incoming')
  PROVE  ServiceInv'
<1>1. RatingForm(core)' /\ Known(core)' = Known(core)
  BY DEF ServiceInv, RatingForm, CoreForm, Known, Active, Silent, SecondIn
<1>2. NewsForm(incoming)' /\ NewsForm(draining)'
  BY DEF ServiceInv, NewsForm, BufferForm, DealsForm, Seconds, InvalidSecond
<1>3. QED
  BY <1>1, <1>2 DEF ServiceInv

LEMMA ServiceStep ==
  ASSUME Positive, ServiceInv, [Next]_serviceVars
  PROVE  ServiceInv'
<1>1. ASSUME NEW u \in UserIds, NEW name, Registered(u, name)
      PROVE  ServiceInv'
  BY <1>1, RegistrationsAreNews, NewsKeepServiceInv DEF ServiceInv
<1>2. ASSUME NEW u, NEW name, RenamedTo(u, name)
      PROVE  ServiceInv'
  BY <1>2, RenamesAreNews, NewsKeepServiceInv DEF ServiceInv
<1>3. ASSUME NEW u, NEW second \in Seconds, Connected(u, second)
      PROVE  ServiceInv'
  BY <1>3, MovesAreNews, NewsKeepServiceInv DEF Connected, DispatchUserConnected, ServiceInv
<1>4. ASSUME NEW u, Disconnected(u)
      PROVE  ServiceInv'
  BY <1>4, MovesAreNews, NewsKeepServiceInv DEF Disconnected, DispatchUserDisconnected, ServiceInv
<1>5. ASSUME NEW u \in UserIds, NEW amount \in DealAmounts, DealWon(u, amount)
      PROVE  ServiceInv'
  BY <1>5, DealsAreNews, NewsKeepServiceInv DEF ServiceInv
<1>6. CASE Swap
  <2>1. draining' = incoming /\ incoming' = draining /\ core' = core /\ refreshing' = TRUE
    BY <1>6 DEF Swap
  <2>2. RatingForm(core)' /\ Known(core)' = Known(core)
    BY <2>1 DEF ServiceInv, RatingForm, CoreForm, Known, Active, Silent, SecondIn
  <2>3. NewsForm(incoming)' /\ NewsForm(draining)'
    BY <2>1 DEF ServiceInv, NewsForm, BufferForm, DealsForm, Seconds, InvalidSecond
  <2>4. QED
    BY <2>1, <2>2, <2>3 DEF ServiceInv
<1>7. ASSUME NEW drop \in BOOLEAN, Recalculate(drop)
      PROVE  ServiceInv'
  <2> DEFINE e == Recalculated(core, draining, drop)
  <2>1. core' = e /\ draining' = EmptyBuffer /\ refreshing' = FALSE /\ incoming' = incoming
    BY <1>7 DEF Recalculate
  <2>2. RatingForm(e)
    BY RecalculationRates DEF ServiceInv, NewsForm
  <2>3. Known(e) \subseteq UserIds
    <3>1. CoreForm(core)
      BY DEF ServiceInv, RatingForm
    <3>2. Known(e) = Known(core) \cup DOMAIN draining.usersRegistered
      BY <3>1, RecalculationKnowsUsers
    <3>3. QED
      BY <3>2 DEF ServiceInv, NewsForm
  <2> HIDE DEF e
  <2>4. RatingForm(core)' /\ Known(core)' \subseteq UserIds
    BY <2>1, <2>2, <2>3 DEF RatingForm, CoreForm, Known, Active, Silent, SecondIn
  <2>5. NewsForm(incoming)' /\ NewsForm(draining)'
    BY <2>1, EmptyBufferHasNoNews
       DEF ServiceInv, NewsForm, BufferForm, DealsForm, Seconds, InvalidSecond
  <2>6. QED
    BY <2>1, <2>4, <2>5 DEF ServiceInv
<1>8. CASE Recover
  <2>1. incoming' = EmptyBuffer /\ draining' = EmptyBuffer /\ UNCHANGED <<core, refreshing>>
    BY <1>8 DEF Recover
  <2>2. RatingForm(core)' /\ Known(core)' = Known(core)
    BY <2>1 DEF ServiceInv, RatingForm, CoreForm, Known, Active, Silent, SecondIn
  <2>3. NewsForm(incoming)' /\ NewsForm(draining)'
    BY <2>1, EmptyBufferHasNoNews
       DEF NewsForm, BufferForm, DealsForm, Seconds, InvalidSecond
  <2>4. QED
    BY <2>1, <2>2, <2>3 DEF ServiceInv
<1>9. CASE UNCHANGED <<incoming, core, draining, refreshing>>
  BY <1>9, NewsKeepServiceInv DEF ServiceInv
<1>10. QED
  BY <1>1, <1>2, <1>3, <1>4, <1>5, <1>6, <1>7, <1>8, <1>9
     DEF Next, ServiceNext, KeepPromise, serviceVars

LEMMA ServiceInvHolds == ASSUME Positive PROVE Spec => []ServiceInv
BY ServiceInit, ServiceStep, PTL DEF Spec

(* What the inductive invariant says of the rating.                        *)
LEMMA RatingFormIsConsistent == ASSUME ServiceInv PROVE RatingConsistent
<1> DEFINE n == Len(core.rating)
           position(u) == core.activeUsers[u].rating
<1>1. /\ core.fits /\ IsRating(core.rating, core.activeUsers)
      /\ Active(core) \cap Silent(core) = {}
  BY DEF ServiceInv, RatingForm, CoreForm
<1>2. n \in Nat /\ n = Cardinality(Active(core))
  BY <1>1, RatingTypes, UsersAreCounted DEF Active
<1>3. \A u \in Active(core) : position(u) \in 0 .. n - 1 /\ core.rating[position(u) + 1] = u
  BY <1>1, PlacesAreKnown DEF Active
<1>4. ASSUME NEW i \in 1 .. n - 1
      PROVE  core.activeUsers[core.rating[i]].amountWon >= core.activeUsers[core.rating[i + 1]].amountWon
  <2>1. i \in 1 .. n /\ i + 1 \in 1 .. n /\ i <= i + 1
    BY <1>2
  <2> HIDE DEF n
  <2>2. QED
    BY <1>1, <2>1, WinningsFall DEF n
<1>5. QED
  BY <1>1, <1>2, <1>3, <1>4 DEF RatingConsistent

(* Recalculation on recalculation, through week turns and recoveries, the  *)
(* rating vector, the positions the users know and their winnings agree,   *)
(* and no assertion of the rebuilding fails (RatingCalculatorImpl).        *)
THEOREM RatingStaysConsistent == ASSUME Positive PROVE Spec => []RatingConsistent
BY ServiceInvHolds, RatingFormIsConsistent, PTL

(* A chrono set points to live records of users connected in its second,   *)
(* and to all of them (processConnectionChanges, processDeals, dropRating).*)
THEOREM ChronoSetsDoFollow == ASSUME Positive PROVE Spec => []ChronoSetsFollow
<1>1. ASSUME ServiceInv
      PROVE  ChronoSetsFollow
  <2>1. core.usersOnline = [s \in Seconds |-> {u \in Active(core) : SecondIn(core, u) = s}]
    BY <1>1 DEF ServiceInv, RatingForm
  <2>2. \A u : SecondOf(u) = SecondIn(core, u)
    BY DEF SecondOf, SecondIn
  <2>3. QED
    BY <2>1, <2>2 DEF ChronoSetsFollow
<1>2. QED
  BY <1>1, ServiceInvHolds, PTL

-----------------------------------------------------------------------------
(* What a recalculation does to the scores and to the ranking of the board.*)
LEMMA RecalculationTurns ==
  ASSUME NEW d, NEW in, NEW drop \in BOOLEAN, RatingForm(d), NewsForm(in)
  PROVE  LET e       == Recalculated(d, in, drop)
             known   == Known(d) \cup DOMAIN in.usersRegistered
             winners == known \cap DOMAIN in.dealsWon
             base    == IF drop THEN {} ELSE Active(d)
         IN  /\ RatingForm(e) /\ Known(e) = known
             /\ Active(e) = base \cup winners
             /\ \A u \in Active(e) : e.activeUsers[u].amountWon =
                  (IF u \in base THEN d.activeUsers[u].amountWon ELSE 0)
                  + IF u \in winners THEN in.dealsWon[u] ELSE 0
             /\ \A u, v \in base \ winners : Earlier(e.rating, u, v) <=> Earlier(d.rating, u, v)
<1> DEFINE e       == Recalculated(d, in, drop)
           known   == Known(d) \cup DOMAIN in.usersRegistered
           winners == known \cap DOMAIN in.dealsWon
           base    == IF drop THEN {} ELSE Active(d)
<1>1. PICK m : /\ RatingForm(m) /\ Known(m) = known
               /\ IF drop THEN Active(m) = {} /\ m.rating = << >> ELSE LeavesRating(d, m)
               /\ RatingForm(e)
               /\ e.rating = Reference(m.activeUsers, Deals(m, in.dealsWon))
               /\ IsRefreshed(m.activeUsers, Deals(m, in.dealsWon), e.activeUsers)
  BY RecalculationRates DEF NewsForm
<1> DEFINE deals == Deals(m, in.dealsWon)
<1>2. Known(e) = known
  <2>1. CoreForm(d)
    BY DEF RatingForm
  <2> HIDE DEF deals
  <2>2. QED
    BY <2>1, RecalculationKnowsUsers
<1>3. DOMAIN deals = winners /\ \A u \in winners : deals[u] = in.dealsWon[u]
  BY <1>1 DEF Deals, Winners
<1>4. Minute(m.rating, m.activeUsers, deals)
  BY <1>1, DealsMakeAMinute DEF NewsForm
<1>5. IsRating(m.rating, m.activeUsers) /\ Active(m) = base
  BY <1>1 DEF RatingForm, LeavesRating
<1>6. ASSUME NEW u \in base
      PROVE  /\ m.activeUsers[u].amountWon = d.activeUsers[u].amountWon
             /\ m.activeUsers[u].rating = d.activeUsers[u].rating
             /\ u \in Active(d) /\ ~drop
  BY <1>1 DEF LeavesRating
<1> HIDE DEF e, known, deals, winners, base
<1>7. Active(e) = base \cup winners
  BY <1>1, <1>3, <1>5 DEF IsRefreshed, Active, deals
<1>8. ASSUME NEW u \in Active(e)
      PROVE  e.activeUsers[u].amountWon =
               (IF u \in base THEN d.activeUsers[u].amountWon ELSE 0)
               + IF u \in winners THEN in.dealsWon[u] ELSE 0
  <2>1. e.activeUsers[u].amountWon = Total(m.activeUsers, deals, u)
    BY <1>1 DEF IsRefreshed, Active, deals
  <2>2. Total(m.activeUsers, deals, u) =
          (IF u \in base THEN m.activeUsers[u].amountWon ELSE 0)
          + IF u \in winners THEN in.dealsWon[u] ELSE 0
    BY <1>3, <1>5 DEF Total, Active
  <2>3. QED
    BY <1>6, <2>1, <2>2
<1>9. ASSUME NEW u \in base \ winners, NEW v \in base \ winners
      PROVE  Earlier(e.rating, u, v) <=> Earlier(d.rating, u, v)
  <2>1. Earlier(e.rating, u, v) <=> m.activeUsers[u].rating < m.activeUsers[v].rating
    <3>1. /\ u \in DOMAIN m.activeUsers \ DOMAIN deals /\ v \in DOMAIN m.activeUsers \ DOMAIN deals
          /\ e.rating = Reference(m.activeUsers, deals)
      BY <1>1, <1>3, <1>5 DEF Active, deals
    <3>2. QED
      BY <1>4, <3>1, UndisturbedUsersKeepTheirOrder
  <2>2. Earlier(d.rating, u, v) <=> d.activeUsers[u].rating < d.activeUsers[v].rating
    <3>1. IsRating(d.rating, d.activeUsers) /\ u \in DOMAIN d.activeUsers /\ v \in DOMAIN d.activeUsers
      BY <1>6 DEF RatingForm, Active
    <3>2. QED
      BY <3>1, PlacesOrderUsers
  <2>3. QED
    BY <1>6, <2>1, <2>2
<1>10. QED
  BY <1>1, <1>2, <1>7, <1>8, <1>9 DEF e, known, winners, base

(* The steps of the service are steps of the board.                        *)
SecondNews(changes) ==
  [u \in UserIds |-> IF u \in DOMAIN changes THEN changes[u] ELSE SecondsPerMinute + 1]

LEMMA NewsAreThree ==
  ASSUME NEW buffer
  PROVE  News(buffer) = [joined |-> DOMAIN buffer.usersRegistered,
                         second |-> SecondNews(buffer.connectionChanges),
                         won    |-> buffer.dealsWon]
BY DEF News, SecondNews

LEMMA NoNewsIsEmpty == News(EmptyBuffer) = Board!NoNews
BY EmptyBufferIsEmpty DEF News, Board!NoNews, Board!Nothing, EmptyBuffer, Empty

LEMMA InitIsBoardInit == ASSUME Init PROVE Board!BoardInit
<1>1. CoreInit /\ incoming = EmptyBuffer /\ draining = EmptyBuffer /\ refreshing = FALSE
  BY DEF Init, DispatcherInit
<1>2. Active(core) = {} /\ Silent(core) = {} /\ Known(core) = {}
  BY <1>1 DEF CoreInit, Active, Silent, Known, Empty
<1>3. [u \in UserIds |-> SecondOf(u)] = [u \in UserIds |-> Board!Away]
  BY <1>2 DEF SecondOf, Board!Away, InvalidSecond
<1>4. [u \in Active(core) |-> core.activeUsers[u].amountWon] = << >>
  BY <1>2
<1>5. core.rating = << >>
  BY <1>1 DEF CoreInit
<1>6. QED
  BY <1>1, <1>2, <1>3, <1>4, <1>5, NoNewsIsEmpty DEF Board!BoardInit

(* What the board shows of the core data.                                  *)
SameCore ==
  /\ Known(core)' = Known(core) /\ core.rating' = core.rating
  /\ [u \in UserIds |-> SecondOf(u)]' = [u \in UserIds |-> SecondOf(u)]
  /\ [u \in Active(core) |-> core.activeUsers[u].amountWon]'
       = [u \in Active(core) |-> core.activeUsers[u].amountWon]

LEMMA UnchangedCoreIsTheSame == ASSUME core' = core PROVE SameCore
BY DEF SameCore, Known, Active, Silent, SecondOf

(* The listener's steps.                                                   *)
LEMMA RegistrationsAreReceived ==
  ASSUME NewsForm(incoming), NEW u \in UserIds, NEW name, Registered(u, name)
  PROVE  Board!Receive
<1>1. /\ incoming' = [incoming EXCEPT !.usersRegistered = Emplace(@, u, name)]
      /\ UNCHANGED <<core, draining, refreshing>>
  BY DEF Registered, DispatchUserRegistered
<1>2. DOMAIN Emplace(incoming.usersRegistered, u, name) = DOMAIN incoming.usersRegistered \cup {u}
  BY MergedMaps
<1>3. /\ DOMAIN incoming'.usersRegistered = DOMAIN incoming.usersRegistered \cup {u}
      /\ incoming'.connectionChanges = incoming.connectionChanges
      /\ incoming'.dealsWon = incoming.dealsWon
  BY <1>1, <1>2 DEF NewsForm, BufferForm
<1>4. News(incoming)' = [News(incoming) EXCEPT !.joined = @ \cup {u}]
  <2>1. News(incoming') = [News(incoming) EXCEPT !.joined = @ \cup {u}]
    <3> DEFINE seconds == SecondNews(incoming.connectionChanges)
               deals   == incoming.dealsWon
               joined  == DOMAIN incoming.usersRegistered
    <3>1. News(incoming') = [joined |-> joined \cup {u}, second |-> seconds, won |-> deals]
      BY <1>3, NewsAreThree
    <3>2. News(incoming) = [joined |-> joined, second |-> seconds, won |-> deals]
      BY NewsAreThree
    <3> HIDE DEF seconds, deals, joined
    <3>3. QED
      BY <3>1, <3>2
  <2>2. News(incoming)' = News(incoming')
    BY DEF News
  <2>3. QED
    BY <2>1, <2>2
<1>5. SameCore /\ News(draining)' = News(draining) /\ refreshing' = refreshing
  BY <1>1, UnchangedCoreIsTheSame DEF News
<1>6. QED
  BY <1>4, <1>5 DEF Board!Receive, Board!Register, SameCore

LEMMA MovesAreReceived ==
  ASSUME NewsForm(incoming), NEW u \in UserIds, NEW second \in Seconds \cup {InvalidSecond},
         incoming' = [incoming EXCEPT !.connectionChanges = Assign(@, u, second)],
         UNCHANGED <<core, draining, refreshing>>
  PROVE  Board!Receive
<1> DEFINE old == incoming.connectionChanges
           new == Assign(old, u, second)
<1>1. /\ incoming'.connectionChanges = new
      /\ incoming'.usersRegistered = incoming.usersRegistered
      /\ incoming'.dealsWon = incoming.dealsWon
  BY DEF NewsForm, BufferForm
<1>2. DOMAIN new = DOMAIN old \cup {u}
  BY MergedMaps
<1>3. \A v \in DOMAIN old \cup {u} : new[v] = IF v = u THEN second ELSE old[v]
  BY AssignedValues
<1> HIDE DEF new
<1>4. SecondNews(new) = [SecondNews(old) EXCEPT ![u] = second]
  BY <1>2, <1>3 DEF SecondNews
<1>5. News(incoming') = [News(incoming) EXCEPT !.second[u] = second]
  <2> DEFINE seconds == SecondNews(old)
             deals   == incoming.dealsWon
             joined  == DOMAIN incoming.usersRegistered
  <2>1. News(incoming') = [joined |-> joined, second |-> SecondNews(new), won |-> deals]
    BY <1>1, NewsAreThree
  <2>2. News(incoming) = [joined |-> joined, second |-> seconds, won |-> deals]
    BY NewsAreThree
  <2>3. SecondNews(new) = [seconds EXCEPT ![u] = second]
    BY <1>4
  <2> HIDE DEF seconds, deals, joined
  <2>4. QED
    BY <2>1, <2>2, <2>3
<1>6. News(incoming)' = [News(incoming) EXCEPT !.second[u] = second]
  BY <1>5 DEF News
<1>7. SameCore /\ News(draining)' = News(draining) /\ refreshing' = refreshing
  BY UnchangedCoreIsTheSame DEF News
<1>8. second \in Board!Seconds \cup {Board!Away}
  BY DEF Seconds, InvalidSecond, Board!Seconds, Board!Away
<1>9. QED
  BY <1>6, <1>7, <1>8 DEF Board!Receive, Board!Move, SameCore

LEMMA DealsAreReceived ==
  ASSUME NewsForm(incoming), NEW u \in UserIds, NEW amount \in DealAmounts, DealWon(u, amount)
  PROVE  Board!Receive
<1> DEFINE old == incoming.dealsWon
           sum == amount + IF u \in DOMAIN old THEN old[u] ELSE 0
           new == Assign(old, u, sum)
           won == [v \in DOMAIN old \cup {u} |-> Board!Score(old, v) + IF v = u THEN amount ELSE 0]
<1>1. /\ incoming' = [incoming EXCEPT !.dealsWon = new]
      /\ UNCHANGED <<core, draining, refreshing>>
  BY DEF DealWon, DispatchUserDealWon
<1>2. /\ incoming'.connectionChanges = incoming.connectionChanges
      /\ incoming'.usersRegistered = incoming.usersRegistered
      /\ incoming'.dealsWon = new
  <2> HIDE DEF new
  <2>1. QED
    BY <1>1 DEF NewsForm, BufferForm
<1>3. new = won
  <2>1. DOMAIN new = DOMAIN old \cup {u}
    BY MergedMaps
  <2>2. ASSUME NEW v \in DOMAIN old \cup {u}
        PROVE  new[v] = Board!Score(old, v) + IF v = u THEN amount ELSE 0
    <3>1. new[v] = IF v = u THEN sum ELSE old[v]
      BY AssignedValues
    <3>2. amount \in Int /\ \A w \in DOMAIN old : old[w] \in Int
      BY DispatcherAssumption DEF NewsForm, DealsForm
    <3> HIDE DEF new
    <3>3. QED
      BY <3>1, <3>2 DEF Board!Score
  <2>3. new = [v \in DOMAIN new |-> new[v]]
    BY DEF Assign, Merge
  <2> HIDE DEF new
  <2>4. QED
    BY <2>1, <2>2, <2>3
<1> HIDE DEF new, won
<1>4. News(incoming)' = [News(incoming) EXCEPT !.won = won]
  <2>1. News(incoming') = [News(incoming) EXCEPT !.won = won]
    <3> DEFINE seconds == SecondNews(incoming.connectionChanges)
               joined  == DOMAIN incoming.usersRegistered
    <3>1. News(incoming') = [joined |-> joined, second |-> seconds, won |-> won]
      BY <1>2, <1>3, NewsAreThree
    <3>2. News(incoming) = [joined |-> joined, second |-> seconds, won |-> old]
      BY NewsAreThree
    <3> HIDE DEF seconds, old, joined
    <3>3. QED
      BY <3>1, <3>2
  <2>2. News(incoming)' = News(incoming')
    BY DEF News
  <2>3. QED
    BY <2>1, <2>2
<1>5. News(incoming).won = old
  BY DEF News
<1>6. SameCore /\ News(draining)' = News(draining) /\ refreshing' = refreshing
  BY <1>1, UnchangedCoreIsTheSame DEF News
<1>7. Board!Win(u, amount)
  BY <1>4, <1>5 DEF Board!Win, won
<1>8. QED
  BY <1>6, <1>7 DEF Board!Receive, SameCore

(* The recalculation.                                                      *)
LEMMA SwapCloses ==
  ASSUME ServiceInv, Swap
  PROVE  Board!Close
<1>1. /\ ~refreshing /\ refreshing' = TRUE /\ core' = core
      /\ draining' = incoming /\ incoming' = EmptyBuffer
  BY DEF Swap, ServiceInv
<1>2. News(incoming)' = Board!NoNews /\ News(draining)' = News(incoming)
  BY <1>1, NoNewsIsEmpty DEF News
<1>3. SameCore
  BY <1>1, UnchangedCoreIsTheSame
<1>4. QED
  BY <1>1, <1>2, <1>3 DEF Board!Close, SameCore

LEMMA RecoveryLoses ==
  ASSUME ServiceInv, Recover
  PROVE  Board!Lose
<1>1. /\ ~refreshing /\ refreshing' = refreshing /\ core' = core
      /\ draining' = draining /\ incoming' = EmptyBuffer
  BY DEF Recover, ServiceInv
<1>2. News(incoming)' = Board!NoNews /\ News(draining)' = News(draining)
  BY <1>1, NoNewsIsEmpty DEF News
<1>3. SameCore
  BY <1>1, UnchangedCoreIsTheSame
<1>4. QED
  BY <1>1, <1>2, <1>3 DEF Board!Lose, SameCore

LEMMA RecalculationIsATurn ==
  ASSUME ServiceInv, NEW drop \in BOOLEAN, Recalculate(drop)
  PROVE  Board!Turn(drop)
<1> DEFINE e       == Recalculated(core, draining, drop)
           known   == Known(core) \cup DOMAIN draining.usersRegistered
           winners == known \cap DOMAIN draining.dealsWon
           scores  == [u \in Active(core) |-> core.activeUsers[u].amountWon]
           total   == [u \in Active(e) |-> e.activeUsers[u].amountWon]
           base    == IF drop THEN << >> ELSE scores
           stay    == IF drop THEN {} ELSE Active(core)
           second  == [u \in UserIds |-> SecondOf(u)]
           closed  == News(draining)
           changes == draining.connectionChanges
<1>1. /\ refreshing /\ refreshing' = FALSE /\ core' = e
      /\ draining' = EmptyBuffer /\ incoming' = incoming
  BY DEF Recalculate
<1>2. /\ RatingForm(e) /\ Known(e) = known /\ Active(e) = stay \cup winners
      /\ \A u \in Active(e) : e.activeUsers[u].amountWon =
           (IF u \in stay THEN core.activeUsers[u].amountWon ELSE 0)
           + IF u \in winners THEN draining.dealsWon[u] ELSE 0
      /\ \A u, v \in stay \ winners : Earlier(e.rating, u, v) <=> Earlier(core.rating, u, v)
  BY RecalculationTurns DEF ServiceInv
<1>3. \A u \in known : SecondIn(e, u) = IF u \in DOMAIN changes THEN changes[u] ELSE SecondIn(core, u)
  <2>1. CoreForm(core)
    BY DEF ServiceInv, RatingForm
  <2> HIDE DEF e
  <2>2. Known(e) = known
    BY <1>2
  <2> HIDE DEF known
  <2>3. QED
    BY <2>1, <2>2, RecalculationKnowsUsers DEF e
<1>4. /\ known \subseteq UserIds
      /\ \A u \in DOMAIN changes : changes[u] \in Seconds \cup {InvalidSecond}
  BY DEF ServiceInv, NewsForm
<1>5. /\ closed.joined = DOMAIN draining.usersRegistered /\ closed.won = draining.dealsWon
      /\ closed.second = SecondNews(changes)
  BY NewsAreThree
<1>6. DOMAIN base = stay /\ \A u \in stay : base[u] = core.activeUsers[u].amountWon
  OBVIOUS
<1>7. total = [u \in DOMAIN base \cup winners |->
                 Board!Score(base, u) + IF u \in winners THEN draining.dealsWon[u] ELSE 0]
  <2> HIDE DEF e, base, stay, winners
  <2>1. ASSUME NEW u \in Active(e)
        PROVE  total[u] = Board!Score(base, u) + IF u \in winners THEN draining.dealsWon[u] ELSE 0
    BY <1>2, <1>6 DEF Board!Score
  <2>2. Active(e) = DOMAIN base \cup winners
    BY <1>2, <1>6
  <2>3. QED
    BY <2>1, <2>2
<1> HIDE DEF e, base, stay, closed, known, winners, changes
<1>8. \A u : SecondOf(u)' = SecondIn(e, u) /\ SecondOf(u) = SecondIn(core, u)
  BY <1>1 DEF SecondOf, SecondIn, Active, Silent
<1>9. Known(core)' = known /\ Active(core)' = Active(e)
  BY <1>1, <1>2 DEF Known, Active, Silent
<1>10. [u \in UserIds |-> SecondOf(u)]' = [u \in UserIds |->
         IF u \in known /\ closed.second[u] # Board!Nothing THEN closed.second[u] ELSE second[u]]
  <2>1. ASSUME NEW u \in UserIds
        PROVE  SecondIn(e, u) = IF u \in known /\ closed.second[u] # Board!Nothing
                                THEN closed.second[u] ELSE second[u]
    <3>1. closed.second[u] = IF u \in DOMAIN changes THEN changes[u] ELSE Board!Nothing
      BY <1>5 DEF SecondNews, Board!Nothing
    <3>2. u \in DOMAIN changes => changes[u] # Board!Nothing
      BY <1>4, DispatcherAssumption DEF Board!Nothing, Seconds, InvalidSecond
    <3>3. second[u] = SecondIn(core, u)
      BY <1>8
    <3>4. CASE u \in known
      BY <1>3, <3>1, <3>2, <3>3, <3>4
    <3>5. CASE u \notin known
      BY <1>2, <3>3, <3>5 DEF SecondIn, Known, known
    <3>6. QED
      BY <3>4, <3>5
  <2>2. [u \in UserIds |-> SecondOf(u)]' = [u \in UserIds |-> SecondIn(e, u)]
    BY <1>8
  <2> HIDE DEF second
  <2>3. QED
    BY <2>1, <2>2
<1>11. [u \in Active(core) |-> core.activeUsers[u].amountWon]' = total
  BY <1>1, <1>9
<1>12. IsRating(e.rating, e.activeUsers) /\ DOMAIN total = Active(e)
  BY <1>2 DEF RatingForm
<1>13. core.rating' \in Board!SetToSeqs(DOMAIN total)
  <2>1. e.rating \in SetToSeqs(DOMAIN e.activeUsers)
    BY <1>12, RatingsArePermutations
  <2>2. QED
    BY <1>1, <1>12, <2>1 DEF Active, SetToSeqs, Board!SetToSeqs, Cardinality, Board!Cardinality
<1>14. ASSUME NEW i \in DOMAIN e.rating, NEW j \in DOMAIN e.rating, i < j
       PROVE  total[e.rating[i]] >= total[e.rating[j]]
  <2>1. /\ i \in 1 .. Len(e.rating) /\ j \in 1 .. Len(e.rating)
        /\ e.rating[i] \in DOMAIN e.activeUsers /\ e.rating[j] \in DOMAIN e.activeUsers
    BY <1>12, <1>14, RatingTypes DEF IsRating
  <2>2. e.activeUsers[e.rating[i]].amountWon >= e.activeUsers[e.rating[j]].amountWon
    BY <1>12, <1>14, <2>1 DEF IsRating
  <2>3. QED
    BY <2>1, <2>2 DEF Active
<1>15. \A u, v \in DOMAIN base \ winners :
         Board!Before(e.rating, u, v) <=> Board!Before(core.rating, u, v)
  BY <1>2, <1>6 DEF Board!Before, Earlier
<1>16. News(draining)' = Board!NoNews /\ News(incoming)' = News(incoming)
  BY <1>1, NoNewsIsEmpty DEF News
<1>17. known = Known(core) \cup closed.joined /\ winners = known \cap DOMAIN closed.won
  BY <1>5 DEF known, winners
<1>18. total = [u \in DOMAIN base \cup winners |->
                  Board!Score(base, u) + IF u \in winners THEN closed.won[u] ELSE 0]
  BY <1>5, <1>7
<1> HIDE DEF total, second
<1>19. \E order \in Board!SetToSeqs(DOMAIN total) :
         /\ \A i, j \in DOMAIN order : i < j => total[order[i]] >= total[order[j]]
         /\ \A u, v \in DOMAIN base \ winners :
              Board!Before(order, u, v) <=> Board!Before(core.rating, u, v)
         /\ core.rating' = order
  BY <1>1, <1>13, <1>14, <1>15
<1>20. QED
  <2>1. /\ closed = News(draining) /\ second = [u \in UserIds |-> SecondOf(u)]
        /\ base = IF drop THEN << >> ELSE [u \in Active(core) |-> core.activeUsers[u].amountWon]
    BY DEF closed, second, base
  <2>2. QED
    BY <1>1, <1>9, <1>10, <1>11, <1>16, <1>17, <1>18, <1>19, <2>1 DEF Board!Turn

(* What the board does not show: new names, promises.                      *)
LEMMA NothingNewIsAStutter ==
  ASSUME UNCHANGED <<core, draining, refreshing>>,
         DOMAIN incoming'.usersRegistered = DOMAIN incoming.usersRegistered,
         incoming'.connectionChanges = incoming.connectionChanges,
         incoming'.dealsWon = incoming.dealsWon
  PROVE  UNCHANGED Board!boardVars
<1>1. News(incoming)' = News(incoming) /\ News(draining)' = News(draining)
  BY DEF News
<1>2. SameCore
  BY UnchangedCoreIsTheSame
<1>3. QED
  BY <1>1, <1>2 DEF Board!boardVars, SameCore

LEMMA StepsAreBoardSteps ==
  ASSUME ServiceInv, [Next]_serviceVars
  PROVE  [Board!BoardNext]_(Board!boardVars)
<1>1. ASSUME NEW u \in UserIds, NEW name, Registered(u, name)
      PROVE  Board!Receive
  BY <1>1, RegistrationsAreReceived DEF ServiceInv
<1>2. ASSUME NEW u, NEW name, RenamedTo(u, name)
      PROVE  UNCHANGED Board!boardVars
  BY <1>2, RenamesAreNews, NothingNewIsAStutter DEF ServiceInv
<1>3. ASSUME NEW u \in UserIds, NEW second \in Seconds, Connected(u, second)
      PROVE  Board!Receive
  BY <1>3, MovesAreReceived DEF Connected, DispatchUserConnected, ServiceInv
<1>4. ASSUME NEW u \in UserIds, Disconnected(u)
      PROVE  Board!Receive
  BY <1>4, MovesAreReceived DEF Disconnected, DispatchUserDisconnected, ServiceInv
<1>5. ASSUME NEW u \in UserIds, NEW amount \in DealAmounts, DealWon(u, amount)
      PROVE  Board!Receive
  BY <1>5, DealsAreReceived DEF ServiceInv
<1>6. CASE Swap
  BY <1>6, SwapCloses DEF Board!BoardNext
<1>7. ASSUME NEW drop \in BOOLEAN, Recalculate(drop)
      PROVE  Board!BoardNext
  BY <1>7, RecalculationIsATurn DEF Board!BoardNext
<1>8. CASE Recover
  BY <1>8, RecoveryLoses DEF Board!BoardNext
<1>9. CASE UNCHANGED <<incoming, core, draining, refreshing>>
  BY <1>9, NothingNewIsAStutter
<1>10. QED
  BY <1>1, <1>2, <1>3, <1>4, <1>5, <1>6, <1>7, <1>8, <1>9
     DEF Next, ServiceNext, KeepPromise, serviceVars, Board!BoardNext

(* The buffers swapped each minute, the patches and the chrono sets do what *)
(* the rating board promises: recalculate() counts the news of a buffer     *)
(* once and all together, none is lost but with its session, and the rating *)
(* stays sorted and stable over any number of minutes, weeks and sessions.  *)
THEOREM ServiceIsABoard == ASSUME Positive PROVE Spec => ImplementsBoard
<1>1. Init => Board!BoardInit
  BY InitIsBoardInit
<1>2. ServiceInv /\ [Next]_serviceVars => [Board!BoardNext]_(Board!boardVars)
  BY StepsAreBoardSteps
<1>3. QED
  BY <1>1, <1>2, ServiceInvHolds, PTL DEF Spec, ImplementsBoard, Board!BoardSpec

-----------------------------------------------------------------------------
(* The client's view: the shape of the data and PictureInv are inductive.     *)
FormInv == CoreForm(core) /\ BufferForm(incoming) /\ BufferForm(draining)

ProofInv == FormInv /\ PictureInv

LEMMA ViewInit ==
  ASSUME ClientInit
  PROVE  ProofInv
<1>1. incoming = EmptyBuffer /\ draining = EmptyBuffer /\ promises = {} /\ CoreInit
      /\ users = {} /\ online = {}
  BY DEF ClientInit, Init, DispatcherInit
<1>2. CoreForm(core) /\ Known(core) = {} /\ core.errors = {}
  BY <1>1, InitialCore
<1>3. FormInv
  BY <1>1, <1>2, EmptyBufferIsEmpty DEF FormInv
<1>4. RegistrationsInv
  BY <1>1, <1>2, EmptyBufferIsEmpty DEF RegistrationsInv, CoreForm
<1>5. ConnectionsInv /\ PromisesInv /\ ReportsFakes
  BY <1>1, <1>2 DEF ConnectionsInv, PromisesInv, ReportsFakes
<1>6. QED
  BY <1>3, <1>4, <1>5 DEF ProofInv, PictureInv

-----------------------------------------------------------------------------
(* The listener's steps: what the buffer in use then has.                  *)
Hears(u) ==
  /\ BufferForm(incoming')
  /\ incoming'.usersRegistered = incoming.usersRegistered
  /\ Heard(incoming') = Heard(incoming) \cup {u}
  /\ UNCHANGED <<core, draining, refreshing>>

LEMMA RegistrationIsHeld ==
  ASSUME BufferForm(incoming), NEW u, NEW name, Registered(u, name)
  PROVE  /\ BufferForm(incoming') /\ Heard(incoming') = Heard(incoming)
         /\ DOMAIN incoming'.usersRegistered = DOMAIN incoming.usersRegistered \cup {u}
         /\ incoming'.connectionChanges = incoming.connectionChanges
         /\ UNCHANGED <<core, draining, refreshing, promises>>
<1>1. /\ incoming' = [incoming EXCEPT !.usersRegistered = Emplace(@, u, name)]
      /\ UNCHANGED <<core, draining, refreshing, promises>>
  BY DEF Registered, DispatchUserRegistered
<1>2. /\ incoming'.usersRegistered = Emplace(incoming.usersRegistered, u, name)
      /\ incoming'.usersRenamed = incoming.usersRenamed
      /\ incoming'.connectionChanges = incoming.connectionChanges
      /\ incoming'.dealsWon = incoming.dealsWon
      /\ BufferForm(incoming')
  BY <1>1 DEF BufferForm
<1>3. DOMAIN Emplace(incoming.usersRegistered, u, name) = DOMAIN incoming.usersRegistered \cup {u}
  BY MergedMaps
<1>4. Heard(incoming') = Heard(incoming)
  BY <1>2 DEF Heard
<1>5. QED
  BY <1>1, <1>2, <1>3, <1>4

LEMMA RenameIsHeard ==
  ASSUME BufferForm(incoming), NEW u, NEW name, RenamedTo(u, name)
  PROVE  /\ Hears(u) /\ incoming'.connectionChanges = incoming.connectionChanges
         /\ promises' = promises
<1>1. /\ incoming' = [incoming EXCEPT !.usersRenamed = Emplace(@, u, name)]
      /\ UNCHANGED <<core, draining, refreshing, promises>>
  BY DEF RenamedTo, DispatchUserRenamed
<1>2. /\ incoming'.usersRenamed = Emplace(incoming.usersRenamed, u, name)
      /\ incoming'.usersRegistered = incoming.usersRegistered
      /\ incoming'.connectionChanges = incoming.connectionChanges
      /\ incoming'.dealsWon = incoming.dealsWon
      /\ BufferForm(incoming')
  BY <1>1 DEF BufferForm
<1>3. DOMAIN Emplace(incoming.usersRenamed, u, name) = DOMAIN incoming.usersRenamed \cup {u}
  BY MergedMaps
<1>4. Heard(incoming') = Heard(incoming) \cup {u}
  BY <1>2, <1>3 DEF Heard
<1>5. QED
  BY <1>1, <1>2, <1>4 DEF Hears

LEMMA DealIsHeard ==
  ASSUME BufferForm(incoming), NEW u, NEW amount, DealWon(u, amount)
  PROVE  /\ Hears(u) /\ incoming'.connectionChanges = incoming.connectionChanges
         /\ promises' = promises
<1> DEFINE sum == amount + IF u \in DOMAIN incoming.dealsWon THEN incoming.dealsWon[u] ELSE 0
<1>1. /\ incoming' = [incoming EXCEPT !.dealsWon = Assign(@, u, sum)]
      /\ UNCHANGED <<core, draining, refreshing, promises>>
  BY DEF DealWon, DispatchUserDealWon
<1> HIDE DEF sum
<1>2. /\ incoming'.dealsWon = Assign(incoming.dealsWon, u, sum)
      /\ incoming'.usersRegistered = incoming.usersRegistered
      /\ incoming'.usersRenamed = incoming.usersRenamed
      /\ incoming'.connectionChanges = incoming.connectionChanges
      /\ BufferForm(incoming')
  BY <1>1 DEF BufferForm
<1>3. DOMAIN Assign(incoming.dealsWon, u, sum) = DOMAIN incoming.dealsWon \cup {u}
  BY MergedMaps
<1>4. Heard(incoming') = Heard(incoming) \cup {u}
  BY <1>2, <1>3 DEF Heard
<1>5. QED
  BY <1>1, <1>2, <1>4 DEF Hears

LEMMA MoveIsHeard ==
  ASSUME BufferForm(incoming), NEW u, NEW second,
         incoming' = [incoming EXCEPT !.connectionChanges = Assign(@, u, second)],
         UNCHANGED <<core, draining, refreshing>>
  PROVE  /\ Hears(u)
         /\ NextSecondOf(u)' = second
         /\ \A v : v # u => NextSecondOf(v)' = NextSecondOf(v)
<1> DEFINE old == incoming.connectionChanges
           new == Assign(old, u, second)
<1>1. /\ incoming'.connectionChanges = new
      /\ incoming'.usersRegistered = incoming.usersRegistered
      /\ incoming'.usersRenamed = incoming.usersRenamed
      /\ incoming'.dealsWon = incoming.dealsWon
      /\ BufferForm(incoming')
  BY DEF BufferForm
<1>2. DOMAIN new = DOMAIN old \cup {u}
  BY MergedMaps
<1>3. \A v \in DOMAIN old \cup {u} : new[v] = IF v = u THEN second ELSE old[v]
  BY AssignedValues
<1> HIDE DEF new
<1>4. Heard(incoming') = Heard(incoming) \cup {u}
  BY <1>1, <1>2 DEF Heard
<1>5. NextSecondOf(u)' = second
  BY <1>1, <1>2, <1>3 DEF NextSecondOf
<1>6. ASSUME NEW v, v # u
      PROVE  NextSecondOf(v)' = NextSecondOf(v)
  <2>1. SecondOf(v)' = SecondOf(v)
    BY DEF SecondOf, Active, Silent
  <2>2. /\ v \in DOMAIN new <=> v \in DOMAIN old
        /\ v \in DOMAIN old => new[v] = old[v]
    BY <1>2, <1>3, <1>6
  <2>3. QED
    BY <1>1, <2>1, <2>2 DEF NextSecondOf
<1>7. QED
  BY <1>1, <1>4, <1>5, <1>6 DEF Hears

LEMMA HearingKeepsRegistrations ==
  ASSUME ProofInv, NEW u \in users \cup FakeIds, Hears(u), UNCHANGED users
  PROVE  FormInv' /\ RegistrationsInv' /\ ReportsFakes'
<1>1. /\ Known(core)' = Known(core) /\ Active(core)' = Active(core) /\ Silent(core)' = Silent(core)
      /\ Heard(draining)' = Heard(draining) /\ Heard(incoming)' = Heard(incoming) \cup {u}
  BY DEF Hears
<1>2. FormInv' /\ ReportsFakes'
  BY DEF ProofInv, FormInv, PictureInv, ReportsFakes, Hears
<1>3. RegistrationsInv'
  BY <1>1 DEF ProofInv, PictureInv, RegistrationsInv, Hears
<1>4. QED
  BY <1>2, <1>3

(* Where nothing is known of a user, nothing is on its way.                *)
LEMMA StrangersAreOut ==
  ASSUME ProofInv, NEW u, u \notin users \cup FakeIds
  PROVE  /\ u \notin Heard(incoming) \cup Heard(draining) \cup Known(core)
         /\ NextSecondOf(u) = InvalidSecond
<1>1. u \notin Heard(incoming) \cup Heard(draining) \cup Known(core)
  BY DEF ProofInv, PictureInv, RegistrationsInv
<1>2. SecondOf(u) = InvalidSecond
  BY <1>1 DEF SecondOf, Known
<1>3. QED
  BY <1>1, <1>2 DEF NextSecondOf, Heard

LEMMA SecondsAreValid == \A s \in Seconds : s # InvalidSecond
BY DispatcherAssumption DEF Seconds, InvalidSecond

-----------------------------------------------------------------------------
(* Every step keeps the invariant, step by step.                           *)
LEMMA RenamesKeepView ==
  ASSUME ProofInv, NEW u \in users \cup FakeIds, Hears(u),
         incoming'.connectionChanges = incoming.connectionChanges,
         UNCHANGED <<promises, clientVars>>
  PROVE  ProofInv'
<1>1. FormInv' /\ RegistrationsInv' /\ ReportsFakes'
  BY HearingKeepsRegistrations DEF clientVars
<1>2. ConnectionsInv'
  <2>1. \A v : NextSecondOf(v)' = NextSecondOf(v)
    BY DEF NextSecondOf, SecondOf, Active, Silent, Hears
  <2>2. QED
    BY <2>1 DEF ProofInv, PictureInv, ConnectionsInv, clientVars
<1>3. PromisesInv'
  BY DEF ProofInv, PictureInv, PromisesInv, Hears, Known, Active, Silent, clientVars
<1>4. QED
  BY <1>1, <1>2, <1>3 DEF ProofInv, PictureInv

LEMMA ConnectedUserIsPromised ==
  ASSUME ProofInv, NEW u \in users \cup FakeIds, NEW second, Connected(u, second),
         UNCHANGED users
  PROVE  /\ FormInv' /\ RegistrationsInv' /\ ReportsFakes' /\ PromisesInv'
         /\ NextSecondOf(u)' = second
         /\ \A v : v # u => NextSecondOf(v)' = NextSecondOf(v)
<1>1. /\ incoming' = [incoming EXCEPT !.connectionChanges = Assign(@, u, second)]
      /\ promises' = promises \cup {<<u, u \in DOMAIN incoming.usersRegistered>>}
      /\ UNCHANGED <<core, draining, refreshing>>
  BY DEF Connected, DispatchUserConnected
<1>2. /\ Hears(u) /\ NextSecondOf(u)' = second
      /\ \A v : v # u => NextSecondOf(v)' = NextSecondOf(v)
  BY <1>1, MoveIsHeard DEF ProofInv, FormInv
<1>3. FormInv' /\ RegistrationsInv' /\ ReportsFakes'
  BY <1>2, HearingKeepsRegistrations
<1>4. PromisesInv'
  <2> DEFINE out == FakeIds \cup Known(core) \cup DOMAIN draining.usersRegistered
  <2>1. out' = out
    BY <1>1 DEF Known, Active, Silent
  <2>2. u \in out \/ u \in DOMAIN incoming.usersRegistered
    BY DEF ProofInv, PictureInv, RegistrationsInv
  <2> HIDE DEF out
  <2>3. ASSUME NEW promise \in promises'
        PROVE  promise[1] \in out \/ promise[2]
    <3>1. CASE promise \in promises
      BY <3>1 DEF ProofInv, PictureInv, PromisesInv, out
    <3>2. CASE promise = <<u, u \in DOMAIN incoming.usersRegistered>>
      <4>1. promise[1] = u
        BY <3>2
      <4>2. CASE u \in out
        BY <4>1, <4>2
      <4>3. CASE u \in DOMAIN incoming.usersRegistered
        <5>1. promise[2] = (u \in DOMAIN incoming.usersRegistered)
          BY <3>2
        <5>2. QED
          BY <4>3, <5>1
      <4>4. QED
        BY <2>2, <4>2, <4>3
    <3>3. QED
      BY <1>1, <3>1, <3>2
  <2>4. QED
    BY <2>1, <2>3 DEF PromisesInv, out
<1>5. QED
  BY <1>2, <1>3, <1>4

LEMMA DisconnectedUserIsHeard ==
  ASSUME ProofInv, NEW u \in users \cup FakeIds, Disconnected(u), UNCHANGED users
  PROVE  /\ FormInv' /\ RegistrationsInv' /\ ReportsFakes' /\ PromisesInv'
         /\ NextSecondOf(u)' = InvalidSecond
         /\ \A v : v # u => NextSecondOf(v)' = NextSecondOf(v)
<1>1. /\ incoming' = [incoming EXCEPT !.connectionChanges = Assign(@, u, InvalidSecond)]
      /\ UNCHANGED <<core, draining, refreshing, promises>>
  BY DEF Disconnected, DispatchUserDisconnected
<1>2. /\ Hears(u) /\ NextSecondOf(u)' = InvalidSecond
      /\ \A v : v # u => NextSecondOf(v)' = NextSecondOf(v)
  BY <1>1, MoveIsHeard DEF ProofInv, FormInv
<1>3. FormInv' /\ RegistrationsInv' /\ ReportsFakes'
  BY <1>2, HearingKeepsRegistrations
<1>4. PromisesInv'
  BY <1>1 DEF ProofInv, PictureInv, PromisesInv, Known, Active, Silent
<1>5. QED
  BY <1>2, <1>3, <1>4

LEMMA RegisterUserKeepsView ==
  ASSUME ProofInv, NEW u, NEW name, RegisterUser(u, name)
  PROVE  ProofInv'
<1>1. /\ u \notin users \cup FakeIds /\ users' = users \cup {u} /\ online' = online
      /\ Registered(u, name)
  BY DEF RegisterUser
<1>2. /\ BufferForm(incoming') /\ Heard(incoming') = Heard(incoming)
      /\ DOMAIN incoming'.usersRegistered = DOMAIN incoming.usersRegistered \cup {u}
      /\ incoming'.connectionChanges = incoming.connectionChanges
      /\ UNCHANGED <<core, draining, refreshing, promises>>
  BY <1>1, RegistrationIsHeld DEF ProofInv, FormInv
<1>3. /\ Known(core)' = Known(core) /\ Active(core)' = Active(core) /\ Silent(core)' = Silent(core)
      /\ Heard(draining)' = Heard(draining) /\ \A v : NextSecondOf(v)' = NextSecondOf(v)
  BY <1>2 DEF Known, Active, Silent, Heard, NextSecondOf, SecondOf
<1>4. u \notin Known(core) /\ NextSecondOf(u) = InvalidSecond
  BY <1>1, StrangersAreOut
<1>5. FormInv' /\ ReportsFakes' /\ PromisesInv'
  BY <1>2, <1>3 DEF ProofInv, FormInv, PictureInv, ReportsFakes, PromisesInv
<1>6. RegistrationsInv'
  BY <1>1, <1>2, <1>3, <1>4 DEF ProofInv, PictureInv, RegistrationsInv
<1>7. ConnectionsInv'
  BY <1>1, <1>3, <1>4 DEF ProofInv, PictureInv, ConnectionsInv
<1>8. QED
  BY <1>5, <1>6, <1>7 DEF ProofInv, PictureInv

LEMMA ConnectUserKeepsView ==
  ASSUME ProofInv, NEW u, NEW second \in Seconds, ConnectUser(u, second)
  PROVE  ProofInv'
<1>1. u \in users /\ online' = online \cup {u} /\ users' = users /\ Connected(u, second)
  BY DEF ConnectUser
<1>2. /\ FormInv' /\ RegistrationsInv' /\ ReportsFakes' /\ PromisesInv'
      /\ NextSecondOf(u)' = second /\ \A v : v # u => NextSecondOf(v)' = NextSecondOf(v)
  BY <1>1, ConnectedUserIsPromised
<1>3. ConnectionsInv'
  BY <1>1, <1>2, SecondsAreValid DEF ProofInv, PictureInv, ConnectionsInv
<1>4. QED
  BY <1>2, <1>3 DEF ProofInv, PictureInv

LEMMA DisconnectUserKeepsView ==
  ASSUME ProofInv, NEW u, DisconnectUser(u)
  PROVE  ProofInv'
<1>1. u \in users /\ online' = online \ {u} /\ users' = users /\ Disconnected(u)
  BY DEF DisconnectUser, ProofInv, PictureInv, ConnectionsInv
<1>2. /\ FormInv' /\ RegistrationsInv' /\ ReportsFakes' /\ PromisesInv'
      /\ NextSecondOf(u)' = InvalidSecond /\ \A v : v # u => NextSecondOf(v)' = NextSecondOf(v)
  BY <1>1, DisconnectedUserIsHeard
<1>3. ConnectionsInv'
  BY <1>1, <1>2 DEF ProofInv, PictureInv, ConnectionsInv
<1>4. QED
  BY <1>2, <1>3 DEF ProofInv, PictureInv

LEMMA FakeUserKeepsView ==
  ASSUME ProofInv, NEW u \in FakeIds, FakeUser(u)
  PROVE  ProofInv'
<1>1. UNCHANGED clientVars /\ u \notin users /\ BufferForm(incoming)
  BY DEF FakeUser, ProofInv, FormInv, PictureInv, RegistrationsInv
<1>2. ASSUME NEW name \in Names, RenamedTo(u, name)
      PROVE  ProofInv'
  BY <1>1, <1>2, RenameIsHeard, RenamesKeepView
<1>3. ASSUME NEW amount \in DealAmounts, DealWon(u, amount)
      PROVE  ProofInv'
  BY <1>1, <1>3, DealIsHeard, RenamesKeepView
<1>4. ASSUME FormInv' /\ RegistrationsInv' /\ ReportsFakes' /\ PromisesInv',
             \A v : v # u => NextSecondOf(v)' = NextSecondOf(v)
      PROVE  ProofInv'
  <2>1. ConnectionsInv'
    BY <1>1, <1>4 DEF ProofInv, PictureInv, ConnectionsInv, clientVars
  <2>2. QED
    BY <1>4, <2>1 DEF ProofInv, PictureInv
<1>5. ASSUME NEW second \in Seconds, Connected(u, second)
      PROVE  ProofInv'
  BY <1>1, <1>4, <1>5, ConnectedUserIsPromised DEF clientVars
<1>6. ASSUME Disconnected(u)
      PROVE  ProofInv'
  BY <1>1, <1>4, <1>6, DisconnectedUserIsHeard DEF clientVars
<1>7. QED
  BY <1>2, <1>3, <1>5, <1>6 DEF FakeUser

LEMMA SwapKeepsView ==
  ASSUME ProofInv, Swap, UNCHANGED clientVars
  PROVE  ProofInv'
<1>1. /\ draining = EmptyBuffer /\ refreshing' = TRUE
      /\ draining' = incoming /\ incoming' = EmptyBuffer /\ UNCHANGED <<promises, core, clientVars>>
  BY DEF Swap, ProofInv, PictureInv, RegistrationsInv
<1>2. Known(core)' = Known(core) /\ Active(core)' = Active(core) /\ Silent(core)' = Silent(core)
  BY <1>1 DEF Known, Active, Silent
<1>3. FormInv' /\ ReportsFakes'
  BY <1>1, EmptyBufferIsEmpty DEF ProofInv, FormInv, PictureInv, ReportsFakes
<1>4. PromisesInv'
  BY <1>1, <1>2, EmptyBufferIsEmpty DEF ProofInv, PictureInv, PromisesInv
<1>5. RegistrationsInv'
  BY <1>1, <1>2, EmptyBufferIsEmpty DEF ProofInv, PictureInv, RegistrationsInv, clientVars
<1>6. ConnectionsInv'
  <2>1. \A v : SecondOf(v)' = SecondOf(v)
    BY <1>1 DEF SecondOf, Active, Silent
  <2>2. \A v : NextSecondOf(v)' = NextSecondOf(v)
    BY <1>1, <2>1, EmptyBufferIsEmpty DEF NextSecondOf
  <2>3. QED
    BY <1>1, <2>2 DEF ProofInv, PictureInv, ConnectionsInv, clientVars
<1>7. QED
  BY <1>3, <1>4, <1>5, <1>6 DEF ProofInv, PictureInv

LEMMA RecalculateKeepsView ==
  ASSUME ProofInv, NEW drop \in BOOLEAN, Recalculate(drop), UNCHANGED clientVars
  PROVE  ProofInv'
<1> DEFINE e == Recalculated(core, draining, drop)
           closed == DOMAIN draining.usersRegistered
<1>1. /\ core' = e /\ draining' = EmptyBuffer /\ refreshing' = FALSE
      /\ UNCHANGED <<incoming, promises, clientVars>>
  BY DEF Recalculate
<1>2. /\ CoreForm(e) /\ Known(e) = Known(core) \cup closed
      /\ \A u \in Known(e) : SecondIn(e, u) =
           IF u \in DOMAIN draining.connectionChanges THEN draining.connectionChanges[u]
           ELSE SecondIn(core, u)
      /\ e.errors \subseteq Unrecognized(Heard(draining) \ Known(e))
  BY RecalculationKnowsUsers DEF ProofInv, FormInv, PictureInv, RegistrationsInv
<1> HIDE DEF e
<1>3. Known(core)' = Known(core) \cup closed /\ Active(core)' \cap Silent(core)' = {}
  BY <1>1, <1>2 DEF CoreForm, Known, Active, Silent
<1>4. FormInv'
  BY <1>1, <1>2, EmptyBufferIsEmpty DEF ProofInv, FormInv
<1>5. RegistrationsInv'
  BY <1>1, <1>3, EmptyBufferIsEmpty DEF ProofInv, PictureInv, RegistrationsInv, clientVars
<1>6. PromisesInv'
  BY <1>1, <1>3 DEF ProofInv, PictureInv, PromisesInv
<1>7. ReportsFakes'
  <2>1. Heard(draining) \ Known(e) \subseteq FakeIds
    BY <1>2 DEF ProofInv, PictureInv, RegistrationsInv
  <2>2. e.errors \subseteq Unrecognized(FakeIds)
    BY <1>2, <2>1, UnrecognizedGrows
  <2>3. \A x \in Unrecognized(FakeIds) : x[1] = "UserUnrecognized" /\ x[2] \in FakeIds
    BY DEF Unrecognized
  <2>4. QED
    BY <1>1, <2>2, <2>3 DEF ReportsFakes
<1>8. ASSUME NEW u \in users
      PROVE  NextSecondOf(u)' = NextSecondOf(u)
  <2>1. SecondOf(u) = SecondIn(core, u) /\ SecondOf(u)' = SecondIn(e, u)
    BY <1>1 DEF SecondOf, SecondIn
  <2>2. NextSecondOf(u)' = IF u \in DOMAIN incoming.connectionChanges
                           THEN incoming.connectionChanges[u] ELSE SecondIn(e, u)
    BY <1>1, <2>1, EmptyBufferIsEmpty DEF NextSecondOf
  <2>3. SecondIn(e, u) = IF u \in DOMAIN draining.connectionChanges
                         THEN draining.connectionChanges[u] ELSE SecondIn(core, u)
    <3>1. CASE u \in Known(e)
      BY <1>2, <3>1
    <3>2. CASE u \notin Known(e)
      <4>1. u \notin Heard(draining) /\ u \notin Known(core)
        BY <1>2, <3>2 DEF ProofInv, PictureInv, RegistrationsInv
      <4>2. SecondIn(e, u) = InvalidSecond /\ SecondIn(core, u) = InvalidSecond
        BY <3>2, <4>1 DEF SecondIn, Known
      <4>3. QED
        BY <4>1, <4>2 DEF Heard
    <3>3. QED
      BY <3>1, <3>2
  <2>4. QED
    BY <2>1, <2>2, <2>3 DEF NextSecondOf
<1>9. ConnectionsInv'
  BY <1>1, <1>8 DEF ProofInv, PictureInv, ConnectionsInv, clientVars
<1>10. QED
  BY <1>4, <1>5, <1>6, <1>7, <1>9 DEF ProofInv, PictureInv

LEMMA KeptPromisesKeepView ==
  ASSUME ProofInv, UNCHANGED <<incoming, core, draining, refreshing, clientVars>>,
         promises' \subseteq promises
  PROVE  ProofInv'
<1>1. /\ Known(core)' = Known(core) /\ Active(core)' = Active(core) /\ Silent(core)' = Silent(core)
      /\ Heard(draining)' = Heard(draining) /\ Heard(incoming)' = Heard(incoming)
      /\ \A v : NextSecondOf(v)' = NextSecondOf(v)
  BY DEF Known, Active, Silent, Heard, NextSecondOf, SecondOf
<1>2. FormInv' /\ ReportsFakes' /\ PromisesInv'
  BY <1>1 DEF ProofInv, FormInv, PictureInv, ReportsFakes, PromisesInv
<1>3. RegistrationsInv' /\ ConnectionsInv'
  BY <1>1 DEF ProofInv, PictureInv, RegistrationsInv, ConnectionsInv, clientVars
<1>4. QED
  BY <1>2, <1>3 DEF ProofInv, PictureInv

LEMMA PictureStep ==
  ASSUME ProofInv, TestAppStep
  PROVE  ProofInv'
<1>1. ASSUME NEW u \in UserIds, NEW name \in Names, RegisterUser(u, name)
      PROVE  ProofInv'
  BY <1>1, RegisterUserKeepsView
<1>2. ASSUME NEW u \in UserIds, NEW name \in Names, RenameUser(u, name)
      PROVE  ProofInv'
  BY <1>2, RenameIsHeard, RenamesKeepView DEF RenameUser, ProofInv, FormInv
<1>3. ASSUME NEW u \in UserIds, NEW second \in Seconds, ConnectUser(u, second)
      PROVE  ProofInv'
  BY <1>3, ConnectUserKeepsView
<1>4. ASSUME NEW u \in UserIds, DisconnectUser(u)
      PROVE  ProofInv'
  BY <1>4, DisconnectUserKeepsView
<1>5. ASSUME NEW u \in UserIds, NEW amount \in DealAmounts, FixUserWinnings(u, amount)
      PROVE  ProofInv'
  <2>1. u \in users /\ UNCHANGED clientVars /\ DealWon(u, amount) /\ BufferForm(incoming)
    BY <1>5 DEF FixUserWinnings, ProofInv, FormInv, PictureInv, ConnectionsInv
  <2>2. QED
    BY <2>1, DealIsHeard, RenamesKeepView
<1>6. ASSUME NEW u \in FakeIds, FakeUser(u)
      PROVE  ProofInv'
  BY <1>6, FakeUserKeepsView
<1>7. CASE Swap /\ UNCHANGED clientVars
  BY <1>7, SwapKeepsView
<1>8. ASSUME NEW drop \in BOOLEAN, Recalculate(drop), UNCHANGED clientVars
      PROVE  ProofInv'
  BY <1>8, RecalculateKeepsView
<1>9. ASSUME NEW promise \in promises, KeepPromise(promise), UNCHANGED clientVars
      PROVE  ProofInv'
  <2>1. /\ UNCHANGED <<incoming, core, draining, refreshing, clientVars>>
        /\ promises' \subseteq promises
    BY <1>9 DEF KeepPromise
  <2>2. QED
    BY <2>1, KeptPromisesKeepView
<1>10. QED
  BY <1>1, <1>2, <1>3, <1>4, <1>5, <1>6, <1>7, <1>8, <1>9 DEF TestAppStep, ServiceNext

(* No other client is followed by the test application.                    *)
LEMMA ViewStep ==
  ASSUME testing => ProofInv, [ClientNext]_<<serviceVars, clientVars>>
  PROVE  (testing => ProofInv)'
<1>1. CASE testing /\ TestAppStep
  BY <1>1, PictureStep
<1>2. CASE testing /\ TestAppLost
  BY <1>2 DEF TestAppLost
<1>3. CASE ~testing /\ OtherClientStep
  BY <1>3 DEF OtherClientStep, clientVars
<1>4. CASE UNCHANGED <<serviceVars, clientVars>>
  <2>1. ASSUME ProofInv PROVE ProofInv'
    BY <1>4, <2>1, KeptPromisesKeepView DEF serviceVars
  <2>2. testing' = testing
    BY <1>4 DEF clientVars
  <2>3. QED
    BY <2>1, <2>2
<1>5. QED
  BY <1>1, <1>2, <1>3, <1>4 DEF ClientNext

-----------------------------------------------------------------------------
LEMMA ProofInvHolds == ClientSpec => [](testing => ProofInv)
<1>1. ClientInit => (testing => ProofInv)
  BY ViewInit
<1>2. (testing => ProofInv) /\ [ClientNext]_<<serviceVars, clientVars>> => (testing => ProofInv)'
  BY ViewStep
<1>3. QED
  BY <1>1, <1>2, PTL DEF ClientSpec

(* Whatever the clients do, the service that they see is the service, so   *)
(* that RatingStaysConsistent, ChronoSetsDoFollow and ServiceIsABoard are  *)
(* about it as well.                                                       *)
THEOREM ClientsSeeTheService == ClientSpec => Spec
<1>1. ClientInit => Init
  BY DEF ClientInit
<1>2. [ClientNext]_<<serviceVars, clientVars>> => [Next]_serviceVars
  <2>1. TestAppStep => Next \/ UNCHANGED serviceVars
    <3>1. ASSUME NEW u \in UserIds, NEW name \in Names, RegisterUser(u, name) \/ RenameUser(u, name)
          PROVE  Next
      BY <3>1 DEF RegisterUser, RenameUser, Next
    <3>2. ASSUME NEW u \in UserIds, NEW second \in Seconds, ConnectUser(u, second)
          PROVE  Next
      BY <3>2 DEF ConnectUser, Next
    <3>3. ASSUME NEW u \in UserIds, DisconnectUser(u)
          PROVE  Next
      BY <3>3 DEF DisconnectUser, Next
    <3>4. ASSUME NEW u \in UserIds, NEW amount \in DealAmounts, FixUserWinnings(u, amount)
          PROVE  Next
      BY <3>4 DEF FixUserWinnings, Next
    <3>5. ASSUME NEW u \in FakeIds, FakeUser(u)
          PROVE  Next
      <4>1. u \in UserIds
        BY ClientViewAssumption
      <4>2. QED
        BY <3>5, <4>1 DEF FakeUser, Next
    <3>6. ServiceNext => Next
      BY DEF Next
    <3>7. QED
      BY <3>1, <3>2, <3>3, <3>4, <3>5, <3>6 DEF TestAppStep
  <2>2. TestAppLost \/ OtherClientStep => Next
    BY DEF TestAppLost, OtherClientStep, Next
  <2>3. QED
    BY <2>1, <2>2 DEF ClientNext
<1>3. QED
  BY <1>1, <1>2, PTL DEF ClientSpec, Spec

(* Between the client, the buffers and the core data every registration is *)
(* in exactly one place, and all other news is of users registered before  *)
(* it or of fakes (MessageDispatcher, RatingCalculatorImpl).               *)
THEOREM ViewInvHolds == ClientSpec => []ViewInv
<1>1. (testing => ProofInv) => ViewInv
  BY DEF ProofInv, ViewInv
<1>2. QED
  BY <1>1, ProofInvHolds, PTL

(* UserDataStorage::validateError never meets an error of a recalculation  *)
(* about a user the client has registered.                                 *)
THEOREM OnlyFakesReported == ClientSpec => []OnlyFakesAreReported
<1>1. (testing => ProofInv) => OnlyFakesAreReported
  BY DEF ProofInv, PictureInv, OnlyFakesAreReported
<1>2. QED
  BY <1>1, ProofInvHolds, PTL

(* A user counts as connected in the service exactly if it does so in the  *)
(* client, whatever the order of its connections and the recalculations.   *)
THEOREM ConnectionsDoAgree == ClientSpec => []ConnectionsAgree
<1>1. ASSUME testing => ProofInv
      PROVE  ConnectionsAgree
  <2>1. ASSUME testing, NEW u \in Known(core), Settled(u)
        PROVE  u \in online <=> SecondOf(u) # InvalidSecond
    <3>1. u \in users /\ NextSecondOf(u) = SecondOf(u)
      BY <1>1, <2>1 DEF ProofInv, PictureInv, RegistrationsInv, Settled, NextSecondOf
    <3>2. QED
      BY <1>1, <2>1, <3>1 DEF ProofInv, PictureInv, ConnectionsInv
  <2>2. QED
    BY <2>1 DEF ConnectionsAgree
<1>2. QED
  BY <1>1, ProofInvHolds, PTL

(* RegisteredAreRecognized does not hold. How far it fails: a promise to a *)
(* registered user goes unanswered in one case only, that the registration *)
(* is in the buffer which has been swapped out and is not processed yet    *)
(* (MessageDispatcher::dispatch, WorkerPool::processRating).               *)
UnrecognizedInRefreshOnly ==
  \A promise \in promises :
    promise[1] \in users /\ ~ProcessRating(promise) =>
      refreshing /\ promise[1] \in DOMAIN draining.usersRegistered

THEOREM RefreshesHideRegistrations == ClientSpec => [](testing => UnrecognizedInRefreshOnly)
<1>1. ASSUME testing => ProofInv
      PROVE  testing => UnrecognizedInRefreshOnly
  <2>1. ASSUME testing, NEW promise \in promises, promise[1] \in users, ~ProcessRating(promise)
        PROVE  refreshing /\ promise[1] \in DOMAIN draining.usersRegistered
    <3>1. promise[1] \in FakeIds \cup DOMAIN draining.usersRegistered
      BY <1>1, <2>1, Zenon DEF ProofInv, PictureInv, PromisesInv, ProcessRating
    <3>2. promise[1] \notin FakeIds
      BY <1>1, <2>1 DEF ProofInv, PictureInv, RegistrationsInv
    <3>3. ~refreshing => DOMAIN draining.usersRegistered = {}
      BY <1>1, <2>1, EmptyBufferIsEmpty DEF ProofInv, PictureInv, RegistrationsInv
    <3>4. QED
      BY <3>1, <3>2, <3>3
  <2>2. QED
    BY <2>1 DEF UnrecognizedInRefreshOnly
<1>2. QED
  BY <1>1, ProofInvHolds, PTL
=============================================================================
