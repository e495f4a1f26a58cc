-------------------------- MODULE MessageDispatcher --------------------------
(* What the listener does with a message: it is recorded in the incoming   *)
(* data buffer in use and, for a connection, a rating is promised.         *)
(*                                                                         *)
(* A buffer is a record of maps from user ids. In a map, "emplace" keeps   *)
(* what is there and operator[] replaces it.                               *)
EXTENDS Integers, Sequences

CONSTANTS
  UserIds,          \* ids a client may use, positive integers
  Names,            \* user names
  SecondsPerMinute, \* chrono sets, 60 in the code
  DealAmounts       \* amounts of a user_deal_won message

ASSUME DispatcherAssumption ==
  /\ UserIds \subseteq Nat \ {0}
  /\ SecondsPerMinute \in Nat \ {0}
  /\ DealAmounts \subseteq Int

VARIABLES
  incoming,     \* the IncomingDataBuffer in use
  promises      \* the userIdPromise queues of the workers: the promises that
                \* wait, <<id, was its registration in the buffer>>

Seconds       == 0 .. SecondsPerMinute - 1
InvalidSecond == SecondsPerMinute

Empty       == << >>
EmptyBuffer == [usersRegistered |-> Empty, usersRenamed |-> Empty,
                connectionChanges |-> Empty, dealsWon |-> Empty]

(* The maps' elements, those of "map" where both have the key.             *)
Merge(map, other) ==
  [k \in DOMAIN map \cup DOMAIN other |-> IF k \in DOMAIN map THEN map[k] ELSE other[k]]

Emplace(map, key, value) == Merge(map, [k \in {key} |-> value])
Assign(map, key, value)  == Merge([k \in {key} |-> value], map)

DispatcherInit ==
  /\ incoming = EmptyBuffer
  /\ promises = {}

DispatchUserRegistered(u, name) ==
  /\ incoming' = [incoming EXCEPT !.usersRegistered = Emplace(@, u, name)]
  /\ UNCHANGED promises

DispatchUserRenamed(u, name) ==
  /\ incoming' = [incoming EXCEPT !.usersRenamed = Emplace(@, u, name)]
  /\ UNCHANGED promises

(* "second" is DateTime::currentSecondIndex().                             *)
DispatchUserConnected(u, second) ==
  /\ incoming' = [incoming EXCEPT !.connectionChanges = Assign(@, u, second)]
  /\ promises' = promises \cup {<<u, u \in DOMAIN incoming.usersRegistered>>}

(* Mutant of DispatchUserDisconnected: what the minute has stays.          *)
DisconnectedIfNew(u) ==
  /\ incoming' = [incoming EXCEPT !.connectionChanges = Emplace(@, u, InvalidSecond)]
  /\ UNCHANGED promises

DispatchUserDisconnected(u) ==
  /\ incoming' = [incoming EXCEPT !.connectionChanges = Assign(@, u, InvalidSecond)]
  /\ UNCHANGED promises

DispatchUserDealWon(u, amount) ==
  /\ incoming' = [incoming EXCEPT !.dealsWon =
                    Assign(@, u, amount + IF u \in DOMAIN @ THEN @[u] ELSE 0)]
  /\ UNCHANGED promises
=============================================================================
