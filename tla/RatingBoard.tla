----------------------------- MODULE RatingBoard -----------------------------
(***************************************************************************)
(* What the rating data promises, without patches, silent and active users *)
(* or chrono sets. News of users comes in; once a minute it is closed, and *)
(* the board then turns: every registered user's closed news counts, and   *)
(* those with winnings this week are ranked by them. A session that ends   *)
(* takes the news not closed yet with it, nothing else. Whom to report to, *)
(* and when, the board does not say: see RatingService.                    *)
(*                                                                         *)
(* The ranking may be any that is sorted, as long as users without new     *)
(* winnings keep their order among themselves.                             *)
(***************************************************************************)
EXTENDS Integers, Sequences, SequencesExt

CONSTANTS UserIds, DealAmounts, SecondsPerMinute

Seconds == 0 .. SecondsPerMinute - 1
Away    == SecondsPerMinute         \* the second of a user not connected
Nothing == SecondsPerMinute + 1     \* no news of a user's connection

VARIABLES
  members,      \* registered users
  second,       \* when a member connected, or Away
  scores,       \* what the users with deals have won this week
  ranking,      \* these users from the best to the worst
  open, closed, \* the news that come in, the news the next turn is about
  turning       \* the news are closed and the turn is yet to come

boardVars == <<members, second, scores, ranking, open, closed, turning>>

NoNews == [joined |-> {}, second |-> [u \in UserIds |-> Nothing], won |-> << >>]

BoardInit ==
  /\ members = {} /\ second = [u \in UserIds |-> Away]
  /\ scores = << >> /\ ranking = << >>
  /\ open = NoNews /\ closed = NoNews /\ turning = FALSE

Score(table, u) == IF u \in DOMAIN table THEN table[u] ELSE 0

Register(u) == open' = [open EXCEPT !.joined = @ \cup {u}]
Move(u, s)  == open' = [open EXCEPT !.second[u] = s]
Win(u, amount) ==
  open' = [open EXCEPT !.won =
             [v \in DOMAIN @ \cup {u} |-> Score(@, v) + IF v = u THEN amount ELSE 0]]

Receive ==
  /\ \E u \in UserIds :
       \/ Register(u)
       \/ \E s \in Seconds \cup {Away} : Move(u, s)
       \/ \E amount \in DealAmounts : Win(u, amount)
  /\ UNCHANGED <<members, second, scores, ranking, closed, turning>>

Close ==
  /\ ~turning /\ turning' = TRUE
  /\ open' = NoNews /\ closed' = open
  /\ UNCHANGED <<members, second, scores, ranking>>

Before(order, u, v) == \E i, j \in DOMAIN order : i < j /\ order[i] = u /\ order[j] = v

Turn(newWeek) ==
  LET known   == members \cup closed.joined
      winners == known \cap DOMAIN closed.won
      base    == IF newWeek THEN << >> ELSE scores
  IN  /\ turning /\ turning' = FALSE
      /\ members' = known
      /\ second' = [u \in UserIds |->
           IF u \in known /\ closed.second[u] # Nothing THEN closed.second[u] ELSE second[u]]
      /\ scores' = [u \in DOMAIN base \cup winners |->
           Score(base, u) + IF u \in winners THEN closed.won[u] ELSE 0]
      /\ \E order \in SetToSeqs(DOMAIN scores') :
           /\ \A i, j \in DOMAIN order : i < j => scores'[order[i]] >= scores'[order[j]]
           /\ \A u, v \in DOMAIN base \ winners : Before(order, u, v) <=> Before(ranking, u, v)
           /\ ranking' = order
      /\ closed' = NoNews
      /\ UNCHANGED open

(* A session is lost, and what came in since the last turn with it.        *)
Lose ==
  /\ ~turning /\ open' = NoNews
  /\ UNCHANGED <<members, second, scores, ranking, closed, turning>>

BoardNext == Receive \/ Close \/ Lose \/ \E newWeek \in BOOLEAN : Turn(newWeek)

BoardSpec == BoardInit /\ [][BoardNext]_boardVars
=============================================================================
