------------------------------ MODULE FifoQueue ------------------------------
(***************************************************************************)
(* What a job queue promises its producers and its one consumer: values    *)
(* are taken in the order in which they have taken their place, each one   *)
(* once. Taking may fail while the queue is empty, and also while some     *)
(* producer has not finished its push.                                     *)
(***************************************************************************)
EXTENDS Sequences

CONSTANTS Producers, Values, Nothing

VARIABLES
  items,    \* the values in the queue
  pushing,  \* producers that have their place and have not finished
  taken     \* what taking returned last, Nothing if it failed

fifoVars == <<items, pushing, taken>>

FifoInit == items = << >> /\ pushing = {} /\ taken = Nothing

Place(p, v) ==
  /\ p \notin pushing
  /\ pushing' = pushing \cup {p}
  /\ items' = Append(items, v)
  /\ UNCHANGED taken

Finish(p) ==
  /\ p \in pushing
  /\ pushing' = pushing \ {p}
  /\ UNCHANGED <<items, taken>>

Take ==
  /\ items # << >>
  /\ taken' = Head(items)
  /\ items' = Tail(items)
  /\ UNCHANGED pushing

Fail ==
  /\ items = << >> \/ pushing # {}
  /\ taken' = Nothing
  /\ UNCHANGED <<items, pushing>>

FifoNext ==
  \/ \E p \in Producers : Finish(p) \/ \E v \in Values : Place(p, v)
  \/ Take \/ Fail

FifoSpec == FifoInit /\ [][FifoNext]_fifoVars
=============================================================================
