---------------------------- MODULE CoreSyncLate ----------------------------
(***************************************************************************)
(* CoreSync without the assumption that threads keep pace, with two        *)
(* history variables: the threads that a new minute has overtaken between  *)
(* the end of the last refresh and the fetch_add by which they would have  *)
(* been seen. Nothing in the code stops the announcer from doing this: one *)
(* that is behind its schedule, as after a listener that kept it waiting,  *)
(* skips all its sleeps (rating_announcer.cpp:71).                         *)
(*                                                                         *)
(* Exclusion fails then (ReaderExclusion, BufferExclusion). What is said   *)
(* here is that it fails for these threads only: everybody else is out     *)
(* whenever the two spinning loops have been left.                         *)
(***************************************************************************)
EXTENDS CoreSync

VARIABLES
  lateWorkers, \* the workers that were awake and not counted again when the
               \* flag of the refresh was raised
  lateListener \* TRUE: the listener had chosen a buffer and not counted
               \* itself there when the buffers were swapped

lateVars == <<lateWorkers, lateListener>>

LateInit == Init /\ lateWorkers = {} /\ lateListener = FALSE

(* What is recorded beside a step.                                         *)
Overtake ==
  /\ lateWorkers' = IF pcA = "raise" /\ pcA' = "waitWriters"
                    THEN {w \in Workers : pcW[w] = "wake"} ELSE lateWorkers
  /\ lateListener' = IF pcA = "swap" /\ pcA' = "raise"
                     THEN pcO \in {"release", "claimNew"} ELSE lateListener

LateSpec == LateInit /\ [][Next /\ Overtake]_<<vars, lateVars>>

-----------------------------------------------------------------------------
(* "wait till the worker threads are asleep" (rating_calculator.cpp:367):  *)
(* of the workers that had counted themselves, or were still asleep, when  *)
(* the refresh began, none reads the data while it is rewritten, however   *)
(* the announcer and the workers are scheduled.                            *)
OnlyLateWorkersRead ==
  pcA = "recalculate" => \A w \in Workers : pcW[w] \in Reading => w \in lateWorkers

(* "wait till the buffer is out of use" (rating_calculator.cpp:363): a     *)
(* listener that was not on its way to another buffer when they were       *)
(* swapped does not write into the one that is emptied.                    *)
OnlyLateListenerWrites ==
  pcA = "recalculate" /\ pcO = "dispatch" /\ inData = Drained => lateListener

-----------------------------------------------------------------------------
(* Why: the counters are right at all times, only their readers may be too *)
(* early. The parts of ThreadInv that need no pace, and what is left of    *)
(* the others.                                                             *)

(* The listener's claim is the only one. The first one of a session is on  *)
(* the first buffer, and the announcer gets no further than to wait for it.*)
FirstClaimInv ==
  /\ pcO \in {"launch", "claim"} =>
       currentBuffer = 0 /\ inData = NoBuffer /\ (\A b \in Buffers : bufferWriterCount[b] = 0)
  /\ pcO \in {"startAnnouncer", "startWorkers"} =>
       inData = 0 /\ (currentBuffer = 0 <=> pcA \in {"off", "sleep", "swap"})
  /\ pcO \in Claiming /\ inData # NoBuffer =>
       \A b \in Buffers : bufferWriterCount[b] = IF b = inData THEN 1 ELSE 0
  /\ pcO = "claimNew" => \A b \in Buffers : bufferWriterCount[b] = 0

(* Where the listener's buffer can be one that is not in use.              *)
LateClaimInv ==
  /\ pcO = "claimNew" => inData = currentBuffer \/ lateListener
  /\ pcO = "release" =>
       lateListener \/ (inData # currentBuffer /\ pcA \in {"raise", "waitWriters"})
  /\ pcO \in Claiming \ {"release"} /\ inData # NoBuffer =>
       inData = currentBuffer \/ pcA \in {"raise", "waitWriters"} \/ lateListener

BlockInv == \A w \in Workers : pcW[w] = "block" => refreshInProgress

LateRefreshInv ==
  /\ refreshInProgress <=>
       pcA \in {"waitWriters", "waitReaders", "recalculate", "lock", "clear"}
  /\ refreshInProgress => \A w \in Workers : pcW[w] = "wake" => w \in lateWorkers
  /\ pcA \in {"recalculate", "lock", "clear"} =>
       \A w \in Workers \ lateWorkers : pcW[w] \notin Counted
  /\ BlockInv

LateInv ==
  /\ LockInv /\ SessionInv /\ CountInv /\ FirstClaimInv /\ LateClaimInv
  /\ LateRefreshInv /\ NoLostWakeup
=============================================================================
