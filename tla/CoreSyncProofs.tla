--------------------------- MODULE CoreSyncProofs ---------------------------
(* Proofs about CoreSync and CoreSyncLate for every set of workers, every  *)
(* minute length and every set of faults.                                  *)
EXTENDS CoreSyncLate, FiniteSetTheorems, TLAPS

USE CoreSyncAssumption

(* Having claimed a buffer, the overseer's pointer to it is not null.      *)
Claimed == pcO \in {"startAnnouncer", "startWorkers"} \cup Running => inData # NoBuffer

LEMMA TypeInit == Init => TypeOK /\ Claimed
<1> SUFFICES ASSUME Init PROVE TypeOK /\ Claimed
    OBVIOUS
<1> USE DEF Init
<1>1. pcO \in OverseerStates /\ pcA \in AnnouncerStates /\ Claimed
      BY DEF OverseerStates, AnnouncerStates, Claimed, Running
<1>2. pcW \in [Workers -> WorkerStates]
      BY DEF WorkerStates
<1>3. chronoSetIndex \in 0 .. SecondsPerMinute
      OBVIOUS
<1>4. /\ currentBuffer \in Buffers /\ bufferWriterCount \in [Buffers -> Int]
      /\ inData \in Buffers \cup {NoBuffer} /\ dataReaderCount \in Int
      BY DEF Buffers, NoBuffer
<1>5. /\ refreshInProgress \in BOOLEAN /\ dataLock \in BOOLEAN
      /\ badFlag \in BOOLEAN /\ unrecoverableError \in BOOLEAN
      OBVIOUS
<1>6. link \in {"up", "down"} /\ userDataQueue \subseteq Workers /\ topCached \subseteq Workers
      OBVIOUS
<1> QED
    BY <1>1, <1>2, <1>3, <1>4, <1>5, <1>6 DEF TypeOK

LEMMA TypeStep == TypeOK /\ Claimed /\ [Next]_vars => TypeOK' /\ Claimed'
<1> SUFFICES ASSUME TypeOK, Claimed, [Next]_vars
             PROVE  TypeOK' /\ Claimed'
    OBVIOUS
<1> USE DEF TypeOK, Claimed, Buffers, NoBuffer, OverseerStates, Running,
            AnnouncerStates, WorkerStates, Counted, Reading, Dozing
<1>1. CASE OverseerStep
  <2> USE DEF OGoto, OMove, DataUntouched, bufferVars, lockVars, stopVars,
              syncVars, announcer, jobVars
  <2>1. CASE OConstruct       BY <2>1 DEF OConstruct
  <2>2. CASE OLaunch          BY <2>2 DEF OLaunch
  <2>3. CASE OLaunchFails     BY <2>3 DEF OLaunchFails
  <2>4. CASE OClaim           BY <2>4 DEF OClaim
  <2>5. CASE OStartAnnouncer  BY <2>5 DEF OStartAnnouncer
  <2>6. CASE OStartWorkers
    <3>1. Cardinality(Workers) \in Int
          BY FS_CardinalityType
    <3> QED  BY <2>6, <3>1 DEF OStartWorkers
  <2>7. CASE OLoop            BY <2>7 DEF OLoop
  <2>8. CASE OReceive         BY <2>8 DEF OReceive
  <2>9. CASE OReceiveFails \/ OReceiveMalformed
        BY <2>9 DEF OReceiveFails, OReceiveMalformed
  <2>10. CASE OCheck          BY <2>10 DEF OCheck
  <2>11. CASE ORelease        BY <2>11 DEF ORelease
  <2>12. CASE OClaimNew       BY <2>12 DEF OClaimNew
  <2>13. CASE ODispatch       BY <2>13 DEF ODispatch
  <2>14. CASE OCaught         BY <2>14 DEF OCaught
  <2>15. CASE OSignal
    <3>1. badFlag' \in BOOLEAN /\ unrecoverableError' \in BOOLEAN
          BY <2>15 DEF OSignal
    <3> QED  BY <2>15, <3>1 DEF OSignal
  <2>16. CASE OJoinWorkers    BY <2>16 DEF OJoinWorkers
  <2>17. CASE OJoinAnnouncer  BY <2>17 DEF OJoinAnnouncer
  <2>18. CASE ODecide         BY <2>18 DEF ODecide
  <2> QED
      BY <1>1, <2>1, <2>2, <2>3, <2>4, <2>5, <2>6, <2>7, <2>8, <2>9, <2>10,
         <2>11, <2>12, <2>13, <2>14, <2>15, <2>16, <2>17, <2>18
      DEF OverseerStep, OverseerProgress, ClientStep
<1>2. CASE AnnouncerStep
  <2> USE DEF AGoto, AMove, StopUntouched, bufferVars, lockVars, stopVars,
              overseer, jobVars
  <2>1. CASE AWakeUp \/ AMinuteOver      BY <2>1 DEF AWakeUp, AMinuteOver
  <2>2. CASE ASwap                       BY <2>2 DEF ASwap
  <2>3. CASE ARaise                      BY <2>3 DEF ARaise
  <2>4. CASE AWaitWriters \/ AWaitReaders \/ AStop
        BY <2>4 DEF AWaitWriters, AWaitReaders, AStop
  <2>5. CASE ARecalculate                BY <2>5 DEF ARecalculate
  <2>6. CASE ALock \/ AClear
    <3>1. dataLock' \in BOOLEAN /\ refreshInProgress' \in BOOLEAN
          BY <2>6 DEF ALock, AClear
    <3> QED  BY <2>6, <3>1 DEF ALock, AClear
  <2>7. CASE ANotify                     BY <2>7 DEF ANotify
  <2>8. CASE AAnnounce                   BY <2>8 DEF AAnnounce
  <2> QED
      BY <1>2, <2>1, <2>2, <2>3, <2>4, <2>5, <2>6, <2>7, <2>8 DEF AnnouncerStep
<1>3. ASSUME NEW w \in Workers, WorkerStep(w)
      PROVE  TypeOK' /\ Claimed'
  <2> USE DEF WGoto, WMove, OthersUntouched, bufferVars, stopVars, overseer,
              announcer, jobVars
  <2>1. CASE WCacheTop(w)                BY <2>1 DEF WCacheTop
  <2>2. CASE WLoop(w) \/ WPoll(w) \/ WSpuriousWakeUp(w) \/ WSendFails(w)
        BY <2>2 DEF WLoop, WPoll, WSpuriousWakeUp, WSendFails
  <2>3. CASE WDeplete(w) \/ WServe(w)    BY <2>3 DEF WDeplete, WServe
  <2>4. CASE WLock(w)                    BY <2>4 DEF WLock
  <2>5. CASE WWait(w) \/ WBlock(w)
    <3>1. dataLock' \in BOOLEAN
          BY <2>5 DEF WWait, WBlock
    <3>2. pcW' \in [Workers -> WorkerStates]
          BY <2>5 DEF WWait, WBlock
    <3>3. UNCHANGED <<link, bufferVars, refreshInProgress, dataReaderCount,
                      stopVars, overseer, announcer, jobVars>>
          BY <2>5 DEF WWait, WBlock
    <3> QED  BY <3>1, <3>2, <3>3
  <2>6. CASE WLeave(w) \/ WGone(w)       BY <2>6 DEF WLeave, WGone
  <2>7. CASE WReturn(w)                  BY <2>7 DEF WReturn
  <2>8. CASE WSignal(w)                  BY <2>8 DEF WSignal
  <2> QED
      BY <1>3, <2>1, <2>2, <2>3, <2>4, <2>5, <2>6, <2>7, <2>8
      DEF WorkerStep, WorkerProgress
<1>4. CASE Disconnect \/ UNCHANGED vars
      BY <1>4 DEF Disconnect, vars, bufferVars, lockVars, stopVars, syncVars,
                  overseer, announcer, jobVars
<1> QED
    BY <1>1, <1>2, <1>3, <1>4 DEF Next

(* The state of the threads has the types CoreSync gives it, whatever the  *)
(* scheduler does.                                                         *)
THEOREM TypeCorrect == Spec => []TypeOK
<1>1. Init => TypeOK /\ Claimed
      BY TypeInit
<1>2. (TypeOK /\ Claimed) /\ [Next]_vars => (TypeOK /\ Claimed)'
      BY TypeStep
<1> QED
    BY <1>1, <1>2, PTL DEF Spec

-----------------------------------------------------------------------------
(* What a step of each thread leaves alone.                                *)

LEMMA OverseerEffect ==
  ASSUME OverseerStep
  PROVE  /\ UNCHANGED <<lockVars, chronoSetIndex>>
         /\ \/ UNCHANGED <<dataReaderCount, pcA, pcW, jobVars>>
            \/ OConstruct \/ OStartAnnouncer \/ OStartWorkers
BY DEF OverseerStep, OverseerProgress, ClientStep, OConstruct, OLaunch,
       OLaunchFails, OClaim, OStartAnnouncer, OStartWorkers, OLoop, OReceive,
       OReceiveFails, OReceiveMalformed, OCheck, ORelease, OClaimNew, ODispatch,
       OCaught, OSignal, OJoinWorkers, OJoinAnnouncer, ODecide, OGoto, OMove,
       DataUntouched, lockVars, stopVars, syncVars, announcer, jobVars

LEMMA AnnouncerEffect ==
  ASSUME AnnouncerStep
  PROVE  /\ UNCHANGED <<link, stopVars, overseer, bufferWriterCount, dataReaderCount>>
         /\ UNCHANGED pcW \/ ANotify
         /\ pcA # "off" /\ pcA # "gone" /\ pcA' # "off"
BY DEF AnnouncerStep, AWakeUp, ASwap, ARaise, AWaitWriters, AWaitReaders,
       ARecalculate, ALock, AClear, ANotify, AAnnounce, AStop, AMinuteOver,
       AGoto, AMove, StopUntouched, bufferVars, lockVars, jobVars

LEMMA WorkerEffect ==
  ASSUME TypeOK, NEW w \in Workers, WorkerStep(w)
  PROVE  /\ UNCHANGED <<link, bufferVars, refreshInProgress, overseer, announcer>>
         /\ pcW[w] \notin Ended
         /\ pcW' \in [Workers -> WorkerStates]
         /\ pcW'[w] # "off"
         /\ \A v \in Workers \ {w} : pcW'[v] = pcW[v]
<1> USE DEF WGoto, WMove, OthersUntouched, Ended, TypeOK, WorkerStates, Counted,
            Reading, Dozing
<1>1. CASE WCacheTop(w) \/ WLoop(w) \/ WPoll(w) \/ WDeplete(w) \/ WLock(w)
      BY <1>1 DEF WCacheTop, WLoop, WPoll, WDeplete, WLock
<1>2. CASE WLeave(w) \/ WBlock(w) \/ WReturn(w) \/ WServe(w)
      BY <1>2 DEF WLeave, WBlock, WReturn, WServe
<1>3. CASE WSendFails(w) \/ WSignal(w) \/ WGone(w) \/ WSpuriousWakeUp(w)
      BY <1>3 DEF WSendFails, WSignal, WGone, WSpuriousWakeUp
<1>4. CASE WWait(w)
      BY <1>4 DEF WWait
<1> QED
    BY <1>1, <1>2, <1>3, <1>4 DEF WorkerStep, WorkerProgress

LEMMA QuietEffect ==
  ASSUME Disconnect \/ UNCHANGED vars
  PROVE  UNCHANGED <<bufferVars, lockVars, dataReaderCount, stopVars, overseer,
                     announcer, pcW, jobVars>>
BY DEF Disconnect, vars, syncVars

-----------------------------------------------------------------------------
(* The parts of ThreadInv, one after the other.                            *)

LEMMA SessionStep ==
  ASSUME TypeOK, Claimed, SessionInv, FirstClaimInv, [Next]_vars
  PROVE  SessionInv'
<1> USE DEF SessionInv, Ended
<1>1. CASE OverseerStep
  <2> USE DEF OGoto, OMove, DataUntouched, announcer, Claimed, Running
  <2>1. CASE OConstruct \/ OStartAnnouncer \/ OStartWorkers
        BY <2>1 DEF OConstruct, OStartAnnouncer, OStartWorkers, TypeOK
  <2>2. CASE OLaunch \/ OLaunchFails \/ OClaim
        BY <2>2 DEF OLaunch, OLaunchFails, OClaim
  <2>3. CASE OLoop \/ OReceive \/ OReceiveFails \/ OReceiveMalformed \/ OCheck
             \/ ORelease \/ OClaimNew \/ ODispatch
        BY <2>3 DEF OLoop, OReceive, OReceiveFails, OReceiveMalformed, OCheck,
                    ORelease, OClaimNew, ODispatch
  <2>4. CASE OCaught \/ OSignal
        BY <2>4 DEF OCaught, OSignal
  <2>5. CASE OJoinWorkers \/ OJoinAnnouncer \/ ODecide
        BY <2>5 DEF OJoinWorkers, OJoinAnnouncer, ODecide
  <2> QED
      BY <1>1, <2>1, <2>2, <2>3, <2>4, <2>5
      DEF OverseerStep, OverseerProgress, ClientStep
<1>2. CASE AnnouncerStep
  <2>1. UNCHANGED overseer /\ pcA \notin {"off", "gone"} /\ pcA' # "off"
        BY <1>2, AnnouncerEffect
  <2>2. pcO \notin {"construct", "decide", "launch", "claim", "startAnnouncer"}
        BY <2>1
  <2>3. \A w \in Workers : (pcW'[w] \in Ended <=> pcW[w] \in Ended)
                           /\ (pcW'[w] = "off" <=> pcW[w] = "off")
        BY <1>2, AnnouncerEffect DEF ANotify, TypeOK
  <2>4. pcO = "startWorkers" => pcA' \in {"sleep", "swap", "raise", "waitWriters"}
    <3> SUFFICES ASSUME pcO = "startWorkers"
                 PROVE  pcA' \in {"sleep", "swap", "raise", "waitWriters"}
        OBVIOUS
    <3>1. pcA = "waitWriters" => bufferWriterCount[Drained] = 1
          BY DEF FirstClaimInv, Claiming, Drained, Claimed, Buffers, NoBuffer, TypeOK
    <3> QED
        BY <1>2, <3>1
        DEF AnnouncerStep, AWakeUp, ASwap, ARaise, AWaitWriters, AWaitReaders,
            ARecalculate, ALock, AClear, ANotify, AAnnounce, AStop, AMinuteOver,
            AGoto, AMove
  <2> QED
      BY <2>1, <2>2, <2>3, <2>4 DEF overseer
<1>3. ASSUME NEW w \in Workers, WorkerStep(w)
      PROVE  SessionInv'
      BY <1>3, WorkerEffect DEF overseer, announcer, TypeOK
<1>4. CASE Disconnect \/ UNCHANGED vars
      BY <1>4, QuietEffect DEF overseer, announcer
<1> QED
    BY <1>1, <1>2, <1>3, <1>4 DEF Next

LEMMA ClaimStep ==
  ASSUME TypeOK, Claimed, SessionInv, ClaimInv, Paced, [Next]_vars
  PROVE  ClaimInv'
<1> USE DEF ClaimInv, Claiming, Claimed, Running, TypeOK, Buffers, NoBuffer
<1>1. CASE OverseerStep
  <2> USE DEF OGoto, OMove, DataUntouched, announcer, bufferVars
  <2>1. CASE OConstruct \/ OStartAnnouncer \/ OStartWorkers
        BY <2>1 DEF OConstruct, OStartAnnouncer, OStartWorkers, SessionInv
  <2>2. CASE OLaunch \/ OLaunchFails \/ OClaim
        BY <2>2 DEF OLaunch, OLaunchFails, OClaim, SessionInv
  <2>3. CASE OLoop \/ OReceive \/ OReceiveFails \/ OReceiveMalformed \/ ODispatch
        BY <2>3 DEF OLoop, OReceive, OReceiveFails, OReceiveMalformed, ODispatch
  <2>4. CASE OCheck
        BY <2>4 DEF OCheck
  <2>5. CASE ORelease
        BY <2>5 DEF ORelease
  <2>6. CASE OClaimNew
        BY <2>6 DEF OClaimNew
  <2>7. CASE OCaught \/ OSignal
        BY <2>7 DEF OCaught, OSignal
  <2>8. CASE OJoinWorkers \/ OJoinAnnouncer \/ ODecide
        BY <2>8 DEF OJoinWorkers, OJoinAnnouncer, ODecide
  <2> QED
      BY <1>1, <2>1, <2>2, <2>3, <2>4, <2>5, <2>6, <2>7, <2>8
      DEF OverseerStep, OverseerProgress, ClientStep
<1>2. CASE AnnouncerStep
  <2>1. UNCHANGED overseer /\ UNCHANGED bufferWriterCount
        BY <1>2, AnnouncerEffect
  <2> USE <2>1 DEF AGoto, AMove, overseer, bufferVars, SessionInv
  <2>2. CASE ASwap
        BY <2>2 DEF ASwap
  <2>3. CASE AWaitWriters
        BY <2>3 DEF AWaitWriters, Drained
  <2>4. CASE AMinuteOver
        BY <2>4 DEF AMinuteOver, Settled
  <2>5. CASE AWakeUp \/ ARaise \/ AWaitReaders \/ ARecalculate \/ ALock
        BY <2>5 DEF AWakeUp, ARaise, AWaitReaders, ARecalculate, ALock
  <2>6. CASE AClear \/ ANotify \/ AAnnounce \/ AStop
        BY <2>6 DEF AClear, ANotify, AAnnounce, AStop
  <2> QED
      BY <1>2, <2>2, <2>3, <2>4, <2>5, <2>6 DEF AnnouncerStep
<1>3. ASSUME NEW w \in Workers, WorkerStep(w)
      PROVE  ClaimInv'
      BY <1>3, WorkerEffect DEF overseer, announcer, bufferVars
<1>4. CASE Disconnect \/ UNCHANGED vars
      BY <1>4, QuietEffect DEF overseer, announcer, bufferVars
<1> QED
    BY <1>1, <1>2, <1>3, <1>4 DEF Next

LEMMA LockStep ==
  ASSUME TypeOK, SessionInv, LockInv, [Next]_vars
  PROVE  LockInv'
<1> USE DEF LockInv, Holder, TypeOK
<1>1. CASE OverseerStep
  <2>1. CASE OConstruct \/ OStartAnnouncer \/ OStartWorkers
    <3>1. \A w \in Workers : ~Holder(w) /\ ~Holder(w)'
          BY <2>1 DEF OConstruct, OStartAnnouncer, OStartWorkers, SessionInv,
                      Ended, OGoto
    <3>2. pcA # "clear" /\ pcA' # "clear"
          BY <2>1 DEF OConstruct, OStartAnnouncer, OStartWorkers, SessionInv,
                      OGoto, announcer
    <3>3. dataLock' = dataLock
          BY <1>1, OverseerEffect DEF lockVars
    <3> HIDE DEF Holder
    <3> QED  BY <3>1, <3>2, <3>3
  <2>2. CASE UNCHANGED <<dataReaderCount, pcA, pcW, jobVars>>
        BY <1>1, <2>2, OverseerEffect DEF lockVars
  <2>3. \/ UNCHANGED <<dataReaderCount, pcA, pcW, jobVars>>
        \/ OConstruct \/ OStartAnnouncer \/ OStartWorkers
        BY <1>1, OverseerEffect
  <2> QED
      BY <2>1, <2>2, <2>3
<1>2. CASE AnnouncerStep
  <2> USE DEF AGoto, AMove, StopUntouched, lockVars
  <2>1. CASE ALock
        BY <2>1 DEF ALock
  <2>2. CASE AClear
        BY <2>2 DEF AClear
  <2>3. CASE ANotify
        BY <2>3 DEF ANotify
  <2>4. CASE AWakeUp \/ ASwap \/ ARaise \/ AWaitWriters \/ AWaitReaders
             \/ ARecalculate \/ AAnnounce \/ AStop \/ AMinuteOver
        BY <2>4 DEF AWakeUp, ASwap, ARaise, AWaitWriters, AWaitReaders,
                    ARecalculate, AAnnounce, AStop, AMinuteOver
  <2> QED
      BY <1>2, <2>1, <2>2, <2>3, <2>4 DEF AnnouncerStep
<1>3. ASSUME NEW w \in Workers, WorkerStep(w)
      PROVE  LockInv'
  <2> USE DEF WGoto, WMove, OthersUntouched, announcer
  <2>1. CASE WLock(w)
        BY <2>1 DEF WLock
  <2>2. CASE WWait(w)
        BY <2>2 DEF WWait
  <2>3. CASE WBlock(w)
        BY <2>3 DEF WBlock
  <2>4. CASE WCacheTop(w) \/ WLoop(w) \/ WPoll(w) \/ WDeplete(w) \/ WLeave(w)
        BY <2>4 DEF WCacheTop, WLoop, WPoll, WDeplete, WLeave
  <2>5. CASE WReturn(w) \/ WServe(w) \/ WSendFails(w) \/ WSignal(w) \/ WGone(w)
             \/ WSpuriousWakeUp(w)
        BY <2>5 DEF WReturn, WServe, WSendFails, WSignal, WGone, WSpuriousWakeUp
  <2> QED
      BY <1>3, <2>1, <2>2, <2>3, <2>4, <2>5 DEF WorkerStep, WorkerProgress
<1>4. CASE Disconnect \/ UNCHANGED vars
      BY <1>4, QuietEffect DEF lockVars, announcer
<1> QED
    BY <1>1, <1>2, <1>3, <1>4 DEF Next

LEMMA CountStep ==
  ASSUME TypeOK, SessionInv, CountInv, [Next]_vars
  PROVE  CountInv'
<1> USE DEF CountInv
<1> DEFINE Off(w) == pcW[w] = "off"
<1>a. IsFiniteSet(CountedWorkers)
      BY FS_Subset DEF CountedWorkers
<1>1. CASE OverseerStep
  <2>1. CASE OConstruct \/ OStartAnnouncer
        BY <2>1 DEF OConstruct, OStartAnnouncer, SessionInv, OGoto
  <2>2. CASE OStartWorkers
    <3>1. CountedWorkers' = Workers
          BY <2>2 DEF OStartWorkers, CountedWorkers, Counted, Reading
    <3> QED
        BY <2>2, <3>1 DEF OStartWorkers
  <2>3. CASE UNCHANGED <<dataReaderCount, pcA, pcW, jobVars>>
        BY <2>3 DEF CountedWorkers
  <2> QED
      BY <1>1, <2>1, <2>2, <2>3, OverseerEffect
<1>2. CASE AnnouncerStep
  <2>1. dataReaderCount' = dataReaderCount
        BY <1>2, AnnouncerEffect
  <2>2. CountedWorkers' = CountedWorkers
        BY <1>2, AnnouncerEffect
        DEF ANotify, CountedWorkers, Counted, Reading, TypeOK
  <2>3. \A w \in Workers : Off(w)' <=> Off(w)
        BY <1>2, AnnouncerEffect DEF ANotify, TypeOK
  <2> QED
      BY <2>1, <2>2, <2>3
<1>3. ASSUME NEW w \in Workers, WorkerStep(w)
      PROVE  CountInv'
  <2> USE DEF WGoto, WMove
  <2>1. dataReaderCount = Cardinality(CountedWorkers)
        BY <1>3, WorkerEffect DEF Ended
  <2>2. \A v \in Workers : pcW'[v] # "off"
        BY <1>3, WorkerEffect DEF Ended, TypeOK
  <2>3. CASE WLeave(w) \/ WGone(w)
    <3>1. w \in CountedWorkers /\ CountedWorkers' = CountedWorkers \ {w}
          BY <2>3 DEF WLeave, WGone, CountedWorkers, Counted, Reading, TypeOK
    <3>2. Cardinality(CountedWorkers') = Cardinality(CountedWorkers) - 1
          BY <3>1, <1>a, FS_RemoveElement
    <3> QED
        BY <2>1, <2>2, <2>3, <3>2 DEF WLeave, WGone
  <2>4. CASE WReturn(w)
    <3>1. w \notin CountedWorkers /\ CountedWorkers' = CountedWorkers \cup {w}
          BY <2>4 DEF WReturn, CountedWorkers, Counted, Reading, TypeOK
    <3>2. Cardinality(CountedWorkers') = Cardinality(CountedWorkers) + 1
          BY <3>1, <1>a, FS_AddElement
    <3> QED
        BY <2>1, <2>2, <2>4, <3>2 DEF WReturn
  <2>5. CASE WCacheTop(w) \/ WLoop(w) \/ WPoll(w) \/ WDeplete(w) \/ WLock(w)
    <3>1. CountedWorkers' = CountedWorkers /\ dataReaderCount' = dataReaderCount
          BY <2>5 DEF WCacheTop, WLoop, WPoll, WDeplete, WLock, CountedWorkers,
                      Counted, Reading, TypeOK
    <3> QED
        BY <2>1, <2>2, <3>1
  <2>6. CASE WWait(w) \/ WBlock(w) \/ WServe(w) \/ WSendFails(w) \/ WSignal(w)
             \/ WSpuriousWakeUp(w)
    <3>1. CountedWorkers' = CountedWorkers /\ dataReaderCount' = dataReaderCount
          BY <2>6 DEF WWait, WBlock, WServe, WSendFails, WSignal, WSpuriousWakeUp,
                      CountedWorkers, Counted, Reading, TypeOK
    <3> QED
        BY <2>1, <2>2, <3>1
  <2> QED
      BY <1>3, <2>3, <2>4, <2>5, <2>6 DEF WorkerStep, WorkerProgress
<1>4. CASE Disconnect \/ UNCHANGED vars
      BY <1>4, QuietEffect DEF CountedWorkers
<1> QED
    BY <1>1, <1>2, <1>3, <1>4 DEF Next

(* The announcer reads zero only when no worker is counted.                *)
LEMMA NoneCounted ==
  ASSUME TypeOK, CountInv, dataReaderCount = 0
  PROVE  \A w \in Workers : pcW[w] \notin Counted
<1>1. CASE \A w \in Workers : pcW[w] = "off"
      BY <1>1 DEF Counted, Reading
<1>2. CASE dataReaderCount = Cardinality(CountedWorkers)
  <2>1. IsFiniteSet(CountedWorkers)
        BY FS_Subset DEF CountedWorkers
  <2>2. CountedWorkers = {}
        BY <1>2, <2>1, FS_EmptySet
  <2> QED
      BY <2>2 DEF CountedWorkers
<1> QED
    BY <1>1, <1>2 DEF CountInv

LEMMA RefreshStep ==
  ASSUME TypeOK, SessionInv, LockInv, CountInv, RefreshInv, Paced, [Next]_vars
  PROVE  RefreshInv'
<1> USE DEF RefreshInv, TypeOK
<1>1. CASE OverseerStep
  <2>1. CASE OConstruct \/ OStartAnnouncer \/ OStartWorkers
        BY <1>1, <2>1, OverseerEffect
        DEF OConstruct, OStartAnnouncer, OStartWorkers, SessionInv, Dozing,
            Counted, Reading, OGoto, lockVars, announcer
  <2>2. CASE UNCHANGED <<dataReaderCount, pcA, pcW, jobVars>>
        BY <1>1, <2>2, OverseerEffect DEF lockVars
  <2>3. \/ UNCHANGED <<dataReaderCount, pcA, pcW, jobVars>>
        \/ OConstruct \/ OStartAnnouncer \/ OStartWorkers
        BY <1>1, OverseerEffect
  <2> QED
      BY <2>1, <2>2, <2>3
<1>2. CASE AnnouncerStep
  <2> USE DEF AGoto, AMove, StopUntouched, lockVars
  <2>1. CASE AWakeUp \/ ASwap \/ AWaitWriters \/ AAnnounce \/ AStop \/ ARecalculate
        BY <2>1 DEF AWakeUp, ASwap, AWaitWriters, AAnnounce, AStop, ARecalculate
  <2>2. CASE ARaise
        BY <2>2 DEF ARaise, Dozing
  <2>3. CASE AWaitReaders
        BY <2>3, NoneCounted DEF AWaitReaders
  <2>4. CASE ALock
        BY <2>4 DEF ALock
  <2>5. CASE AClear
        BY <2>5 DEF AClear, LockInv, Holder, Counted, Reading
  <2>6. CASE ANotify
        BY <2>6 DEF ANotify, Counted, Reading, Dozing
  <2>7. CASE AMinuteOver
        BY <2>7 DEF AMinuteOver, Settled
  <2> QED
      BY <1>2, <2>1, <2>2, <2>3, <2>4, <2>5, <2>6, <2>7 DEF AnnouncerStep
<1>3. ASSUME NEW w \in Workers, WorkerStep(w)
      PROVE  RefreshInv'
  <2> USE DEF WGoto, WMove, OthersUntouched, announcer, Counted, Reading, Dozing
  <2>1. CASE WCacheTop(w) \/ WLoop(w) \/ WDeplete(w) \/ WSpuriousWakeUp(w)
        BY <2>1 DEF WCacheTop, WLoop, WDeplete, WSpuriousWakeUp
  <2>2. CASE WPoll(w)
        BY <2>2 DEF WPoll
  <2>3. CASE WLock(w) \/ WLeave(w)
        BY <2>3 DEF WLock, WLeave
  <2>4. CASE WBlock(w) \/ WReturn(w)
        BY <2>4 DEF WBlock, WReturn
  <2>6. CASE WWait(w)
    <3>1. CASE refreshInProgress
          BY <2>6, <3>1 DEF WWait
    <3>2. CASE ~refreshInProgress
          BY <2>6, <3>2 DEF WWait
    <3> QED  BY <3>1, <3>2
  <2>5. CASE WServe(w) \/ WSendFails(w) \/ WSignal(w) \/ WGone(w)
        BY <2>5 DEF WServe, WSendFails, WSignal, WGone
  <2> QED
      BY <1>3, <2>1, <2>2, <2>3, <2>4, <2>5, <2>6 DEF WorkerStep, WorkerProgress
<1>4. CASE Disconnect \/ UNCHANGED vars
      BY <1>4, QuietEffect DEF lockVars, announcer
<1> QED
    BY <1>1, <1>2, <1>3, <1>4 DEF Next

LEMMA JobStep ==
  ASSUME TypeOK, SessionInv, RefreshInv, JobInv, Paced, [Next]_vars
  PROVE  JobInv'
<1> USE DEF JobInv, TypeOK
<1>1. CASE OverseerStep
  <2>1. CASE OConstruct \/ OStartAnnouncer \/ OStartWorkers
        BY <1>1, <2>1, OverseerEffect
        DEF OConstruct, OStartAnnouncer, OStartWorkers, SessionInv, Dozing,
            OGoto, lockVars, jobVars
  <2>2. CASE UNCHANGED <<dataReaderCount, pcA, pcW, jobVars>>
        BY <1>1, <2>2, OverseerEffect DEF lockVars, jobVars
  <2>3. \/ UNCHANGED <<dataReaderCount, pcA, pcW, jobVars>>
        \/ OConstruct \/ OStartAnnouncer \/ OStartWorkers
        BY <1>1, OverseerEffect
  <2> QED
      BY <2>1, <2>2, <2>3
<1>2. CASE AnnouncerStep
  <2> USE DEF AGoto, AMove, StopUntouched, lockVars, jobVars, RefreshInv
  <2>1. CASE AWakeUp \/ ASwap \/ AWaitWriters \/ AWaitReaders \/ AMinuteOver
             \/ AStop \/ ARecalculate \/ ALock
        BY <2>1 DEF AWakeUp, ASwap, AWaitWriters, AWaitReaders, AMinuteOver,
                    AStop, ARecalculate, ALock
  <2>2. CASE ARaise
        BY <2>2 DEF ARaise
  <2>3. CASE AClear \/ ANotify
        BY <2>3 DEF AClear, ANotify, Dozing
  <2>4. CASE AAnnounce
        BY <2>4 DEF AAnnounce, SessionInv
  <2> QED
      BY <1>2, <2>1, <2>2, <2>3, <2>4 DEF AnnouncerStep
<1>3. ASSUME NEW w \in Workers, WorkerStep(w)
      PROVE  JobInv'
  <2> USE DEF WGoto, WMove, OthersUntouched, jobVars, Dozing
  <2>1. CASE WDeplete(w) \/ WServe(w)
        BY <2>1 DEF WDeplete, WServe
  <2>2. CASE WCacheTop(w) \/ WLoop(w) \/ WPoll(w) \/ WLock(w) \/ WLeave(w)
        BY <2>2 DEF WCacheTop, WLoop, WPoll, WLock, WLeave
  <2>3. CASE WWait(w)
        BY <2>3 DEF WWait
  <2>4. CASE WBlock(w) \/ WReturn(w) \/ WSpuriousWakeUp(w) \/ WSendFails(w)
             \/ WSignal(w) \/ WGone(w)
        BY <2>4 DEF WBlock, WReturn, WSpuriousWakeUp, WSendFails, WSignal, WGone
  <2> QED
      BY <1>3, <2>1, <2>2, <2>3, <2>4 DEF WorkerStep, WorkerProgress
<1>4. CASE Disconnect \/ UNCHANGED vars
      BY <1>4, QuietEffect DEF lockVars, jobVars
<1> QED
    BY <1>1, <1>2, <1>3, <1>4 DEF Next

LEMMA CacheStep ==
  ASSUME TypeOK, SessionInv, RefreshInv, CacheInv, [Next]_vars
  PROVE  CacheInv'
<1> USE DEF CacheInv, TypeOK
<1>1. CASE OverseerStep
  <2>1. CASE OConstruct \/ OStartAnnouncer \/ OStartWorkers
        BY <2>1 DEF OConstruct, OStartAnnouncer, OStartWorkers, jobVars
  <2>2. CASE UNCHANGED <<dataReaderCount, pcA, pcW, jobVars>>
        BY <2>2 DEF jobVars
  <2>3. \/ UNCHANGED <<dataReaderCount, pcA, pcW, jobVars>>
        \/ OConstruct \/ OStartAnnouncer \/ OStartWorkers
        BY <1>1, OverseerEffect
  <2> QED
      BY <2>1, <2>2, <2>3
<1>2. CASE AnnouncerStep
  <2> USE DEF AGoto, AMove, StopUntouched, jobVars
  <2>1. CASE ARecalculate
        BY <2>1 DEF ARecalculate, RefreshInv, Counted, Reading
  <2>2. CASE ANotify
        BY <2>2 DEF ANotify
  <2>3. CASE AWakeUp \/ ASwap \/ ARaise \/ AWaitWriters \/ AWaitReaders \/ ALock
             \/ AClear \/ AAnnounce \/ AStop \/ AMinuteOver
        BY <2>3 DEF AWakeUp, ASwap, ARaise, AWaitWriters, AWaitReaders, ALock,
                    AClear, AAnnounce, AStop, AMinuteOver
  <2> QED
      BY <1>2, <2>1, <2>2, <2>3 DEF AnnouncerStep
<1>3. ASSUME NEW w \in Workers, WorkerStep(w)
      PROVE  CacheInv'
  <2> USE DEF WGoto, WMove, jobVars
  <2>1. CASE WCacheTop(w)
        BY <2>1 DEF WCacheTop
  <2>2. CASE WLoop(w) \/ WPoll(w) \/ WDeplete(w) \/ WServe(w) \/ WLock(w)
        BY <2>2 DEF WLoop, WPoll, WDeplete, WServe, WLock
  <2>3. CASE WWait(w) \/ WBlock(w) \/ WReturn(w) \/ WLeave(w)
        BY <2>3 DEF WWait, WBlock, WReturn, WLeave
  <2>4. CASE WSpuriousWakeUp(w) \/ WSendFails(w) \/ WSignal(w) \/ WGone(w)
        BY <2>4 DEF WSpuriousWakeUp, WSendFails, WSignal, WGone
  <2> QED
      BY <1>3, <2>1, <2>2, <2>3, <2>4 DEF WorkerStep, WorkerProgress
<1>4. CASE Disconnect \/ UNCHANGED vars
      BY <1>4, QuietEffect DEF jobVars
<1> QED
    BY <1>1, <1>2, <1>3, <1>4 DEF Next

LEMMA WakeupStep ==
  ASSUME TypeOK, SessionInv, LockInv, BlockInv, NoLostWakeup, [Next]_vars
  PROVE  NoLostWakeup'
<1> USE DEF NoLostWakeup, TypeOK
<1>1. CASE OverseerStep
  <2>1. CASE OConstruct \/ OStartAnnouncer \/ OStartWorkers
        BY <2>1 DEF OConstruct, OStartAnnouncer, OStartWorkers, OGoto, SessionInv
  <2>2. CASE UNCHANGED <<dataReaderCount, pcA, pcW, jobVars>>
        BY <1>1, <2>2, OverseerEffect DEF lockVars
  <2>3. \/ UNCHANGED <<dataReaderCount, pcA, pcW, jobVars>>
        \/ OConstruct \/ OStartAnnouncer \/ OStartWorkers
        BY <1>1, OverseerEffect
  <2> QED
      BY <2>1, <2>2, <2>3
<1>2. CASE AnnouncerStep
  <2> USE DEF AGoto, AMove, StopUntouched, lockVars
  <2>1. CASE ANotify
        BY <2>1 DEF ANotify
  <2>2. CASE ARaise \/ AClear
        BY <2>2 DEF ARaise, AClear
  <2>3. CASE AWakeUp \/ ASwap \/ AWaitWriters \/ AWaitReaders \/ ARecalculate
             \/ ALock \/ AAnnounce \/ AStop \/ AMinuteOver
        BY <2>3 DEF AWakeUp, ASwap, AWaitWriters, AWaitReaders, ARecalculate,
                    ALock, AAnnounce, AStop, AMinuteOver
  <2> QED
      BY <1>2, <2>1, <2>2, <2>3 DEF AnnouncerStep
<1>3. ASSUME NEW w \in Workers, WorkerStep(w)
      PROVE  NoLostWakeup'
  <2> USE DEF WGoto, WMove, OthersUntouched, announcer
  <2>1. CASE WBlock(w)
        BY <2>1 DEF WBlock, BlockInv
  <2>2. CASE WCacheTop(w) \/ WLoop(w) \/ WPoll(w) \/ WDeplete(w) \/ WServe(w) \/ WLock(w)
        BY <2>2 DEF WCacheTop, WLoop, WPoll, WDeplete, WServe, WLock
  <2>3. CASE WWait(w) \/ WReturn(w) \/ WLeave(w)
        BY <2>3 DEF WWait, WReturn, WLeave
  <2>4. CASE WSpuriousWakeUp(w) \/ WSendFails(w) \/ WSignal(w) \/ WGone(w)
        BY <2>4 DEF WSpuriousWakeUp, WSendFails, WSignal, WGone
  <2> QED
      BY <1>3, <2>1, <2>2, <2>3, <2>4 DEF WorkerStep, WorkerProgress
<1>4. CASE Disconnect \/ UNCHANGED vars
      BY <1>4, QuietEffect DEF lockVars, announcer
<1> QED
    BY <1>1, <1>2, <1>3, <1>4 DEF Next

-----------------------------------------------------------------------------
LEMMA ThreadInit == Init => ThreadInv
<1> SUFFICES ASSUME Init PROVE ThreadInv
    OBVIOUS
<1> USE DEF Init
<1>1. LockInv /\ SessionInv /\ CountInv
      BY DEF LockInv, Holder, SessionInv, Ended, CountInv
<1>2. ClaimInv /\ RefreshInv /\ JobInv /\ CacheInv /\ NoLostWakeup
      BY DEF ClaimInv, Claiming, RefreshInv, Dozing, JobInv, CacheInv, NoLostWakeup
<1> QED
    BY <1>1, <1>2 DEF ThreadInv

(* What ThreadInv is for.                                                  *)
LEMMA ThreadInvIsEnough ==
  ASSUME TypeOK, ThreadInv
  PROVE  ReaderExclusion /\ BufferExclusion /\ NoJobOutlivesRefresh /\ TopCacheFresh
<1> USE DEF ThreadInv, TypeOK
<1>1. ReaderExclusion
      BY DEF ReaderExclusion, RefreshInv, Counted
<1>2. BufferExclusion
      BY DEF BufferExclusion, ClaimInv, Claiming, Drained, Buffers, NoBuffer
<1>3. NoJobOutlivesRefresh
  <2> SUFFICES ASSUME pcA = "recalculate", NEW w \in userDataQueue
               PROVE  pcW[w] = "gone"
      BY DEF NoJobOutlivesRefresh
  <2>1. pcW[w] \in WorkerStates \ (Counted \cup Dozing \cup {"off"})
        BY DEF RefreshInv, JobInv
  <2> QED
      BY <2>1 DEF WorkerStates
<1>4. TopCacheFresh
      BY DEF TopCacheFresh, CacheInv
<1> QED
    BY <1>1, <1>2, <1>3, <1>4

(* In a Paced service, of any number of workers and whatever the client    *)
(* does: the relation between counters, flags, mutex and threads that the  *)
(* synchronization rests on.                                               *)
THEOREM ThreadInvHolds == ASSUME Paced PROVE Spec => [](TypeOK /\ ThreadInv)
<1>1. Init => TypeOK /\ Claimed /\ ThreadInv
      BY TypeInit, ThreadInit
<1>2. TypeOK /\ Claimed /\ ThreadInv /\ [Next]_vars => TypeOK' /\ Claimed' /\ ThreadInv'
  <2> SUFFICES ASSUME TypeOK, Claimed, ThreadInv, [Next]_vars
               PROVE  TypeOK' /\ Claimed' /\ ThreadInv'
      OBVIOUS
  <2>1. /\ LockInv /\ SessionInv /\ CountInv /\ ClaimInv
        /\ RefreshInv /\ JobInv /\ CacheInv /\ NoLostWakeup
        BY DEF ThreadInv
  <2>2. TypeOK' /\ Claimed'
        BY TypeStep
  <2>5. FirstClaimInv /\ BlockInv
        BY <2>1 DEF ClaimInv, FirstClaimInv, Claiming, RefreshInv, BlockInv
  <2>3. SessionInv' /\ ClaimInv' /\ LockInv' /\ CountInv'
        BY <2>1, <2>5, SessionStep, ClaimStep, LockStep, CountStep
  <2>4. RefreshInv' /\ JobInv' /\ CacheInv' /\ NoLostWakeup'
        BY <2>1, <2>5, RefreshStep, JobStep, CacheStep, WakeupStep
  <2> QED
      BY <2>2, <2>3, <2>4 DEF ThreadInv
<1> QED
    BY <1>1, <1>2, PTL DEF Spec

(* No announced user data pointer is used after the refresh that follows.  *)
THEOREM JobsAreDrained == ASSUME Paced PROVE Spec => []NoJobOutlivesRefresh
<1>1. TypeOK /\ ThreadInv => NoJobOutlivesRefresh
      BY ThreadInvIsEnough
<1> QED
    BY <1>1, ThreadInvHolds, PTL

(* A rating is sent with the top of the rating it was computed with.       *)
THEOREM CachesAreFresh == ASSUME Paced PROVE Spec => []TopCacheFresh
<1>1. TypeOK /\ ThreadInv => TopCacheFresh
      BY ThreadInvIsEnough
<1> QED
    BY <1>1, ThreadInvHolds, PTL

-----------------------------------------------------------------------------
(* Without the assumption that the threads keep pace.                      *)

LEMMA FirstClaimStep ==
  ASSUME TypeOK, Claimed, SessionInv, FirstClaimInv, [Next]_vars
  PROVE  FirstClaimInv'
<1> USE DEF FirstClaimInv, Claiming, Claimed, Running, TypeOK, Buffers, NoBuffer
<1>1. CASE OverseerStep
  <2> USE DEF OGoto, OMove, DataUntouched, announcer, bufferVars
  <2>1. CASE OConstruct \/ OStartAnnouncer \/ OStartWorkers
        BY <2>1 DEF OConstruct, OStartAnnouncer, OStartWorkers, SessionInv
  <2>2. CASE OLaunch \/ OLaunchFails \/ OClaim
        BY <2>2 DEF OLaunch, OLaunchFails, OClaim, SessionInv
  <2>3. CASE OLoop \/ OReceive \/ OReceiveFails \/ OReceiveMalformed \/ ODispatch \/ OCheck
        BY <2>3 DEF OLoop, OReceive, OReceiveFails, OReceiveMalformed, ODispatch, OCheck
  <2>4. CASE ORelease
        BY <2>4 DEF ORelease
  <2>5. CASE OClaimNew
        BY <2>5 DEF OClaimNew
  <2>6. CASE OCaught \/ OSignal
        BY <2>6 DEF OCaught, OSignal
  <2>7. CASE OJoinWorkers \/ OJoinAnnouncer \/ ODecide
        BY <2>7 DEF OJoinWorkers, OJoinAnnouncer, ODecide
  <2> QED
      BY <1>1, <2>1, <2>2, <2>3, <2>4, <2>5, <2>6, <2>7
      DEF OverseerStep, OverseerProgress, ClientStep
<1>2. CASE AnnouncerStep
  <2>1. UNCHANGED overseer /\ UNCHANGED bufferWriterCount
        BY <1>2, AnnouncerEffect
  <2> USE <2>1 DEF AGoto, AMove, overseer, bufferVars, SessionInv
  <2>2. CASE ASwap
        BY <2>2 DEF ASwap
  <2>3. CASE AWaitWriters
        BY <2>3 DEF AWaitWriters, Drained
  <2>4. CASE AWakeUp \/ ARaise \/ AWaitReaders \/ ARecalculate \/ ALock
        BY <2>4 DEF AWakeUp, ARaise, AWaitReaders, ARecalculate, ALock
  <2>5. CASE AClear \/ ANotify \/ AAnnounce \/ AStop \/ AMinuteOver
        BY <2>5 DEF AClear, ANotify, AAnnounce, AStop, AMinuteOver
  <2> QED
      BY <1>2, <2>2, <2>3, <2>4, <2>5 DEF AnnouncerStep
<1>3. ASSUME NEW w \in Workers, WorkerStep(w)
      PROVE  FirstClaimInv'
      BY <1>3, WorkerEffect DEF overseer, announcer, bufferVars
<1>4. CASE Disconnect \/ UNCHANGED vars
      BY <1>4, QuietEffect DEF overseer, announcer, bufferVars
<1> QED
    BY <1>1, <1>2, <1>3, <1>4 DEF Next

(* A listener that is elsewhere than where the data goes was on its way    *)
(* when the buffers were swapped.                                          *)
LEMMA LateClaimStep ==
  ASSUME TypeOK, Claimed, SessionInv, FirstClaimInv, LateClaimInv,
         (Next /\ Overtake) \/ UNCHANGED <<vars, lateVars>>
  PROVE  LateClaimInv'
<1> USE DEF LateClaimInv, Claiming, Claimed, Running, TypeOK, Buffers, NoBuffer
<1>1. CASE OverseerStep /\ Overtake
  <2> USE DEF OGoto, OMove, DataUntouched, announcer, bufferVars
  <2>0. UNCHANGED lateListener
        BY <1>1, OverseerEffect
        DEF Overtake, OConstruct, OStartAnnouncer, OStartWorkers, SessionInv
  <2> USE <2>0
  <2>1. CASE OConstruct \/ OStartAnnouncer \/ OStartWorkers
        BY <2>1 DEF OConstruct, OStartAnnouncer, OStartWorkers, SessionInv, FirstClaimInv
  <2>2. CASE OLaunch \/ OLaunchFails \/ OClaim
        BY <2>2 DEF OLaunch, OLaunchFails, OClaim, SessionInv, FirstClaimInv
  <2>3. CASE OLoop \/ OReceive \/ OReceiveFails \/ OReceiveMalformed \/ ODispatch
        BY <2>3 DEF OLoop, OReceive, OReceiveFails, OReceiveMalformed, ODispatch
  <2>4. CASE OCheck
        BY <2>4 DEF OCheck
  <2>5. CASE ORelease
        BY <2>5 DEF ORelease
  <2>6. CASE OClaimNew
        BY <2>6 DEF OClaimNew
  <2>7. CASE OCaught \/ OSignal
        BY <2>7 DEF OCaught, OSignal
  <2>8. CASE OJoinWorkers \/ OJoinAnnouncer \/ ODecide
        BY <2>8 DEF OJoinWorkers, OJoinAnnouncer, ODecide
  <2> QED
      BY <1>1, <2>1, <2>2, <2>3, <2>4, <2>5, <2>6, <2>7, <2>8
      DEF OverseerStep, OverseerProgress, ClientStep
<1>2. CASE AnnouncerStep /\ Overtake
  <2>1. UNCHANGED overseer /\ UNCHANGED bufferWriterCount
        BY <1>2, AnnouncerEffect
  <2> USE <2>1 DEF AGoto, AMove, overseer, bufferVars
  <2>2. CASE ASwap
        BY <1>2, <2>2 DEF ASwap, Overtake
  <2>3. CASE AWaitWriters
        BY <1>2, <2>3 DEF AWaitWriters, Drained, Overtake, FirstClaimInv
  <2>4. CASE AWakeUp \/ ARaise \/ AWaitReaders \/ ARecalculate \/ ALock
        BY <1>2, <2>4 DEF AWakeUp, ARaise, AWaitReaders, ARecalculate, ALock, Overtake
  <2>5. CASE AClear \/ ANotify \/ AAnnounce \/ AStop \/ AMinuteOver
        BY <1>2, <2>5 DEF AClear, ANotify, AAnnounce, AStop, AMinuteOver, Overtake
  <2> QED
      BY <1>2, <2>2, <2>3, <2>4, <2>5 DEF AnnouncerStep
<1>3. ASSUME NEW w \in Workers, WorkerStep(w), Overtake
      PROVE  LateClaimInv'
      BY <1>3, WorkerEffect DEF overseer, announcer, bufferVars, Overtake
<1>4. CASE (Disconnect /\ Overtake) \/ UNCHANGED <<vars, lateVars>>
      BY <1>4, QuietEffect DEF overseer, announcer, bufferVars, Overtake, lateVars
<1> QED
    BY <1>1, <1>2, <1>3, <1>4 DEF Next

(* A worker that is awake during a refresh and not counted is one that the *)
(* refresh has overtaken.                                                  *)
LEMMA LateRefreshStep ==
  ASSUME TypeOK, SessionInv, LockInv, CountInv, LateRefreshInv,
         (Next /\ Overtake) \/ UNCHANGED <<vars, lateVars>>
  PROVE  LateRefreshInv'
<1> USE DEF LateRefreshInv, BlockInv, TypeOK
<1>1. CASE OverseerStep /\ Overtake
  <2>0. UNCHANGED lateWorkers
        BY <1>1, OverseerEffect
        DEF Overtake, OConstruct, OStartAnnouncer, OStartWorkers, SessionInv, OGoto, announcer
  <2>1. CASE OConstruct \/ OStartAnnouncer \/ OStartWorkers
        BY <1>1, <2>0, <2>1, OverseerEffect
        DEF OConstruct, OStartAnnouncer, OStartWorkers, SessionInv,
            Counted, Reading, OGoto, lockVars, announcer
  <2>2. CASE UNCHANGED <<dataReaderCount, pcA, pcW, jobVars>>
        BY <1>1, <2>0, <2>2, OverseerEffect DEF lockVars
  <2>3. \/ UNCHANGED <<dataReaderCount, pcA, pcW, jobVars>>
        \/ OConstruct \/ OStartAnnouncer \/ OStartWorkers
        BY <1>1, OverseerEffect
  <2> QED
      BY <2>1, <2>2, <2>3
<1>2. CASE AnnouncerStep /\ Overtake
  <2> USE <1>2 DEF AGoto, AMove, StopUntouched, lockVars, Overtake
  <2>1. CASE AWakeUp \/ ASwap \/ AWaitWriters \/ AAnnounce \/ AStop \/ ARecalculate
        BY <2>1 DEF AWakeUp, ASwap, AWaitWriters, AAnnounce, AStop, ARecalculate
  <2>2. CASE ARaise
        BY <2>2 DEF ARaise
  <2>3. CASE AWaitReaders
        BY <2>3, NoneCounted DEF AWaitReaders
  <2>4. CASE ALock
        BY <2>4 DEF ALock
  <2>5. CASE AClear
        BY <2>5 DEF AClear, LockInv, Holder
  <2>6. CASE ANotify
        BY <2>6 DEF ANotify
  <2>7. CASE AMinuteOver
        BY <2>7 DEF AMinuteOver
  <2> QED
      BY <2>1, <2>2, <2>3, <2>4, <2>5, <2>6, <2>7 DEF AnnouncerStep
<1>3. ASSUME NEW w \in Workers, WorkerStep(w), Overtake
      PROVE  LateRefreshInv'
  <2>0. UNCHANGED <<lateWorkers, refreshInProgress, pcA>>
        BY <1>3, WorkerEffect DEF Overtake, announcer
  <2> USE <2>0 DEF WGoto, WMove, Counted, Reading
  <2>1. CASE WCacheTop(w) \/ WLoop(w) \/ WDeplete(w) \/ WSpuriousWakeUp(w)
        BY <2>1 DEF WCacheTop, WLoop, WDeplete, WSpuriousWakeUp
  <2>2. CASE WPoll(w) \/ WLock(w) \/ WLeave(w)
        BY <2>2 DEF WPoll, WLock, WLeave
  <2>3. CASE WBlock(w) \/ WReturn(w)
        BY <2>3 DEF WBlock, WReturn
  <2>4. CASE WWait(w)
        BY <2>4 DEF WWait
  <2>5. CASE WServe(w) \/ WSendFails(w) \/ WSignal(w) \/ WGone(w)
        BY <2>5 DEF WServe, WSendFails, WSignal, WGone
  <2> QED
      BY <1>3, <2>1, <2>2, <2>3, <2>4, <2>5 DEF WorkerStep, WorkerProgress
<1>4. CASE (Disconnect /\ Overtake) \/ UNCHANGED <<vars, lateVars>>
      BY <1>4, QuietEffect DEF lockVars, announcer, Overtake, lateVars
<1> QED
    BY <1>1, <1>2, <1>3, <1>4 DEF Next

(* What the counters are worth under any scheduling, of any number of      *)
(* workers and whatever the client does.                                   *)
THEOREM LateInvHolds == LateSpec => [](TypeOK /\ LateInv)
<1>1. LateInit => TypeOK /\ Claimed /\ LateInv
  <2> SUFFICES ASSUME LateInit PROVE TypeOK /\ Claimed /\ LateInv
      OBVIOUS
  <2>1. TypeOK /\ Claimed /\ LockInv /\ SessionInv /\ CountInv /\ NoLostWakeup
        BY TypeInit, ThreadInit DEF LateInit, ThreadInv
  <2>2. FirstClaimInv /\ LateClaimInv /\ LateRefreshInv
        BY DEF LateInit, Init, FirstClaimInv, LateClaimInv, LateRefreshInv, BlockInv, Claiming
  <2> QED
      BY <2>1, <2>2 DEF LateInv
<1>2. /\ TypeOK /\ Claimed /\ LateInv
      /\ [Next /\ Overtake]_<<vars, lateVars>>
      => TypeOK' /\ Claimed' /\ LateInv'
  <2> SUFFICES ASSUME TypeOK, Claimed, LateInv, [Next /\ Overtake]_<<vars, lateVars>>
               PROVE  TypeOK' /\ Claimed' /\ LateInv'
      OBVIOUS
  <2>1. /\ LockInv /\ SessionInv /\ CountInv /\ FirstClaimInv
        /\ LateClaimInv /\ LateRefreshInv /\ BlockInv /\ NoLostWakeup
        BY DEF LateInv, LateRefreshInv
  <2>2. [Next]_vars /\ ((Next /\ Overtake) \/ UNCHANGED <<vars, lateVars>>)
        OBVIOUS
  <2>3. TypeOK' /\ Claimed'
        BY <2>2, TypeStep
  <2>4. LockInv' /\ SessionInv' /\ CountInv' /\ NoLostWakeup'
        BY <2>1, <2>2, LockStep, SessionStep, CountStep, WakeupStep
  <2>5. FirstClaimInv' /\ LateClaimInv' /\ LateRefreshInv'
        BY <2>1, <2>2, FirstClaimStep, LateClaimStep, LateRefreshStep
  <2> QED
      BY <2>3, <2>4, <2>5 DEF LateInv
<1> QED
    BY <1>1, <1>2, PTL DEF LateSpec

(* While the calculator rewrites the rating data no worker reads it but    *)
(* those that the refresh has overtaken, and of all others each is counted *)
(* before it reads and waited for: no assumption about time is made.       *)
THEOREM ReadersExcluded == LateSpec => []OnlyLateWorkersRead
<1>1. TypeOK /\ LateInv => OnlyLateWorkersRead
      BY DEF LateInv, LateRefreshInv, OnlyLateWorkersRead, Counted
<1> QED
    BY <1>1, LateInvHolds, PTL

(* While the calculator empties a buffer the listener writes elsewhere, or *)
(* it had chosen this one before the buffers were swapped.                 *)
THEOREM ListenerExcluded == LateSpec => []OnlyLateListenerWrites
<1>1. TypeOK /\ LateInv => OnlyLateListenerWrites
      BY DEF LateInv, LateClaimInv, OnlyLateListenerWrites, Claiming, Drained, TypeOK,
             Buffers, NoBuffer
<1> QED
    BY <1>1, LateInvHolds, PTL

(* No worker sleeps on after the refresh it waits for, Paced or not.       *)
THEOREM SleepersAreWoken == LateSpec => []NoLostWakeup
<1>1. TypeOK /\ LateInv => NoLostWakeup
      BY DEF LateInv
<1> QED
    BY <1>1, LateInvHolds, PTL
=============================================================================
