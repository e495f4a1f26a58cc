------------------------ MODULE RatingAnnouncerProofs ------------------------
(***************************************************************************)
(* Types of the announcer's state and of what DateTime computes from it,   *)
(* the pace of the ticker: deals are counted within a minute, and the turn *)
(* of the week: the rating is dropped in time, and not before.             *)
(***************************************************************************)
EXTENDS RatingAnnouncer, TLAPS

-----------------------------------------------------------------------------
(* Multiples.                                                              *)
LEMMA Division ==
  ASSUME NEW a \in Int, NEW b \in Nat \ {0}
  PROVE  /\ a \div b \in Int
         /\ (a \div b) * b \in Int
         /\ (a \div b) * b <= a
         /\ a < (a \div b) * b + b
BY Z3

LEMMA Cancellation ==
  ASSUME NEW a \in Int, NEW b \in Int, NEW c \in Nat \ {0}, a * c < b * c
  PROVE  a < b
BY Z3

LEMMA Successor ==
  ASSUME NEW a \in Int, NEW c \in Int
  PROVE  (a + 1) * c = a * c + c
BY Z3

LEMMA Association ==
  ASSUME NEW a \in Int, NEW b \in Int, NEW c \in Int
  PROVE  a * (b * c) = (a * b) * c
BY Z3

LEMMA Products ==
  ASSUME NEW a \in Nat \ {0}, NEW b \in Nat \ {0}
  PROVE  a * b \in Nat \ {0}
BY Z3

LEMMA Units ==
  /\ Minute \in Nat \ {0} /\ Week \in Nat \ {0}
  /\ Minute >= 2 * TicksPerSecond
<1>1. Minute \in Nat \ {0}
  BY ClockAssumption, Products DEF Minute
<1>2. Week \in Nat \ {0}
  BY <1>1, ClockAssumption, Products DEF Week
<1>3. Minute >= 2 * TicksPerSecond
  <2>1. SecondsPerMinute \in Nat /\ SecondsPerMinute >= 2 /\ TicksPerSecond \in Nat
    BY ClockAssumption
  <2>2. (SecondsPerMinute - 2) * TicksPerSecond >= 0
    BY <2>1, Z3
  <2>3. SecondsPerMinute * TicksPerSecond = (SecondsPerMinute - 2) * TicksPerSecond + 2 * TicksPerSecond
    BY <2>1, Z3
  <2>4. QED
    BY <2>1, <2>2, <2>3, Z3 DEF Minute
<1>4. QED
  BY <1>1, <1>2, <1>3

(* The next full second is less than a second away.                        *)
LEMMA NextFullSecondIsNext ==
  ASSUME now \in Nat
  PROVE  NextFullSecond \in now .. now + TicksPerSecond - 1
<1> DEFINE q == (-now) \div TicksPerSecond
<1>1. TicksPerSecond \in Nat \ {0} /\ -now \in Int
  BY ClockAssumption
<1>2. q \in Int /\ q * TicksPerSecond \in Int
      /\ q * TicksPerSecond <= -now /\ -now < q * TicksPerSecond + TicksPerSecond
  BY <1>1, Division
<1>3. NextFullSecond = -(q * TicksPerSecond)
  BY DEF NextFullSecond
<1> HIDE DEF q
<1>4. QED
  BY <1>1, <1>2, <1>3

LEMMA WeekStartIsPast ==
  ASSUME now \in Nat, FirstMonday <= now
  PROVE  CurrentWeekStart \in 0 .. now
<1> DEFINE q == (now - FirstMonday) \div Week
<1>1. Week \in Nat \ {0} /\ FirstMonday \in Nat /\ now - FirstMonday \in Int
  BY Units, ClockAssumption
<1>2. q \in Int /\ q * Week \in Int
      /\ q * Week <= now - FirstMonday /\ now - FirstMonday < q * Week + Week
  BY <1>1, Division
<1>3. q >= 0
  <2>1. 0 * Week < (q + 1) * Week
    BY <1>1, <1>2, Successor
  <2>2. QED
    BY <1>1, <1>2, <2>1, Cancellation, 0 \in Int, q + 1 \in Int
<1>4. q * Week >= 0
  BY <1>1, <1>2, <1>3, Z3
<1>5. CurrentWeekStart = q * Week + FirstMonday
  BY DEF CurrentWeekStart
<1> HIDE DEF q
<1>6. QED
  BY <1>1, <1>2, <1>4, <1>5

(* There is a chrono set for every second of the minute, and no other.     *)
LEMMA SecondIndexIsSet ==
  ASSUME now \in Nat
  PROVE  CurrentSecondIndex \in 0 .. SecondsPerMinute - 1
<1> DEFINE second == now \div TicksPerSecond
           minute == now \div Minute
<1>1. TicksPerSecond \in Nat \ {0} /\ SecondsPerMinute \in Nat \ {0} /\ Minute \in Nat \ {0}
  BY ClockAssumption, Units
<1>2. second \in Int /\ second * TicksPerSecond <= now /\ now < (second + 1) * TicksPerSecond
  BY <1>1, Division, Successor
<1>3. minute \in Int /\ minute * Minute <= now /\ now < (minute + 1) * Minute
  BY <1>1, Division, Successor
<1>4. CurrentSecondIndex = second - minute * SecondsPerMinute
  BY DEF CurrentSecondIndex
<1> HIDE DEF second, minute
<1>5. minute * SecondsPerMinute \in Int /\ (minute + 1) * SecondsPerMinute \in Int
  BY <1>1, <1>3
<1>6. minute * Minute = (minute * SecondsPerMinute) * TicksPerSecond
  BY <1>1, <1>3, Association DEF Minute
<1>7. (minute + 1) * Minute = ((minute + 1) * SecondsPerMinute) * TicksPerSecond
  BY <1>1, <1>3, Association, minute + 1 \in Int DEF Minute
<1>8. minute * SecondsPerMinute < second + 1
  <2>1. (minute * SecondsPerMinute) * TicksPerSecond < (second + 1) * TicksPerSecond
    BY <1>1, <1>2, <1>3, <1>5, <1>6
  <2>2. QED
    BY <1>1, <1>2, <1>5, <2>1, second + 1 \in Int, Cancellation
<1>9. second < (minute + 1) * SecondsPerMinute
  <2>1. second * TicksPerSecond < ((minute + 1) * SecondsPerMinute) * TicksPerSecond
    BY <1>1, <1>2, <1>3, <1>5, <1>7
  <2>2. QED
    BY <1>1, <1>2, <1>5, <2>1, Cancellation
<1>10. (minute + 1) * SecondsPerMinute = minute * SecondsPerMinute + SecondsPerMinute
  BY <1>1, <1>3, Successor
<1>11. QED
  BY <1>1, <1>2, <1>4, <1>5, <1>8, <1>9, <1>10

-----------------------------------------------------------------------------
(* Time never goes back behind the first Monday, and the ticker is only    *)
(* ahead of it while the announcer sleeps.                                 *)
TypeInv ==
  /\ TypeOK /\ FirstMonday <= now
  /\ pc \in {"calculating", "announcing", "resyncing"} => steadyIntervalStart <= now
  /\ pc = "recalculating" => since <= now /\ steadyIntervalStart <= since
  /\ pc = "ticking" => since = steadyIntervalStart

LEMMA ConstantTypes ==
  /\ TicksPerSecond \in Nat \ {0} /\ SecondsPerMinute \in Nat /\ SecondsPerMinute >= 2
  /\ FirstMonday \in Nat /\ Horizon \in Nat /\ FirstMonday <= Horizon
  /\ Latency \in Nat /\ 1 <= Latency /\ Latency < TicksPerSecond
  /\ MaxRecalculation \in Nat
BY ClockAssumption, Units

LEMMA ClockTypes ==
  ASSUME TypeInv
  PROVE  /\ now \in Nat /\ now <= Horizon
         /\ NextFullSecond \in now .. now + TicksPerSecond - 1
         /\ CurrentWeekStart \in 0 .. now
         /\ CurrentSecondIndex \in 0 .. SecondsPerMinute - 1
<1>1. now \in Nat /\ now <= Horizon /\ FirstMonday <= now
  BY ConstantTypes DEF TypeInv, TypeOK
<1>2. QED
  BY <1>1, NextFullSecondIsNext, WeekStartIsPast, SecondIndexIsSet

LEMMA TypeInit ==
  ASSUME Init
  PROVE  TypeInv
<1>1. deal \in [at : 0 .. Horizon \cup {Never}, place : Places]
  BY DEF Init, NoDeal, Places
<1>2. since \in 0 .. Horizon + TicksPerSecond /\ steadyIntervalStart \in 0 .. Horizon + TicksPerSecond
  BY ConstantTypes DEF Init
<1>3. now \in 0 .. Horizon /\ FirstMonday <= now /\ chronoSetIndex \in 0 .. SecondsPerMinute
  BY ConstantTypes DEF Init
<1>4. dropOldRating \in BOOLEAN /\ weekJustTurned \in BOOLEAN /\ badFlag \in BOOLEAN
  BY DEF Init
<1>5. QED
  BY <1>1, <1>2, <1>3, <1>4 DEF Init, TypeInv, TypeOK

LEMMA CountedPlaces ==
  ASSUME NEW place \in Places
  PROVE  Counted(place) \in Places
BY DEF Counted, Places

LEMMA TypeStep ==
  ASSUME TypeInv, [Next]_vars
  PROVE  TypeInv'
<1>1. ASSUME Start
      PROVE  TypeInv'
  <2>1. dropOldRating' \in BOOLEAN
    BY <1>1, Zenon DEF Start
  <2>2. expiration' \in 0 .. Horizon \cup {Never}
    BY <1>1, ClockTypes, ConstantTypes DEF Start, TypeInv, TypeOK
  <2>3. since' \in 0 .. Horizon + TicksPerSecond
    BY <1>1, ClockTypes, ConstantTypes DEF Start, Move
  <2>4. QED
    BY <1>1, <2>1, <2>2, <2>3 DEF Start, Move, TypeInv, TypeOK
<1>2. ASSUME Synced
      PROVE  TypeInv'
  BY <1>2, ClockTypes, ConstantTypes DEF Synced, Move, Awake, TypeInv, TypeOK
<1>3. ASSUME Swap
      PROVE  TypeInv'
  BY <1>3, ConstantTypes DEF Swap, Move, clockVars, NoDeal, Places, TypeInv, TypeOK
<1>4. ASSUME Recalculated
      PROVE  TypeInv'
  <2>1. deal' \in [at : 0 .. Horizon \cup {Never}, place : Places]
    BY <1>4, CountedPlaces DEF Recalculated, TypeInv, TypeOK
  <2>2. expiration' \in 0 .. Horizon \cup {Never}
    BY <1>4, ClockTypes, ConstantTypes DEF Recalculated, TypeInv, TypeOK
  <2>3. dropOldRating' \in BOOLEAN /\ weekJustTurned' \in BOOLEAN /\ badFlag' \in BOOLEAN
    BY <1>4, Zenon DEF Recalculated, TypeInv, TypeOK
  <2>4. now' = now /\ since' = now /\ pc = "recalculating" /\ pc' = "announcing"
        /\ UNCHANGED <<chronoSetIndex, steadyIntervalStart, served, followed>>
    BY <1>4, Zenon DEF Recalculated, Move
  <2>5. QED
    BY <2>1, <2>2, <2>3, <2>4, ConstantTypes DEF TypeInv, TypeOK
<1>5. ASSUME Announce
      PROVE  TypeInv'
  <2>1. steadyIntervalStart' \in 0 .. Horizon + TicksPerSecond /\ chronoSetIndex' \in 0 .. SecondsPerMinute
    BY <1>5, ConstantTypes DEF Announce, Move, TypeInv, TypeOK
  <2>2. QED
    BY <1>5, <2>1, ConstantTypes DEF Announce, Move, TypeInv, TypeOK
<1>6. ASSUME Ticked
      PROVE  TypeInv'
  BY <1>6, ConstantTypes DEF Ticked, Move, Awake, clockVars, TypeInv, TypeOK
<1>7. ASSUME MinuteOver
      PROVE  TypeInv'
  <2>1. weekJustTurned' = (CurrentWeekStart > expiration)
    BY <1>7 DEF MinuteOver
  <2>2. (CurrentWeekStart > expiration) \in BOOLEAN
    OBVIOUS
  <2>3. weekJustTurned' \in BOOLEAN
    BY <2>1, <2>2, Zenon
  <2>4. QED
    BY <1>7, <2>3, ConstantTypes DEF MinuteOver, Move, TypeInv, TypeOK
<1>8. ASSUME LastMinuteServed
      PROVE  TypeInv'
  <2>1. since' \in 0 .. Horizon + TicksPerSecond
    BY <1>8, ClockTypes, ConstantTypes DEF LastMinuteServed, Move
  <2>2. QED
    BY <1>8, <2>1 DEF LastMinuteServed, Move, TypeInv, TypeOK
<1>9. ASSUME Resynced
      PROVE  TypeInv'
  BY <1>9, ClockTypes, ConstantTypes DEF Resynced, Move, Awake, TypeInv, TypeOK
<1>10. ASSUME Leave
       PROVE  TypeInv'
  <2>1. deal' \in [at : 0 .. Horizon \cup {Never}, place : Places]
    BY <1>10 DEF Leave, Places, TypeInv, TypeOK
  <2>2. dropOldRating' \in BOOLEAN /\ weekJustTurned' \in BOOLEAN /\ badFlag' \in BOOLEAN
    BY <1>10, Zenon DEF Leave, TypeInv, TypeOK
  <2>3. now' = now /\ pc' = "down" /\ followed' = followed /\ served' = Never /\ expiration' = expiration
        /\ since' = 0 /\ chronoSetIndex' = 0 /\ steadyIntervalStart' = 0
    BY <1>10, Zenon DEF Leave, Move
  <2>4. since' \in 0 .. Horizon + TicksPerSecond /\ steadyIntervalStart' \in 0 .. Horizon + TicksPerSecond
        /\ chronoSetIndex' \in 0 .. SecondsPerMinute
    BY <2>3, ConstantTypes
  <2>5. QED
    BY <2>1, <2>2, <2>3, <2>4 DEF TypeInv, TypeOK
<1>11. ASSUME Fail
       PROVE  TypeInv'
  BY <1>11 DEF Fail, clockVars, TypeInv, TypeOK
<1>12. ASSUME DealWon
       PROVE  TypeInv'
  BY <1>12 DEF DealWon, clockVars, Places, TypeInv, TypeOK
<1>13. ASSUME Tick
       PROVE  TypeInv'
  BY <1>13, ConstantTypes DEF Tick, clockVars, TypeInv, TypeOK
<1>14. ASSUME UNCHANGED vars
       PROVE  TypeInv'
  BY <1>14 DEF vars, clockVars, TypeInv, TypeOK
<1>15. QED
  BY <1>1, <1>2, <1>3, <1>4, <1>5, <1>6, <1>7, <1>8, <1>9, <1>10, <1>11, <1>12, <1>13, <1>14
     DEF Next, Announcer, TheEnd

(* Nothing that DateTime computes of the clock leaves its range: there is  *)
(* a chrono set for every second, and the ticker is at most a second ahead *)
(* of the clock.                                                           *)
THEOREM TypeCorrect == Spec => []TypeOK
<1>1. Init => TypeInv
  BY TypeInit
<1>2. TypeInv /\ [Next]_vars => TypeInv'
  BY TypeStep
<1>3. TypeInv => TypeOK
  BY DEF TypeInv
<1>4. QED
  BY <1>1, <1>2, <1>3, PTL DEF Spec

-----------------------------------------------------------------------------
LEMMA TimeTypes ==
  ASSUME TypeInv
  PROVE  /\ now \in Nat /\ since \in Nat /\ steadyIntervalStart \in Nat
         /\ chronoSetIndex \in Nat /\ chronoSetIndex <= SecondsPerMinute
         /\ Delay \in Nat /\ Delay = 2 * Latency + MaxRecalculation
BY ConstantTypes DEF TypeInv, TypeOK, Delay

(* The clock's lead over the ticker.                                       *)
LEMMA TickerStep ==
  ASSUME Delay < TicksPerSecond, TypeInv, TickerInv, [Next]_vars
  PROVE  TickerInv'
<1> USE TimeTypes, ConstantTypes
<1>1. ASSUME Start
      PROVE  TickerInv'
  BY <1>1, ClockTypes DEF Start, Move, TickerInv
<1>2. ASSUME Synced
      PROVE  TickerInv'
  BY <1>2, ClockTypes DEF Synced, Move, TickerInv
<1>3. ASSUME Swap
      PROVE  TickerInv'
  BY <1>3 DEF Swap, Move, clockVars, TickerInv
<1>4. ASSUME Recalculated
      PROVE  TickerInv'
  <2>1. now' = now /\ pc = "recalculating" /\ pc' = "announcing"
        /\ UNCHANGED <<chronoSetIndex, steadyIntervalStart>>
        /\ (weekJustTurned' => weekJustTurned)
    BY <1>4, Zenon DEF Recalculated, Move
  <2>2. QED
    BY <2>1 DEF TickerInv, Late
<1>5. ASSUME Announce
      PROVE  TickerInv'
  BY <1>5 DEF Announce, Move, TickerInv, Late
<1>6. ASSUME Ticked
      PROVE  TickerInv'
  BY <1>6 DEF Ticked, Move, Awake, clockVars, TickerInv, Late
<1>7. ASSUME MinuteOver
      PROVE  TickerInv'
  BY <1>7 DEF MinuteOver, Move, TickerInv, Late
<1>8. ASSUME LastMinuteServed
      PROVE  TickerInv'
  BY <1>8, ClockTypes DEF LastMinuteServed, Move, TickerInv, Late
<1>9. ASSUME Resynced
      PROVE  TickerInv'
  BY <1>9, ClockTypes DEF Resynced, Move, Awake, TickerInv
<1>10. ASSUME Leave
       PROVE  TickerInv'
  BY <1>10 DEF Leave, Move, TickerInv
<1>11. ASSUME Fail
       PROVE  TickerInv'
  BY <1>11 DEF Fail, clockVars, TickerInv, Late
<1>12. ASSUME DealWon
       PROVE  TickerInv'
  BY <1>12 DEF DealWon, clockVars, TickerInv, Late
<1>13. ASSUME Tick
       PROVE  TickerInv'
  BY <1>13 DEF Tick, clockVars, TickerInv, Late
<1>14. ASSUME UNCHANGED vars
       PROVE  TickerInv'
  BY <1>14 DEF vars, clockVars, TickerInv, Late
<1>15. QED
  BY <1>1, <1>2, <1>3, <1>4, <1>5, <1>6, <1>7, <1>8, <1>9, <1>10, <1>11, <1>12, <1>13, <1>14
     DEF Next, Announcer, TheEnd

(* What is left of a minute when c seconds of it are over.                 *)
LEMMA Rests ==
  ASSUME NEW c \in 0 .. SecondsPerMinute
  PROVE  /\ (SecondsPerMinute - c) * TicksPerSecond \in 0 .. Minute
         /\ c > 0 => (SecondsPerMinute - c) * TicksPerSecond <= Minute - TicksPerSecond
         /\ c = SecondsPerMinute => (SecondsPerMinute - c) * TicksPerSecond = 0
         /\ c < SecondsPerMinute => (SecondsPerMinute - c) * TicksPerSecond >= TicksPerSecond
<1> DEFINE left == (SecondsPerMinute - c) * TicksPerSecond
           done == c * TicksPerSecond
<1> USE ConstantTypes
<1>1. left \in Nat /\ done \in Nat
  BY Z3
<1>2. Minute = left + done
  BY Z3 DEF Minute
<1>3. /\ c > 0 => done >= TicksPerSecond
      /\ c = SecondsPerMinute => left = 0
      /\ c < SecondsPerMinute => left >= TicksPerSecond
  BY Z3
<1> HIDE DEF left, done
<1>4. /\ left \in 0 .. Minute
      /\ c > 0 => left <= Minute - TicksPerSecond
  BY <1>1, <1>2, <1>3
<1>5. QED
  BY <1>3, <1>4 DEF left

LEMMA MinuteEnds ==
  ASSUME TypeInv
  PROVE  /\ MinuteEnd \in Nat /\ steadyIntervalStart <= MinuteEnd
         /\ MinuteEnd <= steadyIntervalStart + Minute
         /\ chronoSetIndex > 0 => MinuteEnd <= steadyIntervalStart + Minute - TicksPerSecond
         /\ chronoSetIndex = SecondsPerMinute => MinuteEnd = steadyIntervalStart
         /\ chronoSetIndex < SecondsPerMinute => steadyIntervalStart <= MinuteEnd - TicksPerSecond
<1> DEFINE left == (SecondsPerMinute - chronoSetIndex) * TicksPerSecond
<1>1. chronoSetIndex \in 0 .. SecondsPerMinute
  BY DEF TypeInv, TypeOK
<1>2. /\ left \in 0 .. Minute
      /\ chronoSetIndex > 0 => left <= Minute - TicksPerSecond
      /\ chronoSetIndex = SecondsPerMinute => left = 0
      /\ chronoSetIndex < SecondsPerMinute => left >= TicksPerSecond
  BY <1>1, Rests
<1>3. MinuteEnd = steadyIntervalStart + left
  BY DEF MinuteEnd
<1> HIDE DEF left
<1>4. QED
  BY <1>1, <1>2, <1>3, ConstantTypes, TimeTypes, Units

LEMMA AnnounceKeepsMinuteEnd ==
  ASSUME TypeInv, Announce
  PROVE  MinuteEnd' = MinuteEnd
<1> DEFINE rest == SecondsPerMinute - (chronoSetIndex + 1)
<1> USE ConstantTypes, TimeTypes
<1>1. rest \in Int /\ SecondsPerMinute - chronoSetIndex = rest + 1
  OBVIOUS
<1>2. steadyIntervalStart' = steadyIntervalStart + TicksPerSecond /\ chronoSetIndex' = chronoSetIndex + 1
  BY DEF Announce
<1>3. MinuteEnd' = steadyIntervalStart + TicksPerSecond + rest * TicksPerSecond
  BY <1>2 DEF MinuteEnd
<1>4. MinuteEnd = steadyIntervalStart + (rest + 1) * TicksPerSecond
  BY <1>1 DEF MinuteEnd
<1> HIDE DEF rest
<1>5. (rest + 1) * TicksPerSecond = rest * TicksPerSecond + TicksPerSecond
  BY <1>1, Successor
<1>6. rest * TicksPerSecond \in Int
  BY <1>1
<1>7. QED
  BY <1>3, <1>4, <1>5, <1>6

(* The ticker's lead over a deal.                                          *)
LEMMA PendingStep ==
  ASSUME Delay < TicksPerSecond, TypeInv, TypeInv', TickerInv, TickerInv', PendingInv, [Next]_vars
  PROVE  PendingInv'
<1> USE TimeTypes, ConstantTypes
<1>0. Minute \in Nat /\ Minute >= 2 * TicksPerSecond
      /\ deal.at \in Int /\ deal \in [at : 0 .. Horizon \cup {Never}, place : Places]
  BY Units DEF TypeInv, TypeOK, Never
<1>1. ASSUME Start
      PROVE  PendingInv'
  BY <1>0, <1>1, ClockTypes DEF Start, Move, PendingInv
<1>2. ASSUME Synced
      PROVE  PendingInv'
  BY <1>0, <1>2 DEF Synced, Move, PendingInv, TickerInv
<1>3. ASSUME Swap
      PROVE  PendingInv'
  BY <1>0, <1>3 DEF Swap, Move, clockVars, PendingInv, NoDeal
<1>4. ASSUME Recalculated
      PROVE  PendingInv'
  <2>1. now' = now /\ pc = "recalculating" /\ pc' = "announcing"
        /\ UNCHANGED <<chronoSetIndex, steadyIntervalStart>>
    BY <1>4, Zenon DEF Recalculated, Move
  <2>2. deal' = [deal EXCEPT !.place = Counted(deal.place)]
    BY <1>4 DEF Recalculated
  <2>3. \/ deal' = deal /\ deal.place # "draining"
        \/ deal'.at = deal.at /\ deal'.place \in {"rating", "dropped"} /\ deal.place # "nowhere"
    <3>1. CASE deal.place \in {"draining", "rating"}
      BY <1>0, <2>2, <3>1, Zenon DEF Counted, Places
    <3>2. CASE deal.place \notin {"draining", "rating"}
      BY <1>0, <2>2, <3>2 DEF Counted, Places
    <3>3. QED
      BY <3>1, <3>2
  <2>4. MinuteEnd' = MinuteEnd
    BY <2>1 DEF MinuteEnd
  <2>5. QED
    BY <1>0, <2>1, <2>2, <2>3, <2>4 DEF PendingInv, NoDeal, Places, Never
<1>5. ASSUME Announce
      PROVE  PendingInv'
  <2>1. MinuteEnd' = MinuteEnd
    BY <1>5, AnnounceKeepsMinuteEnd
  <2>2. QED
    BY <1>0, <1>5, <2>1 DEF Announce, Move, PendingInv
<1>6. ASSUME Ticked
      PROVE  PendingInv'
  <2>1. MinuteEnd' = MinuteEnd
    BY <1>6 DEF Ticked, clockVars, MinuteEnd
  <2>2. QED
    BY <1>0, <1>6, <2>1 DEF Ticked, Move, clockVars, PendingInv
<1>7. ASSUME MinuteOver
      PROVE  PendingInv'
  <2>1. MinuteEnd = steadyIntervalStart /\ now <= steadyIntervalStart + Delay - 1
    BY <1>7, MinuteEnds DEF MinuteOver, Move, TickerInv, Late
  <2>2. QED
    BY <1>0, <1>7, <2>1 DEF MinuteOver, Move, PendingInv
<1>8. ASSUME LastMinuteServed
      PROVE  PendingInv'
  <2>1. MinuteEnd' = MinuteEnd
    BY <1>8 DEF LastMinuteServed, MinuteEnd
  <2>2. QED
    BY <1>0, <1>8, <2>1 DEF LastMinuteServed, Move, PendingInv
<1>9. ASSUME Resynced
      PROVE  PendingInv'
  <2>1. MinuteEnd = steadyIntervalStart /\ now < steadyIntervalStart + 2 * Latency + TicksPerSecond
    BY <1>9, MinuteEnds DEF Resynced, Move, TickerInv
  <2>2. QED
    BY <1>0, <1>9, <2>1 DEF Resynced, Move, PendingInv
<1>10. ASSUME Leave
       PROVE  PendingInv'
  BY <1>0, <1>10 DEF Leave, Move, PendingInv, NoDeal
<1>11. ASSUME Fail
       PROVE  PendingInv'
  <2>1. MinuteEnd' = MinuteEnd
    BY <1>11 DEF Fail, clockVars, MinuteEnd
  <2>2. QED
    BY <1>0, <1>11, <2>1 DEF Fail, clockVars, PendingInv
<1>12. ASSUME DealWon
       PROVE  PendingInv'
  <2>1. MinuteEnd' = MinuteEnd /\ UNCHANGED <<now, pc, since, steadyIntervalStart, chronoSetIndex>>
    BY <1>12 DEF DealWon, clockVars, MinuteEnd
  <2>2. pc # "down" /\ deal' = [at |-> now, place |-> "incoming"]
    BY <1>12 DEF DealWon
  <2>3. pc = "syncing" => since < now + TicksPerSecond
    BY DEF TickerInv
  <2>4. pc \in {"recalculating", "announcing", "resyncing"} => steadyIntervalStart <= now
    BY DEF TypeInv
  <2>5. pc = "ticking" => chronoSetIndex > 0 /\ steadyIntervalStart <= now + TicksPerSecond
    BY DEF TickerInv
  <2>6. pc \in {"recalculating", "announcing", "ticking", "resyncing"} => MinuteEnd <= now + Minute
    BY <1>0, <2>4, <2>5, MinuteEnds
  <2>7. QED
    BY <1>0, <2>1, <2>2, <2>3, <2>6 DEF PendingInv
<1>13. ASSUME Tick
       PROVE  PendingInv'
  <2>1. MinuteEnd' = MinuteEnd
    BY <1>13 DEF Tick, clockVars, MinuteEnd
  <2>2. QED
    BY <1>0, <1>13, <2>1 DEF Tick, clockVars, PendingInv
<1>14. ASSUME UNCHANGED vars
       PROVE  PendingInv'
  <2>1. MinuteEnd' = MinuteEnd
    BY <1>14 DEF vars, clockVars, MinuteEnd
  <2>2. QED
    BY <1>14, <2>1 DEF vars, clockVars, PendingInv
<1>15. QED
  BY <1>1, <1>2, <1>3, <1>4, <1>5, <1>6, <1>7, <1>8, <1>9, <1>10, <1>11, <1>12, <1>13, <1>14
     DEF Next, Announcer, TheEnd

(* The ticker's lead over the last announcement of a set.                  *)
LEMMA ServedStep ==
  ASSUME Delay < TicksPerSecond, TypeInv, TypeInv', TickerInv, ServedInv, [Next]_vars
  PROVE  ServedInv'
<1> USE TimeTypes, ConstantTypes
<1>0. /\ Minute \in Nat /\ Minute >= 2 * TicksPerSecond
      /\ served \in Int /\ LastSet = SecondsPerMinute - 1 /\ LastSet # 0
      /\ Never = -1 /\ followed \in Int
  BY Units DEF TypeInv, TypeOK, Never, LastSet
<1>1. ASSUME Start
      PROVE  ServedInv'
  BY <1>1 DEF Start, Move, ServedInv, Serving
<1>2. ASSUME Synced
      PROVE  ServedInv'
  BY <1>2 DEF Synced, Move, ServedInv, Serving
<1>3. ASSUME Swap
      PROVE  ServedInv'
  <2>1. MinuteEnd' = MinuteEnd
    BY <1>3 DEF Swap, clockVars, MinuteEnd
  <2>2. QED
    BY <1>0, <1>3, <2>1 DEF Swap, Move, clockVars, ServedInv, Serving
<1>4. ASSUME Recalculated
      PROVE  ServedInv'
  <2>1. now' = now /\ pc = "recalculating" /\ pc' = "announcing"
        /\ UNCHANGED <<chronoSetIndex, steadyIntervalStart, served, followed>>
        /\ (weekJustTurned' => weekJustTurned)
    BY <1>4, Zenon DEF Recalculated, Move
  <2>2. MinuteEnd' = MinuteEnd
    BY <2>1 DEF MinuteEnd
  <2>3. QED
    BY <1>0, <2>1, <2>2 DEF ServedInv, Serving
<1>5. ASSUME Announce
      PROVE  ServedInv'
  <2>1. MinuteEnd' = MinuteEnd /\ MinuteEnd \in Nat
    BY <1>5, AnnounceKeepsMinuteEnd, MinuteEnds
  <2>2. /\ pc = "announcing" /\ pc' \in {"announcing", "ticking"} /\ now' = now /\ followed' = followed
        /\ steadyIntervalStart' = steadyIntervalStart + TicksPerSecond
        /\ chronoSetIndex < SecondsPerMinute /\ chronoSetIndex' = chronoSetIndex + 1
        /\ (weekJustTurned' => weekJustTurned)
        /\ served' = IF chronoSetIndex = followed THEN now ELSE served
    BY <1>5 DEF Announce, Move
  <2>3. steadyIntervalStart <= now /\ now <= steadyIntervalStart + Delay + TicksPerSecond - 1
    BY <2>2 DEF TickerInv, Late
  <2>4. Late(Delay)'
    BY <2>2, <2>3 DEF Late
  <2>5. chronoSetIndex = LastSet => MinuteEnd' = steadyIntervalStart'
    BY <1>0, <2>2, MinuteEnds DEF MinuteEnd
  <2>6. MinuteEnd <= steadyIntervalStart + Minute
        /\ (chronoSetIndex > 0 => MinuteEnd <= steadyIntervalStart + Minute - TicksPerSecond)
    BY MinuteEnds
  <2>7. CASE chronoSetIndex = followed
    BY <1>0, <2>1, <2>2, <2>3, <2>4, <2>5, <2>6, <2>7 DEF ServedInv, Serving
  <2>8. CASE chronoSetIndex # followed
    BY <1>0, <2>1, <2>2, <2>3, <2>4, <2>5, <2>6, <2>8 DEF ServedInv, Serving
  <2>9. QED
    BY <2>7, <2>8
<1>6. ASSUME Ticked
      PROVE  ServedInv'
  <2>1. MinuteEnd' = MinuteEnd
    BY <1>6 DEF Ticked, clockVars, MinuteEnd
  <2>2. Late(Delay)'
    BY <1>6 DEF Ticked, Move, clockVars, TickerInv, Late
  <2>3. QED
    BY <1>0, <1>6, <2>1, <2>2 DEF Ticked, Move, clockVars, ServedInv, Serving
<1>7. ASSUME MinuteOver
      PROVE  ServedInv'
  <2>1. MinuteEnd = steadyIntervalStart
    BY <1>7, MinuteEnds DEF MinuteOver
  <2>2. MinuteEnd' = steadyIntervalStart + Minute
    BY <1>7 DEF MinuteOver, MinuteEnd, Minute
  <2>3. QED
    BY <1>0, <1>7, <2>1, <2>2 DEF MinuteOver, Move, ServedInv, Serving
<1>8. ASSUME LastMinuteServed
      PROVE  ServedInv'
  <2>1. MinuteEnd' = MinuteEnd
    BY <1>8 DEF LastMinuteServed, MinuteEnd
  <2>2. QED
    BY <1>0, <1>8, <2>1 DEF LastMinuteServed, Move, ServedInv, Serving
<1>9. ASSUME Resynced
      PROVE  ServedInv'
  <2>1. chronoSetIndex = SecondsPerMinute /\ MinuteEnd = steadyIntervalStart
    BY <1>9, MinuteEnds DEF Resynced, Move, TickerInv
  <2>2. /\ MinuteEnd' \in Nat /\ chronoSetIndex' \in Nat
        /\ MinuteEnd' <= steadyIntervalStart + Minute
        /\ chronoSetIndex' > 0 => MinuteEnd' <= steadyIntervalStart + Minute - TicksPerSecond
    <3> DEFINE left == (SecondsPerMinute - chronoSetIndex') * TicksPerSecond
    <3>1. chronoSetIndex' \in 0 .. SecondsPerMinute
      BY DEF TypeInv, TypeOK
    <3>2. left \in 0 .. Minute /\ (chronoSetIndex' > 0 => left <= Minute - TicksPerSecond)
      BY <3>1, Rests
    <3>3. MinuteEnd' = steadyIntervalStart + left
      BY <1>9 DEF Resynced, MinuteEnd
    <3> HIDE DEF left
    <3>4. QED
      BY <1>0, <3>1, <3>2, <3>3
  <2>3. ~weekJustTurned'
    BY <1>9 DEF Resynced, Move, TickerInv
  <2>4. QED
    BY <1>0, <1>9, <2>1, <2>2, <2>3 DEF Resynced, Move, ServedInv, Serving
<1>10. ASSUME Leave
       PROVE  ServedInv'
  BY <1>10 DEF Leave, Move, ServedInv, Serving
<1>11. ASSUME Fail
       PROVE  ServedInv'
  <2>1. MinuteEnd' = MinuteEnd
    BY <1>11 DEF Fail, clockVars, MinuteEnd
  <2>2. QED
    BY <1>0, <1>11, <2>1 DEF Fail, clockVars, ServedInv, Serving, Late
<1>12. ASSUME DealWon
       PROVE  ServedInv'
  <2>1. MinuteEnd' = MinuteEnd
    BY <1>12 DEF DealWon, clockVars, MinuteEnd
  <2>2. QED
    BY <1>0, <1>12, <2>1 DEF DealWon, clockVars, ServedInv, Serving, Late
<1>13. ASSUME Tick
       PROVE  ServedInv'
  <2>1. MinuteEnd' = MinuteEnd
    BY <1>13 DEF Tick, clockVars, MinuteEnd
  <2>2. QED
    BY <1>0, <1>13, <2>1 DEF Tick, clockVars, ServedInv, Serving
<1>14. ASSUME UNCHANGED vars
       PROVE  ServedInv'
  <2>1. MinuteEnd' = MinuteEnd
    BY <1>14 DEF vars, clockVars, MinuteEnd
  <2>2. QED
    BY <1>14, <2>1 DEF vars, clockVars, ServedInv, Serving, Late
<1>15. QED
  BY <1>1, <1>2, <1>3, <1>4, <1>5, <1>6, <1>7, <1>8, <1>9, <1>10, <1>11, <1>12, <1>13, <1>14
     DEF Next, Announcer, TheEnd

-----------------------------------------------------------------------------
LEMMA PaceInit ==
  ASSUME Init
  PROVE  PaceInv
BY DEF Init, PaceInv, TickerInv, ServedInv, Serving, PendingInv, NoDeal

(* The clock's lead over the ticker, and the ticker's over what has been   *)
(* announced and what has not been counted, are bounded in every step.     *)
THEOREM PaceInvHolds ==
  ASSUME Delay < TicksPerSecond
  PROVE  Spec => [](TypeInv /\ PaceInv)
<1>1. Init => TypeInv /\ PaceInv
  BY TypeInit, PaceInit
<1>2. TypeInv /\ PaceInv /\ [Next]_vars => (TypeInv /\ PaceInv)'
  BY TypeStep, TickerStep, ServedStep, PendingStep DEF PaceInv
<1>3. QED
  BY <1>1, <1>2, PTL DEF Spec

(* A deal waits a minute to be counted, and the second and the delays that *)
(* a session's start or a week's turn may add.                             *)
THEOREM DealsAreCountedSoon ==
  ASSUME Delay < TicksPerSecond
  PROVE  Spec => []DealsCountSoon
<1>1. TypeInv /\ PaceInv => DealsCountSoon
  <2> SUFFICES ASSUME TypeInv, TickerInv, PendingInv, deal.place \in {"incoming", "draining"}
               PROVE  now <= deal.at + Minute + TicksPerSecond + Delay
    BY DEF DealsCountSoon, PaceInv
  <2> USE TimeTypes, ConstantTypes
  <2>1. Minute \in Nat /\ Minute >= 2 * TicksPerSecond /\ deal.at \in Int
    BY Units DEF TypeInv, TypeOK, Never
  <2>2. CASE deal.place = "draining"
    BY <2>1, <2>2 DEF PendingInv, TickerInv
  <2>3. CASE deal.place = "incoming" /\ pc \in {"syncing", "calculating"}
    BY <2>1, <2>3 DEF PendingInv, TickerInv
  <2>4. CASE deal.place = "incoming" /\ pc \in {"recalculating", "announcing", "ticking", "resyncing"}
    <3>1. MinuteEnd \in Nat /\ steadyIntervalStart <= MinuteEnd /\ MinuteEnd <= deal.at + Minute
      BY <2>4, MinuteEnds DEF PendingInv
    <3>2. now <= steadyIntervalStart + Delay + TicksPerSecond
      BY <2>4 DEF TickerInv, Late
    <3>3. QED
      BY <2>1, <3>1, <3>2
  <2>5. QED
    BY <2>2, <2>3, <2>4 DEF PendingInv, TypeInv, TypeOK
<1>2. QED
  BY <1>1, PaceInvHolds, PTL

(* Every minute the last set is announced, and the first one but in the    *)
(* minute in which the week turns, however late single seconds are.        *)
THEOREM MinutesStayRegular ==
  ASSUME Delay < TicksPerSecond
  PROVE  Spec => []MinutesAreRegular
<1>1. TypeInv /\ PaceInv => MinutesAreRegular
  <2> SUFFICES ASSUME TypeInv, TickerInv, ServedInv, pc \in {"announcing", "ticking"}, served # Never
               PROVE  now <= served + Delay + (IF followed = 0 THEN 2 * Minute ELSE Minute)
    BY DEF MinutesAreRegular, PaceInv
  <2> USE TimeTypes, ConstantTypes
  <2>1. /\ Minute \in Nat /\ Minute >= 2 * TicksPerSecond
        /\ served \in Int /\ LastSet # 0
    BY Units DEF TypeInv, TypeOK, Never, LastSet
  <2>2. /\ MinuteEnd \in Nat /\ steadyIntervalStart <= MinuteEnd
        /\ chronoSetIndex < SecondsPerMinute => steadyIntervalStart <= MinuteEnd - TicksPerSecond
    BY MinuteEnds
  <2>3. now <= steadyIntervalStart + Delay + TicksPerSecond - 1
        /\ (pc = "ticking" \/ chronoSetIndex = SecondsPerMinute => Late(Delay))
    BY DEF TickerInv, Late
  <2>4. CASE Serving(0)
    BY <2>1, <2>2, <2>3, <2>4 DEF ServedInv, Serving
  <2>5. CASE Serving(LastSet)
    BY <2>1, <2>2, <2>3, <2>5 DEF ServedInv, Serving, Late
  <2>6. Serving(0) \/ Serving(LastSet)
    BY DEF Serving, ServedInv, TypeInv, TypeOK
  <2>7. QED
    BY <2>4, <2>5, <2>6
<1>2. QED
  BY <1>1, PaceInvHolds, PTL

-----------------------------------------------------------------------------
(* The week of the rating is over when it is due.                          *)
Due == expiration + Week

IsWeekStart(t) == \E k \in Int : t = k * Week + FirstMonday

(* The ticker of a session that has begun at the end of a week: it starts  *)
(* after its second, but no second of it is late by more.                  *)
Fresh ==
  /\ pc = "calculating" => now = steadyIntervalStart
  /\ pc = "recalculating" => since = steadyIntervalStart
  /\ pc = "announcing" => Late(Latency) \/ (chronoSetIndex < SecondsPerMinute /\ Late(MaxRecalculation))

(* Which week the rating is of, and whether it is to be dropped.           *)
ExpirationInv ==
  /\ IF expiration = Never THEN pc = "down" /\ deal = NoDeal
     ELSE expiration <= now /\ IsWeekStart(expiration)
  /\ weekJustTurned \/ dropOldRating => expiration # Never /\ Due <= now
  /\ weekJustTurned => ~dropOldRating
  /\ pc \in {"down", "announcing", "ticking"} => ~dropOldRating
  /\ pc = "resyncing" => dropOldRating

(* How long the old rating is served: a minute that begins in the week,    *)
(* and one more.                                                           *)
TurnInv ==
  /\ pc = "syncing" /\ ~dropOldRating => since <= Due
  /\ pc \in {"calculating", "recalculating", "announcing", "ticking"} /\ ~dropOldRating =>
       IF weekJustTurned THEN MinuteEnd <= Due + 2 * Minute + Latency
       ELSE MinuteEnd < Due + Minute \/ (MinuteEnd <= Due + Minute + Latency /\ Fresh)
  /\ pc = "resyncing" => steadyIntervalStart <= Due + 2 * Minute + Latency
  /\ pc = "calculating" /\ ~dropOldRating => now <= Due + Minute + Delay
  /\ pc = "recalculating" /\ ~dropOldRating => since <= Due + Minute + Delay

(* What a new rating counts came after the old one was due, or while the   *)
(* session began.                                                          *)
ForTheNewRating(moment) ==
  \/ (Due <= deal.at /\ moment <= Due + 2 * Minute + 3 * Latency + TicksPerSecond)
  \/ moment < deal.at + TicksPerSecond + Latency

IncomingInv ==
  deal.place = "incoming" =>
    /\ expiration <= deal.at + MaxRecalculation
    /\ (weekJustTurned /\ pc # "calculating") \/ pc = "resyncing" => Due <= deal.at
    /\ pc = "calculating" /\ dropOldRating => ForTheNewRating(now)
    /\ pc = "recalculating" => since <= deal.at

DrainingInv ==
  deal.place = "draining" =>
    /\ pc = "recalculating" /\ deal.at <= since
    /\ expiration <= deal.at + MaxRecalculation
    /\ dropOldRating => ForTheNewRating(since)

RatingInv ==
  deal.place = "rating" =>
    deal.at <= Due + Minute + Delay /\ expiration <= deal.at + TicksPerSecond + Delay

WeekInv ==
  /\ ExpirationInv /\ TurnInv
  /\ IncomingInv /\ DrainingInv /\ RatingInv /\ DealsCountAllWeek

(* Weeks of a few minutes at least, which begin with a full second: those  *)
(* of DateTime have 10080 and begin at midnight.                           *)
Calendar == MinutesPerWeek >= 4 /\ \E f \in Int : FirstMonday = f * TicksPerSecond

-----------------------------------------------------------------------------
LEMMA Remainder ==
  ASSUME NEW k \in Int, NEW w \in Nat \ {0}, NEW r \in Nat, r < w
  PROVE  (k * w + r) % w = r
BY Z3

LEMMA WeekIsLong == ASSUME Calendar PROVE 4 * Minute <= Week
<1>1. MinutesPerWeek \in Nat /\ Minute \in Nat /\ MinutesPerWeek >= 4
  BY ClockAssumption, Units DEF Calendar
<1>2. (MinutesPerWeek - 4) * Minute >= 0
  BY <1>1, Z3
<1>3. MinutesPerWeek * Minute = (MinutesPerWeek - 4) * Minute + 4 * Minute
  BY <1>1, Z3
<1>4. QED
  BY <1>1, <1>2, <1>3, Z3 DEF Week

LEMMA CurrentWeekHasBegun ==
  ASSUME now \in Nat
  PROVE  IsWeekStart(CurrentWeekStart) /\ CurrentWeekStart <= now /\ now < CurrentWeekStart + Week
<1> DEFINE q == (now - FirstMonday) \div Week
<1>1. Week \in Nat \ {0} /\ FirstMonday \in Nat /\ now - FirstMonday \in Int
  BY Units, ClockAssumption
<1>2. q \in Int /\ q * Week \in Int
      /\ q * Week <= now - FirstMonday /\ now - FirstMonday < q * Week + Week
  BY <1>1, Division
<1>3. CurrentWeekStart = q * Week + FirstMonday
  BY DEF CurrentWeekStart
<1>4. IsWeekStart(CurrentWeekStart)
  BY <1>2, <1>3 DEF IsWeekStart
<1> HIDE DEF q
<1>5. QED
  BY <1>1, <1>2, <1>3, <1>4

LEMMA WeeksAreApart ==
  ASSUME NEW s, NEW t, IsWeekStart(s), IsWeekStart(t), s < t
  PROVE  s \in Int /\ t \in Int /\ s + Week <= t
<1>1. Week \in Nat \ {0} /\ FirstMonday \in Nat
  BY Units, ClockAssumption
<1>2. PICK k \in Int : s = k * Week + FirstMonday
  BY DEF IsWeekStart
<1>3. PICK j \in Int : t = j * Week + FirstMonday
  BY DEF IsWeekStart
<1>4. k * Week \in Int /\ j * Week \in Int
  BY <1>1
<1>5. k < j
  <2>1. k * Week < j * Week
    BY <1>1, <1>2, <1>3, <1>4
  <2>2. QED
    BY <1>1, <2>1, Cancellation
<1>6. (k + 1) * Week <= j * Week
  <2>1. (j - (k + 1)) * Week >= 0
    BY <1>1, <1>5, Z3
  <2>2. j * Week = (j - (k + 1)) * Week + (k + 1) * Week
    BY <1>1, Z3
  <2>3. (j - (k + 1)) * Week \in Int /\ (k + 1) * Week \in Int
    BY <1>1
  <2>4. QED
    BY <2>1, <2>2, <2>3
<1>7. (k + 1) * Week = k * Week + Week
  BY <1>1, Successor
<1>8. QED
  BY <1>1, <1>2, <1>3, <1>4, <1>6, <1>7

(* The end of a moment's week.                                             *)
LEMMA WeekEnds ==
  ASSUME NEW t \in Nat
  PROVE  WeekEnd(t) \in t + 1 .. t + Week /\ IsWeekStart(WeekEnd(t))
<1> DEFINE q == (t - FirstMonday) \div Week
           e == q * Week + FirstMonday + Week
<1>1. Week \in Nat \ {0} /\ FirstMonday \in Nat /\ FirstMonday < Week /\ t - FirstMonday \in Int
  BY Units, ClockAssumption
<1>2. q \in Int /\ q * Week \in Int
      /\ q * Week <= t - FirstMonday /\ t - FirstMonday < q * Week + Week
  BY <1>1, Division
<1> HIDE DEF q
<1>3. e \in t + 1 .. t + Week
  BY <1>1, <1>2
<1>4. e % Week = FirstMonday
  <2>1. e = (q + 1) * Week + FirstMonday
    BY <1>1, <1>2, Successor
  <2>2. QED
    BY <1>1, <1>2, <2>1, Remainder
<1>5. WeekEnd(t) \in t + 1 .. t + Week /\ WeekEnd(t) % Week = FirstMonday
  <2> HIDE DEF e
  <2>1. QED
    BY <1>3, <1>4 DEF WeekEnd
<1>6. WeekEnd(t) = (WeekEnd(t) \div Week) * Week + FirstMonday
  BY <1>1, <1>5, Z3
<1>7. WeekEnd(t) \div Week \in Int
  BY <1>1, <1>5, Division
<1>8. QED
  BY <1>5, <1>6, <1>7 DEF IsWeekStart

(* A second that has begun before a week is over ends in it.               *)
LEMMA WeeksBeginWithASecond ==
  ASSUME Calendar, now \in Nat, NEW t, IsWeekStart(t), now < t
  PROVE  NextFullSecond <= t
<1> DEFINE q == (-now) \div TicksPerSecond
<1>1. TicksPerSecond \in Nat \ {0} /\ -now \in Int /\ SecondsPerMinute \in Nat /\ MinutesPerWeek \in Nat
  BY ClockAssumption
<1>2. q \in Int /\ q * TicksPerSecond \in Int
      /\ q * TicksPerSecond <= -now /\ -now < q * TicksPerSecond + TicksPerSecond
  BY <1>1, Division
<1>3. NextFullSecond = -(q * TicksPerSecond)
  BY DEF NextFullSecond
<1>4. PICK m \in Int : t = m * TicksPerSecond
  <2>1. PICK f \in Int : FirstMonday = f * TicksPerSecond
    BY DEF Calendar
  <2>2. PICK k \in Int : t = k * Week + FirstMonday
    BY DEF IsWeekStart
  <2> DEFINE s == MinutesPerWeek * SecondsPerMinute
  <2>3. s \in Int /\ Week = s * TicksPerSecond
    BY <1>1, Z3 DEF Week, Minute
  <2> HIDE DEF s
  <2>4. k * Week = (k * s) * TicksPerSecond
    BY <1>1, <2>3, Association
  <2>5. k * s + f \in Int
    BY <2>3
  <2>6. (k * s + f) * TicksPerSecond = (k * s) * TicksPerSecond + f * TicksPerSecond
    BY <1>1, <2>3, Z3
  <2>7. QED
    BY <2>1, <2>2, <2>4, <2>5, <2>6
<1> HIDE DEF q
<1>5. (-q - 1) * TicksPerSecond < m * TicksPerSecond
  <2>1. (-q - 1) * TicksPerSecond = -(q * TicksPerSecond) - TicksPerSecond
    BY <1>1, <1>2, Z3
  <2>2. QED
    BY <1>1, <1>2, <1>4, <2>1
<1>6. -q <= m
  <2>1. -q - 1 < m
    BY <1>1, <1>2, <1>5, Cancellation, -q - 1 \in Int
  <2>2. QED
    BY <1>2, <2>1
<1>7. (-q) * TicksPerSecond <= m * TicksPerSecond
  <2>1. (m - (-q)) * TicksPerSecond >= 0
    BY <1>1, <1>2, <1>6, Z3
  <2>2. m * TicksPerSecond = (m - (-q)) * TicksPerSecond + (-q) * TicksPerSecond
    BY <1>1, <1>2, Z3
  <2>3. (m - (-q)) * TicksPerSecond \in Int /\ (-q) * TicksPerSecond \in Int
    BY <1>1, <1>2
  <2>4. QED
    BY <2>1, <2>2, <2>3
<1>8. (-q) * TicksPerSecond = -(q * TicksPerSecond)
  BY <1>1, <1>2, Z3
<1>9. QED
  BY <1>3, <1>4, <1>7, <1>8

-----------------------------------------------------------------------------
LEMMA WeekTypes ==
  ASSUME TypeInv, ExpirationInv
  PROVE  /\ Week \in Nat /\ Minute \in Nat /\ Week >= 1
         /\ expiration \in Int /\ Due \in Int /\ Due = expiration + Week
         /\ expiration # Never => expiration \in Nat
         /\ CurrentWeekStart \in Nat /\ CurrentWeekStart <= now /\ now < CurrentWeekStart + Week
         /\ IsWeekStart(CurrentWeekStart)
BY Units, TimeTypes, ConstantTypes, ClockTypes, CurrentWeekHasBegun
   DEF ExpirationInv, TypeInv, TypeOK, Due, Never

(* What the announcer learns by comparing the week's start.                *)
LEMMA WeekTurns ==
  ASSUME TypeInv, ExpirationInv, expiration # Never
  PROVE  /\ CurrentWeekStart # expiration => CurrentWeekStart > expiration
         /\ CurrentWeekStart > expiration => Due <= now
         /\ CurrentWeekStart <= expiration => now < Due
<1>1. IsWeekStart(expiration) /\ expiration <= now
  BY DEF ExpirationInv
<1>0. /\ now \in Int /\ expiration \in Int /\ Week \in Nat /\ Week >= 1 /\ Due = expiration + Week
      /\ CurrentWeekStart \in Int /\ CurrentWeekStart <= now /\ now < CurrentWeekStart + Week
      /\ IsWeekStart(CurrentWeekStart)
  BY WeekTypes, TimeTypes
<1>2. ASSUME CurrentWeekStart < expiration
      PROVE  FALSE
  <2>1. CurrentWeekStart + Week <= expiration
    BY <1>0, <1>1, <1>2, WeeksAreApart
  <2>2. QED
    BY <1>0, <1>1, <2>1
<1>3. ASSUME CurrentWeekStart > expiration
      PROVE  Due <= now
  <2>1. expiration < CurrentWeekStart
    BY <1>0, <1>3
  <2>2. expiration + Week <= CurrentWeekStart
    BY <1>0, <1>1, <2>1, WeeksAreApart
  <2>3. QED
    BY <1>0, <2>2
<1>4. CurrentWeekStart = expiration => now < Due
  BY <1>0
<1>5. QED
  BY <1>0, <1>2, <1>3, <1>4

(* Which week the rating is of.                                            *)
LEMMA ExpirationStep ==
  ASSUME TypeInv, TickerInv, ExpirationInv, [Next]_vars
  PROVE  ExpirationInv'
<1> USE WeekTypes, TimeTypes
<1>1. ASSUME Start
      PROVE  ExpirationInv'
  <2>1. /\ pc = "down" /\ pc' = "syncing" /\ now' = now /\ weekJustTurned' = weekJustTurned
        /\ expiration' = IF expiration = Never THEN CurrentWeekStart ELSE expiration
        /\ dropOldRating' => expiration' # CurrentWeekStart
    BY <1>1, Zenon DEF Start, Move
  <2>2. ~weekJustTurned
    BY <2>1 DEF TickerInv
  <2>3. CASE expiration = Never
    BY <2>1, <2>2, <2>3 DEF ExpirationInv, IsWeekStart, Never
  <2>4. CASE expiration # Never
    BY <2>1, <2>2, <2>4, WeekTurns DEF ExpirationInv, IsWeekStart, Due
  <2>5. QED
    BY <2>3, <2>4
<1>2. ASSUME Recalculated
      PROVE  ExpirationInv'
  <2>1. /\ pc = "recalculating" /\ pc' = "announcing" /\ now' = now /\ weekJustTurned' = weekJustTurned
        /\ ~dropOldRating' /\ expiration # Never
    BY <1>2, Zenon DEF Recalculated, Move, ExpirationInv
  <2>2. CASE dropOldRating
    <3>1. expiration' = CurrentWeekStart
      BY <1>2, <2>2 DEF Recalculated
    <3>2. QED
      BY <2>1, <2>2, <3>1 DEF ExpirationInv, IsWeekStart, Never
  <2>3. CASE ~dropOldRating
    <3>1. expiration' = expiration
      BY <1>2, <2>3 DEF Recalculated
    <3>2. QED
      BY <2>1, <2>3, <3>1 DEF ExpirationInv, IsWeekStart, Due
  <2>4. QED
    BY <2>2, <2>3
<1>3. ASSUME MinuteOver
      PROVE  ExpirationInv'
  <2>1. /\ pc = "announcing" /\ pc' = "calculating"
        /\ UNCHANGED <<now, expiration, dropOldRating, deal>>
        /\ weekJustTurned' => CurrentWeekStart > expiration
    BY <1>3, Zenon DEF MinuteOver, Move
  <2>2. QED
    BY <2>1, WeekTurns DEF ExpirationInv, IsWeekStart, Due
<1>4. ASSUME pc # "down", pc' # "down", UNCHANGED <<now, expiration, dropOldRating, weekJustTurned>>,
             pc' \in {"announcing", "ticking"} => ~dropOldRating, pc' # "resyncing"
      PROVE  ExpirationInv'
  BY <1>4 DEF ExpirationInv, IsWeekStart, Due
<1>5. ASSUME Synced \/ Swap \/ Announce \/ Ticked \/ Resynced
      PROVE  ExpirationInv'
  BY <1>4, <1>5 DEF Synced, Swap, Announce, Ticked, Resynced, Move, clockVars, ExpirationInv
<1>8. ASSUME LastMinuteServed
      PROVE  ExpirationInv'
  BY <1>8 DEF LastMinuteServed, Move, ExpirationInv, IsWeekStart, Due
<1>9. ASSUME Leave
      PROVE  ExpirationInv'
  <2>1. /\ pc = "announcing" /\ pc' = "down" /\ ~weekJustTurned'
        /\ UNCHANGED <<now, expiration, dropOldRating>>
    BY <1>9, Zenon DEF Leave, Move
  <2>2. QED
    BY <2>1 DEF ExpirationInv, IsWeekStart, Due
<1>6. ASSUME Fail \/ DealWon \/ Tick \/ UNCHANGED vars
      PROVE  ExpirationInv'
  BY <1>6 DEF Fail, DealWon, Tick, vars, clockVars, ExpirationInv, IsWeekStart, Due
<1>7. QED
  BY <1>1, <1>2, <1>3, <1>5, <1>6, <1>8, <1>9 DEF Next, Announcer, TheEnd

(* How long the old rating is served.                                      *)
LEMMA TurnStep ==
  ASSUME Delay < TicksPerSecond, Calendar, TypeInv, TypeInv', TickerInv, ExpirationInv, TurnInv, [Next]_vars
  PROVE  TurnInv'
<1> USE TimeTypes, ConstantTypes, WeekTypes
<1>0. Minute >= 2 * TicksPerSecond
  BY Units
<1>1. ASSUME Start
      PROVE  TurnInv'
  <2>1. /\ pc = "down" /\ pc' = "syncing" /\ now' = now /\ since' = NextFullSecond
        /\ expiration' = IF expiration = Never THEN CurrentWeekStart ELSE expiration
        /\ ~dropOldRating' => expiration' = CurrentWeekStart
    BY <1>1, Zenon DEF Start, Move
  <2>2. ~dropOldRating' => since' <= Due'
    <3>1. IsWeekStart(CurrentWeekStart + Week)
      <4>1. PICK k \in Int : CurrentWeekStart = k * Week + FirstMonday
        BY DEF IsWeekStart
      <4>2. (k + 1) * Week = k * Week + Week /\ k * Week \in Int
        BY Successor
      <4>3. QED
        BY <4>1, <4>2 DEF IsWeekStart
    <3>2. NextFullSecond <= CurrentWeekStart + Week
      BY <3>1, WeeksBeginWithASecond
    <3>3. QED
      BY <2>1, <3>2 DEF Due
  <2>3. QED
    BY <2>1, <2>2 DEF TurnInv
<1>2. ASSUME Synced
      PROVE  TurnInv'
  <2>1. /\ pc = "syncing" /\ pc' = "calculating" /\ steadyIntervalStart' = now
        /\ UNCHANGED <<now, expiration, dropOldRating, weekJustTurned>>
        /\ ~weekJustTurned /\ now <= since + Latency
    BY <1>2 DEF Synced, Move, TickerInv
  <2>2. MinuteEnd' <= now + Minute
    <3>1. chronoSetIndex' \in 0 .. SecondsPerMinute
      BY DEF TypeInv, TypeOK
    <3>2. (SecondsPerMinute - chronoSetIndex') * TicksPerSecond \in 0 .. Minute
      BY <3>1, Rests
    <3>3. QED
      BY <2>1, <3>2 DEF MinuteEnd
  <2>3. MinuteEnd' \in Int
    BY <2>1 DEF MinuteEnd, TypeInv, TypeOK
  <2>4. Due' = Due
    BY <2>1 DEF Due
  <2>5. QED
    BY <2>1, <2>2, <2>3, <2>4 DEF TurnInv, Fresh
<1>3. ASSUME Swap
      PROVE  TurnInv'
  <2>1. /\ pc = "calculating" /\ pc' = "recalculating" /\ since' = now
        /\ MinuteEnd' = MinuteEnd /\ Due' = Due
        /\ UNCHANGED <<now, dropOldRating, weekJustTurned, steadyIntervalStart>>
    BY <1>3 DEF Swap, Move, clockVars, MinuteEnd, Due
  <2>2. QED
    BY <2>1 DEF TurnInv, Fresh
<1>4. ASSUME Recalculated
      PROVE  TurnInv'
  <2>1. /\ pc = "recalculating" /\ pc' = "announcing" /\ ~dropOldRating'
        /\ UNCHANGED <<now, weekJustTurned, chronoSetIndex, steadyIntervalStart>>
    BY <1>4, Zenon DEF Recalculated, Move
  <2>2. MinuteEnd' = MinuteEnd
    BY <2>1 DEF MinuteEnd
  <2>3. now <= since + MaxRecalculation /\ chronoSetIndex < SecondsPerMinute
    BY <2>1 DEF TickerInv
  <2>4. CASE dropOldRating
    <3>1. Due' = CurrentWeekStart + Week
      BY <1>4, <2>4 DEF Recalculated, Due
    <3>2. ~weekJustTurned
      BY <2>4 DEF ExpirationInv
    <3>3. MinuteEnd <= steadyIntervalStart + Minute /\ MinuteEnd \in Nat /\ steadyIntervalStart <= now
      BY <2>1, MinuteEnds DEF TypeInv
    <3>4. QED
      BY <2>1, <2>2, <3>1, <3>2, <3>3 DEF TurnInv
  <2>5. CASE ~dropOldRating
    <3>1. Due' = Due
      BY <1>4, <2>5 DEF Recalculated, Due
    <3>2. QED
      BY <2>1, <2>2, <2>3, <2>5, <3>1 DEF TurnInv, Fresh, Late
  <2>6. QED
    BY <2>4, <2>5
<1>5. ASSUME Announce
      PROVE  TurnInv'
  <2>1. MinuteEnd' = MinuteEnd
    BY <1>5, AnnounceKeepsMinuteEnd
  <2>2. /\ pc = "announcing" /\ now' = now
        /\ pc' = IF now < steadyIntervalStart + TicksPerSecond THEN "ticking" ELSE "announcing"
        /\ UNCHANGED <<expiration, dropOldRating, weekJustTurned>>
    BY <1>5 DEF Announce, Move
  <2>3. Due' = Due
    BY <2>2 DEF Due
  <2>4. Latency < TicksPerSecond /\ MaxRecalculation < TicksPerSecond
    OBVIOUS
  <2>5. CASE pc' = "ticking"
    BY <2>1, <2>2, <2>3, <2>5 DEF TurnInv, Fresh
  <2>6. CASE pc' = "announcing"
    <3>1. ~Late(Latency) /\ ~Late(MaxRecalculation)
      BY <2>2, <2>4, <2>6 DEF Late
    <3>2. QED
      BY <2>1, <2>2, <2>3, <2>6, <3>1 DEF TurnInv, Fresh
  <2>7. QED
    BY <2>2, <2>5, <2>6
<1>6. ASSUME Ticked
      PROVE  TurnInv'
  <2>1. /\ pc = "ticking" /\ pc' = "announcing" /\ MinuteEnd' = MinuteEnd /\ Due' = Due
        /\ UNCHANGED <<now, dropOldRating, weekJustTurned, steadyIntervalStart>>
    BY <1>6 DEF Ticked, Move, clockVars, MinuteEnd, Due
  <2>2. Late(Latency)'
    BY <2>1 DEF TickerInv, Late
  <2>3. QED
    BY <2>1, <2>2 DEF TurnInv, Fresh
<1>7. ASSUME MinuteOver
      PROVE  TurnInv'
  <2>1. /\ pc = "announcing" /\ pc' = "calculating" /\ chronoSetIndex = SecondsPerMinute
        /\ chronoSetIndex' = 0 /\ ~weekJustTurned
        /\ UNCHANGED <<now, expiration, dropOldRating, steadyIntervalStart>>
    BY <1>7, Zenon DEF MinuteOver, Move
  <2>2. weekJustTurned' <=> CurrentWeekStart > expiration
    BY <1>7, Zenon DEF MinuteOver
  <2>3. /\ MinuteEnd = steadyIntervalStart /\ Late(Delay - 1) /\ steadyIntervalStart <= now
        /\ MinuteEnd' = steadyIntervalStart + Minute
    BY <2>1, MinuteEnds DEF TickerInv, MinuteEnd, Minute
  <2>4. Due' = Due /\ ~dropOldRating /\ expiration # Never
    BY <2>1 DEF Due, ExpirationInv
  <2>5. CASE weekJustTurned'
    BY <2>1, <2>3, <2>4, <2>5 DEF TurnInv, Fresh, Late
  <2>6. CASE ~weekJustTurned'
    <3>1. now < Due
      BY <2>2, <2>4, <2>6, WeekTurns
    <3>2. QED
      BY <2>1, <2>3, <2>4, <2>6, <3>1 DEF TurnInv
  <2>7. QED
    BY <2>5, <2>6
<1>8. ASSUME LastMinuteServed
      PROVE  TurnInv'
  <2>1. /\ pc = "announcing" /\ pc' = "resyncing" /\ chronoSetIndex = SecondsPerMinute
        /\ weekJustTurned /\ UNCHANGED <<expiration, steadyIntervalStart>>
    BY <1>8, Zenon DEF LastMinuteServed, Move
  <2>2. MinuteEnd = steadyIntervalStart /\ Due' = Due /\ ~dropOldRating
    BY <2>1, MinuteEnds DEF Due, ExpirationInv
  <2>3. QED
    BY <2>1, <2>2 DEF TurnInv
<1>9. ASSUME Resynced
      PROVE  TurnInv'
  <2>1. pc = "resyncing" /\ pc' = "calculating" /\ dropOldRating' = dropOldRating
    BY <1>9, Zenon DEF Resynced, Move
  <2>2. dropOldRating'
    BY <2>1 DEF ExpirationInv
  <2>3. QED
    BY <2>1, <2>2 DEF TurnInv
<1>10. ASSUME Leave
       PROVE  TurnInv'
  BY <1>10 DEF Leave, Move, TurnInv
<1>11. ASSUME Fail \/ DealWon \/ UNCHANGED vars
       PROVE  TurnInv'
  <2>1. UNCHANGED <<pc, now, since, expiration, clockVars>>
    BY <1>11 DEF Fail, DealWon, vars
  <2>2. MinuteEnd' = MinuteEnd /\ Due' = Due
    BY <2>1 DEF MinuteEnd, Due, clockVars
  <2>3. QED
    BY <2>1, <2>2 DEF TurnInv, Fresh, Late, clockVars
<1>12. ASSUME Tick
       PROVE  TurnInv'
  <2>1. /\ UNCHANGED <<pc, since, expiration, clockVars>>
        /\ pc \in {"down", "syncing", "ticking", "resyncing", "recalculating"}
    BY <1>12 DEF Tick
  <2>2. MinuteEnd' = MinuteEnd /\ Due' = Due
    BY <2>1 DEF MinuteEnd, Due, clockVars
  <2>3. QED
    BY <2>1, <2>2 DEF TurnInv, Fresh, clockVars
<1>13. QED
  BY <1>1, <1>2, <1>3, <1>4, <1>5, <1>6, <1>7, <1>8, <1>9, <1>10, <1>11, <1>12
     DEF Next, Announcer, TheEnd

-----------------------------------------------------------------------------
LEMMA DealTypes ==
  ASSUME TypeInv, PendingInv
  PROVE  /\ deal = [at |-> deal.at, place |-> deal.place] /\ deal.place \in Places /\ deal.at \in Int
         /\ deal.place # "nowhere" => deal.at \in Nat /\ deal.at <= now
<1>1. deal \in [at : 0 .. Horizon \cup {Never}, place : Places]
  BY DEF TypeInv, TypeOK
<1>2. deal.place # "nowhere" => deal # NoDeal
  BY DEF NoDeal
<1>3. QED
  BY <1>1, <1>2, TimeTypes, ConstantTypes DEF PendingInv, Never

(* What has been counted stays as it is while the rating does.             *)
LEMMA CountedDealsStay ==
  ASSUME TypeInv, PendingInv, ExpirationInv, RatingInv, DealsCountAllWeek,
         UNCHANGED <<deal, expiration>>, now' \in Int, now <= now'
  PROVE  RatingInv' /\ DealsCountAllWeek'
<1>1. Due' = Due
  BY DEF Due
<1>2. RatingInv'
  BY <1>1 DEF RatingInv
<1>3. ASSUME deal.place = "dropped"
      PROVE  now' >= WeekEnd(deal.at) \/ deal.at <= WeekStart(deal.at) + Minute + Delay
  <2>1. deal.at \in Nat
    BY <1>3, DealTypes
  <2>2. WeekEnd(deal.at) \in Int
    BY <2>1, WeekEnds, WeekTypes
  <2>3. QED
    BY <1>3, <2>2, TimeTypes DEF DealsCountAllWeek
<1>4. DealsCountAllWeek'
  <2>1. WeekEnd(deal.at)' = WeekEnd(deal.at) /\ WeekStart(deal.at)' = WeekStart(deal.at)
    BY DEF WeekEnd, WeekStart
  <2>2. QED
    BY <1>3, <2>1 DEF DealsCountAllWeek
<1>5. QED
  BY <1>2, <1>4

(* Deals that are not counted yet.                                         *)
WaitingInv == IncomingInv /\ DrainingInv

LEMMA WaitingStep ==
  ASSUME Delay < TicksPerSecond, TypeInv, TickerInv, PendingInv, ExpirationInv, TurnInv, WaitingInv, [Next]_vars
  PROVE  WaitingInv'
<1> USE TimeTypes, ConstantTypes, WeekTypes, DealTypes
<1>1. ASSUME Start \/ Leave
      PROVE  WaitingInv'
  <2>1. deal'.place \notin {"incoming", "draining"}
    BY <1>1 DEF Start, Leave, Move, PendingInv
  <2>2. QED
    BY <2>1 DEF WaitingInv, IncomingInv, DrainingInv
<1>2. ASSUME Synced
      PROVE  WaitingInv'
  <2>1. /\ pc = "syncing" /\ pc' = "calculating" /\ Due' = Due
        /\ UNCHANGED <<now, expiration, dropOldRating, deal>> /\ now <= since + Latency
    BY <1>2 DEF Synced, Move, TickerInv, Due
  <2>2. deal.place = "incoming" => now < deal.at + TicksPerSecond + Latency
    BY <2>1 DEF PendingInv
  <2>3. QED
    BY <2>1, <2>2 DEF WaitingInv, IncomingInv, DrainingInv, ForTheNewRating
<1>3. ASSUME Swap
      PROVE  WaitingInv'
  <2>1. /\ pc = "calculating" /\ pc' = "recalculating" /\ since' = now /\ Due' = Due
        /\ UNCHANGED <<now, expiration, dropOldRating>>
    BY <1>3 DEF Swap, Move, clockVars, Due
  <2>2. deal.place # "draining"
    BY <2>1 DEF PendingInv
  <2>3. CASE deal.place = "incoming"
    <3>1. deal'.place = "draining" /\ deal'.at = deal.at
      BY <1>3, <2>3 DEF Swap
    <3>2. QED
      BY <2>1, <2>3, <3>1 DEF WaitingInv, IncomingInv, DrainingInv, ForTheNewRating
  <2>4. CASE deal.place # "incoming"
    BY <1>3, <2>2, <2>4 DEF Swap, WaitingInv, IncomingInv, DrainingInv
  <2>5. QED
    BY <2>3, <2>4
<1>4. ASSUME Recalculated
      PROVE  WaitingInv'
  <2>1. /\ pc = "recalculating" /\ pc' = "announcing" /\ weekJustTurned' = weekJustTurned
        /\ deal' = [deal EXCEPT !.place = Counted(deal.place)]
    BY <1>4, Zenon DEF Recalculated, Move
  <2>2. now <= since + MaxRecalculation
    BY <2>1 DEF TickerInv
  <2>3. CASE deal.place # "incoming"
    <3>1. Counted(deal.place) \notin {"incoming", "draining"}
      BY <2>3 DEF Counted
    <3>2. QED
      BY <2>1, <3>1 DEF WaitingInv, IncomingInv, DrainingInv
  <2>4. CASE deal.place = "incoming"
    <3>1. deal' = deal
      BY <2>1, <2>4 DEF Counted
    <3>2. CASE dropOldRating
      <4>1. expiration' = CurrentWeekStart /\ ~weekJustTurned
        BY <1>4, <3>2 DEF Recalculated, ExpirationInv
      <4>2. QED
        BY <2>1, <2>2, <2>4, <3>1, <4>1 DEF WaitingInv, IncomingInv, DrainingInv
    <3>3. CASE ~dropOldRating
      <4>1. expiration' = expiration /\ Due' = Due
        BY <1>4, <3>3 DEF Recalculated, Due
      <4>2. QED
        BY <2>1, <2>4, <3>1, <3>3, <4>1 DEF WaitingInv, IncomingInv, DrainingInv
    <3>4. QED
      BY <3>2, <3>3
  <2>5. QED
    BY <2>3, <2>4
<1>5. ASSUME Announce \/ Ticked
      PROVE  WaitingInv'
  <2>1. /\ pc \in {"announcing", "ticking"} /\ pc' \in {"announcing", "ticking"} /\ Due' = Due
        /\ UNCHANGED <<expiration, weekJustTurned, deal>>
    BY <1>5 DEF Announce, Ticked, Move, clockVars, Due
  <2>2. deal.place # "draining"
    BY <2>1 DEF PendingInv
  <2>3. QED
    BY <2>1, <2>2 DEF WaitingInv, IncomingInv, DrainingInv
<1>6. ASSUME MinuteOver
      PROVE  WaitingInv'
  <2>1. /\ pc = "announcing" /\ pc' = "calculating" /\ UNCHANGED <<expiration, dropOldRating, deal>>
    BY <1>6, Zenon DEF MinuteOver, Move
  <2>2. ~dropOldRating /\ deal.place # "draining"
    BY <2>1 DEF PendingInv, ExpirationInv
  <2>3. QED
    BY <2>1, <2>2 DEF WaitingInv, IncomingInv, DrainingInv
<1>7. ASSUME LastMinuteServed
      PROVE  WaitingInv'
  <2>1. /\ pc = "announcing" /\ pc' = "resyncing" /\ weekJustTurned /\ UNCHANGED <<expiration, deal>>
    BY <1>7, Zenon DEF LastMinuteServed, Move
  <2>2. deal.place # "draining" /\ Due' = Due
    BY <2>1 DEF PendingInv, Due
  <2>3. QED
    BY <2>1, <2>2 DEF WaitingInv, IncomingInv, DrainingInv
<1>8. ASSUME Resynced
      PROVE  WaitingInv'
  <2>1. /\ pc = "resyncing" /\ pc' = "calculating" /\ UNCHANGED <<now, expiration, weekJustTurned, deal>>
    BY <1>8, Zenon DEF Resynced, Move
  <2>2. deal.place # "draining" /\ Due' = Due
    BY <2>1 DEF PendingInv, Due
  <2>3. now <= Due + 2 * Minute + 3 * Latency + TicksPerSecond
    BY <2>1 DEF TickerInv, TurnInv
  <2>4. QED
    BY <2>1, <2>2, <2>3 DEF WaitingInv, IncomingInv, DrainingInv, ForTheNewRating
<1>9. ASSUME Fail \/ UNCHANGED vars
      PROVE  WaitingInv'
  BY <1>9 DEF Fail, vars, clockVars, Due, WaitingInv, IncomingInv, DrainingInv, ForTheNewRating
<1>10. ASSUME DealWon
       PROVE  WaitingInv'
  <2>1. /\ pc # "down" /\ deal' = [at |-> now, place |-> "incoming"] /\ Due' = Due
        /\ UNCHANGED <<now, pc, since, expiration, dropOldRating, weekJustTurned>>
    BY <1>10 DEF DealWon, clockVars, Due
  <2>2. expiration <= now
    BY <2>1 DEF ExpirationInv
  <2>3. weekJustTurned \/ pc = "resyncing" => Due <= now
    BY DEF ExpirationInv
  <2>4. pc = "recalculating" => since <= now
    BY DEF TypeInv
  <2>5. QED
    BY <2>1, <2>2, <2>3, <2>4 DEF WaitingInv, IncomingInv, DrainingInv, ForTheNewRating
<1>11. ASSUME Tick
       PROVE  WaitingInv'
  <2>1. /\ pc # "calculating" /\ Due' = Due
        /\ UNCHANGED <<pc, since, expiration, dropOldRating, weekJustTurned, deal>>
    BY <1>11 DEF Tick, clockVars, Due
  <2>2. QED
    BY <2>1 DEF WaitingInv, IncomingInv, DrainingInv, ForTheNewRating
<1>12. QED
  BY <1>1, <1>2, <1>3, <1>4, <1>5, <1>6, <1>7, <1>8, <1>9, <1>10, <1>11
     DEF Next, Announcer, TheEnd

LEMMA WeeksFollow == ASSUME NEW s, IsWeekStart(s) PROVE IsWeekStart(s + Week)
<1>1. Week \in Nat
  BY Units
<1>2. PICK k \in Int : s = k * Week + FirstMonday
  BY DEF IsWeekStart
<1>3. (k + 1) * Week = k * Week + Week /\ k * Week \in Int
  BY <1>1, Successor
<1>4. FirstMonday \in Int
  BY ConstantTypes
<1>5. QED
  BY <1>1, <1>2, <1>3, <1>4 DEF IsWeekStart

(* A deal that is dropped when the rating is due came in its first minute, *)
(* or before.                                                              *)
LEMMA DroppedDeals ==
  ASSUME NEW t \in Nat, NEW due \in Int, IsWeekStart(due), due <= now, now \in Nat,
         t <= due + Minute + Delay
  PROVE  now >= WeekEnd(t) \/ t <= WeekStart(t) + Minute + Delay
<1>1. Week \in Nat /\ Minute \in Nat /\ Delay \in Int
  BY Units, ConstantTypes DEF Delay
<1>2. WeekEnd(t) \in Int /\ IsWeekStart(WeekEnd(t)) /\ t < WeekEnd(t) /\ WeekEnd(t) <= t + Week
  BY <1>1, WeekEnds
<1> DEFINE e == WeekEnd(t)
<1> HIDE DEF e
<1>3. e \in Int /\ IsWeekStart(e) /\ t < e /\ e <= t + Week
  BY <1>2 DEF e
<1>4. CASE t < due
  <2>1. due < e => due + Week <= e
    BY <1>3, WeeksAreApart
  <2>2. QED
    BY <1>1, <1>3, <1>4, <2>1 DEF e
<1>5. CASE due <= t
  <2>1. due < e
    BY <1>3, <1>5
  <2>2. due + Week <= e
    BY <1>3, <2>1, WeeksAreApart
  <2>3. t <= e - Week + Minute + Delay
    BY <1>1, <1>3, <2>2
  <2>4. QED
    BY <2>3 DEF e, WeekStart
<1>6. QED
  BY <1>4, <1>5

(* Deals that have been counted.                                           *)
CountedInv == RatingInv /\ DealsCountAllWeek

LEMMA CountedStep ==
  ASSUME Delay < TicksPerSecond, Calendar, TypeInv, TypeInv', TickerInv, PendingInv, ExpirationInv, TurnInv,
         WaitingInv, CountedInv, [Next]_vars
  PROVE  CountedInv'
<1> USE TimeTypes, ConstantTypes, WeekTypes, DealTypes
<1>1. ASSUME Start
      PROVE  CountedInv'
  <2>1. deal' = deal /\ now' = now /\ expiration' = IF expiration = Never THEN CurrentWeekStart ELSE expiration
    BY <1>1 DEF Start
  <2>2. CASE expiration = Never
    <3>1. deal = NoDeal
      BY <2>2 DEF ExpirationInv
    <3>2. QED
      BY <2>1, <3>1 DEF CountedInv, RatingInv, DealsCountAllWeek, NoDeal
  <2>3. CASE expiration # Never
    BY <2>1, <2>3, CountedDealsStay DEF CountedInv
  <2>4. QED
    BY <2>2, <2>3
<1>2. ASSUME Swap \/ DealWon \/ Leave
      PROVE  CountedInv'
  <2>1. expiration' = expiration /\ now' = now
    BY <1>2 DEF Swap, DealWon, Leave
  <2>2. deal' = deal \/ deal'.place \notin {"rating", "dropped"}
    BY <1>2 DEF Swap, DealWon, Leave
  <2>3. CASE deal' = deal
    BY <2>1, <2>3, CountedDealsStay DEF CountedInv
  <2>4. CASE deal'.place \notin {"rating", "dropped"}
    BY <2>4 DEF CountedInv, RatingInv, DealsCountAllWeek
  <2>5. QED
    BY <2>2, <2>3, <2>4
<1>3. ASSUME Recalculated
      PROVE  CountedInv'
  <2>1. /\ pc = "recalculating" /\ now' = now
        /\ deal' = [deal EXCEPT !.place = Counted(deal.place)]
        /\ expiration' = IF dropOldRating THEN CurrentWeekStart ELSE expiration
        /\ expiration # Never /\ IsWeekStart(expiration)
    BY <1>3, Zenon DEF Recalculated, Move, ExpirationInv
  <2>2. now <= since + MaxRecalculation /\ since <= now
    BY <2>1 DEF TickerInv, TypeInv
  <2>3. CASE deal.place = "draining"
    <3>1. /\ deal'.place = "rating" /\ deal'.at = deal.at /\ deal.at \in Nat
          /\ deal.at <= since /\ expiration <= deal.at + MaxRecalculation
          /\ dropOldRating => ForTheNewRating(since)
      BY <2>1, <2>3 DEF Counted, WaitingInv, DrainingInv
    <3>2. CASE ~dropOldRating
      <4>1. expiration' = expiration /\ Due' = Due
        BY <2>1, <3>2 DEF Due
      <4>2. QED
        BY <2>1, <3>1, <3>2, <4>1 DEF CountedInv, RatingInv, TurnInv, DealsCountAllWeek
    <3>3. CASE dropOldRating
      <4>1. expiration' = CurrentWeekStart /\ Due' = CurrentWeekStart + Week
        BY <2>1, <3>3 DEF Due
      <4>2. CurrentWeekStart <= deal.at + TicksPerSecond + Delay
        <5>1. CASE since < deal.at + TicksPerSecond + Latency
          BY <2>2, <3>1, <5>1
        <5>2. CASE Due <= deal.at /\ since <= Due + 2 * Minute + 3 * Latency + TicksPerSecond
          <6>1. now < Due + Week
            <7>1. 4 * Minute <= Week /\ Minute >= 2 * TicksPerSecond
              BY WeekIsLong, Units
            <7>2. QED
              BY <2>2, <5>2, <7>1
          <6>2. IsWeekStart(Due)
            BY <2>1, WeeksFollow DEF Due
          <6>3. Due < CurrentWeekStart => Due + Week <= CurrentWeekStart
            BY <6>2, WeeksAreApart
          <6>4. QED
            BY <3>1, <5>2, <6>1, <6>3
        <5>3. QED
          BY <3>1, <3>3, <5>1, <5>2 DEF ForTheNewRating
      <4>3. QED
        BY <2>2, <3>1, <4>1, <4>2 DEF CountedInv, RatingInv, DealsCountAllWeek
    <3>4. QED
      BY <3>2, <3>3
  <2>4. CASE deal.place = "rating" /\ dropOldRating
    <3>1. deal'.place = "dropped" /\ deal'.at = deal.at /\ deal.at \in Nat
      BY <2>1, <2>4 DEF Counted
    <3>2. Due <= now /\ IsWeekStart(Due) /\ deal.at <= Due + Minute + Delay
      BY <2>1, <2>4, WeeksFollow DEF Due, ExpirationInv, CountedInv, RatingInv
    <3>3. now >= WeekEnd(deal.at) \/ deal.at <= WeekStart(deal.at) + Minute + Delay
      BY <3>1, <3>2, DroppedDeals
    <3>4. WeekEnd(deal.at)' = WeekEnd(deal.at) /\ WeekStart(deal.at)' = WeekStart(deal.at)
      BY <3>1 DEF WeekEnd, WeekStart
    <3>5. QED
      BY <2>1, <3>1, <3>3, <3>4 DEF CountedInv, RatingInv, DealsCountAllWeek
  <2>5. CASE deal.place = "rating" /\ ~dropOldRating
    <3>1. deal' = deal /\ expiration' = expiration
      BY <2>1, <2>5 DEF Counted
    <3>2. QED
      BY <2>1, <3>1, CountedDealsStay DEF CountedInv
  <2>6. CASE deal.place \notin {"draining", "rating"}
    <3>1. deal' = deal
      BY <2>1, <2>6 DEF Counted
    <3>2. RatingInv'
      BY <2>6, <3>1 DEF RatingInv
    <3>3. DealsCountAllWeek'
      BY <2>1, <3>1 DEF CountedInv, DealsCountAllWeek, WeekEnd, WeekStart
    <3>4. QED
      BY <3>2, <3>3 DEF CountedInv
  <2>7. QED
    BY <2>3, <2>4, <2>5, <2>6
<1>4. ASSUME Synced \/ Announce \/ Ticked \/ MinuteOver \/ LastMinuteServed \/ Resynced \/ Fail \/ Tick
             \/ UNCHANGED vars
      PROVE  CountedInv'
  <2>1. UNCHANGED <<deal, expiration>> /\ (now' = now \/ now' = now + 1)
    BY <1>4, Zenon DEF Synced, Announce, Ticked, MinuteOver, LastMinuteServed, Resynced, Fail, Tick, vars
  <2>2. QED
    BY <2>1, CountedDealsStay DEF CountedInv
<1>5. QED
  BY <1>1, <1>2, <1>3, <1>4 DEF Next, Announcer, TheEnd

-----------------------------------------------------------------------------
LEMMA WeekInit ==
  ASSUME Init
  PROVE  ExpirationInv /\ TurnInv /\ WaitingInv /\ CountedInv
BY DEF Init, ExpirationInv, TurnInv, WaitingInv, IncomingInv, DrainingInv, CountedInv, RatingInv,
       DealsCountAllWeek, NoDeal

(* In every step the rating's week, the time for which it is served after  *)
(* that, and the deals in it keep the bounds above: what MinuteOver,       *)
(* LastMinuteServed and Resynced, the turn of the week in doWork           *)
(* (rating_announcer.cpp), and a recovered session's Start pass on to each *)
(* other.                                                                  *)
THEOREM WeekInvHolds ==
  ASSUME Delay < TicksPerSecond, Calendar
  PROVE  Spec => [](TypeInv /\ PaceInv /\ WeekInv)
<1>1. Init => TypeInv /\ PaceInv /\ WeekInv
  BY TypeInit, PaceInit, WeekInit DEF WeekInv, WaitingInv, CountedInv
<1>2. TypeInv /\ PaceInv /\ WeekInv /\ [Next]_vars => (TypeInv /\ PaceInv /\ WeekInv)'
  <2> SUFFICES ASSUME TypeInv, PaceInv, WeekInv, [Next]_vars
               PROVE  (TypeInv /\ PaceInv /\ WeekInv)'
    OBVIOUS
  <2>1. TickerInv /\ ServedInv /\ PendingInv
    BY DEF PaceInv
  <2>2. ExpirationInv /\ TurnInv /\ WaitingInv /\ CountedInv
    BY DEF WeekInv, WaitingInv, CountedInv
  <2>3. TypeInv'
    BY TypeStep
  <2>4. TickerInv'
    BY <2>1, TickerStep
  <2>5. ServedInv' /\ PendingInv'
    BY <2>1, <2>3, <2>4, ServedStep, PendingStep
  <2>6. ExpirationInv'
    BY <2>1, <2>2, ExpirationStep
  <2>7. TurnInv'
    BY <2>1, <2>2, <2>3, TurnStep
  <2>8. WaitingInv'
    BY <2>1, <2>2, WaitingStep
  <2>9. CountedInv'
    BY <2>1, <2>2, <2>3, CountedStep
  <2>10. QED
    BY <2>3, <2>4, <2>5, <2>6, <2>7, <2>8, <2>9 DEF PaceInv, WeekInv, WaitingInv, CountedInv
<1>3. QED
  BY <1>1, <1>2, PTL DEF Spec

(* A deal that has been counted stays in the rating for the rest of its    *)
(* week, unless it came in the week's first minute, or the second after    *)
(* that: doWork drops the rating (dropOldRating) only when its week is     *)
(* over, whatever sessions fail and recover before.                        *)
THEOREM DealsStayAllWeek ==
  ASSUME Delay < TicksPerSecond, Calendar
  PROVE  Spec => []DealsCountAllWeek
<1>1. WeekInv => DealsCountAllWeek
  BY DEF WeekInv
<1>2. QED
  BY <1>1, WeekInvHolds, PTL

(* No deal is announced in the rating two minutes, a second and the delays *)
(* after its week is over: doWork notices the turn at the end of a minute  *)
(* (weekJustTurned), serves one more and drops the rating, and a session   *)
(* that begins with an old rating drops it at once.                        *)
THEOREM OldDealsAlwaysExpire ==
  ASSUME Delay < TicksPerSecond, Calendar
  PROVE  Spec => []OldDealsExpire
<1>1. TypeInv /\ PaceInv /\ WeekInv => OldDealsExpire
  <2> DEFINE t == deal.at + TicksPerSecond + Delay
  <2> SUFFICES ASSUME TypeInv, PaceInv, WeekInv, deal.place = "rating", pc \in {"announcing", "ticking"}
               PROVE  now <= WeekEnd(t) + 2 * Minute + TicksPerSecond + Delay
    BY DEF OldDealsExpire
  <2> USE TimeTypes, ConstantTypes
  <2>1. TickerInv /\ PendingInv /\ ExpirationInv /\ TurnInv /\ RatingInv
    BY DEF PaceInv, WeekInv
  <2>2. deal.at \in Nat /\ t \in Nat /\ Minute \in Nat /\ expiration \in Int /\ Due \in Int
    BY <2>1, DealTypes, WeekTypes
  <2>3. IsWeekStart(expiration) /\ expiration <= t /\ ~dropOldRating
    BY <2>1, <2>2 DEF ExpirationInv, RatingInv
  <2>4. MinuteEnd <= Due + 2 * Minute + Latency
    <3>1. MinuteEnd \in Nat
      BY MinuteEnds
    <3>2. QED
      BY <2>1, <2>2, <2>3, <3>1 DEF TurnInv
  <2>5. now <= MinuteEnd + Delay
    <3>1. /\ MinuteEnd \in Nat /\ steadyIntervalStart <= MinuteEnd
          /\ chronoSetIndex < SecondsPerMinute => steadyIntervalStart <= MinuteEnd - TicksPerSecond
      BY MinuteEnds
    <3>2. QED
      BY <2>1, <3>1 DEF TickerInv, Late
  <2>6. WeekEnd(t) \in Int /\ Due <= WeekEnd(t)
    <3>1. WeekEnd(t) \in t + 1 .. t + Week /\ IsWeekStart(WeekEnd(t))
      BY <2>2, WeekEnds
    <3> DEFINE e == WeekEnd(t)
    <3> HIDE DEF e
    <3>2. e \in Int /\ IsWeekStart(e) /\ expiration < e
      BY <2>2, <2>3, <3>1, Units DEF e
    <3>3. expiration + Week <= e
      BY <2>3, <3>2, WeeksAreApart
    <3>4. QED
      BY <3>2, <3>3 DEF e, Due
  <2>7. QED
    <3>1. MinuteEnd \in Nat
      BY MinuteEnds
    <3> HIDE DEF t
    <3>2. QED
      BY <2>2, <2>4, <2>5, <2>6, <3>1
<1>2. QED
  BY <1>1, WeekInvHolds, PTL
=============================================================================
