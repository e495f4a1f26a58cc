--------------------------- MODULE RatingAnnouncer ---------------------------
(***************************************************************************)
(* The announcer and the clock: RatingAnnouncer::doWork over any number of *)
(* sessions, with the arithmetic of DateTime.  CoreSync has the threads    *)
(* and no time, this module has time and no other thread: what else        *)
(* happens is a recalculation that takes a while, a session that fails,    *)
(* and what is followed in a behaviour: one deal, any one, from its        *)
(* arrival, or the announcements of one chrono set.                        *)
(*                                                                         *)
(* Time is counted in ticks since the epoch.  Calls that wait return 1 to  *)
(* Latency ticks after their time, everything else takes no time.          *)
(***************************************************************************)
EXTENDS Integers

CONSTANTS
  TicksPerSecond, SecondsPerMinute, MinutesPerWeek,
  FirstMonday,       \* from the epoch, a Thursday, to the first midnight of a Monday
  Latency,           \* of a thread that wakes up
  MaxRecalculation,  \* how long a recalculation takes
  Horizon            \* bound: the end of time

Minute == SecondsPerMinute * TicksPerSecond
Week   == MinutesPerWeek * Minute

ASSUME ClockAssumption ==
  /\ TicksPerSecond \in Nat \ {0} /\ SecondsPerMinute \in Nat \ {0, 1}
  /\ MinutesPerWeek \in Nat \ {0}
  /\ FirstMonday \in 0 .. Week - 1 /\ Horizon \in Nat /\ FirstMonday <= Horizon
  /\ Latency \in 1 .. TicksPerSecond - 1
  /\ MaxRecalculation \in Nat

VARIABLES
  now,
  pc,                   \* of the announcer
  since,                \* when it began what it is doing; while it sleeps, when to wake up
  expiration,           \* m_ratingExpirationDate, which outlives the session
  dropOldRating, weekJustTurned, chronoSetIndex, steadyIntervalStart,
  badFlag,
  followed,             \* history: the first or the last chrono set, or else a deal
  deal,                 \* history: when the deal came, and where it is
  served                \* history: when the set was last announced

clockVars == <<dropOldRating, weekJustTurned, chronoSetIndex, steadyIntervalStart>>
vars == <<now, pc, since, expiration, clockVars, badFlag, followed, deal, served>>

Never == -1
LastSet == SecondsPerMinute - 1
NoDeal == [at |-> Never, place |-> "nowhere"]
Places == {"nowhere", "incoming", "draining", "rating", "dropped", "lost"}

-----------------------------------------------------------------------------
(* DateTime.                                                               *)
(* Mutant: weeks begin with the epoch's day.                               *)
WeekStartOnThursday == (now \div Week) * Week

CurrentWeekStart == ((now - FirstMonday) \div Week) * Week + FirstMonday

NextFullSecond == -((-now) \div TicksPerSecond) * TicksPerSecond

CurrentSecondIndex == now \div TicksPerSecond - (now \div Minute) * SecondsPerMinute

-----------------------------------------------------------------------------
Init ==
  /\ now = FirstMonday
  /\ pc = "down" /\ since = 0 /\ expiration = Never
  /\ dropOldRating = FALSE /\ weekJustTurned = FALSE
  /\ chronoSetIndex = 0 /\ steadyIntervalStart = 0
  /\ badFlag = FALSE /\ deal = NoDeal
  /\ followed \in {Never, 0, LastSet} /\ served = Never

Move(from, to, start) == pc = from /\ pc' = to /\ since' = start

(* sleep_until has returned.                                               *)
Awake == now > since

(* Mutant: a recovered session keeps the rating it finds.                  *)
StartUnchecked ==
  /\ Move("down", "syncing", NextFullSecond)
  /\ expiration' = CurrentWeekStart
  /\ dropOldRating' = FALSE
  /\ badFlag' = FALSE
  /\ UNCHANGED <<now, weekJustTurned, chronoSetIndex, steadyIntervalStart, deal, followed, served>>

(* A session begins, the first one or after a recovery.                    *)
Start ==
  /\ Move("down", "syncing", NextFullSecond)
  /\ expiration' = IF expiration = Never THEN CurrentWeekStart ELSE expiration
  /\ dropOldRating' = (expiration' # CurrentWeekStart)
  /\ badFlag' = FALSE
  /\ UNCHANGED <<now, weekJustTurned, chronoSetIndex, steadyIntervalStart, deal, followed, served>>

Synced ==
  /\ Awake /\ Move("syncing", "calculating", now)
  /\ chronoSetIndex' = CurrentSecondIndex
  /\ steadyIntervalStart' = now
  /\ UNCHANGED <<now, expiration, dropOldRating, weekJustTurned, badFlag, deal, served, followed>>

(* m_calculator->recalculate: the buffers are swapped ...                  *)
Swap ==
  /\ Move("calculating", "recalculating", now)
  /\ deal' = IF deal.place = "incoming" THEN [deal EXCEPT !.place = "draining"] ELSE deal
  /\ UNCHANGED <<now, expiration, clockVars, badFlag, served, followed>>

(* ... and what was in the buffer is counted after the old rating has been *)
(* dropped.  The new expiration is read from the clock after that.         *)
Counted(place) ==
  CASE place = "draining" -> "rating"
    [] place = "rating" /\ dropOldRating -> "dropped"
    [] OTHER -> place

Recalculated ==
  /\ Move("recalculating", "announcing", now)
  /\ deal' = [deal EXCEPT !.place = Counted(@)]
  /\ expiration' = IF dropOldRating THEN CurrentWeekStart ELSE expiration
  /\ dropOldRating' = FALSE
  /\ UNCHANGED <<now, weekJustTurned, chronoSetIndex, steadyIntervalStart, badFlag, served, followed>>

(* Mutant: a set too many.                                                 *)
AnnouncePastEnd ==
  /\ chronoSetIndex <= SecondsPerMinute /\ ~badFlag
  /\ steadyIntervalStart' = steadyIntervalStart + TicksPerSecond
  /\ chronoSetIndex' = chronoSetIndex + 1
  /\ Move("announcing", "ticking", steadyIntervalStart')
  /\ UNCHANGED <<now, expiration, dropOldRating, weekJustTurned, badFlag, deal, followed, served>>

(* Mutant: the next second is a second from now.                           *)
AnnounceUnsteady ==
  /\ chronoSetIndex < SecondsPerMinute /\ ~badFlag
  /\ served' = IF chronoSetIndex = followed THEN now ELSE served
  /\ steadyIntervalStart' = now + TicksPerSecond
  /\ chronoSetIndex' = chronoSetIndex + 1
  /\ Move("announcing", "ticking", steadyIntervalStart')
  /\ UNCHANGED <<now, expiration, dropOldRating, weekJustTurned, badFlag, deal, followed>>

(* announce for one set, then sleep unless the second is over already.     *)
Announce ==
  /\ chronoSetIndex < SecondsPerMinute /\ ~badFlag
  /\ served' = IF chronoSetIndex = followed THEN now ELSE served
  /\ steadyIntervalStart' = steadyIntervalStart + TicksPerSecond
  /\ chronoSetIndex' = chronoSetIndex + 1
  /\ IF now < steadyIntervalStart'
     THEN Move("announcing", "ticking", steadyIntervalStart')
     ELSE Move("announcing", "announcing", now)
  /\ UNCHANGED <<now, expiration, dropOldRating, weekJustTurned, badFlag, deal, followed>>

Ticked ==
  /\ Awake /\ Move("ticking", "announcing", now)
  /\ UNCHANGED <<now, expiration, clockVars, badFlag, deal, served, followed>>

(* Mutant: when the week has turned, the rating is left as it is.          *)
MinuteOverUncounted ==
  /\ chronoSetIndex = SecondsPerMinute /\ ~weekJustTurned
  /\ weekJustTurned' = (CurrentWeekStart > expiration)
  /\ Move("announcing", IF weekJustTurned' THEN "announcing" ELSE "calculating", now)
  /\ chronoSetIndex' = 0
  /\ UNCHANGED <<now, expiration, dropOldRating, steadyIntervalStart, badFlag, deal, followed, served>>

(* Mutant: the next set is looked up on the clock.                         *)
MinuteOverIndexed ==
  /\ chronoSetIndex = SecondsPerMinute /\ ~weekJustTurned
  /\ Move("announcing", "calculating", now)
  /\ weekJustTurned' = (CurrentWeekStart > expiration)
  /\ chronoSetIndex' = CurrentSecondIndex
  /\ UNCHANGED <<now, expiration, dropOldRating, steadyIntervalStart, badFlag, deal, followed, served>>

(* The minute is over: of the week, maybe, or a minute after that.         *)
MinuteOver ==
  /\ chronoSetIndex = SecondsPerMinute /\ ~weekJustTurned
  /\ Move("announcing", "calculating", now)
  /\ weekJustTurned' = (CurrentWeekStart > expiration)
  /\ chronoSetIndex' = 0
  /\ UNCHANGED <<now, expiration, dropOldRating, steadyIntervalStart, badFlag, deal, served, followed>>

LastMinuteServed ==
  /\ chronoSetIndex = SecondsPerMinute /\ weekJustTurned
  /\ Move("announcing", "resyncing", NextFullSecond)
  /\ dropOldRating' = TRUE /\ weekJustTurned' = FALSE
  /\ UNCHANGED <<now, expiration, chronoSetIndex, steadyIntervalStart, badFlag, deal, served, followed>>

Resynced ==
  /\ Awake /\ Move("resyncing", "calculating", now)
  /\ chronoSetIndex' = CurrentSecondIndex
  /\ UNCHANGED <<now, expiration, dropOldRating, weekJustTurned, steadyIntervalStart,
                 badFlag, deal, served, followed>>

(* The flag ends the announcer, and the session's buffers go with it.      *)
Leave ==
  /\ chronoSetIndex < SecondsPerMinute /\ badFlag
  /\ Move("announcing", "down", 0)
  /\ deal' = IF deal.place = "incoming" THEN [deal EXCEPT !.place = "lost"] ELSE deal
  /\ weekJustTurned' = FALSE /\ chronoSetIndex' = 0 /\ steadyIntervalStart' = 0 /\ served' = Never
  /\ UNCHANGED <<now, expiration, dropOldRating, badFlag, followed>>

-----------------------------------------------------------------------------
Fail ==
  /\ pc # "down" /\ ~badFlag
  /\ badFlag' = TRUE
  /\ UNCHANGED <<now, pc, since, expiration, clockVars, deal, served, followed>>

DealWon ==
  /\ pc # "down" /\ ~badFlag /\ followed = Never /\ deal = NoDeal
  /\ deal' = [at |-> now, place |-> "incoming"]
  /\ UNCHANGED <<now, pc, since, expiration, clockVars, badFlag, served, followed>>

(* Time waits for what takes none.                                         *)
Tick ==
  /\ \/ pc = "down"
     \/ pc \in {"syncing", "ticking", "resyncing"} /\ now < since + Latency
     \/ pc = "recalculating" /\ now < since + MaxRecalculation
  /\ now < Horizon
  /\ now' = now + 1
  /\ UNCHANGED <<pc, since, expiration, clockVars, badFlag, deal, served, followed>>

Announcer ==
  \/ Start \/ Synced \/ Swap \/ Recalculated \/ Announce \/ Ticked
  \/ MinuteOver \/ LastMinuteServed \/ Resynced \/ Leave

TheEnd == now = Horizon /\ UNCHANGED vars

Next == Announcer \/ Fail \/ DealWon \/ Tick \/ TheEnd

Spec == Init /\ [][Next]_vars

-----------------------------------------------------------------------------
(* Types, of the announcer's state and of the histories.                   *)
TypeOK ==
  /\ now \in 0 .. Horizon
  /\ pc \in {"down", "syncing", "calculating", "recalculating", "announcing", "ticking", "resyncing"}
  /\ since \in 0 .. Horizon + TicksPerSecond
  /\ expiration \in 0 .. Horizon \cup {Never}
  /\ dropOldRating \in BOOLEAN /\ weekJustTurned \in BOOLEAN /\ badFlag \in BOOLEAN
  /\ chronoSetIndex \in 0 .. SecondsPerMinute
  /\ steadyIntervalStart \in 0 .. Horizon + TicksPerSecond
  /\ deal \in [at : 0 .. Horizon \cup {Never}, place : Places]
  /\ followed \in {Never, 0, LastSet} /\ served \in 0 .. Horizon \cup {Never}

(* The week of a moment begins at WeekStart and is over at WeekEnd.        *)
WeekEnd(t) == CHOOSE e \in t + 1 .. t + Week : e % Week = FirstMonday
WeekStart(t) == WeekEnd(t) - Week

(* What serving may be behind the clock by: the ticker starts late, a tick *)
(* is late, and a recalculation takes its time.                            *)
Delay == 2 * Latency + MaxRecalculation

(* No rating is announced with a deal of an earlier week in it, except in  *)
(* the first two minutes of a week: the rating is reset every Monday, by a *)
(* running announcer or by the next session's.  A deal of a week's last    *)
(* second may count as one of the next: a session that finds an old rating *)
(* in this second drops it in the next week, and counts the deal then.     *)
OldDealsExpire ==
  deal.place = "rating" /\ pc \in {"announcing", "ticking"} =>
    now <= WeekEnd(deal.at + TicksPerSecond + Delay) + 2 * Minute + TicksPerSecond + Delay

(* A deal stays in the rating for the rest of its week, wherever sessions  *)
(* begin and end, unless it came in the week's first minute, or the second *)
(* after that.                                                             *)
DealsCountAllWeek ==
  deal.place = "dropped" =>
    now >= WeekEnd(deal.at) \/ deal.at <= WeekStart(deal.at) + Minute + Delay

(* A deal is counted, or gone with its session, within a minute.           *)
DealsCountSoon ==
  deal.place \in {"incoming", "draining"} => now <= deal.at + Minute + TicksPerSecond + Delay

(* The last set of the minute is announced once a minute, the first one as *)
(* well but for the minute in which the week turns: announcements do not   *)
(* drift with the delays of single seconds.                                *)
MinutesAreRegular ==
  pc \in {"announcing", "ticking"} /\ ~badFlag /\ served # Never =>
    now <= served + Delay + (IF followed = 0 THEN 2 * Minute ELSE Minute)

(* Nobody is announced twice in a minute, give or take the second by which *)
(* the ticker is ahead after the week's turn.                              *)
OnceAMinute ==
  [][served # Never /\ served' \notin {served, Never} =>
       served' >= served + Minute - TicksPerSecond - Latency]_vars

(* Why deals count soon and minutes are regular, as long as Delay is less  *)
(* than a second: a minute of the ticker is over at MinuteEnd, which ticks *)
(* do not move.                                                            *)
MinuteEnd == steadyIntervalStart + (SecondsPerMinute - chronoSetIndex) * TicksPerSecond

(* How far the clock is ahead of the ticker: most after the resync of a    *)
(* week's turn, from which the next two ticks recover.                     *)
Late(ticks) == now <= steadyIntervalStart + ticks

TickerInv ==
  /\ pc = "syncing" => now \in since - TicksPerSecond + 1 .. since + Latency
  /\ pc \in {"down", "syncing", "resyncing"} => ~weekJustTurned
  /\ pc \in {"calculating", "recalculating"} =>
       LET start == IF pc = "calculating" THEN now ELSE since
       IN  /\ chronoSetIndex < SecondsPerMinute
           /\ start \in steadyIntervalStart .. steadyIntervalStart + 2 * Latency + TicksPerSecond - 1
           /\ now \in start .. start + MaxRecalculation
           /\ weekJustTurned => chronoSetIndex = 0 /\ start < steadyIntervalStart + Delay
  /\ pc = "announcing" =>
       /\ steadyIntervalStart <= now /\ Late(Delay + TicksPerSecond - 1)
       /\ chronoSetIndex = SecondsPerMinute => Late(Delay - 1)
       /\ weekJustTurned =>
            /\ chronoSetIndex = 0 => Late(Delay + MaxRecalculation - 1)
            /\ chronoSetIndex = 1 => Late(Latency) \/ Late(MaxRecalculation)
            /\ chronoSetIndex > 1 => Late(Latency)
  /\ pc = "ticking" =>
       /\ since = steadyIntervalStart /\ chronoSetIndex > 0
       /\ now \in since - TicksPerSecond .. since + Latency
  /\ pc = "resyncing" =>
       /\ chronoSetIndex = SecondsPerMinute
       /\ since < steadyIntervalStart + Latency + TicksPerSecond
       /\ now \in steadyIntervalStart .. since + Latency

(* The ticker's lead over the last announcement of a set.                  *)
Serving(set) == followed = set /\ served # Never

ServedInv ==
  /\ pc \in {"down", "syncing"} \/ followed = Never => served = Never
  /\ Serving(LastSet) =>
       /\ chronoSetIndex < SecondsPerMinute => MinuteEnd <= served + Minute + TicksPerSecond
       /\ (\/ chronoSetIndex = SecondsPerMinute
           \/ pc \in {"calculating", "recalculating"}
           \/ pc = "announcing" /\ ~Late(Delay)) => steadyIntervalStart <= served + TicksPerSecond
  /\ Serving(0) =>
       /\ chronoSetIndex = 0 => steadyIntervalStart <= served + 2 * Minute - TicksPerSecond
       /\ chronoSetIndex > 0 => MinuteEnd <= served + 2 * Minute - TicksPerSecond
       /\ (weekJustTurned /\ chronoSetIndex > 0) \/ pc = "resyncing" => MinuteEnd <= served + Minute

(* The ticker's lead over a deal that is not counted yet.                  *)
PendingInv ==
  /\ deal # NoDeal => deal.at \in 0 .. now
  /\ deal.place = "draining" =>
       pc = "recalculating" /\ since < deal.at + Minute + 2 * Latency + TicksPerSecond
  /\ deal.place = "incoming" =>
       /\ pc # "down"
       /\ pc = "syncing" => since < deal.at + TicksPerSecond
       /\ pc = "calculating" => now < deal.at + Minute + 2 * Latency + TicksPerSecond
       /\ pc \in {"recalculating", "announcing", "ticking", "resyncing"} => MinuteEnd <= deal.at + Minute

(* What the bounds of DealsCountSoon and MinutesAreRegular rest on, in     *)
(* every step of the ticker.                                               *)
PaceInv == TickerInv /\ ServedInv /\ PendingInv

(* The set of a second is announced in that second.                        *)
TickerInSync ==
  served # Never => (served \div TicksPerSecond) % SecondsPerMinute = followed
=============================================================================
