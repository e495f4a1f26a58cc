---------------------------- MODULE RatingRebuild ----------------------------
(* The loop over the patches in RatingCalculatorImpl::recalculate, one     *)
(* iteration a step, on every sorted rating and every set of deals.        *)
EXTENDS RatingPatch

CONSTANTS
  UserIds,      \* the users there are, positive integers
  Winnings,     \* what a user of the old rating may have won
  DealAmounts   \* what a user's deals of the minute may add up to

ASSUME RatingRebuildAssumption ==
  /\ UserIds \subseteq Nat \ {NoUser} /\ IsFiniteSet(UserIds)
  /\ Winnings \subseteq Int /\ DealAmounts \subseteq Int

VARIABLES
  active, deals,  \* the old rating, by user, and the deals of the minute
  todo,           \* the patches still to apply
  rebuild         \* the state of the loop

vars == <<active, deals, todo, rebuild>>

(* A sorted rating of some users, any deals, processDeals done.            *)
Init ==
  /\ \E order \in UNION {Injection(1 .. Cardinality(S), S) : S \in SUBSET UserIds} :
       \E won \in [DOMAIN order -> Winnings] :
         /\ \A i, j \in DOMAIN order : i < j => won[i] >= won[j]
         /\ active = [u \in Range(order) |->
                        LET i == CHOOSE k \in DOMAIN order : order[k] = u
                        IN  [amountWon |-> won[i], rating |-> i - 1]]
         /\ \E S \in SUBSET UserIds : deals \in [S -> DealAmounts]
         /\ todo = Patches(order, active, deals)
         /\ rebuild = StartRebuild(order, active, deals)

ApplyNext ==
  /\ todo # <<>> /\ rebuild.fits
  /\ rebuild' = ApplyPatch(rebuild, Head(todo))
  /\ todo' = Tail(todo)
  /\ UNCHANGED <<active, deals>>

Spec == Init /\ [][ApplyNext]_vars

-----------------------------------------------------------------------------
(* The assertions of ratingMoveBlock and ratingInsert                      *)
(* (rating_calculator.cpp:85, 97) hold in every iteration.                 *)
PatchesFit == rebuild.fits

(* What has been written from the end of the vector on is final: the loop  *)
(* never has to come back to it.                                           *)
TailIsFinal ==
  LET done == rebuild.lengthDone + Cardinality({u \in DOMAIN deals :
                \A k \in DOMAIN todo : todo[k].changeType = NewPosition => todo[k].user # u})
      size == Len(rebuild.rating)
  IN  SubSeq(rebuild.rating, size - done + 1, size)
        = SubSeq(Reference(active, deals), size - done + 1, size)

(* The patched vector is the rating that sorting all users anew would give.*)
RebuildIsReference ==
  todo = <<>> => rebuild.rating = Reference(active, deals) /\ rebuild.offset = 0
=============================================================================
