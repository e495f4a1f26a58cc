----------------------------- MODULE RatingPatch -----------------------------
(***************************************************************************)
(* How RatingCalculatorImpl turns a minute's deals into a new rating: a    *)
(* sorted set of patches is prepared against the old rating, and the       *)
(* rating vector is then rebuilt in place, from its end to its beginning.  *)
(*                                                                         *)
(* Users are their ids, which are positive integers. A rating is the       *)
(* sequence of the users from the best to the worst; the positions of the  *)
(* code count from zero and are kept as they are in the fields of patches. *)
(* "active" maps a user of the rating to a record with its amountWon and   *)
(* its (zero-based) rating.                                                *)
(***************************************************************************)
EXTENDS Integers, Sequences, SequencesExt

NoUser == 0   \* what vector::resize appends

(* A set as a sequence in the order of "before", which orders it totally.  *)
Rank(S, before, x) == Cardinality({y \in S : <<y, x>> \in before})

InOrder(S, before) ==
  [i \in 1 .. Cardinality(S) |-> CHOOSE x \in S : Rank(S, before, x) = i - 1]

NewPosition == 0
OldPosition == 1

(* Mutant of Precedes: old and new positions in the other order.           *)
PrecedesOldFirst(p, q) ==
  \/ p.elementsAfter < q.elementsAfter
  \/ p.elementsAfter = q.elementsAfter /\ p.changeType > q.changeType
  \/ /\ p.elementsAfter = q.elementsAfter /\ p.changeType = q.changeType
     /\ \/ p.amountWon < q.amountWon
        \/ p.amountWon = q.amountWon /\ p.user < q.user

(* RatingPatchEntry::operator<; std::multiset keeps entries that compare   *)
(* equal in the order they came in, which is that of the ids.              *)
Precedes(p, q) ==
  \/ p.elementsAfter < q.elementsAfter
  \/ p.elementsAfter = q.elementsAfter /\ p.changeType < q.changeType
  \/ /\ p.elementsAfter = q.elementsAfter /\ p.changeType = q.changeType
     /\ \/ p.amountWon < q.amountWon
        \/ p.amountWon = q.amountWon /\ p.user < q.user

(* Mutant of ElementsAfter: std::lower_bound for std::upper_bound.         *)
ElementsAfterOrEqual(rating, active, winnings) ==
  Cardinality({i \in DOMAIN rating : active[rating[i]].amountWon <= winnings})

(* The number of users that won less; on a sorted rating this is what      *)
(* std::upper_bound finds.                                                 *)
ElementsAfter(rating, active, winnings) ==
  Cardinality({i \in DOMAIN rating : active[rating[i]].amountWon < winnings})

OldEntry(rating, active, u) ==
  [user |-> u, elementsAfter |-> Len(rating) - active[u].rating - 1,
   changeType |-> OldPosition, amountWon |-> 0]

NewEntry(rating, active, u, winnings) ==
  [user |-> u, elementsAfter |-> ElementsAfter(rating, active, winnings),
   changeType |-> NewPosition, amountWon |-> winnings]

(* What a user has won with this minute's deals.                           *)
Total(active, deals, u) ==
  (IF u \in DOMAIN active THEN active[u].amountWon ELSE 0)
  + (IF u \in DOMAIN deals THEN deals[u] ELSE 0)

(* processDeals, of users that are all registered.                         *)
PatchSet(rating, active, deals) ==
  {OldEntry(rating, active, u) : u \in DOMAIN deals \cap DOMAIN active}
  \cup {NewEntry(rating, active, u, Total(active, deals, u)) : u \in DOMAIN deals}

Patches(rating, active, deals) ==
  LET all == PatchSet(rating, active, deals)
  IN  InOrder(all, {pq \in all \X all : Precedes(pq[1], pq[2])})

(* The state of the loop over the patches. "fits" turns FALSE when one of  *)
(* the assertions in ratingMoveBlock and ratingInsert fails.               *)
StartRebuild(rating, active, deals) ==
  LET fresh == Cardinality(DOMAIN deals \ DOMAIN active)
  IN  [rating |-> rating \o [i \in 1 .. fresh |-> NoUser], oldSize |-> Len(rating),
       offset |-> fresh, oldPositions |-> 0, lengthDone |-> 0, fits |-> TRUE]

BlockFits(rating, pos, length, offset) ==
  \/ length = 0 \/ offset = 0
  \/ /\ pos \in 0 .. Len(rating) - 1
     /\ length > 0 /\ offset > 0
     /\ pos + length + offset <= Len(rating)

(* Mutant of MoveBlock: one element of the block is forgotten.             *)
MoveBlockShort(rating, pos, length, offset) ==
  [i \in DOMAIN rating |->
     IF i - 1 \in pos + offset + 1 .. pos + offset + length - 1 THEN rating[i - offset]
     ELSE rating[i]]

(* memmove of the block to the right: every slot is read before it is      *)
(* written.                                                                *)
MoveBlock(rating, pos, length, offset) ==
  [i \in DOMAIN rating |->
     IF i - 1 \in pos + offset .. pos + offset + length - 1 THEN rating[i - offset]
     ELSE rating[i]]

(* One iteration of the loop in RatingCalculatorImpl::recalculate. It also *)
(* gives the user its new amountWon, which is Total and which the loop     *)
(* itself does not look at.                                                *)
ApplyPatch(r, patch) ==
  LET blockLength == patch.elementsAfter - r.lengthDone - r.oldPositions
      position    == r.oldSize - patch.elementsAfter
      slot        == position + r.offset - 1
      moved       == MoveBlock(r.rating, position, blockLength, r.offset)
      isNew       == patch.changeType = NewPosition
  IN  IF ~BlockFits(r.rating, position, blockLength, r.offset)
         \/ (isNew /\ slot \notin 0 .. Len(r.rating) - 1)
      THEN [r EXCEPT !.fits = FALSE]
      ELSE [r EXCEPT !.lengthDone   = @ + blockLength,
                     !.oldPositions = IF isNew THEN @ ELSE @ + 1,
                     !.offset       = IF isNew THEN @ - 1 ELSE @ + 1,
                     !.rating       = IF isNew THEN [moved EXCEPT ![slot + 1] = patch.user]
                                      ELSE moved]

(* The whole loop; nothing happens after a failed assertion.               *)
Rebuild(rating, active, deals) ==
  LET patches == Patches(rating, active, deals)
      after[n \in 0 .. Len(patches)] ==
        IF n = 0 THEN StartRebuild(rating, active, deals)
        ELSE IF after[n - 1].fits THEN ApplyPatch(after[n - 1], patches[n])
        ELSE after[n - 1]
  IN  after[Len(patches)]

-----------------------------------------------------------------------------
(* What the result should be: the users by what they have won. Of users    *)
(* that have won the same, those without a deal in this minute come first, *)
(* in their old order, then the others by falling id.                      *)
Better(active, deals, u, v) ==
  LET total(w)   == Total(active, deals, w)
      newcomer(w) == w \in DOMAIN deals
  IN  \/ total(u) > total(v)
      \/ /\ total(u) = total(v)
         /\ \/ ~newcomer(u) /\ newcomer(v)
            \/ ~newcomer(u) /\ ~newcomer(v) /\ active[u].rating < active[v].rating
            \/ newcomer(u) /\ newcomer(v) /\ u > v

Reference(active, deals) ==
  LET all == DOMAIN active \cup DOMAIN deals
  IN  InOrder(all, {uv \in all \X all : Better(active, deals, uv[1], uv[2])})
=============================================================================
