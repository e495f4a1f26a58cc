------------------------- MODULE RatingRebuildProofs -------------------------
(***************************************************************************)
(* The rebuild of the rating is right for any old rating and any deals of  *)
(* positive amounts. With a deal of 0 the new entry of an active user may  *)
(* sort before his old one, so the amounts are a hypothesis.               *)
(***************************************************************************)
EXTENDS RatingRebuild, RatingPatchProofs, SequenceTheorems

Positive == \A a \in DealAmounts : a > 0

(* The old rating, which the users' places in it give back.                *)
OldRating ==
  [i \in 1 .. Cardinality(DOMAIN active) |->
     CHOOSE u \in DOMAIN active : active[u].rating = i - 1]

(* The inductive invariant: the patches to do are the rest of the sorted   *)
(* set, and the loop has done its part up to them.                         *)
RebuildInv ==
  /\ Minute(OldRating, active, deals)
  /\ todo \in Seq(PatchSet(OldRating, active, deals))
  /\ \A i, j \in 1 .. Len(todo) : i < j => Precedes(todo[i], todo[j])
  /\ IsRest(OldRating, active, deals, Range(todo))
  /\ LoopInv(OldRating, active, deals, Range(todo), rebuild)

-----------------------------------------------------------------------------
(* A sequence without repetition is what its head and its tail are.        *)
LEMMA HeadsAndTails ==
  ASSUME NEW S, NEW seq \in Seq(S), seq # <<>>,
         \A i, j \in 1 .. Len(seq) : i < j => Precedes(seq[i], seq[j]),
         \A s \in S : ~Precedes(s, s)
  PROVE  /\ Head(seq) \in S /\ Tail(seq) \in Seq(S)
         /\ Range(Tail(seq)) = Range(seq) \ {Head(seq)}
         /\ IsFirst(Head(seq), Range(seq))
         /\ \A i, j \in 1 .. Len(Tail(seq)) : i < j => Precedes(Tail(seq)[i], Tail(seq)[j])
<1> DEFINE n == Len(seq)
           t == Tail(seq)
<1>1. /\ Head(seq) = seq[1] /\ t \in Seq(S) /\ n \in Nat /\ n >= 1 /\ Len(t) = n - 1
      /\ DOMAIN seq = 1 .. n /\ DOMAIN t = 1 .. n - 1
      /\ \A i \in 1 .. n : seq[i] \in S
      /\ \A i \in 1 .. n - 1 : t[i] = seq[i + 1]
  OBVIOUS
<1> HIDE DEF n, t
<1>2. \A i \in 2 .. n : i \in 1 .. n /\ Precedes(seq[1], seq[i]) /\ seq[i] # seq[1]
                        /\ i - 1 \in 1 .. n - 1 /\ t[i - 1] = seq[i]
  <2>1. ASSUME NEW i \in 2 .. n
        PROVE  i \in 1 .. n /\ 1 < i /\ 1 \in 1 .. n /\ i - 1 \in 1 .. n - 1 /\ (i - 1) + 1 = i
    BY <1>1
  <2>2. \A i, j \in 1 .. n : i < j => Precedes(seq[i], seq[j])
    BY DEF n
  <2>3. QED
    BY <1>1, <2>1, <2>2
<1>3. Range(t) = {seq[i] : i \in 2 .. n}
  <2>1. \A i \in 1 .. n - 1 : i + 1 \in 2 .. n /\ t[i] = seq[i + 1]
    BY <1>1
  <2>2. Range(t) = {t[i] : i \in 1 .. n - 1}
    BY <1>1 DEF Range
  <2>3. \A i \in 2 .. n : \E k \in 1 .. n - 1 : t[k] = seq[i]
    BY <1>2
  <2>4. \A i \in 1 .. n - 1 : \E k \in 2 .. n : t[i] = seq[k]
    BY <2>1
  <2>5. ASSUME NEW x \in Range(t)
        PROVE  x \in {seq[i] : i \in 2 .. n}
    <3>1. PICK i \in 1 .. n - 1 : x = t[i]
      BY <2>2
    <3>2. QED
      BY <2>4, <3>1
  <2>6. ASSUME NEW i \in 2 .. n
        PROVE  seq[i] \in Range(t)
    <3>1. PICK k \in 1 .. n - 1 : t[k] = seq[i]
      BY <2>3
    <3>2. QED
      BY <2>2, <3>1
  <2>7. QED
    BY <2>5, <2>6
<1>4. Range(seq) = {seq[1]} \cup {seq[i] : i \in 2 .. n}
  <2>1. \A i \in 1 .. n : i = 1 \/ i \in 2 .. n
    BY <1>1
  <2>2. 1 \in 1 .. n
    BY <1>1
  <2>3. QED
    BY <1>1, <1>2, <2>1, <2>2 DEF Range
<1>5. Range(t) = Range(seq) \ {seq[1]}
  BY <1>2, <1>3, <1>4
<1>6. IsFirst(seq[1], Range(seq))
  BY <1>2, <1>4 DEF IsFirst
<1>7. ASSUME NEW i \in 1 .. n - 1, NEW j \in 1 .. n - 1, i < j
      PROVE  Precedes(t[i], t[j])
  <2>1. i + 1 \in 1 .. n /\ j + 1 \in 1 .. n /\ i + 1 < j + 1
    BY <1>1, <1>7
  <2>2. Precedes(seq[i + 1], seq[j + 1])
    BY <2>1 DEF n
  <2>3. QED
    BY <1>1, <2>2
<1>8. seq[1] \in S
  BY <1>1
<1>9. QED
  BY <1>1, <1>5, <1>6, <1>7, <1>8 DEF t

(* A rating is known by the places of its users.                           *)
LEMMA OldRatingIsTheRating ==
  ASSUME NEW order, IsRating(order, active)
  PROVE  OldRating = order
<1>1. Len(order) \in Nat /\ DOMAIN order = 1 .. Len(order) /\ order \in Seq(DOMAIN active)
  BY RatingTypes DEF IsRating
<1>2. Cardinality(DOMAIN active) = Len(order)
  BY UsersAreCounted
<1>3. ASSUME NEW i \in 1 .. Len(order)
      PROVE  (CHOOSE u \in DOMAIN active : active[u].rating = i - 1) = order[i]
  <2>1. order[i] \in DOMAIN active /\ active[order[i]].rating = i - 1
    BY RatingTypes
  <2>2. ASSUME NEW u \in DOMAIN active, active[u].rating = i - 1
        PROVE  u = order[i]
    <3>1. order[active[u].rating + 1] = u
      BY PlacesAreKnown
    <3>2. active[u].rating + 1 = i
      BY <1>1, <2>2
    <3>3. QED
      BY <3>1, <3>2
  <2>3. QED
    BY <2>1, <2>2
<1>4. order = [i \in 1 .. Len(order) |-> order[i]]
  BY <1>1
<1>5. QED
  BY <1>2, <1>3, <1>4 DEF OldRating

(* What Init starts from is a rating, and deals of it.                     *)
LEMMA OrdersAreRatings ==
  ASSUME NEW S \in SUBSET UserIds, NEW order \in Injection(1 .. Cardinality(S), S),
         NEW won \in [DOMAIN order -> Winnings],
         \A i, j \in DOMAIN order : i < j => won[i] >= won[j],
         active = [u \in Range(order) |->
                     LET i == CHOOSE k \in DOMAIN order : order[k] = u
                     IN  [amountWon |-> won[i], rating |-> i - 1]]
  PROVE  IsRating(order, active)
<1> DEFINE n == Cardinality(S)
           A == Range(order)
           place(u) == CHOOSE k \in DOMAIN order : order[k] = u
<1>1. IsFiniteSet(S) /\ n \in Nat
  BY RatingRebuildAssumption, FS_Subset, FS_CardinalityType
<1>2. /\ order \in [1 .. n -> S] /\ DOMAIN order = 1 .. n
      /\ \A i, j \in 1 .. n : order[i] = order[j] => i = j
  BY DEF Injection, IsInjective
<1>3. DOMAIN active = A /\ A \subseteq Nat /\ \A i \in 1 .. n : order[i] \in A
  BY <1>2, RatingRebuildAssumption DEF Range
<1>4. order \in Seq(A) /\ Len(order) = n
  <2>1. order \in [1 .. n -> A]
    BY <1>2, <1>3
  <2>2. QED
    BY <1>1, <1>2, <2>1
<1>5. ASSUME NEW u \in A
      PROVE  place(u) \in 1 .. n /\ order[place(u)] = u
  <2>1. \E k \in DOMAIN order : order[k] = u
    BY DEF Range
  <2>2. QED
    BY <1>2, <2>1
<1>6. \A u \in A : active[u].amountWon = won[place(u)] /\ active[u].rating = place(u) - 1
  OBVIOUS
<1>7. \A i \in 1 .. n : place(order[i]) = i
  BY <1>2, <1>3, <1>5
<1>8. \A i \in 1 .. n : won[i] \in Int
  BY <1>2, RatingRebuildAssumption
<1> HIDE DEF n, A, place
<1>9. ASSUME NEW u \in A
      PROVE  /\ active[u].amountWon \in Int
             /\ active[u].rating \in 0 .. n - 1
             /\ order[active[u].rating + 1] = u
  <2>1. active[u].amountWon = won[place(u)] /\ active[u].rating = place(u) - 1
    BY <1>6
  <2>2. place(u) - 1 \in 0 .. n - 1 /\ (place(u) - 1) + 1 = place(u)
    BY <1>1, <1>5
  <2>3. QED
    BY <1>5, <1>8, <2>1, <2>2
<1>10. ASSUME NEW i \in 1 .. n
       PROVE  active[order[i]].rating = i - 1 /\ active[order[i]].amountWon = won[i]
  <2>1. order[i] \in A /\ place(order[i]) = i
    BY <1>3, <1>7
  <2> DEFINE u == order[i]
  <2> HIDE DEF u
  <2>2. active[u].amountWon = won[place(u)] /\ active[u].rating = place(u) - 1 /\ place(u) = i
    BY <1>6, <2>1 DEF u
  <2>3. QED
    BY <2>2 DEF u
<1>11. \A i, j \in 1 .. n : i < j => active[order[i]].amountWon >= active[order[j]].amountWon
  BY <1>2, <1>10
<1>12. QED
  BY <1>3, <1>4, <1>9, <1>10, <1>11 DEF IsRating

LEMMA InitRebuildInv == ASSUME Positive, Init PROVE RebuildInv
<1>1. PICK order \in UNION {Injection(1 .. Cardinality(S), S) : S \in SUBSET UserIds} :
        \E won \in [DOMAIN order -> Winnings] :
          /\ \A i, j \in DOMAIN order : i < j => won[i] >= won[j]
          /\ active = [u \in Range(order) |->
                         LET i == CHOOSE k \in DOMAIN order : order[k] = u
                         IN  [amountWon |-> won[i], rating |-> i - 1]]
          /\ \E S \in SUBSET UserIds : deals \in [S -> DealAmounts]
          /\ todo = Patches(order, active, deals)
          /\ rebuild = StartRebuild(order, active, deals)
  BY DEF Init
<1>2. IsRating(order, active)
  <2>1. PICK S \in SUBSET UserIds : order \in Injection(1 .. Cardinality(S), S)
    OBVIOUS
  <2>2. PICK won \in [DOMAIN order -> Winnings] :
          /\ \A i, j \in DOMAIN order : i < j => won[i] >= won[j]
          /\ active = [u \in Range(order) |->
                         LET i == CHOOSE k \in DOMAIN order : order[k] = u
                         IN  [amountWon |-> won[i], rating |-> i - 1]]
    BY <1>1
  <2>3. QED
    BY <2>1, <2>2, OrdersAreRatings
<1>3. OldRating = order
  BY <1>2, OldRatingIsTheRating
<1>4. AreDeals(active, deals)
  <2>1. PICK S \in SUBSET UserIds : deals \in [S -> DealAmounts]
    BY <1>1
  <2>2. IsFiniteSet(S) /\ S \subseteq Nat /\ DOMAIN deals = S
    BY <2>1, RatingRebuildAssumption, FS_Subset
  <2>3. \A u \in S : deals[u] \in Int /\ deals[u] > 0
    BY <2>1, RatingRebuildAssumption DEF Positive
  <2>4. QED
    BY <2>2, <2>3 DEF AreDeals
<1>5. Minute(order, active, deals)
  BY <1>2, <1>4 DEF Minute
<1> DEFINE all == PatchSet(order, active, deals)
           R   == Order(all)
<1>6. IsFiniteSet(all) /\ IsOrder(all, R)
  BY <1>5, PatchesAreOrdered
<1>7. todo = InOrder(all, R)
  BY <1>1 DEF Patches, Order
<1>8. /\ todo \in Seq(all)
      /\ \A i, j \in 1 .. Len(todo) : i < j => <<todo[i], todo[j]>> \in R
      /\ \A p \in all : Rank(all, R, p) + 1 \in 1 .. Len(todo) /\ todo[Rank(all, R, p) + 1] = p
  <2> HIDE DEF all, R
  <2>1. QED
    BY <1>6, <1>7, InOrderIsSorted
<1>9. \A i, j \in 1 .. Len(todo) : i < j => Precedes(todo[i], todo[j])
  BY <1>8 DEF Order
<1>10. Range(todo) = all
  <2> HIDE DEF all, R
  <2>1. DOMAIN todo = 1 .. Len(todo) /\ \A i \in 1 .. Len(todo) : todo[i] \in all
    BY <1>8
  <2>2. \A p \in all : \E i \in 1 .. Len(todo) : todo[i] = p
    BY <1>8
  <2>3. QED
    BY <2>1, <2>2 DEF Range
<1>11. IsRest(order, active, deals, all) /\ LoopInv(order, active, deals, all, rebuild)
  BY <1>1, <1>5, LoopStart
<1>12. QED
  BY <1>3, <1>5, <1>8, <1>9, <1>10, <1>11 DEF RebuildInv

LEMMA NextKeepsRebuildInv == ASSUME RebuildInv, [ApplyNext]_vars PROVE RebuildInv'
<1>1. CASE ApplyNext
  <2> DEFINE order == OldRating
             all   == PatchSet(order, active, deals)
             p     == Head(todo)
             rest  == Range(todo)
             less  == Range(Tail(todo))
  <2>1. /\ Minute(order, active, deals) /\ todo \in Seq(all)
        /\ \A i, j \in 1 .. Len(todo) : i < j => Precedes(todo[i], todo[j])
        /\ IsRest(order, active, deals, rest) /\ LoopInv(order, active, deals, rest, rebuild)
    BY DEF RebuildInv
  <2>2. /\ todo # <<>> /\ rebuild' = ApplyPatch(rebuild, p) /\ todo' = Tail(todo)
        /\ active' = active /\ deals' = deals
    BY <1>1 DEF ApplyNext
  <2>3. \A s \in all : ~Precedes(s, s)
    BY <2>1, PatchesAreOrdered DEF IsOrder, Order
  <2>4. /\ Tail(todo) \in Seq(all) /\ less = rest \ {p} /\ IsFirst(p, rest)
        /\ \A i, j \in 1 .. Len(Tail(todo)) : i < j => Precedes(Tail(todo)[i], Tail(todo)[j])
    <3> HIDE DEF all
    <3>1. QED
      BY <2>1, <2>2, <2>3, HeadsAndTails
  <2>5. /\ IsRest(order, active, deals, rest \ {p})
        /\ LoopInv(order, active, deals, rest \ {p}, ApplyPatch(rebuild, p))
    BY <2>1, <2>4, LoopStep
  <2>6. OldRating' = OldRating
    BY <2>2 DEF OldRating
  <2>7. QED
    BY <2>1, <2>2, <2>4, <2>5, <2>6 DEF RebuildInv
<1>2. CASE UNCHANGED vars
  BY <1>2 DEF vars, RebuildInv, OldRating
<1>3. QED
  BY <1>1, <1>2

LEMMA EqualTails ==
  ASSUME NEW s, NEW t, NEW m \in Int, NEW n \in Int, \A i \in m .. n : s[i] = t[i]
  PROVE  SubSeq(s, m, n) = SubSeq(t, m, n)
<1> DEFINE S == {s[i] : i \in m .. n}
<1>1. \A i \in m .. n : s[i] \in S /\ t[i] \in S
  OBVIOUS
<1> HIDE DEF S
<1>2. /\ SubSeq(s, m, n) \in Seq(S)
      /\ Len(SubSeq(s, m, n)) = IF m <= n THEN n - m + 1 ELSE 0
      /\ \A i \in 1 .. n - m + 1 : SubSeq(s, m, n)[i] = s[m + i - 1]
  BY <1>1, SubSeqProperties
<1>3. /\ SubSeq(t, m, n) \in Seq(S)
      /\ Len(SubSeq(t, m, n)) = IF m <= n THEN n - m + 1 ELSE 0
      /\ \A i \in 1 .. n - m + 1 : SubSeq(t, m, n)[i] = t[m + i - 1]
  BY <1>1, SubSeqProperties
<1>4. \A i \in 1 .. n - m + 1 : m + i - 1 \in m .. n
  OBVIOUS
<1>5. ASSUME NEW i \in 1 .. Len(SubSeq(s, m, n))
      PROVE  SubSeq(s, m, n)[i] = SubSeq(t, m, n)[i]
  <2>1. i \in 1 .. n - m + 1
    BY <1>2
  <2>2. QED
    BY <1>2, <1>3, <1>4, <2>1
<1>6. QED
  BY <1>2, <1>3, <1>5, SeqEqual

LEMMA RebuildInvMeans == ASSUME RebuildInv PROVE PatchesFit /\ TailIsFinal /\ RebuildIsReference
<1> DEFINE order == OldRating
           all   == PatchSet(order, active, deals)
           rest  == Range(todo)
           ref   == Reference(active, deals)
           size  == Size(order, active, deals)
<1>1. /\ Minute(order, active, deals) /\ todo \in Seq(all)
      /\ IsRest(order, active, deals, rest) /\ LoopInv(order, active, deals, rest, rebuild)
  BY DEF RebuildInv
<1>2. rebuild.fits /\ rebuild.rating \in [1 .. size -> Nat]
  BY <1>1 DEF LoopInv, LoopState
<1>3. PatchesFit
  BY <1>2 DEF PatchesFit
<1>4. RebuildIsReference
  <2>1. SUFFICES ASSUME todo = <<>> PROVE rebuild.rating = ref /\ rebuild.offset = 0
    BY DEF RebuildIsReference
  <2>2. rest = {}
    BY <2>1 DEF Range
  <2>3. QED
    BY <1>1, <2>2, LoopEnd
<1>5. TailIsFinal
  <2> DEFINE put  == {u \in DOMAIN deals : NewOf(order, active, deals, u) \notin rest}
             done == rebuild.lengthDone + Cardinality(put)
  <2>1. /\ size \in Nat /\ done \in 0 .. size
        /\ \A i \in size - done + 1 .. size : rebuild.rating[i] = ref[i]
    <3>1. /\ put = {u \in DOMAIN deals : NewOf(order, active, deals, u) \notin rest}
          /\ done = rebuild.lengthDone + Cardinality(put) /\ size = Size(order, active, deals)
      OBVIOUS
    <3> HIDE DEF order, rest, put, done, size, ref
    <3>2. /\ size \in Nat /\ done \in 0 .. size
          /\ \A i \in size - done + 1 .. size : rebuild.rating[i] = Reference(active, deals)[i]
      BY <1>1, <3>1, TailsAreFinal
    <3>3. QED
      BY <3>2 DEF ref
  <2>2. put = {u \in DOMAIN deals : \A k \in DOMAIN todo :
                 todo[k].changeType = NewPosition => todo[k].user # u}
    <3>1. ASSUME NEW u \in DOMAIN deals
          PROVE  NewOf(order, active, deals, u) \in rest
                   <=> \E k \in DOMAIN todo : todo[k].changeType = NewPosition /\ todo[k].user = u
      <4>1. ASSUME NEW k \in DOMAIN todo
            PROVE  todo[k] = NewOf(order, active, deals, u)
                     <=> todo[k].changeType = NewPosition /\ todo[k].user = u
        <5>1. todo[k] \in all
          BY <1>1
        <5>2. todo[k].changeType = NewPosition =>
                todo[k] = NewOf(order, active, deals, todo[k].user)
          BY <5>1, PatchesAreEntries DEF NewPosition, OldPosition
        <5>3. QED
          BY <1>1, <5>2, EntriesAreTyped
      <4>2. QED
        BY <4>1 DEF Range
    <3>2. QED
      BY <3>1
  <2>3. Len(rebuild.rating) = size
    BY <1>2, <2>1
  <2>4. SubSeq(rebuild.rating, size - done + 1, size) = SubSeq(ref, size - done + 1, size)
    <3> DEFINE m == size - done + 1
    <3>1. m \in Int /\ size \in Int /\ \A i \in m .. size : rebuild.rating[i] = ref[i]
      BY <2>1
    <3> HIDE DEF m, size, ref
    <3>2. SubSeq(rebuild.rating, m, size) = SubSeq(ref, m, size)
      BY <3>1, EqualTails
    <3>3. QED
      BY <3>2 DEF m
  <2>5. QED
    BY <2>2, <2>3, <2>4 DEF TailIsFinal
<1>6. QED
  BY <1>3, <1>4, <1>5

LEMMA RebuildInvHolds == ASSUME Positive PROVE Spec => []RebuildInv
BY InitRebuildInv, NextKeepsRebuildInv, PTL DEF Spec

(* In every iteration the assertions of ratingMoveBlock and ratingInsert   *)
(* (rating_calculator.cpp:85, 97) hold.                                    *)
THEOREM PatchesAlwaysFit == ASSUME Positive PROVE Spec => []PatchesFit
BY RebuildInvHolds, RebuildInvMeans, PTL

(* What recalculate has written, from the end of the vector on, it never   *)
(* has to come back to: it is the tail of the new rating already.          *)
THEOREM TailIsAlwaysFinal == ASSUME Positive PROVE Spec => []TailIsFinal
BY RebuildInvHolds, RebuildInvMeans, PTL

(* The loop of recalculate ends with the rating that sorting all users     *)
(* anew would give, with no gap left in the vector.                        *)
THEOREM RebuildGivesTheReference == ASSUME Positive PROVE Spec => []RebuildIsReference
BY RebuildInvHolds, RebuildInvMeans, PTL
=============================================================================
