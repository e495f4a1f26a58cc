-------------------------- MODULE RatingPatchProofs --------------------------
(***************************************************************************)
(* Facts about the patches of a minute and the loop that applies them, for *)
(* any sorted rating and any deals.                                        *)
(***************************************************************************)
EXTENDS RatingPatch, FiniteSetTheorems, TLAPS

-----------------------------------------------------------------------------
LEMMA IntervalsAreCounted ==
  ASSUME NEW i \in Int, NEW n \in Int
  PROVE  /\ IsFiniteSet(i .. n)
         /\ i <= n + 1 => Cardinality(i .. n) = n - i + 1
BY FS_Interval

LEMMA DisjointSetsAddUp ==
  ASSUME NEW S, NEW T, IsFiniteSet(S), IsFiniteSet(T), S \cap T = {}
  PROVE  /\ Cardinality(S) \in Nat /\ Cardinality(T) \in Nat
         /\ Cardinality(S \cup T) = Cardinality(S) + Cardinality(T)
<1>1. Cardinality(S) \in Nat /\ Cardinality(T) \in Nat
  BY FS_CardinalityType
<1>2. Cardinality(S \cup T) = Cardinality(S) + Cardinality(T) - Cardinality(S \cap T)
  BY FS_Union
<1>3. Cardinality(S \cap T) = 0
  BY FS_EmptySet
<1>4. QED
  BY <1>1, <1>2, <1>3

(* A finite set in a strict total order is enumerated by its ranks.        *)
IsOrder(S, R) ==
  /\ \A x \in S : <<x, x>> \notin R
  /\ \A x, y, z \in S : <<x, y>> \in R /\ <<y, z>> \in R => <<x, z>> \in R
  /\ \A x, y \in S : x # y => <<x, y>> \in R \/ <<y, x>> \in R

Below(S, R, x) == {y \in S : <<y, x>> \in R}

LEMMA RanksAreFinite ==
  ASSUME NEW S, NEW R, NEW x, IsFiniteSet(S)
  PROVE  IsFiniteSet(Below(S, R, x)) /\ Rank(S, R, x) \in Nat
<1>1. Below(S, R, x) \subseteq S
  BY DEF Below
<1>2. QED
  BY <1>1, FS_Subset, FS_CardinalityType DEF Rank, Below

LEMMA RanksFollowTheOrder ==
  ASSUME NEW S, NEW R, IsFiniteSet(S), IsOrder(S, R),
         NEW x \in S, NEW y \in S, <<x, y>> \in R
  PROVE  Rank(S, R, x) < Rank(S, R, y)
<1>1. Below(S, R, x) \subseteq Below(S, R, y)
  BY DEF Below, IsOrder
<1>2. x \in Below(S, R, y) /\ x \notin Below(S, R, x)
  BY DEF Below, IsOrder
<1>3. Rank(S, R, x) <= Rank(S, R, y) /\ Rank(S, R, x) # Rank(S, R, y)
  BY <1>1, <1>2, RanksAreFinite, FS_Subset DEF Rank, Below
<1>4. QED
  BY <1>3, RanksAreFinite

LEMMA RanksAreDistinct ==
  ASSUME NEW S, NEW R, IsFiniteSet(S), IsOrder(S, R),
         NEW x \in S, NEW y \in S, Rank(S, R, x) = Rank(S, R, y)
  PROVE  x = y
<1>1. Rank(S, R, x) \in Nat /\ Rank(S, R, y) \in Nat
  BY RanksAreFinite
<1>2. <<x, y>> \notin R
  BY <1>1, RanksFollowTheOrder
<1>3. <<y, x>> \notin R
  BY <1>1, RanksFollowTheOrder
<1>4. QED
  BY <1>2, <1>3 DEF IsOrder

LEMMA RanksAreTaken ==
  ASSUME NEW S, NEW R, IsFiniteSet(S), IsOrder(S, R)
  PROVE  /\ \A x \in S : Rank(S, R, x) \in 0 .. Cardinality(S) - 1
         /\ \A n \in 0 .. Cardinality(S) - 1 : \E x \in S : Rank(S, R, x) = n
<1> DEFINE size == Cardinality(S)
           f    == [x \in S |-> Rank(S, R, x)]
<1>1. size \in Nat
  BY FS_CardinalityType
<1>2. ASSUME NEW x \in S
      PROVE  Rank(S, R, x) \in 0 .. size - 1
  <2>1. Below(S, R, x) \subseteq S /\ Below(S, R, x) # S
    BY DEF Below, IsOrder
  <2>2. Rank(S, R, x) <= size /\ Rank(S, R, x) # size
    BY <2>1, FS_Subset DEF Rank, Below
  <2>3. QED
    BY <1>1, <2>2, RanksAreFinite
<1>3. IsFiniteSet(0 .. size - 1) /\ Cardinality(0 .. size - 1) = size
  BY <1>1, FS_Interval
<1>4. f \in Injection(S, 0 .. size - 1)
  BY <1>2, RanksAreDistinct DEF Injection, IsInjective
<1>5. f \in Surjection(S, 0 .. size - 1)
  BY <1>3, <1>4, FS_Injection
<1>6. QED
  BY <1>2, <1>5 DEF Surjection

LEMMA InOrderIsSorted ==
  ASSUME NEW S, NEW R, IsFiniteSet(S), IsOrder(S, R)
  PROVE  LET seq == InOrder(S, R)
         IN  /\ Cardinality(S) \in Nat /\ Len(seq) = Cardinality(S)
             /\ seq \in Seq(S)
             /\ \A i \in 1 .. Len(seq) : Rank(S, R, seq[i]) = i - 1
             /\ \A x \in S : Rank(S, R, x) + 1 \in 1 .. Len(seq) /\ seq[Rank(S, R, x) + 1] = x
             /\ \A i, j \in 1 .. Len(seq) : i < j => <<seq[i], seq[j]>> \in R
<1> DEFINE seq  == InOrder(S, R)
           size == Cardinality(S)
<1>1. size \in Nat
  BY FS_CardinalityType
<1>2. ASSUME NEW i \in 1 .. size
      PROVE  seq[i] \in S /\ Rank(S, R, seq[i]) = i - 1
  <2>1. i - 1 \in 0 .. size - 1
    BY <1>1
  <2>2. \E x \in S : Rank(S, R, x) = i - 1
    BY <2>1, RanksAreTaken
  <2>3. seq[i] = CHOOSE x \in S : Rank(S, R, x) = i - 1
    BY DEF InOrder
  <2>4. QED
    BY <2>2, <2>3
<1>3. seq \in Seq(S) /\ Len(seq) = size
  <2>1. DOMAIN seq = 1 .. size /\ seq = [i \in 1 .. size |-> seq[i]]
    BY DEF InOrder
  <2>2. seq \in [1 .. size -> S]
    BY <1>2, <2>1
  <2>3. QED
    BY <1>1, <2>1, <2>2
<1> HIDE DEF seq
<1>4. ASSUME NEW x \in S
      PROVE  Rank(S, R, x) + 1 \in 1 .. size /\ seq[Rank(S, R, x) + 1] = x
  <2>1. Rank(S, R, x) \in 0 .. size - 1
    BY RanksAreTaken
  <2>2. Rank(S, R, x) + 1 \in 1 .. size /\ (Rank(S, R, x) + 1) - 1 = Rank(S, R, x)
    BY <1>1, <2>1
  <2>3. QED
    BY <1>2, <2>2, RanksAreDistinct
<1>5. ASSUME NEW i \in 1 .. size, NEW j \in 1 .. size, i < j
      PROVE  <<seq[i], seq[j]>> \in R
  <2>1. /\ seq[i] \in S /\ seq[j] \in S
        /\ Rank(S, R, seq[i]) = i - 1 /\ Rank(S, R, seq[j]) = j - 1
    BY <1>2
  <2>2. seq[i] # seq[j] /\ ~(Rank(S, R, seq[j]) < Rank(S, R, seq[i]))
    BY <1>1, <1>5, <2>1
  <2>3. QED
    BY <2>1, <2>2, RanksFollowTheOrder DEF IsOrder
<1>6. QED
  BY <1>1, <1>2, <1>3, <1>4, <1>5 DEF seq

-----------------------------------------------------------------------------
(* A rating and the deals of a minute as the calculator knows them: users  *)
(* know their positions, winnings fall along the vector, and what a user   *)
(* of the rating wins is positive (MessageDispatcher adds up the deals).   *)
IsRating(rating, active) ==
  /\ DOMAIN active \subseteq Nat
  /\ rating \in Seq(DOMAIN active)
  /\ \A u \in DOMAIN active :
       /\ active[u].amountWon \in Int
       /\ active[u].rating \in 0 .. Len(rating) - 1
       /\ rating[active[u].rating + 1] = u
  /\ \A i \in 1 .. Len(rating) : active[rating[i]].rating = i - 1
  /\ \A i, j \in 1 .. Len(rating) :
       i < j => active[rating[i]].amountWon >= active[rating[j]].amountWon

AreDeals(active, deals) ==
  /\ DOMAIN deals \subseteq Nat /\ IsFiniteSet(DOMAIN deals)
  /\ \A u \in DOMAIN deals : deals[u] \in Int
  /\ \A u \in DOMAIN deals \cap DOMAIN active : deals[u] > 0

LEMMA RatingTypes ==
  ASSUME NEW rating, NEW active, IsRating(rating, active)
  PROVE  /\ Len(rating) \in Nat /\ DOMAIN rating = 1 .. Len(rating)
         /\ \A i \in 1 .. Len(rating) :
              /\ rating[i] \in DOMAIN active /\ rating[i] \in Nat
              /\ active[rating[i]].amountWon \in Int /\ active[rating[i]].rating = i - 1
BY DEF IsRating

LEMMA PlacesAreKnown ==
  ASSUME NEW rating, NEW active, IsRating(rating, active), NEW u \in DOMAIN active
  PROVE  /\ active[u].rating \in 0 .. Len(rating) - 1
         /\ active[u].rating + 1 \in 1 .. Len(rating)
         /\ rating[active[u].rating + 1] = u
BY RatingTypes DEF IsRating

LEMMA WinningsFall ==
  ASSUME NEW rating, NEW active, IsRating(rating, active),
         NEW i \in 1 .. Len(rating), NEW j \in 1 .. Len(rating), i <= j
  PROVE  active[rating[i]].amountWon >= active[rating[j]].amountWon
<1>1. CASE i = j
  BY <1>1, RatingTypes
<1>2. CASE i < j
  BY <1>2 DEF IsRating
<1>3. QED
  BY <1>1, <1>2, RatingTypes

LEMMA TotalsAreIntegers ==
  ASSUME NEW rating, NEW active, NEW deals, IsRating(rating, active), AreDeals(active, deals)
  PROVE  /\ \A u : Total(active, deals, u) \in Int
         /\ \A u \in DOMAIN active \ DOMAIN deals : Total(active, deals, u) = active[u].amountWon
         /\ \A u \in DOMAIN active \cap DOMAIN deals : Total(active, deals, u) > active[u].amountWon
BY DEF Total, IsRating, AreDeals

(* The users of the first places are as many as the places.                *)
LEMMA PrefixesAreCounted ==
  ASSUME NEW rating, NEW active, IsRating(rating, active), NEW j \in 0 .. Len(rating)
  PROVE  LET prefix == {rating[i] : i \in 1 .. j}
         IN  IsFiniteSet(prefix) /\ Cardinality(prefix) = j
<1> DEFINE prefix == {rating[i] : i \in 1 .. j}
           f == [i \in 1 .. j |-> rating[i]]
<1>1. Len(rating) \in Nat /\ j \in Nat
  BY RatingTypes
<1>2. \A i, k \in 1 .. j : rating[i] = rating[k] => i = k
  <2>1. ASSUME NEW i \in 1 .. j, NEW k \in 1 .. j, rating[i] = rating[k]
        PROVE  i = k
    <3>1. i \in 1 .. Len(rating) /\ k \in 1 .. Len(rating)
      BY <1>1
    <3>2. active[rating[i]].rating = i - 1 /\ active[rating[k]].rating = k - 1
      BY <3>1, RatingTypes
    <3>3. QED
      BY <1>1, <2>1, <3>2
  <2>2. QED
    BY <2>1
<1>3. f \in Injection(1 .. j, prefix) /\ f \in Surjection(1 .. j, prefix)
  BY <1>2 DEF Injection, IsInjective, Surjection
<1>4. IsFiniteSet(1 .. j) /\ Cardinality(1 .. j) = j
  BY <1>1, FS_Interval
<1>5. ExistsBijection(1 .. j, prefix)
  BY <1>3 DEF ExistsBijection, Bijection
<1>6. QED
  BY <1>4, <1>5, FS_Bijection

LEMMA UsersAreCounted ==
  ASSUME NEW rating, NEW active, IsRating(rating, active)
  PROVE  IsFiniteSet(DOMAIN active) /\ Cardinality(DOMAIN active) = Len(rating)
<1>1. Len(rating) \in 0 .. Len(rating)
  BY RatingTypes
<1>2. {rating[i] : i \in 1 .. Len(rating)} = DOMAIN active
  <2>1. ASSUME NEW u \in DOMAIN active
        PROVE  \E i \in 1 .. Len(rating) : rating[i] = u
    <3>1. active[u].rating \in 0 .. Len(rating) - 1 /\ rating[active[u].rating + 1] = u
      BY DEF IsRating
    <3>2. active[u].rating + 1 \in 1 .. Len(rating)
      BY <3>1, RatingTypes
    <3>3. QED
      BY <3>1, <3>2
  <2>2. \A i \in 1 .. Len(rating) : rating[i] \in DOMAIN active
    BY RatingTypes
  <2>3. QED
    BY <2>1, <2>2
<1>3. QED
  BY <1>1, <1>2, PrefixesAreCounted

(* std::upper_bound: who has won less are the last elements.               *)
LEMMA ElementsAfterAreLast ==
  ASSUME NEW rating, NEW active, IsRating(rating, active), NEW winnings \in Int
  PROVE  LET e == ElementsAfter(rating, active, winnings)
         IN  /\ e \in 0 .. Len(rating)
             /\ \A i \in 1 .. Len(rating) :
                  active[rating[i]].amountWon < winnings <=> i > Len(rating) - e
<1> DEFINE n == Len(rating)
           less == {i \in DOMAIN rating : active[rating[i]].amountWon < winnings}
           e == ElementsAfter(rating, active, winnings)
<1>1. n \in Nat /\ DOMAIN rating = 1 .. n
  BY RatingTypes
<1>2. e = Cardinality(less)
  BY DEF ElementsAfter
<1>3. IsFiniteSet(1 .. n) /\ Cardinality(1 .. n) = n /\ less \subseteq 1 .. n
  <2>1. IsFiniteSet(1 .. n) /\ Cardinality(1 .. n) = n
    BY <1>1, IntervalsAreCounted
  <2>2. less \subseteq DOMAIN rating
    OBVIOUS
  <2>3. QED
    BY <1>1, <2>1, <2>2
<1>4. IsFiniteSet(less) /\ e \in 0 .. n
  BY <1>1, <1>2, <1>3, FS_Subset, FS_CardinalityType
<1>5. ASSUME NEW i \in 1 .. n, active[rating[i]].amountWon < winnings
      PROVE  i > n - e
  <2>1. i .. n \subseteq less
    <3>1. ASSUME NEW k \in i .. n
          PROVE  active[rating[k]].amountWon < winnings /\ k \in 1 .. n
      <4>1. k \in 1 .. n /\ i <= k
        BY <1>1
      <4>2. active[rating[i]].amountWon >= active[rating[k]].amountWon
        BY <4>1, WinningsFall
      <4>3. QED
        BY <1>5, <4>1, <4>2, RatingTypes
    <3>2. QED
      BY <1>1, <3>1
  <2>2. Cardinality(i .. n) = n - i + 1
    BY <1>1, IntervalsAreCounted
  <2>3. n - i + 1 <= e
    BY <1>2, <1>4, <2>1, <2>2, FS_Subset
  <2>4. QED
    BY <1>1, <1>4, <2>3
<1>6. ASSUME NEW i \in 1 .. n, ~(active[rating[i]].amountWon < winnings)
      PROVE  ~(i > n - e)
  <2>1. less \subseteq i + 1 .. n
    <3>1. ASSUME NEW k \in 1 .. n, k <= i
          PROVE  ~(active[rating[k]].amountWon < winnings)
      <4>1. active[rating[k]].amountWon >= active[rating[i]].amountWon
        BY <3>1, WinningsFall
      <4>2. QED
        BY <1>6, <4>1, RatingTypes
    <3>2. QED
      BY <1>1, <3>1
  <2>2. IsFiniteSet(i + 1 .. n) /\ Cardinality(i + 1 .. n) = n - i
    BY <1>1, IntervalsAreCounted
  <2>3. e <= n - i
    BY <1>2, <2>1, <2>2, FS_Subset
  <2>4. QED
    BY <1>1, <1>4, <2>3
<1>7. QED
  BY <1>4, <1>5, <1>6

LEMMA ElementsAfterGrow ==
  ASSUME NEW rating, NEW active, IsRating(rating, active),
         NEW w \in Int, NEW v \in Int, w <= v
  PROVE  ElementsAfter(rating, active, w) <= ElementsAfter(rating, active, v)
<1> DEFINE n == Len(rating)
           e == ElementsAfter(rating, active, w)
           f == ElementsAfter(rating, active, v)
<1>1. n \in Nat /\ e \in 0 .. n /\ f \in 0 .. n
  BY RatingTypes, ElementsAfterAreLast
<1>2. \A i \in 1 .. n : active[rating[i]].amountWon < w <=> i > n - e
  BY ElementsAfterAreLast
<1>3. \A i \in 1 .. n : active[rating[i]].amountWon < v <=> i > n - f
  BY ElementsAfterAreLast
<1>4. CASE e = 0
  BY <1>1, <1>4
<1>5. CASE e > 0
  <2> DEFINE i == n - e + 1
  <2>1. i \in 1 .. n /\ i > n - e
    BY <1>1, <1>5
  <2>2. active[rating[i]].amountWon < w /\ active[rating[i]].amountWon \in Int
    BY <1>2, <2>1, RatingTypes
  <2>3. active[rating[i]].amountWon < v
    BY <2>2
  <2>4. i > n - f
    BY <1>3, <2>1, <2>3
  <2>5. QED
    BY <1>1, <2>1, <2>4
<1>6. QED
  BY <1>1, <1>4, <1>5


-----------------------------------------------------------------------------
(* The patches of a minute and the rating they lead to are well ordered.   *)
Minute(rating, active, deals) == IsRating(rating, active) /\ AreDeals(active, deals)

NewOf(rating, active, deals, u) == NewEntry(rating, active, u, Total(active, deals, u))

Order(S) == {pq \in S \X S : Precedes(pq[1], pq[2])}

Ranking(active, deals, S) == {uv \in S \X S : Better(active, deals, uv[1], uv[2])}

LEMMA EntriesAreTyped ==
  ASSUME NEW rating, NEW active, NEW deals, Minute(rating, active, deals), NEW u
  PROVE  /\ u \in DOMAIN deals \cap DOMAIN active =>
              /\ OldEntry(rating, active, u) \in PatchSet(rating, active, deals)
              /\ OldEntry(rating, active, u).user = u /\ u \in Nat
              /\ OldEntry(rating, active, u).changeType = OldPosition
              /\ OldEntry(rating, active, u).amountWon = 0
              /\ active[u].rating \in 0 .. Len(rating) - 1
              /\ OldEntry(rating, active, u).elementsAfter = Len(rating) - active[u].rating - 1
              /\ OldEntry(rating, active, u).elementsAfter \in 0 .. Len(rating) - 1
         /\ u \in DOMAIN deals =>
              /\ NewOf(rating, active, deals, u) \in PatchSet(rating, active, deals)
              /\ NewOf(rating, active, deals, u).user = u /\ u \in Nat
              /\ NewOf(rating, active, deals, u).changeType = NewPosition
              /\ NewOf(rating, active, deals, u).amountWon = Total(active, deals, u)
              /\ Total(active, deals, u) \in Int
              /\ NewOf(rating, active, deals, u).elementsAfter
                   = ElementsAfter(rating, active, Total(active, deals, u))
              /\ NewOf(rating, active, deals, u).elementsAfter \in 0 .. Len(rating)
<1> USE DEF Minute
<1>1. Len(rating) \in Nat
  BY RatingTypes
<1>2. ASSUME u \in DOMAIN deals \cap DOMAIN active
      PROVE  active[u].rating \in 0 .. Len(rating) - 1
  BY <1>2 DEF IsRating
<1>3. u \in DOMAIN deals => u \in Nat
  BY DEF AreDeals
<1>4. Total(active, deals, u) \in Int
  BY TotalsAreIntegers
<1>5. ElementsAfter(rating, active, Total(active, deals, u)) \in 0 .. Len(rating)
  BY <1>4, ElementsAfterAreLast
<1>6. ASSUME u \in DOMAIN deals \cap DOMAIN active
      PROVE  Len(rating) - active[u].rating - 1 \in 0 .. Len(rating) - 1
  BY <1>1, <1>2, <1>6
<1>7. QED
  BY <1>2, <1>3, <1>4, <1>5, <1>6 DEF OldEntry, NewOf, NewEntry, PatchSet

(* A patch is the old or the new entry of its user.                        *)
LEMMA PatchesAreEntries ==
  ASSUME NEW rating, NEW active, NEW deals, NEW p \in PatchSet(rating, active, deals)
  PROVE  \/ /\ p.user \in DOMAIN deals \cap DOMAIN active
            /\ p = OldEntry(rating, active, p.user) /\ p.changeType = OldPosition
         \/ /\ p.user \in DOMAIN deals
            /\ p = NewOf(rating, active, deals, p.user) /\ p.changeType = NewPosition
<1>1. CASE p \in {OldEntry(rating, active, u) : u \in DOMAIN deals \cap DOMAIN active}
  BY <1>1 DEF OldEntry
<1>2. CASE p \in {NewOf(rating, active, deals, u) : u \in DOMAIN deals}
  BY <1>2 DEF NewOf, NewEntry
<1>3. QED
  BY <1>1, <1>2 DEF PatchSet, NewOf

LEMMA PatchesAreTyped ==
  ASSUME NEW rating, NEW active, NEW deals, Minute(rating, active, deals),
         NEW p \in PatchSet(rating, active, deals)
  PROVE  /\ p.user \in Nat /\ p.elementsAfter \in 0 .. Len(rating)
         /\ p.changeType \in {OldPosition, NewPosition} /\ p.amountWon \in Int
<1>1. Len(rating) \in Nat
  BY RatingTypes DEF Minute
<1>2. CASE p.user \in DOMAIN deals \cap DOMAIN active /\ p = OldEntry(rating, active, p.user)
  <2>1. p.elementsAfter \in 0 .. Len(rating) - 1 /\ p.amountWon = 0
        /\ p.user \in Nat /\ p.changeType = OldPosition
    BY <1>2, EntriesAreTyped
  <2>2. QED
    BY <1>1, <2>1
<1>3. CASE p.user \in DOMAIN deals /\ p = NewOf(rating, active, deals, p.user)
  BY <1>3, EntriesAreTyped
<1>4. QED
  BY <1>2, <1>3, PatchesAreEntries

LEMMA PatchesDifferInAField ==
  ASSUME NEW rating, NEW active, NEW deals,
         NEW p \in PatchSet(rating, active, deals), NEW q \in PatchSet(rating, active, deals),
         p.user = q.user, p.changeType = q.changeType
  PROVE  p = q
BY PatchesAreEntries DEF OldPosition, NewPosition

LEMMA PatchesAreOrdered ==
  ASSUME NEW rating, NEW active, NEW deals, Minute(rating, active, deals)
  PROVE  LET all == PatchSet(rating, active, deals)
         IN  IsFiniteSet(all) /\ IsOrder(all, Order(all))
<1> DEFINE all  == PatchSet(rating, active, deals)
           both == DOMAIN deals \cap DOMAIN active
           olds == {OldEntry(rating, active, u) : u \in both}
           news == {NewOf(rating, active, deals, u) : u \in DOMAIN deals}
<1>1. IsFiniteSet(DOMAIN deals) /\ IsFiniteSet(both)
  BY FS_Subset DEF Minute, AreDeals
<1>2. IsFiniteSet(olds) /\ IsFiniteSet(news)
  <2>1. /\ [u \in both |-> OldEntry(rating, active, u)] \in Surjection(both, olds)
        /\ [u \in DOMAIN deals |-> NewOf(rating, active, deals, u)]
             \in Surjection(DOMAIN deals, news)
    BY DEF Surjection
  <2>2. QED
    BY <1>1, <2>1, FS_Surjection
<1>3. IsFiniteSet(all)
  BY <1>2, FS_Union DEF PatchSet, NewOf
<1>4. \A p \in all : /\ p.user \in Nat /\ p.elementsAfter \in Int
                     /\ p.changeType \in Int /\ p.amountWon \in Int
  <2>1. ASSUME NEW p \in all
        PROVE  /\ p.user \in Nat /\ p.elementsAfter \in Int
               /\ p.changeType \in Int /\ p.amountWon \in Int
    BY PatchesAreTyped, RatingTypes DEF Minute, OldPosition, NewPosition
  <2>2. QED
    BY <2>1
<1>5. \A p, q \in all : p.user = q.user /\ p.changeType = q.changeType => p = q
  BY PatchesDifferInAField
<1> HIDE DEF all
<1>6. \A p \in all : ~Precedes(p, p)
  BY <1>4 DEF Precedes
<1>7. \A p, q, s \in all : Precedes(p, q) /\ Precedes(q, s) => Precedes(p, s)
  BY <1>4 DEF Precedes
<1>8. \A p, q \in all : p # q => Precedes(p, q) \/ Precedes(q, p)
  BY <1>4, <1>5 DEF Precedes
<1>9. QED
  BY <1>3, <1>6, <1>7, <1>8 DEF IsOrder, Order, all

LEMMA UsersAreRanked ==
  ASSUME NEW rating, NEW active, NEW deals, Minute(rating, active, deals)
  PROVE  LET all == DOMAIN active \cup DOMAIN deals
         IN  IsFiniteSet(all) /\ IsOrder(all, Ranking(active, deals, all))
<1> DEFINE all == DOMAIN active \cup DOMAIN deals
           total(u) == Total(active, deals, u)
<1>1. IsFiniteSet(all)
  BY UsersAreCounted, FS_Union DEF Minute, AreDeals
<1>2. \A u : total(u) \in Int
  BY TotalsAreIntegers DEF Minute
<1>3. \A u \in all : u \in Nat
  BY DEF Minute, IsRating, AreDeals
<1>4. \A u \in all \ DOMAIN deals : u \in DOMAIN active /\ active[u].rating \in Int
  BY RatingTypes DEF Minute, IsRating
<1>5. \A u, v \in DOMAIN active : active[u].rating = active[v].rating => u = v
  BY DEF Minute, IsRating
<1> HIDE DEF all, total
<1>6. \A u, v \in all :
        Better(active, deals, u, v) <=>
          \/ total(u) > total(v)
          \/ /\ total(u) = total(v)
             /\ \/ u \notin DOMAIN deals /\ v \in DOMAIN deals
                \/ /\ u \notin DOMAIN deals /\ v \notin DOMAIN deals
                   /\ active[u].rating < active[v].rating
                \/ u \in DOMAIN deals /\ v \in DOMAIN deals /\ u > v
  BY DEF Better, total
<1>7. \A u \in all : ~Better(active, deals, u, u)
  BY <1>2, <1>3, <1>4, <1>6
<1>8. ASSUME NEW u \in all, NEW v \in all, NEW w \in all,
             Better(active, deals, u, v), Better(active, deals, v, w)
      PROVE  Better(active, deals, u, w)
  BY <1>2, <1>3, <1>4, <1>6, <1>8
<1>9. ASSUME NEW u \in all, NEW v \in all, u # v
      PROVE  Better(active, deals, u, v) \/ Better(active, deals, v, u)
  <2>1. CASE u \notin DOMAIN deals /\ v \notin DOMAIN deals
    <3>1. active[u].rating # active[v].rating
      BY <1>4, <1>5, <1>9, <2>1
    <3>2. QED
      BY <1>2, <1>4, <1>6, <2>1, <3>1
  <2>2. CASE u \in DOMAIN deals \/ v \in DOMAIN deals
    BY <1>2, <1>3, <1>6, <1>9, <2>2
  <2>3. QED
    BY <2>1, <2>2
<1>10. IsOrder(all, Ranking(active, deals, all))
  BY <1>7, <1>8, <1>9 DEF IsOrder, Ranking
<1>11. QED
  BY <1>1, <1>10 DEF all

Fresh(active, deals) == Cardinality(DOMAIN deals \ DOMAIN active)

(* The new rating has all users, each at the place of its rank.            *)
LEMMA ReferenceIsRanked ==
  ASSUME NEW rating, NEW active, NEW deals, Minute(rating, active, deals)
  PROVE  LET all == DOMAIN active \cup DOMAIN deals
             ref == Reference(active, deals)
             rank(u) == Cardinality({v \in all : Better(active, deals, v, u)})
         IN  /\ ref \in Seq(all)
             /\ Fresh(active, deals) \in Nat
             /\ Len(ref) = Len(rating) + Fresh(active, deals)
             /\ \A u \in all : ref[rank(u) + 1] = u
<1> DEFINE all == DOMAIN active \cup DOMAIN deals
           new == DOMAIN deals \ DOMAIN active
           ref == Reference(active, deals)
           R   == Ranking(active, deals, all)
           rank(u) == Cardinality({v \in all : Better(active, deals, v, u)})
<1>1. IsFiniteSet(all) /\ IsOrder(all, R)
  BY UsersAreRanked
<1>2. ref = InOrder(all, R)
  BY DEF Reference, Ranking
<1>3. /\ ref \in Seq(all) /\ Len(ref) = Cardinality(all)
      /\ \A u \in all : ref[Rank(all, R, u) + 1] = u
  <2> HIDE DEF all, R, ref
  <2>1. QED
    BY <1>1, <1>2, InOrderIsSorted
<1>4. \A u \in all : Rank(all, R, u) = rank(u)
  <2>1. ASSUME NEW u \in all
        PROVE  {v \in all : <<v, u>> \in R} = {v \in all : Better(active, deals, v, u)}
    BY DEF Ranking
  <2>2. QED
    BY <2>1 DEF Rank
<1>5. IsFiniteSet(DOMAIN active) /\ Cardinality(DOMAIN active) = Len(rating)
  BY UsersAreCounted DEF Minute
<1>6. IsFiniteSet(new) /\ Cardinality(new) \in Nat
  BY FS_Subset, FS_CardinalityType DEF Minute, AreDeals
<1>7. Cardinality(all) = Len(rating) + Cardinality(new)
  <2>1. all = DOMAIN active \cup new /\ DOMAIN active \cap new = {}
    OBVIOUS
  <2>2. Cardinality(DOMAIN active \cup new) = Cardinality(DOMAIN active) + Cardinality(new)
    BY <1>5, <1>6, <2>1, DisjointSetsAddUp
  <2>3. QED
    BY <1>5, <2>1, <2>2
<1>8. QED
  BY <1>3, <1>4, <1>6, <1>7 DEF Fresh

(* Of the first places, those of users without deals, and some with deals. *)
LEMMA PlacesAreCounted ==
  ASSUME NEW rating, NEW active, NEW deals, Minute(rating, active, deals),
         NEW j \in 0 .. Len(rating), NEW O, NEW N \in SUBSET DOMAIN deals,
         O = {v \in DOMAIN active \cap DOMAIN deals : active[v].rating < j}
  PROVE  LET X == {v \in DOMAIN active \ DOMAIN deals : active[v].rating < j}
         IN  Cardinality(X \cup N) = j - Cardinality(O) + Cardinality(N)
<1> DEFINE X == {v \in DOMAIN active \ DOMAIN deals : active[v].rating < j}
           prefix == {rating[i] : i \in 1 .. j}
<1>1. Len(rating) \in Nat /\ j \in Nat
  BY RatingTypes DEF Minute
<1>2. IsFiniteSet(prefix) /\ Cardinality(prefix) = j
  BY PrefixesAreCounted DEF Minute
<1>3. prefix = {v \in DOMAIN active : active[v].rating < j}
  <2>1. ASSUME NEW i \in 1 .. j
        PROVE  rating[i] \in DOMAIN active /\ active[rating[i]].rating < j
    <3>1. i \in 1 .. Len(rating)
      BY <1>1
    <3>2. rating[i] \in DOMAIN active /\ active[rating[i]].rating = i - 1
      BY <3>1, RatingTypes DEF Minute
    <3>3. QED
      BY <1>1, <3>2
  <2>2. ASSUME NEW v \in DOMAIN active, active[v].rating < j
        PROVE  \E i \in 1 .. j : rating[i] = v
    <3>1. active[v].rating \in 0 .. Len(rating) - 1 /\ rating[active[v].rating + 1] = v
      BY DEF Minute, IsRating
    <3>2. active[v].rating + 1 \in 1 .. j
      BY <1>1, <2>2, <3>1
    <3>3. QED
      BY <3>1, <3>2
  <2>3. QED
    BY <2>1, <2>2
<1>4. prefix = X \cup O /\ X \cap O = {} /\ X \cap N = {}
  BY <1>3
<1>5. IsFiniteSet(X) /\ IsFiniteSet(O) /\ IsFiniteSet(N)
  BY <1>2, <1>4, FS_Subset DEF Minute, AreDeals
<1> HIDE DEF X, prefix
<1>6. Cardinality(prefix) = Cardinality(X) + Cardinality(O)
  BY <1>4, <1>5, DisjointSetsAddUp
<1>7. Cardinality(X \cup N) = Cardinality(X) + Cardinality(N)
  BY <1>4, <1>5, DisjointSetsAddUp
<1>8. Cardinality(X) \in Nat /\ Cardinality(O) \in Nat /\ Cardinality(N) \in Nat
  BY <1>5, FS_CardinalityType
<1>9. Cardinality(X \cup N) = j - Cardinality(O) + Cardinality(N)
  BY <1>1, <1>2, <1>6, <1>7, <1>8
<1>10. QED
  BY <1>9 DEF X

-----------------------------------------------------------------------------
(* What is still to apply: the patches "rest" from some patch on. The last *)
(* "covered" users of the old rating are behind the loop.                  *)
OldLeft(rating, active, deals, rest) ==
  {u \in DOMAIN active \cap DOMAIN deals : OldEntry(rating, active, u) \in rest}

NewLeft(rating, active, deals, rest) ==
  {u \in DOMAIN deals : NewOf(rating, active, deals, u) \in rest}

IsRest(rating, active, deals, rest) ==
  /\ rest \subseteq PatchSet(rating, active, deals)
  /\ \A s \in PatchSet(rating, active, deals) \ rest, q \in rest : Precedes(s, q)

Covers(rating, active, deals, rest, covered) ==
  /\ covered \in 0 .. Len(rating)
  /\ \A q \in rest : q.elementsAfter >= covered
  /\ \A s \in PatchSet(rating, active, deals) \ rest :
       /\ s.elementsAfter <= covered
       /\ s.changeType = OldPosition => s.elementsAfter < covered

LEMMA UsersRiseByDeals ==
  ASSUME NEW rating, NEW active, NEW deals, Minute(rating, active, deals),
         NEW u \in DOMAIN active \cap DOMAIN deals
  PROVE  OldEntry(rating, active, u).elementsAfter < NewOf(rating, active, deals, u).elementsAfter
<1> DEFINE n == Len(rating)
           i == active[u].rating + 1
           e == ElementsAfter(rating, active, Total(active, deals, u))
<1>1. n \in Nat /\ active[u].rating \in 0 .. n - 1 /\ rating[i] = u
  BY RatingTypes DEF Minute, IsRating
<1>2. i \in 1 .. n
  BY <1>1
<1>3. active[rating[i]].amountWon < Total(active, deals, u)
  <2>1. Total(active, deals, u) > active[u].amountWon
    BY TotalsAreIntegers DEF Minute
  <2>2. Total(active, deals, u) \in Int /\ active[u].amountWon \in Int
    BY TotalsAreIntegers DEF Minute, IsRating
  <2>3. QED
    BY <1>1, <2>1, <2>2
<1>4. Total(active, deals, u) \in Int /\ IsRating(rating, active)
  BY TotalsAreIntegers DEF Minute
<1>5. i > n - e /\ e \in 0 .. n
  <2> HIDE DEF i
  <2>1. \A w \in Int : active[rating[i]].amountWon < w =>
          i > n - ElementsAfter(rating, active, w) /\ ElementsAfter(rating, active, w) \in 0 .. n
    BY <1>2, <1>4, ElementsAfterAreLast
  <2>2. QED
    BY <1>3, <1>4, <2>1
<1>6. /\ OldEntry(rating, active, u).elementsAfter = n - i
      /\ NewOf(rating, active, deals, u).elementsAfter = e
  BY <1>1 DEF OldEntry, NewOf, NewEntry
<1>7. QED
  BY <1>1, <1>2, <1>5, <1>6

LEMMA LeftAreCounted ==
  ASSUME NEW rating, NEW active, NEW deals, Minute(rating, active, deals),
         NEW rest, IsRest(rating, active, deals, rest)
  PROVE  LET olds == OldLeft(rating, active, deals, rest)
             news == NewLeft(rating, active, deals, rest)
         IN  /\ olds \subseteq news /\ IsFiniteSet(news) /\ IsFiniteSet(olds)
             /\ Cardinality(olds) \in Nat /\ Cardinality(news) \in Nat
             /\ Cardinality(olds) <= Cardinality(news)
<1> DEFINE olds == OldLeft(rating, active, deals, rest)
           news == NewLeft(rating, active, deals, rest)
<1>1. ASSUME NEW u \in olds
      PROVE  u \in news
  <2>1. u \in DOMAIN active \cap DOMAIN deals /\ OldEntry(rating, active, u) \in rest
    BY DEF OldLeft
  <2>2. OldEntry(rating, active, u).elementsAfter < NewOf(rating, active, deals, u).elementsAfter
    BY <2>1, UsersRiseByDeals
  <2>3. /\ OldEntry(rating, active, u).elementsAfter \in Int
        /\ NewOf(rating, active, deals, u).elementsAfter \in Int
        /\ NewOf(rating, active, deals, u) \in PatchSet(rating, active, deals)
    BY <2>1, EntriesAreTyped
  <2>4. ~Precedes(NewOf(rating, active, deals, u), OldEntry(rating, active, u))
    BY <2>2, <2>3 DEF Precedes
  <2>5. QED
    BY <2>1, <2>3, <2>4 DEF NewLeft, IsRest
<1>2. IsFiniteSet(news)
  BY FS_Subset DEF Minute, AreDeals, NewLeft
<1>3. olds \subseteq news
  BY <1>1
<1> HIDE DEF olds, news
<1>4. IsFiniteSet(olds) /\ Cardinality(olds) <= Cardinality(news)
  BY <1>2, <1>3, FS_Subset
<1>5. Cardinality(olds) \in Nat /\ Cardinality(news) \in Nat
  BY <1>2, <1>4, FS_CardinalityType
<1>6. QED
  BY <1>2, <1>3, <1>4, <1>5 DEF olds, news

(* A user whose place no patch is left to change, and who is not covered,  *)
(* keeps his neighbours: his new place is the old one and the offset.      *)
LEMMA UnmovedUsersAreRanked ==
  ASSUME NEW rating, NEW active, NEW deals, Minute(rating, active, deals),
         NEW rest, IsRest(rating, active, deals, rest),
         NEW covered, Covers(rating, active, deals, rest, covered),
         NEW j \in 1 .. Len(rating) - covered,
         \A q \in rest : q.elementsAfter > Len(rating) - j
  PROVE  Reference(active, deals)
           [j + Cardinality(NewLeft(rating, active, deals, rest))
              - Cardinality(OldLeft(rating, active, deals, rest))] = rating[j]
<1> DEFINE n == Len(rating)
           A == DOMAIN active
           D == DOMAIN deals
           u == rating[j]
           O == OldLeft(rating, active, deals, rest)
           N == NewLeft(rating, active, deals, rest)
           X == {v \in A \ D : active[v].rating < j - 1}
           total(v) == Total(active, deals, v)
<1>1. n \in Nat /\ covered \in 0 .. n /\ j \in 1 .. n /\ n - j >= covered /\ j - 1 \in 0 .. n
  BY RatingTypes DEF Minute, Covers
<1>2. u \in A /\ active[u].rating = j - 1
  BY <1>1, RatingTypes DEF Minute
<1>3. ASSUME NEW v \in A \cap D
      PROVE  v \in O <=> active[v].rating < j - 1 /\ v # u
  <2> DEFINE old == OldEntry(rating, active, v)
  <2>1. /\ old \in PatchSet(rating, active, deals) /\ old.changeType = OldPosition
        /\ old.elementsAfter = n - active[v].rating - 1
        /\ active[v].rating \in 0 .. n - 1
    BY EntriesAreTyped
  <2> HIDE DEF old
  <2>2. old \in rest => active[v].rating < j - 1
    BY <1>1, <2>1
  <2>3. old \notin rest => active[v].rating > j - 1
    <3>1. old \notin rest => old.elementsAfter < covered
      BY <2>1 DEF Covers
    <3>2. QED
      BY <1>1, <2>1, <3>1
  <2>4. v \in O <=> old \in rest
    BY DEF OldLeft, old
  <2>5. QED
    BY <1>1, <1>2, <2>1, <2>2, <2>3, <2>4
<1>4. u \notin D
  <2>1. SUFFICES ASSUME u \in D PROVE FALSE
    OBVIOUS
  <2> DEFINE old == OldEntry(rating, active, u)
  <2>2. /\ old \in PatchSet(rating, active, deals) /\ old.changeType = OldPosition
        /\ old.elementsAfter = n - j
    <3>1. u \in A \cap D
      BY <1>2, <2>1
    <3>2. QED
      BY <1>1, <1>2, <3>1, EntriesAreTyped
  <2>3. old \notin rest
    BY <1>1, <2>2
  <2>4. QED
    BY <1>1, <2>2, <2>3 DEF Covers
<1>5. O = {v \in A \cap D : active[v].rating < j - 1}
  BY <1>2, <1>3, <1>4 DEF OldLeft
<1>6. total(u) = active[u].amountWon
  BY <1>2, <1>4, TotalsAreIntegers DEF Minute
<1>7. ASSUME NEW v \in A \ D
      PROVE  Better(active, deals, v, u) <=> active[v].rating < j - 1
  <2>1. total(v) = active[v].amountWon /\ v \notin D
    BY TotalsAreIntegers DEF Minute
  <2> DEFINE i == active[v].rating + 1
  <2>2. i \in 1 .. n /\ rating[i] = v /\ active[v].rating = i - 1
    BY PlacesAreKnown DEF Minute
  <2>3. active[v].amountWon \in Int /\ active[u].amountWon \in Int
    BY <1>2 DEF Minute, IsRating
  <2> HIDE DEF i
  <2>4. i < j => active[v].amountWon >= active[u].amountWon
    BY <1>1, <2>2, WinningsFall DEF Minute
  <2>5. j <= i => active[u].amountWon >= active[v].amountWon
    BY <1>1, <2>2, WinningsFall DEF Minute
  <2>6. Better(active, deals, v, u)
          <=> \/ active[v].amountWon > active[u].amountWon
              \/ active[v].amountWon = active[u].amountWon /\ active[v].rating < active[u].rating
    BY <1>4, <1>6, <2>1, <2>3 DEF Better
  <2>7. QED
    BY <1>1, <1>2, <2>2, <2>3, <2>4, <2>5, <2>6
<1>8. ASSUME NEW v \in D
      PROVE  Better(active, deals, v, u) <=> v \in N
  <2> DEFINE new == NewOf(rating, active, deals, v)
  <2>1. /\ new \in PatchSet(rating, active, deals) /\ total(v) \in Int
        /\ new.elementsAfter = ElementsAfter(rating, active, total(v))
        /\ new.elementsAfter \in 0 .. n
    BY EntriesAreTyped
  <2>2. active[u].amountWon < total(v) <=> j > n - new.elementsAfter
    BY <1>1, <2>1, ElementsAfterAreLast DEF Minute
  <2>3. active[u].amountWon \in Int
    BY <1>2 DEF Minute, IsRating
  <2>4. Better(active, deals, v, u) <=> active[u].amountWon < total(v)
    BY <1>4, <1>6, <2>1, <2>3 DEF Better
  <2> HIDE DEF new
  <2>5. new \in rest => new.elementsAfter > n - j
    OBVIOUS
  <2>6. new \notin rest => new.elementsAfter <= covered
    BY <2>1 DEF Covers
  <2>7. v \in N <=> new \in rest
    BY DEF NewLeft, new
  <2>8. QED
    BY <1>1, <2>1, <2>2, <2>4, <2>5, <2>6, <2>7
<1>9. {v \in A \cup D : Better(active, deals, v, u)} = X \cup N
  BY <1>7, <1>8 DEF NewLeft
<1>10. Cardinality(X \cup N) = (j - 1) - Cardinality(O) + Cardinality(N)
  <2>1. N \in SUBSET D
    BY DEF NewLeft
  <2>2. QED
    BY <1>1, <1>5, <2>1, PlacesAreCounted
<1>11. Reference(active, deals)[Cardinality(X \cup N) + 1] = u
  BY <1>2, <1>9, ReferenceIsRanked
<1>12. Cardinality(O) \in Nat /\ Cardinality(N) \in Nat
  BY LeftAreCounted
<1>13. QED
  BY <1>1, <1>10, <1>11, <1>12

(* Who is better than a user with deals is told by the new entries alone   *)
(* where both have deals.                                                  *)
LEMMA NewEntriesFollowTheRanking ==
  ASSUME NEW rating, NEW active, NEW deals, Minute(rating, active, deals),
         NEW u \in DOMAIN deals, NEW v \in DOMAIN deals
  PROVE  Better(active, deals, v, u)
           <=> Precedes(NewOf(rating, active, deals, u), NewOf(rating, active, deals, v))
<1> DEFINE e(w) == NewOf(rating, active, deals, w).elementsAfter
           t(w) == Total(active, deals, w)
<1>1. /\ t(u) \in Int /\ t(v) \in Int /\ u \in Nat /\ v \in Nat
      /\ e(u) \in Int /\ e(v) \in Int
      /\ e(u) = ElementsAfter(rating, active, t(u)) /\ e(v) = ElementsAfter(rating, active, t(v))
  BY EntriesAreTyped
<1>2. t(u) <= t(v) => e(u) <= e(v)
  BY <1>1, ElementsAfterGrow DEF Minute
<1>3. t(v) <= t(u) => e(v) <= e(u)
  BY <1>1, ElementsAfterGrow DEF Minute
<1>4. Better(active, deals, v, u) <=> t(v) > t(u) \/ (t(v) = t(u) /\ v > u)
  BY <1>1 DEF Better
<1>5. Precedes(NewOf(rating, active, deals, u), NewOf(rating, active, deals, v))
        <=> \/ e(u) < e(v)
            \/ e(u) = e(v) /\ (t(u) < t(v) \/ (t(u) = t(v) /\ u < v))
  BY EntriesAreTyped DEF Precedes, NewPosition
<1> HIDE DEF e, t
<1>6. QED
  BY <1>1, <1>2, <1>3, <1>4, <1>5

(* The user whose new entry is the first of the rest comes right behind    *)
(* the unmoved users that have not won less and the others of the rest.    *)
LEMMA NewUsersAreRanked ==
  ASSUME NEW rating, NEW active, NEW deals, Minute(rating, active, deals),
         NEW rest, IsRest(rating, active, deals, rest), NEW u \in DOMAIN deals,
         NewOf(rating, active, deals, u) \in rest,
         \A q \in rest \ {NewOf(rating, active, deals, u)} :
           Precedes(NewOf(rating, active, deals, u), q)
  PROVE  Reference(active, deals)
           [Len(rating) - NewOf(rating, active, deals, u).elementsAfter
              + Cardinality(NewLeft(rating, active, deals, rest))
              - Cardinality(OldLeft(rating, active, deals, rest))] = u
<1> DEFINE n == Len(rating)
           A == DOMAIN active
           D == DOMAIN deals
           p == NewOf(rating, active, deals, u)
           e == p.elementsAfter
           O == OldLeft(rating, active, deals, rest)
           N == NewLeft(rating, active, deals, rest)
           X == {v \in A \ D : active[v].rating < n - e}
           total(v) == Total(active, deals, v)
<1>1. n \in Nat /\ e \in 0 .. n /\ n - e \in 0 .. n
  <2>1. n \in Nat /\ e \in 0 .. n
    BY EntriesAreTyped, RatingTypes DEF Minute
  <2>2. QED
    BY <2>1
<1>2. e = ElementsAfter(rating, active, total(u)) /\ total(u) \in Int
  BY EntriesAreTyped
<1>3. ASSUME NEW v \in A \cap D
      PROVE  v \in O <=> active[v].rating < n - e
  <2> DEFINE old == OldEntry(rating, active, v)
  <2>1. /\ old \in PatchSet(rating, active, deals)
        /\ old.changeType = OldPosition /\ p.changeType = NewPosition
        /\ old.elementsAfter = n - active[v].rating - 1
        /\ active[v].rating \in 0 .. n - 1
    BY EntriesAreTyped
  <2> HIDE DEF old, p
  <2>2. old \in rest => old.elementsAfter >= e
    <3>1. old # p
      BY <2>1 DEF OldPosition, NewPosition
    <3>2. old \in rest => Precedes(p, old)
      BY <3>1 DEF p
    <3>3. QED
      BY <1>1, <2>1, <3>2 DEF Precedes
  <2>3. old \notin rest => old.elementsAfter < e
    <3>1. old \notin rest => Precedes(old, p)
      BY <2>1 DEF IsRest, p
    <3>2. QED
      BY <1>1, <2>1, <3>1 DEF Precedes, OldPosition, NewPosition
  <2>4. v \in O <=> old \in rest
    BY DEF OldLeft, old
  <2>5. QED
    BY <1>1, <2>1, <2>2, <2>3, <2>4
<1>4. O = {v \in A \cap D : active[v].rating < n - e}
  BY <1>3 DEF OldLeft
<1>5. ASSUME NEW v \in A \ D
      PROVE  Better(active, deals, v, u) <=> active[v].rating < n - e
  <2>1. total(v) = active[v].amountWon /\ active[v].amountWon \in Int
    BY TotalsAreIntegers DEF Minute, IsRating
  <2>2. Better(active, deals, v, u) <=> ~(total(v) < total(u))
    BY <1>2, <2>1 DEF Better
  <2> DEFINE i == active[v].rating + 1
  <2>3. i \in 1 .. n /\ rating[i] = v /\ active[v].rating \in 0 .. n - 1
    BY PlacesAreKnown DEF Minute
  <2>4. active[v].rating = i - 1
    BY <1>1, <2>3
  <2> HIDE DEF i
  <2>5. active[rating[i]].amountWon < total(u) <=> i > n - e
    BY <1>2, <2>3, ElementsAfterAreLast DEF Minute
  <2>6. QED
    BY <1>1, <2>1, <2>2, <2>3, <2>4, <2>5
<1>6. ASSUME NEW v \in D
      PROVE  Better(active, deals, v, u) <=> v \in N \ {u}
  <2> DEFINE new == NewOf(rating, active, deals, v)
  <2>1. new \in PatchSet(rating, active, deals) /\ p \in PatchSet(rating, active, deals)
    BY EntriesAreTyped
  <2>2. Better(active, deals, v, u) <=> Precedes(p, new)
    BY NewEntriesFollowTheRanking
  <2>3. new = p <=> v = u
    BY EntriesAreTyped
  <2>4. v \in N <=> new \in rest
    BY DEF NewLeft
  <2>5. ~Precedes(p, p) /\ ~(Precedes(p, new) /\ Precedes(new, p))
    <3>1. ASSUME NEW s \in PatchSet(rating, active, deals)
          PROVE  ~Precedes(p, p) /\ ~(Precedes(p, s) /\ Precedes(s, p))
      BY <2>1, PatchesAreOrdered DEF IsOrder, Order
    <3>2. QED
      BY <2>1, <3>1
  <2> HIDE DEF new, p
  <2>6. new \in rest /\ new # p => Precedes(p, new)
    BY DEF p
  <2>7. new \notin rest => Precedes(new, p)
    BY <2>1 DEF IsRest, p
  <2>8. QED
    BY <2>2, <2>3, <2>4, <2>5, <2>6, <2>7
<1>7. {v \in A \cup D : Better(active, deals, v, u)} = X \cup (N \ {u})
  BY <1>5, <1>6 DEF NewLeft
<1>8. IsFiniteSet(N) /\ Cardinality(N) \in Nat /\ Cardinality(O) \in Nat
  BY LeftAreCounted
<1>9. u \in N /\ Cardinality(N \ {u}) = Cardinality(N) - 1
  BY <1>8, FS_RemoveElement DEF NewLeft
<1>10. Cardinality(X \cup (N \ {u})) = (n - e) - Cardinality(O) + Cardinality(N \ {u})
  <2>1. N \ {u} \in SUBSET D
    BY DEF NewLeft
  <2>2. QED
    BY <1>1, <1>4, <2>1, PlacesAreCounted
<1>11. Reference(active, deals)[Cardinality(X \cup (N \ {u})) + 1] = u
  BY <1>7, ReferenceIsRanked
<1>12. Cardinality(X \cup (N \ {u})) + 1 = n - e + Cardinality(N) - Cardinality(O)
  BY <1>1, <1>8, <1>9, <1>10
<1>13. QED
  BY <1>11, <1>12

-----------------------------------------------------------------------------
(* The loop. In front of what is covered, the vector is still the old one, *)
(* and behind the gap of "offset" slots it is the new one already.         *)
Size(rating, active, deals) == Len(rating) + Fresh(active, deals)

LoopState(rating, active, deals) ==
  [rating : [1 .. Size(rating, active, deals) -> Nat], oldSize : {Len(rating)},
   offset : Int, oldPositions : Nat, lengthDone : Nat, fits : {TRUE}]

LoopInv(rating, active, deals, rest, r) ==
  LET covered == r.lengthDone + r.oldPositions
      olds    == Cardinality(OldLeft(rating, active, deals, rest))
      news    == Cardinality(NewLeft(rating, active, deals, rest))
  IN  /\ r \in LoopState(rating, active, deals)
      /\ Covers(rating, active, deals, rest, covered)
      /\ r.offset = news - olds
      /\ r.oldPositions = Cardinality(DOMAIN active \cap DOMAIN deals) - olds
      /\ \A i \in 1 .. Len(rating) - covered : r.rating[i] = rating[i]
      /\ \A i \in Len(rating) - covered + r.offset + 1 .. Size(rating, active, deals) :
           r.rating[i] = Reference(active, deals)[i]

IsFirst(p, rest) == p \in rest /\ \A q \in rest \ {p} : Precedes(p, q)

(* What applying a patch leaves in a slot of the vector.                   *)
Slot(r, p, i) ==
  LET n == r.oldSize
      e == p.elementsAfter
  IN  IF p.changeType = NewPosition /\ i = n - e + r.offset THEN p.user
      ELSE IF i \in n - e + r.offset + 1 .. n - (r.lengthDone + r.oldPositions) + r.offset
      THEN r.rating[i - r.offset] ELSE r.rating[i]

(* The applying of a patch moves within the vector and writes into a gap.  *)
LEMMA PatchesHaveRoom ==
  ASSUME NEW rating, NEW active, NEW deals, Minute(rating, active, deals),
         NEW rest, IsRest(rating, active, deals, rest),
         NEW r, LoopInv(rating, active, deals, rest, r), NEW p, IsFirst(p, rest)
  PROVE  LET covered == r.lengthDone + r.oldPositions
             n       == Len(rating)
             size    == Size(rating, active, deals)
         IN  /\ n \in Nat /\ size \in Nat /\ n <= size /\ r.offset \in Nat
             /\ p.elementsAfter \in covered .. n
             /\ n - covered + r.offset <= size
             /\ p.changeType = NewPosition => r.offset >= 1
             /\ p.changeType = OldPosition => p.elementsAfter < n
<1> DEFINE D       == DOMAIN deals
           A       == DOMAIN active
           O       == OldLeft(rating, active, deals, rest)
           N       == NewLeft(rating, active, deals, rest)
           covered == r.lengthDone + r.oldPositions
           n       == Len(rating)
           size    == Size(rating, active, deals)
<1>1. /\ n \in Nat /\ Fresh(active, deals) \in Nat /\ size = n + Fresh(active, deals)
  BY RatingTypes, ReferenceIsRanked DEF Minute, Size
<1>2. /\ r.offset = Cardinality(N) - Cardinality(O)
      /\ r.oldPositions = Cardinality(A \cap D) - Cardinality(O)
      /\ r.oldPositions \in Nat /\ r.lengthDone \in Nat
      /\ Covers(rating, active, deals, rest, covered)
  BY DEF LoopInv, LoopState
<1>3. /\ O \subseteq N /\ IsFiniteSet(N) /\ IsFiniteSet(O)
      /\ Cardinality(O) \in Nat /\ Cardinality(N) \in Nat /\ Cardinality(O) <= Cardinality(N)
  BY LeftAreCounted
<1>4. p \in rest /\ p \in PatchSet(rating, active, deals) /\ p.elementsAfter \in 0 .. n
  BY PatchesAreTyped DEF IsFirst, IsRest
<1>5. p.elementsAfter \in covered .. n
  <2> HIDE DEF covered
  <2>1. covered \in 0 .. n /\ p.elementsAfter >= covered
    BY <1>2, <1>4 DEF Covers
  <2>2. QED
    BY <1>1, <1>4, <2>1
<1>6. /\ Cardinality(D) = Cardinality(A \cap D) + Fresh(active, deals)
      /\ Cardinality(A \cap D) \in Nat
  <2>1. IsFiniteSet(A \cap D) /\ IsFiniteSet(D \ A)
    BY FS_Subset DEF Minute, AreDeals
  <2>2. (A \cap D) \cap (D \ A) = {} /\ (A \cap D) \cup (D \ A) = D
    OBVIOUS
  <2>3. Cardinality((A \cap D) \cup (D \ A)) = Cardinality(A \cap D) + Cardinality(D \ A)
        /\ Cardinality(A \cap D) \in Nat
    BY <2>1, <2>2, DisjointSetsAddUp
  <2>4. QED
    BY <2>2, <2>3 DEF Fresh
<1>7. Cardinality(N) <= Cardinality(D)
  BY FS_Subset DEF Minute, AreDeals, NewLeft
<1>8. n - covered + r.offset <= size
  BY <1>1, <1>2, <1>3, <1>6, <1>7
<1>9. p.changeType = NewPosition => r.offset >= 1
  <2>1. SUFFICES ASSUME p.changeType = NewPosition PROVE r.offset >= 1
    OBVIOUS
  <2> DEFINE u == p.user
  <2>2. u \in D /\ p = NewOf(rating, active, deals, u)
    BY <1>4, <2>1, PatchesAreEntries DEF NewPosition, OldPosition
  <2>3. u \in N /\ u \notin O
    <3>1. u \in N
      BY <1>4, <2>2 DEF NewLeft
    <3>2. SUFFICES ASSUME u \in O PROVE FALSE
      BY <3>1
    <3> DEFINE old == OldEntry(rating, active, u)
    <3>3. old \in rest /\ u \in A \cap D
      BY <3>2 DEF OldLeft
    <3>4. old.elementsAfter < p.elementsAfter /\ old.elementsAfter \in Int
      BY <2>2, <3>3, UsersRiseByDeals, EntriesAreTyped
    <3>5. ~Precedes(p, old) /\ old # p
      BY <1>4, <3>4 DEF Precedes
    <3>6. QED
      BY <3>3, <3>5 DEF IsFirst
  <2> HIDE DEF N, O
  <2>4. Cardinality(O) <= Cardinality(N \ {u}) /\ Cardinality(N \ {u}) = Cardinality(N) - 1
    <3>1. IsFiniteSet(N \ {u}) /\ Cardinality(N \ {u}) = Cardinality(N) - 1
      BY <1>3, <2>3, FS_RemoveElement
    <3>2. O \subseteq N \ {u}
      BY <1>3, <2>3
    <3>3. QED
      BY <3>1, <3>2, FS_Subset
  <2>5. QED
    BY <1>2, <1>3, <2>4
<1>10. p.changeType = OldPosition => p.elementsAfter < n
  <2>1. SUFFICES ASSUME p.changeType = OldPosition PROVE p.elementsAfter < n
    OBVIOUS
  <2>2. p.user \in D \cap A /\ p = OldEntry(rating, active, p.user)
    BY <1>4, <2>1, PatchesAreEntries DEF NewPosition, OldPosition
  <2>3. OldEntry(rating, active, p.user).elementsAfter \in 0 .. n - 1
    BY <2>2, EntriesAreTyped
  <2>4. QED
    BY <1>1, <2>2, <2>3
<1>11. r.offset \in Nat /\ size \in Nat /\ n <= size
  BY <1>1, <1>2, <1>3
<1>12. QED
  BY <1>1, <1>5, <1>8, <1>9, <1>10, <1>11

(* No assertion fails, and every slot gets what it should.                 *)
LEMMA PatchesApply ==
  ASSUME NEW rating, NEW active, NEW deals, Minute(rating, active, deals),
         NEW rest, IsRest(rating, active, deals, rest),
         NEW r, LoopInv(rating, active, deals, rest, r), NEW p, IsFirst(p, rest)
  PROVE  LET r2    == ApplyPatch(r, p)
             isNew == p.changeType = NewPosition
         IN  /\ r2 \in LoopState(rating, active, deals)
             /\ r2.lengthDone = p.elementsAfter - r.oldPositions
             /\ r2.oldPositions = IF isNew THEN r.oldPositions ELSE r.oldPositions + 1
             /\ r2.offset = IF isNew THEN r.offset - 1 ELSE r.offset + 1
             /\ \A i \in 1 .. Size(rating, active, deals) : r2.rating[i] = Slot(r, p, i)
<1> DEFINE e           == p.elementsAfter
           n           == Len(rating)
           size        == Size(rating, active, deals)
           covered     == r.lengthDone + r.oldPositions
           blockLength == e - r.lengthDone - r.oldPositions
           position    == r.oldSize - e
           slot        == position + r.offset - 1
           moved       == MoveBlock(r.rating, position, blockLength, r.offset)
           isNew       == p.changeType = NewPosition
           filled      == IF isNew THEN [moved EXCEPT ![slot + 1] = p.user] ELSE moved
<1>1. /\ n \in Nat /\ size \in Nat /\ n <= size /\ r.offset \in Nat
      /\ e \in covered .. n /\ n - covered + r.offset <= size /\ (isNew => r.offset >= 1)
  BY PatchesHaveRoom
<1>2. /\ r \in LoopState(rating, active, deals)
      /\ r.oldSize = n /\ r.lengthDone \in Nat /\ r.oldPositions \in Nat
      /\ r.fits = TRUE /\ r.rating \in [1 .. size -> Nat]
  BY DEF LoopInv, LoopState
<1>3. p \in PatchSet(rating, active, deals) /\ p.user \in Nat /\ e \in 0 .. n
  BY PatchesAreTyped DEF IsFirst, IsRest
<1>4. blockLength \in Nat /\ blockLength = e - covered /\ position \in Nat /\ position = n - e
  BY <1>1, <1>2, <1>3
<1> DEFINE offset == r.offset
<1>5. /\ n \in Nat /\ size \in Nat /\ covered \in Nat /\ e \in Nat /\ offset \in Nat
      /\ n <= size /\ covered <= e /\ e <= n /\ n - covered + offset <= size
      /\ isNew => offset >= 1
  BY <1>1, <1>2, <1>3
<1>6. slot = n - e + offset - 1
  BY <1>4
<1>7. Len(r.rating) = size /\ DOMAIN r.rating = 1 .. size
  BY <1>1, <1>2
<1> HIDE DEF blockLength, position, covered, e, n, size, offset, slot
<1>8. BlockFits(r.rating, position, blockLength, r.offset)
  <2>1. position + blockLength + r.offset <= size
    BY <1>5, <1>4 DEF offset
  <2>2. r.offset # 0 => position \in 0 .. size - 1
    BY <1>5, <1>4, <2>1 DEF offset
  <2>3. QED
    BY <1>5, <1>4, <1>7, <2>1, <2>2 DEF BlockFits, offset
<1>9. isNew => slot \in 0 .. size - 1
  BY <1>5, <1>6
<1>10. moved \in [1 .. size -> Nat]
      /\ \A i \in 1 .. size :
           moved[i] = IF i \in n - e + r.offset + 1 .. n - covered + r.offset
                      THEN r.rating[i - r.offset] ELSE r.rating[i]
  <2>1. moved = [i \in 1 .. size |->
                   IF i - 1 \in position + r.offset .. position + r.offset + blockLength - 1
                   THEN r.rating[i - r.offset] ELSE r.rating[i]]
    BY <1>7 DEF MoveBlock
  <2> HIDE DEF moved
  <2>2. ASSUME NEW i \in 1 .. size
        PROVE  /\ i - 1 \in position + r.offset .. position + r.offset + blockLength - 1
                    <=> i \in n - e + r.offset + 1 .. n - covered + r.offset
               /\ i \in n - e + r.offset + 1 .. n - covered + r.offset
                    => i - r.offset \in 1 .. size
    <3>1. i \in Int /\ 1 <= i /\ i <= size
      BY <1>5
    <3>2. i - 1 \in position + offset .. position + offset + blockLength - 1
            <=> i \in n - e + offset + 1 .. n - covered + offset
      BY <1>5, <1>4, <3>1
    <3>3. i \in n - e + offset + 1 .. n - covered + offset => i - offset \in 1 .. size
      BY <1>5, <3>1
    <3>4. QED
      BY <3>2, <3>3 DEF offset
  <2>3. ASSUME NEW i \in 1 .. size
        PROVE  moved[i] \in Nat
               /\ moved[i] = IF i \in n - e + r.offset + 1 .. n - covered + r.offset
                             THEN r.rating[i - r.offset] ELSE r.rating[i]
    BY <1>2, <2>1, <2>2
  <2>4. QED
    BY <2>1, <2>3
<1> HIDE DEF moved
<1>11. filled \in [1 .. size -> Nat]
  BY <1>3, <1>10
<1>12. ASSUME NEW i \in 1 .. size
       PROVE  filled[i] = Slot(r, p, i)
  <2>1. slot + 1 = n - e + r.offset
    BY <1>5, <1>6 DEF offset
  <2>2. CASE isNew /\ i = slot + 1
    BY <1>2, <1>10, <1>11, <2>1, <2>2 DEF Slot, n, e
  <2>3. CASE ~(isNew /\ i = slot + 1)
    <3>1. filled[i] = moved[i]
      BY <1>10, <2>3
    <3>2. QED
      BY <1>2, <1>10, <2>1, <2>3, <3>1 DEF Slot, n, e, covered
  <2>4. QED
    BY <2>2, <2>3
<1>13. ApplyPatch(r, p)
         = [r EXCEPT !.lengthDone   = @ + blockLength,
                     !.oldPositions = IF isNew THEN @ ELSE @ + 1,
                     !.offset       = IF isNew THEN @ - 1 ELSE @ + 1,
                     !.rating       = filled]
  BY <1>7, <1>8, <1>9 DEF ApplyPatch, blockLength, position, slot, moved, e, size
<1>14. r.lengthDone + blockLength = e - r.oldPositions /\ r.lengthDone + blockLength \in Nat
  <2> DEFINE d == r.lengthDone
             o == r.oldPositions
  <2>1. covered = d + o /\ d \in Nat /\ o \in Nat
    BY <1>2 DEF covered
  <2> HIDE DEF d, o
  <2>2. d + blockLength = e - o /\ d + blockLength \in Nat
    BY <1>4, <1>5, <2>1
  <2>3. QED
    BY <2>2 DEF d, o
<1> DEFINE r2 == ApplyPatch(r, p)
<1> HIDE DEF filled, r2
<1>15. /\ r2 \in LoopState(rating, active, deals)
       /\ r2.lengthDone = r.lengthDone + blockLength
       /\ r2.oldPositions = IF isNew THEN r.oldPositions ELSE r.oldPositions + 1
       /\ r2.offset = IF isNew THEN r.offset - 1 ELSE r.offset + 1
       /\ r2.rating = filled
  <2>1. r2 = [r EXCEPT !.lengthDone   = @ + blockLength,
                       !.oldPositions = IF isNew THEN @ ELSE @ + 1,
                       !.offset       = IF isNew THEN @ - 1 ELSE @ + 1,
                       !.rating       = filled]
    BY <1>13 DEF r2
  <2>2. /\ (IF isNew THEN r.oldPositions ELSE r.oldPositions + 1) \in Nat
        /\ (IF isNew THEN r.offset - 1 ELSE r.offset + 1) \in Int
    BY <1>1, <1>2
  <2>3. QED
    BY <1>2, <1>11, <1>14, <2>1, <2>2 DEF LoopState, size, n
<1>16. QED
  BY <1>12, <1>14, <1>15 DEF r2, e, size

(* What is left to apply when the first patch of the rest is applied.      *)
LEMMA RestsShrink ==
  ASSUME NEW rating, NEW active, NEW deals, Minute(rating, active, deals),
         NEW rest, IsRest(rating, active, deals, rest), NEW p, IsFirst(p, rest)
  PROVE  LET less == rest \ {p}
             olds == Cardinality(OldLeft(rating, active, deals, rest))
             news == Cardinality(NewLeft(rating, active, deals, rest))
             old2 == Cardinality(OldLeft(rating, active, deals, less))
             new2 == Cardinality(NewLeft(rating, active, deals, less))
         IN  /\ IsRest(rating, active, deals, less)
             /\ p.changeType = NewPosition => new2 = news - 1 /\ old2 = olds
             /\ p.changeType = OldPosition => new2 = news /\ old2 = olds - 1
<1> DEFINE less == rest \ {p}
           all  == PatchSet(rating, active, deals)
           O == OldLeft(rating, active, deals, rest)
           N == NewLeft(rating, active, deals, rest)
<1>1. p \in rest /\ p \in all /\ rest \subseteq all
  BY DEF IsFirst, IsRest
<1>2. IsRest(rating, active, deals, less)
  <2>1. ASSUME NEW s \in all \ less, NEW q \in less
        PROVE  Precedes(s, q)
    <3>1. CASE s = p
      BY <3>1 DEF IsFirst
    <3>2. CASE s # p
      BY <3>2 DEF IsRest
    <3>3. QED
      BY <3>1, <3>2
  <2>2. QED
    BY <1>1, <2>1 DEF IsRest
<1>3. IsFiniteSet(N) /\ IsFiniteSet(O)
  BY LeftAreCounted
<1>4. ASSUME p.changeType = NewPosition
      PROVE  /\ p.user \in N /\ NewLeft(rating, active, deals, less) = N \ {p.user}
             /\ OldLeft(rating, active, deals, less) = O
  <2>1. p.user \in DOMAIN deals /\ p = NewOf(rating, active, deals, p.user)
    BY <1>1, <1>4, PatchesAreEntries DEF NewPosition, OldPosition
  <2>2. \A v \in DOMAIN deals : NewOf(rating, active, deals, v) = p <=> v = p.user
    BY <2>1, EntriesAreTyped
  <2>3. \A v \in DOMAIN active \cap DOMAIN deals : OldEntry(rating, active, v) # p
    BY <1>4 DEF OldEntry, NewPosition, OldPosition
  <2>4. QED
    BY <1>1, <2>1, <2>2, <2>3 DEF NewLeft, OldLeft
<1>5. ASSUME p.changeType = OldPosition
      PROVE  /\ p.user \in O /\ OldLeft(rating, active, deals, less) = O \ {p.user}
             /\ NewLeft(rating, active, deals, less) = N
  <2>1. p.user \in DOMAIN active \cap DOMAIN deals /\ p = OldEntry(rating, active, p.user)
    BY <1>1, <1>5, PatchesAreEntries DEF NewPosition, OldPosition
  <2>2. \A v \in DOMAIN active \cap DOMAIN deals : OldEntry(rating, active, v) = p <=> v = p.user
    BY <2>1 DEF OldEntry
  <2>3. \A v \in DOMAIN deals : NewOf(rating, active, deals, v) # p
    BY <1>5 DEF NewOf, NewEntry, NewPosition, OldPosition
  <2>4. QED
    BY <1>1, <2>1, <2>2, <2>3 DEF NewLeft, OldLeft
<1> HIDE DEF N, O
<1>6. /\ p.user \in N => Cardinality(N \ {p.user}) = Cardinality(N) - 1
      /\ p.user \in O => Cardinality(O \ {p.user}) = Cardinality(O) - 1
  BY <1>3, FS_RemoveElement
<1>7. QED
  BY <1>2, <1>4, <1>5, <1>6 DEF N, O

LEMMA CoverGrows ==
  ASSUME NEW rating, NEW active, NEW deals, Minute(rating, active, deals),
         NEW rest, IsRest(rating, active, deals, rest), NEW p, IsFirst(p, rest),
         NEW covered, Covers(rating, active, deals, rest, covered),
         p.changeType = OldPosition => p.elementsAfter < Len(rating)
  PROVE  Covers(rating, active, deals, rest \ {p},
                IF p.changeType = NewPosition THEN p.elementsAfter ELSE p.elementsAfter + 1)
<1> DEFINE e    == p.elementsAfter
           n    == Len(rating)
           all  == PatchSet(rating, active, deals)
           next == IF p.changeType = NewPosition THEN e ELSE e + 1
<1>1. /\ n \in Nat /\ covered \in Nat /\ covered <= n /\ covered <= e
      /\ p \in all /\ p \in rest /\ rest \subseteq all /\ e \in Nat /\ e <= n
  <2>1. p \in all /\ p \in rest /\ rest \subseteq all
    BY DEF IsFirst, IsRest
  <2>2. e \in 0 .. n /\ n \in Nat
    BY <2>1, PatchesAreTyped, RatingTypes DEF Minute
  <2>3. covered \in 0 .. n /\ covered <= e
    BY <2>1, <2>2 DEF Covers
  <2>4. QED
    BY <2>1, <2>2, <2>3
<1>2. p.changeType \in {NewPosition, OldPosition}
  BY <1>1, PatchesAreTyped
<1>3. \A q \in all : /\ q.elementsAfter \in Int /\ q.changeType \in {0, 1}
                     /\ q.user \in Nat /\ q.amountWon \in Int
  BY <1>1, PatchesAreTyped DEF NewPosition, OldPosition
<1>4. next \in 0 .. n
  BY <1>1, <1>2 DEF NewPosition, OldPosition
<1>5. ASSUME NEW q \in rest \ {p}
      PROVE  q.elementsAfter >= next
  <2>1. Precedes(p, q) /\ q \in all
    BY <1>1 DEF IsFirst
  <2>2. CASE p.changeType = NewPosition
    BY <1>1, <1>3, <2>1, <2>2 DEF Precedes
  <2>3. CASE p.changeType = OldPosition /\ q.elementsAfter = e
    <3>1. q.changeType = OldPosition
      BY <1>3, <2>1, <2>3 DEF Precedes, NewPosition, OldPosition
    <3>2. /\ p.user \in DOMAIN deals \cap DOMAIN active /\ p = OldEntry(rating, active, p.user)
          /\ q.user \in DOMAIN deals \cap DOMAIN active /\ q = OldEntry(rating, active, q.user)
      BY <1>1, <2>1, <2>3, <3>1, PatchesAreEntries DEF NewPosition, OldPosition
    <3>3. /\ e = n - active[p.user].rating - 1 /\ active[p.user].rating \in 0 .. n - 1
          /\ q.elementsAfter = n - active[q.user].rating - 1 /\ active[q.user].rating \in 0 .. n - 1
      BY <3>2, EntriesAreTyped
    <3>4. active[p.user].rating = active[q.user].rating
      BY <1>1, <2>3, <3>3
    <3>5. p.user = q.user
      BY <3>2, <3>4, PlacesAreKnown DEF Minute
    <3>6. p = q
      BY <1>1, <2>1, <2>3, <3>1, <3>5, PatchesDifferInAField
    <3>7. QED
      BY <3>6
  <2>4. CASE p.changeType = OldPosition /\ q.elementsAfter # e
    BY <1>1, <1>3, <2>1, <2>4 DEF Precedes, NewPosition, OldPosition
  <2>5. QED
    BY <1>2, <2>2, <2>3, <2>4
<1>6. ASSUME NEW s \in all \ (rest \ {p})
      PROVE  s.elementsAfter <= next /\ (s.changeType = OldPosition => s.elementsAfter < next)
  <2>1. CASE s = p
    BY <1>1, <2>1 DEF NewPosition, OldPosition
  <2>2. CASE s # p
    <3>1. s.elementsAfter <= covered /\ (s.changeType = OldPosition => s.elementsAfter < covered)
      BY <2>2 DEF Covers
    <3>2. QED
      BY <1>1, <1>3, <3>1
  <2>3. QED
    BY <2>1, <2>2
<1>7. QED
  BY <1>4, <1>5, <1>6 DEF Covers

(* One iteration keeps the invariant of the loop.                          *)
LEMMA LoopStep ==
  ASSUME NEW rating, NEW active, NEW deals, Minute(rating, active, deals),
         NEW rest, IsRest(rating, active, deals, rest),
         NEW r, LoopInv(rating, active, deals, rest, r), NEW p, IsFirst(p, rest)
  PROVE  /\ IsRest(rating, active, deals, rest \ {p})
         /\ LoopInv(rating, active, deals, rest \ {p}, ApplyPatch(r, p))
<1> DEFINE r2      == ApplyPatch(r, p)
           less    == rest \ {p}
           e       == p.elementsAfter
           n       == Len(rating)
           size    == Size(rating, active, deals)
           done    == r.lengthDone
           old     == r.oldPositions
           offset  == r.offset
           isNew   == p.changeType = NewPosition
           ref     == Reference(active, deals)
           next    == IF isNew THEN e ELSE e + 1
           olds    == Cardinality(OldLeft(rating, active, deals, rest))
           news    == Cardinality(NewLeft(rating, active, deals, rest))
<1>1. /\ n \in Nat /\ size \in Nat /\ n <= size /\ offset \in Nat
      /\ e \in done + old .. n /\ n - (done + old) + offset <= size
      /\ isNew => offset >= 1
      /\ p.changeType = OldPosition => e < n
  BY PatchesHaveRoom
<1>2. /\ r2 \in LoopState(rating, active, deals)
      /\ r2.lengthDone = e - old
      /\ r2.oldPositions = IF isNew THEN old ELSE old + 1
      /\ r2.offset = IF isNew THEN offset - 1 ELSE offset + 1
      /\ \A i \in 1 .. size : r2.rating[i] = Slot(r, p, i)
  BY PatchesApply
<1>3. /\ Covers(rating, active, deals, rest, done + old) /\ done \in Nat /\ old \in Nat
      /\ r.oldSize = n /\ offset = news - olds
      /\ old = Cardinality(DOMAIN active \cap DOMAIN deals) - olds
      /\ \A i \in 1 .. n - (done + old) : r.rating[i] = rating[i]
      /\ \A i \in n - (done + old) + offset + 1 .. size : r.rating[i] = ref[i]
  BY DEF LoopInv, LoopState
<1>4. /\ p \in rest /\ p \in PatchSet(rating, active, deals)
      /\ \A q \in rest \ {p} : Precedes(p, q) /\ q \in PatchSet(rating, active, deals)
  BY DEF IsFirst, IsRest
<1>5. p.changeType \in {NewPosition, OldPosition}
  BY <1>4, PatchesAreTyped
<1>6. IsRest(rating, active, deals, less)
  BY RestsShrink
<1>7. Covers(rating, active, deals, less, next)
  BY <1>1, <1>3, CoverGrows
<1>8. /\ e \in Nat /\ done + old <= e /\ e <= n
      /\ olds \in Nat /\ news \in Nat
  BY <1>1, <1>3, LeftAreCounted
<1>9. r2.lengthDone + r2.oldPositions = next
  BY <1>2, <1>3, <1>8
<1>10. /\ r2.offset = Cardinality(NewLeft(rating, active, deals, less))
                        - Cardinality(OldLeft(rating, active, deals, less))
       /\ r2.oldPositions = Cardinality(DOMAIN active \cap DOMAIN deals)
                              - Cardinality(OldLeft(rating, active, deals, less))
  <2>1. CASE isNew
    <3>1. /\ Cardinality(NewLeft(rating, active, deals, less)) = news - 1
          /\ Cardinality(OldLeft(rating, active, deals, less)) = olds
      BY <2>1, RestsShrink
    <3>2. QED
      BY <1>2, <1>3, <1>8, <2>1, <3>1
  <2>2. CASE p.changeType = OldPosition
    <3>1. /\ Cardinality(NewLeft(rating, active, deals, less)) = news
          /\ Cardinality(OldLeft(rating, active, deals, less)) = olds - 1
      BY <2>2, RestsShrink
    <3>2. ~isNew
      BY <2>2 DEF NewPosition, OldPosition
    <3>3. Cardinality(DOMAIN active \cap DOMAIN deals) \in Nat
      BY FS_Subset, FS_CardinalityType DEF Minute, AreDeals
    <3>4. /\ r2.offset = offset + 1 /\ offset = news - olds
          /\ r2.oldPositions = old + 1
          /\ old = Cardinality(DOMAIN active \cap DOMAIN deals) - olds
      BY <1>2, <1>3, <3>2
    <3> HIDE DEF r2, offset, old, olds, news
    <3>5. QED
      BY <1>8, <3>1, <3>3, <3>4
  <2>3. QED
    BY <1>5, <2>1, <2>2
<1>11. \A q \in rest : q.elementsAfter \in Int /\ q.elementsAfter >= e
  <2>1. ASSUME NEW q \in rest \ {p}
        PROVE  q.elementsAfter \in Int /\ q.elementsAfter >= e
    <3>1. q.elementsAfter \in 0 .. n /\ Precedes(p, q)
      BY <1>4, PatchesAreTyped
    <3>2. QED
      BY <1>8, <3>1 DEF Precedes
  <2>2. QED
    BY <1>8, <2>1
<1>12. ASSUME NEW i \in n - e + 1 .. n - (done + old)
       PROVE  ref[i + offset] = rating[i]
  <2>1. i \in 1 .. n - (done + old) /\ e > n - i
    BY <1>1, <1>3, <1>8
  <2>2. \A q \in rest : q.elementsAfter > n - i
    BY <1>1, <1>8, <1>11, <2>1
  <2>3. ref[i + news - olds] = rating[i]
    BY <1>3, <2>1, <2>2, UnmovedUsersAreRanked
  <2>4. i + offset = i + news - olds
    BY <1>1, <1>3, <1>8, <2>1
  <2>5. QED
    BY <2>3, <2>4
<1>13. ASSUME isNew
       PROVE  ref[n - e + offset] = p.user
  <2>1. p.user \in DOMAIN deals /\ p = NewOf(rating, active, deals, p.user)
    BY <1>4, <1>13, PatchesAreEntries DEF NewPosition, OldPosition
  <2> DEFINE u == p.user
  <2> HIDE DEF u
  <2>2. u \in DOMAIN deals /\ p = NewOf(rating, active, deals, u)
    BY <2>1 DEF u
  <2>3. ref[n - NewOf(rating, active, deals, u).elementsAfter + news - olds] = u
    BY <1>4, <2>2, NewUsersAreRanked
  <2>4. ref[n - e + news - olds] = p.user
    BY <2>2, <2>3 DEF u
  <2>5. n - e + offset = n - e + news - olds
    BY <1>1, <1>3, <1>8
  <2>6. QED
    BY <2>4, <2>5
<1> HIDE DEF r2, e, n, size, done, old, offset, ref, olds, news
<1>14. \A i : Slot(r, p, i) =
         IF isNew /\ i = n - e + offset THEN p.user
         ELSE IF i \in n - e + offset + 1 .. n - (done + old) + offset
         THEN r.rating[i - offset] ELSE r.rating[i]
  BY <1>3 DEF Slot, e, done, old, offset
<1>15. ASSUME NEW i \in 1 .. n - next
       PROVE  r2.rating[i] = rating[i]
  <2>1. /\ i \in 1 .. size /\ i \in 1 .. n - (done + old) /\ i <= n - e
    BY <1>1, <1>3, <1>8
  <2>2. Slot(r, p, i) = r.rating[i]
    BY <1>1, <1>8, <1>14, <2>1
  <2>3. QED
    BY <1>2, <1>3, <2>1, <2>2
<1>16. ASSUME NEW i \in n - next + r2.offset + 1 .. size
       PROVE  r2.rating[i] = ref[i]
  <2>1. i \in Int /\ i <= size /\ i >= n - e + offset /\ (~isNew => i > n - e + offset)
    BY <1>1, <1>2, <1>8
  <2>2. i \in 1 .. size
    BY <1>1, <1>8, <2>1
  <2>3. CASE i > n - (done + old) + offset
    <3>1. i \in n - (done + old) + offset + 1 .. size
      BY <1>1, <1>3, <2>1, <2>3
    <3>2. Slot(r, p, i) = r.rating[i]
      <4>1. i # n - e + offset /\ i \notin n - e + offset + 1 .. n - (done + old) + offset
        BY <1>1, <1>3, <1>8, <2>1, <2>3
      <4>2. QED
        BY <1>14, <4>1
    <3>3. QED
      BY <1>2, <1>3, <2>2, <3>1, <3>2
  <2>4. CASE i > n - e + offset /\ i <= n - (done + old) + offset
    <3>1. /\ i - offset \in n - e + 1 .. n - (done + old)
          /\ i - offset \in 1 .. n - (done + old) /\ (i - offset) + offset = i
      BY <1>1, <1>3, <1>8, <2>1, <2>4
    <3>2. Slot(r, p, i) = r.rating[i - offset]
      BY <1>1, <1>3, <1>8, <1>14, <2>1, <2>4
    <3>3. ref[(i - offset) + offset] = rating[i - offset]
      BY <1>12, <3>1
    <3>4. QED
      BY <1>2, <1>3, <2>2, <3>1, <3>2, <3>3
  <2>5. CASE i = n - e + offset
    <3>1. isNew
      BY <1>1, <1>8, <2>1, <2>5
    <3>2. Slot(r, p, i) = p.user
      BY <1>14, <2>5, <3>1
    <3>3. QED
      BY <1>2, <1>13, <2>2, <2>5, <3>1, <3>2
  <2>6. QED
    BY <1>1, <1>3, <1>8, <2>1, <2>3, <2>4, <2>5
<1>17. LoopInv(rating, active, deals, less, r2)
  BY <1>2, <1>7, <1>9, <1>10, <1>15, <1>16 DEF LoopInv, n, size, ref
<1>18. QED
  BY <1>6, <1>17 DEF r2

LEMMA ReferenceIsASequence ==
  ASSUME NEW rating, NEW active, NEW deals, Minute(rating, active, deals)
  PROVE  LET ref  == Reference(active, deals)
             size == Size(rating, active, deals)
         IN  /\ Len(rating) \in Nat /\ Fresh(active, deals) \in Nat
             /\ size \in Nat /\ size = Len(rating) + Fresh(active, deals)
             /\ Len(ref) = size /\ DOMAIN ref = 1 .. size
             /\ ref = [i \in 1 .. size |-> ref[i]]
<1> DEFINE ref  == Reference(active, deals)
           size == Size(rating, active, deals)
           all  == DOMAIN active \cup DOMAIN deals
<1>1. Len(rating) \in Nat
  BY RatingTypes DEF Minute
<1>2. ref \in Seq(all) /\ Fresh(active, deals) \in Nat /\ Len(ref) = size
  BY ReferenceIsRanked DEF Size
<1>3. size \in Nat
  BY <1>1, <1>2 DEF Size
<1> HIDE DEF ref, size, all
<1>4. DOMAIN ref = 1 .. size /\ ref = [i \in 1 .. size |-> ref[i]]
  BY <1>2, <1>3
<1>5. QED
  BY <1>1, <1>2, <1>3, <1>4 DEF ref, size, Size

(* The loop starts in the invariant, with nothing covered.                 *)
LEMMA LoopStart ==
  ASSUME NEW rating, NEW active, NEW deals, Minute(rating, active, deals)
  PROVE  LET all == PatchSet(rating, active, deals)
         IN  /\ IsRest(rating, active, deals, all)
             /\ LoopInv(rating, active, deals, all, StartRebuild(rating, active, deals))
<1> DEFINE n    == Len(rating)
           all  == PatchSet(rating, active, deals)
           both == DOMAIN active \cap DOMAIN deals
           r    == StartRebuild(rating, active, deals)
           size == Size(rating, active, deals)
           new  == Fresh(active, deals)
           gap  == [i \in 1 .. new |-> NoUser]
<1>1. n \in Nat /\ new \in Nat /\ size = n + new
  BY ReferenceIsASequence
<1>2. IsRest(rating, active, deals, all)
  BY DEF IsRest
<1>3. Covers(rating, active, deals, all, 0)
  <2>1. ASSUME NEW q \in all
        PROVE  q.elementsAfter >= 0
    BY <1>1, PatchesAreTyped
  <2>2. QED
    BY <1>1, <2>1 DEF Covers
<1>4. /\ OldLeft(rating, active, deals, all) = both
      /\ NewLeft(rating, active, deals, all) = DOMAIN deals
  BY EntriesAreTyped DEF OldLeft, NewLeft
<1>5. /\ new = Cardinality(DOMAIN deals) - Cardinality(both)
      /\ Cardinality(both) \in Nat
  <2>1. IsFiniteSet(both) /\ IsFiniteSet(DOMAIN deals \ DOMAIN active)
    BY FS_Subset DEF Minute, AreDeals
  <2>2. /\ both \cap (DOMAIN deals \ DOMAIN active) = {}
        /\ both \cup (DOMAIN deals \ DOMAIN active) = DOMAIN deals
    OBVIOUS
  <2>3. /\ Cardinality(both \cup (DOMAIN deals \ DOMAIN active)) = Cardinality(both) + new
        /\ Cardinality(both) \in Nat
    BY <2>1, <2>2, DisjointSetsAddUp DEF Fresh
  <2>4. QED
    BY <1>1, <2>2, <2>3
<1>6. /\ rating \o gap \in [1 .. size -> Nat]
      /\ \A i \in 1 .. n : (rating \o gap)[i] = rating[i]
  <2>1. rating \in Seq(Nat) /\ gap \in Seq(Nat) /\ Len(gap) = new
    <3>1. rating \in Seq(DOMAIN active) /\ DOMAIN active \subseteq Nat
      BY DEF Minute, IsRating
    <3>2. gap \in [1 .. new -> Nat]
      BY DEF NoUser
    <3>3. QED
      BY <1>1, <3>1, <3>2
  <2> HIDE DEF gap
  <2> HIDE DEF n, size, new
  <2>2. rating \o gap \in Seq(Nat) /\ Len(rating \o gap) = size
    BY <1>1, <2>1 DEF n
  <2>3. \A i \in 1 .. n : (rating \o gap)[i] = rating[i]
    BY <2>1 DEF n
  <2> DEFINE longer == rating \o gap
  <2> HIDE DEF longer
  <2>4. longer \in Seq(Nat) /\ Len(longer) = size /\ size \in Nat
    BY <1>1, <2>2 DEF longer
  <2>5. longer \in [1 .. size -> Nat]
    BY <2>4
  <2>6. QED
    BY <2>3, <2>5 DEF longer
<1>7. r = [rating |-> rating \o gap, oldSize |-> n, offset |-> new, oldPositions |-> 0,
           lengthDone |-> 0, fits |-> TRUE]
  BY DEF StartRebuild, Fresh
<1> HIDE DEF r, gap
<1>8. r \in LoopState(rating, active, deals)
  BY <1>1, <1>6, <1>7 DEF LoopState
<1>9. LoopInv(rating, active, deals, all, r)
  <2>1. /\ r.lengthDone + r.oldPositions = 0 /\ r.offset = new /\ r.oldPositions = 0
        /\ \A i \in 1 .. n : r.rating[i] = rating[i]
    BY <1>6, <1>7
  <2>2. n - 0 = n /\ n - 0 + r.offset + 1 .. size = {}
    BY <1>1, <2>1
  <2>3. /\ r.offset = Cardinality(DOMAIN deals) - Cardinality(both)
        /\ r.oldPositions = Cardinality(both) - Cardinality(both)
    BY <1>5, <2>1
  <2> HIDE DEF both, n, size, all
  <2>4. QED
    BY <1>3, <1>4, <1>8, <2>1, <2>2, <2>3 DEF LoopInv, both, n, size
<1>10. QED
  BY <1>2, <1>9 DEF r

(* How much of the vector is final: the users that were moved, and the     *)
(* deals' users that have been put in.                                     *)
LEMMA TailsAreFinal ==
  ASSUME NEW rating, NEW active, NEW deals, Minute(rating, active, deals),
         NEW rest, IsRest(rating, active, deals, rest),
         NEW r, LoopInv(rating, active, deals, rest, r),
         NEW put, put = {u \in DOMAIN deals : NewOf(rating, active, deals, u) \notin rest},
         NEW done, done = r.lengthDone + Cardinality(put),
         NEW size, size = Size(rating, active, deals)
  PROVE  /\ size \in Nat /\ done \in 0 .. size
         /\ \A i \in size - done + 1 .. size : r.rating[i] = Reference(active, deals)[i]
<1> DEFINE n    == Len(rating)
           D    == DOMAIN deals
           both == DOMAIN active \cap D
           O    == OldLeft(rating, active, deals, rest)
           N    == NewLeft(rating, active, deals, rest)
           new  == Fresh(active, deals)
           covered == r.lengthDone + r.oldPositions
<1>1. n \in Nat /\ new \in Nat /\ size = n + new
  BY ReferenceIsASequence
<1>2. /\ r.lengthDone \in Nat /\ r.oldPositions \in Nat /\ covered \in 0 .. n
      /\ r.offset = Cardinality(N) - Cardinality(O)
      /\ r.oldPositions = Cardinality(both) - Cardinality(O)
      /\ \A i \in n - covered + r.offset + 1 .. size : r.rating[i] = Reference(active, deals)[i]
  BY DEF LoopInv, LoopState, Covers
<1>3. /\ Cardinality(O) \in Nat /\ Cardinality(N) \in Nat /\ Cardinality(O) <= Cardinality(N)
  BY LeftAreCounted
<1>4. Cardinality(put) \in Nat /\ Cardinality(D) = Cardinality(put) + Cardinality(N)
  <2>1. IsFiniteSet(put) /\ IsFiniteSet(N)
    BY FS_Subset DEF Minute, AreDeals, NewLeft
  <2>2. put \cap N = {} /\ put \cup N = D
    BY DEF NewLeft
  <2> HIDE DEF N
  <2>3. Cardinality(put \cup N) = Cardinality(put) + Cardinality(N) /\ Cardinality(put) \in Nat
    BY <2>1, <2>2, DisjointSetsAddUp
  <2>4. QED
    BY <2>2, <2>3
<1>5. Cardinality(both) \in Nat /\ Cardinality(D) = Cardinality(both) + new
  <2>1. IsFiniteSet(both) /\ IsFiniteSet(D \ DOMAIN active)
    BY FS_Subset DEF Minute, AreDeals
  <2>2. both \cap (D \ DOMAIN active) = {} /\ both \cup (D \ DOMAIN active) = D
    OBVIOUS
  <2>3. /\ Cardinality(both \cup (D \ DOMAIN active)) = Cardinality(both) + new
        /\ Cardinality(both) \in Nat
    BY <2>1, <2>2, DisjointSetsAddUp DEF Fresh
  <2>4. QED
    BY <2>2, <2>3
<1> DEFINE lengthDone == r.lengthDone
           offset == r.offset
           oldPositions == r.oldPositions
<1>6. /\ done = lengthDone + Cardinality(put)
      /\ lengthDone \in Nat /\ oldPositions \in Nat /\ lengthDone + oldPositions <= n
      /\ offset = Cardinality(N) - Cardinality(O)
      /\ oldPositions = Cardinality(both) - Cardinality(O)
  BY <1>1, <1>2
<1> HIDE DEF n, D, both, O, N, new, lengthDone, offset, oldPositions
<1>7. /\ size \in Nat /\ done \in 0 .. size
      /\ size - done = n - (lengthDone + oldPositions) + offset
  <2> DEFINE placed == Cardinality(put)
             olds   == Cardinality(O)
             news   == Cardinality(N)
             dealt  == Cardinality(D)
             known  == Cardinality(both)
  <2>1. /\ size \in Nat /\ n \in Nat /\ size = n + new /\ new \in Nat
        /\ placed \in Nat /\ olds \in Nat /\ news \in Nat /\ known \in Nat /\ olds <= news
        /\ dealt = placed + news /\ dealt = known + new
        /\ done = lengthDone + placed /\ lengthDone \in Nat /\ oldPositions \in Nat
        /\ lengthDone + oldPositions <= n
        /\ offset = news - olds /\ oldPositions = known - olds
    BY <1>1, <1>3, <1>4, <1>5, <1>6
  <2> HIDE DEF placed, olds, news, dealt, known
  <2>2. QED
    BY <2>1
<1>8. \A i \in size - done + 1 .. size : r.rating[i] = Reference(active, deals)[i]
  BY <1>2, <1>7 DEF lengthDone, offset, oldPositions
<1>9. QED
  BY <1>7, <1>8

(* When no patch is left, the vector is the new rating.                    *)
LEMMA LoopEnd ==
  ASSUME NEW rating, NEW active, NEW deals, Minute(rating, active, deals),
         IsRest(rating, active, deals, {}),
         NEW r, LoopInv(rating, active, deals, {}, r)
  PROVE  r.rating = Reference(active, deals) /\ r.offset = 0
<1> DEFINE n    == Len(rating)
           size == Size(rating, active, deals)
           ref  == Reference(active, deals)
           covered == r.lengthDone + r.oldPositions
<1>1. n \in Nat /\ size \in Nat
  BY ReferenceIsASequence
<1>2. /\ Cardinality(OldLeft(rating, active, deals, {})) = 0
      /\ Cardinality(NewLeft(rating, active, deals, {})) = 0
  BY FS_EmptySet DEF OldLeft, NewLeft
<1>3. /\ r.offset = 0 /\ covered \in 0 .. n /\ r.rating \in [1 .. size -> Nat]
      /\ Covers(rating, active, deals, {}, covered)
      /\ \A i \in 1 .. n - covered : r.rating[i] = rating[i]
      /\ \A i \in n - covered + 1 .. size : r.rating[i] = ref[i]
  <2>1. /\ r.offset = 0 /\ r.rating \in [1 .. size -> Nat]
        /\ Covers(rating, active, deals, {}, covered)
        /\ \A i \in 1 .. n - covered : r.rating[i] = rating[i]
        /\ \A i \in n - covered + r.offset + 1 .. size : r.rating[i] = ref[i]
    <3>1. r.offset = Cardinality(NewLeft(rating, active, deals, {}))
                       - Cardinality(OldLeft(rating, active, deals, {}))
      BY DEF LoopInv
    <3>2. r.offset = 0
      BY <1>2, <3>1
    <3>3. QED
      BY <3>2 DEF LoopInv, LoopState
  <2>2. covered \in 0 .. n
    BY <2>1 DEF Covers
  <2> HIDE DEF covered
  <2>3. n - covered + r.offset + 1 = n - covered + 1
    BY <1>1, <2>1, <2>2
  <2>4. QED
    BY <2>1, <2>2, <2>3
<1> HIDE DEF covered
<1>4. ASSUME NEW i \in 1 .. n - covered
      PROVE  r.rating[i] = ref[i]
  <2>1. ref[i + 0 - 0] = rating[i]
    BY <1>2, <1>3, UnmovedUsersAreRanked
  <2>2. i + 0 - 0 = i
    BY <1>1, <1>3
  <2>3. QED
    BY <1>3, <2>1, <2>2
<1>5. DOMAIN ref = 1 .. size /\ ref = [i \in 1 .. size |-> ref[i]]
  BY ReferenceIsASequence
<1>6. \A i \in 1 .. size : r.rating[i] = ref[i]
  BY <1>1, <1>3, <1>4
<1>7. r.rating = [i \in 1 .. size |-> r.rating[i]]
  BY <1>3
<1> HIDE DEF ref
<1>8. QED
  BY <1>3, <1>5, <1>6, <1>7 DEF ref


-----------------------------------------------------------------------------
(* The whole loop.                                                         *)
LEMMA LeastNumber ==
  ASSUME NEW T, T \subseteq Nat, T # {}
  PROVE  \E n \in T : \A m \in T : n <= m
<1> DEFINE below == {0 .. n - 1 : n \in T}
<1>1. below \subseteq FiniteSubsetsOf(Nat) /\ below # {}
  <2>1. ASSUME NEW n \in T
        PROVE  0 .. n - 1 \in FiniteSubsetsOf(Nat)
    <3>1. 0 .. n - 1 \subseteq Nat /\ IsFiniteSet(0 .. n - 1)
      BY IntervalsAreCounted
    <3>2. QED
      BY <3>1 DEF FiniteSubsetsOf
  <2>2. QED
    BY <2>1
<1>2. PICK b \in below : \A c \in below : <<c, b>> \notin StrictSubsetOrdering(Nat)
  BY <1>1, FS_StrictSubsetOrderingWellFounded, WFMin, Zenon
<1>3. PICK n \in T : b = 0 .. n - 1
  OBVIOUS
<1>4. ASSUME NEW m \in T
      PROVE  n <= m
  <2>1. SUFFICES ASSUME m < n PROVE FALSE
    OBVIOUS
  <2>2. 0 .. m - 1 \subseteq 0 .. n - 1 /\ m \in 0 .. n - 1 /\ m \notin 0 .. m - 1
    BY <2>1
  <2>3. 0 .. m - 1 \in SUBSET Nat /\ 0 .. n - 1 \in SUBSET Nat /\ 0 .. m - 1 \in below
    OBVIOUS
  <2>4. <<0 .. m - 1, b>> \in StrictSubsetOrdering(Nat)
    BY <1>3, <2>2, <2>3 DEF StrictSubsetOrdering
  <2>5. QED
    BY <1>2, <2>3, <2>4
<1>5. QED
  BY <1>4

(* "after" is the run of the loop from "start" over the first patches.     *)
IsRun(after, start, patches, n) ==
  after = [i \in 0 .. n |->
             IF i = 0 THEN start
             ELSE IF after[i - 1].fits THEN ApplyPatch(after[i - 1], patches[i])
             ELSE after[i - 1]]

LEMMA LoopsRun ==
  ASSUME NEW start, NEW patches, NEW n \in Nat
  PROVE  \E after : IsRun(after, start, patches, n)
<1> DEFINE bad == {m \in Nat : ~\E after : IsRun(after, start, patches, m)}
<1>1. SUFFICES ASSUME bad # {} PROVE FALSE
  OBVIOUS
<1>2. PICK m \in bad : \A k \in bad : m <= k
  BY <1>1, LeastNumber
<1>3. CASE m = 0
  <2> DEFINE after == [i \in 0 .. 0 |-> start]
  <2>1. IsRun(after, start, patches, 0)
    BY DEF IsRun
  <2>2. QED
    BY <1>3, <2>1
<1>4. CASE m # 0
  <2>1. m - 1 \in Nat /\ m - 1 \notin bad
    BY <1>2, <1>4
  <2>2. PICK before : IsRun(before, start, patches, m - 1)
    BY <2>1
  <2> DEFINE last  == IF before[m - 1].fits THEN ApplyPatch(before[m - 1], patches[m])
                      ELSE before[m - 1]
             after == [i \in 0 .. m |-> IF i = m THEN last ELSE before[i]]
  <2>3. IsRun(after, start, patches, m)
    BY <1>4, <2>1, <2>2 DEF IsRun
  <2>4. QED
    BY <2>3
<1>5. QED
  BY <1>3, <1>4

LEMMA RebuildIsARun ==
  ASSUME NEW rating, NEW active, NEW deals, Len(Patches(rating, active, deals)) \in Nat
  PROVE  LET patches == Patches(rating, active, deals)
         IN  \E after : /\ IsRun(after, StartRebuild(rating, active, deals), patches, Len(patches))
                        /\ Rebuild(rating, active, deals) = after[Len(patches)]
<1> DEFINE patches == Patches(rating, active, deals)
           start   == StartRebuild(rating, active, deals)
           run     == CHOOSE after : IsRun(after, start, patches, Len(patches))
<1>1. IsRun(run, start, patches, Len(patches))
  <2> HIDE DEF patches, start
  <2>1. \E after : IsRun(after, start, patches, Len(patches))
    BY LoopsRun DEF patches
  <2>2. QED
    BY <2>1
<1>2. Rebuild(rating, active, deals) = run[Len(patches)]
  BY DEF Rebuild, IsRun
<1>3. QED
  BY <1>1, <1>2

(* The patches that are left after the first ones.                         *)
After(patches, n) == {patches[i] : i \in n + 1 .. Len(patches)}

LEMMA PatchesAreDoneInTurn ==
  ASSUME NEW S, NEW patches \in Seq(S), \A s \in S : ~Precedes(s, s),
         \A i, j \in 1 .. Len(patches) : i < j => Precedes(patches[i], patches[j]),
         NEW n \in 1 .. Len(patches)
  PROVE  /\ IsFirst(patches[n], After(patches, n - 1))
         /\ After(patches, n - 1) \ {patches[n]} = After(patches, n)
<1> DEFINE N == Len(patches)
<1>1. /\ N \in Nat /\ n \in Nat /\ (n - 1) + 1 = n /\ n \in n .. N
      /\ \A i \in 1 .. N : patches[i] \in S
  OBVIOUS
<1>2. \A i \in n + 1 .. N : i \in 1 .. N /\ n < i /\ i \in n .. N
  BY <1>1
<1>3. \A i \in n .. N : i = n \/ i \in n + 1 .. N
  BY <1>1
<1>4. \A i \in n + 1 .. N : Precedes(patches[n], patches[i]) /\ patches[i] # patches[n]
  BY <1>1, <1>2
<1>5. After(patches, n - 1) = {patches[i] : i \in n .. N}
  BY <1>1 DEF After
<1>6. After(patches, n) = {patches[i] : i \in n + 1 .. N}
  BY DEF After
<1> HIDE DEF N
<1>7. IsFirst(patches[n], After(patches, n - 1))
  BY <1>1, <1>3, <1>4, <1>5 DEF IsFirst
<1>8. ASSUME NEW q
      PROVE  q \in After(patches, n - 1) \ {patches[n]} <=> q \in After(patches, n)
  BY <1>1, <1>2, <1>3, <1>4, <1>5, <1>6
<1>9. QED
  BY <1>7, <1>8

(* The rating vector is rebuilt as sorting all users anew would do it, the *)
(* assertions of the loop hold, and no gap is left in it.                  *)
LEMMA RebuildIsRight ==
  ASSUME NEW rating, NEW active, NEW deals, Minute(rating, active, deals)
  PROVE  LET rebuilt == Rebuild(rating, active, deals)
         IN  rebuilt.fits /\ rebuilt.rating = Reference(active, deals) /\ rebuilt.offset = 0
<1> DEFINE all     == PatchSet(rating, active, deals)
           R       == Order(all)
           patches == Patches(rating, active, deals)
           N       == Len(patches)
           start   == StartRebuild(rating, active, deals)
           rebuilt == Rebuild(rating, active, deals)
           Right(rest, r) == IsRest(rating, active, deals, rest) /\ LoopInv(rating, active, deals, rest, r)
<1>1. IsFiniteSet(all) /\ IsOrder(all, R)
  BY PatchesAreOrdered
<1>2. patches = InOrder(all, R)
  BY DEF Patches, Order
<1>3. /\ patches \in Seq(all) /\ N \in Nat
      /\ \A i, j \in 1 .. N : i < j => <<patches[i], patches[j]>> \in R
      /\ \A p \in all : Rank(all, R, p) + 1 \in 1 .. N /\ patches[Rank(all, R, p) + 1] = p
  <2> HIDE DEF all, R, patches
  <2>1. QED
    BY <1>1, <1>2, InOrderIsSorted
<1>4. /\ \A i, j \in 1 .. N : i < j => Precedes(patches[i], patches[j])
      /\ \A p \in all : ~Precedes(p, p)
  BY <1>1, <1>3 DEF Order, IsOrder
<1>5. PICK after : IsRun(after, start, patches, N) /\ rebuilt = after[N]
  BY <1>3, RebuildIsARun
<1>6. Right(all, start)
  BY LoopStart
<1>7. \A rest, r, p : Right(rest, r) /\ IsFirst(p, rest) => Right(rest \ {p}, ApplyPatch(r, p))
  BY LoopStep
<1>8. \A rest, r : Right(rest, r) => r.fits
  BY DEF LoopInv, LoopState
<1>9. \A r : Right({}, r) => r.rating = Reference(active, deals) /\ r.offset = 0
  BY LoopEnd
<1> HIDE DEF all, R, start, rebuilt, Right
<1>10. After(patches, 0) = all /\ After(patches, N) = {}
  <2>1. \A p \in all : \E i \in 1 .. N : patches[i] = p
    BY <1>3
  <2>2. \A i \in 1 .. N : patches[i] \in all
    BY <1>3
  <2> HIDE DEF patches
  <2>3. 0 + 1 .. N = 1 .. N /\ N + 1 .. N = {}
    BY <1>3
  <2>4. QED
    BY <2>1, <2>2, <2>3 DEF After, N
<1> HIDE DEF patches
<1>11. ASSUME NEW n \in 1 .. N
       PROVE  /\ IsFirst(patches[n], After(patches, n - 1))
              /\ After(patches, n - 1) \ {patches[n]} = After(patches, n)
  BY <1>3, <1>4, PatchesAreDoneInTurn DEF N
<1> HIDE DEF N
<1>12. /\ after[0] = start
       /\ \A n \in 1 .. N : after[n - 1].fits => after[n] = ApplyPatch(after[n - 1], patches[n])
  <2>1. \A n \in 1 .. N : n \in 0 .. N /\ n # 0
    BY <1>3
  <2>2. \A n \in 0 .. N : after[n] = IF n = 0 THEN start
                                     ELSE IF after[n - 1].fits THEN ApplyPatch(after[n - 1], patches[n])
                                     ELSE after[n - 1]
    BY <1>5 DEF IsRun
  <2>3. 0 \in 0 .. N
    BY <1>3
  <2>4. QED
    BY <2>1, <2>2, <2>3
<1>13. \A n \in 0 .. N : Right(After(patches, n), after[n])
  <2> DEFINE bad == {n \in 0 .. N : ~Right(After(patches, n), after[n])}
  <2>1. SUFFICES ASSUME bad # {} PROVE FALSE
    OBVIOUS
  <2>2. PICK n \in bad : \A m \in bad : n <= m
    <3>1. bad \subseteq Nat
      BY <1>3
    <3>2. QED
      BY <2>1, <3>1, LeastNumber
  <2>3. n # 0
    BY <1>6, <1>10, <1>12
  <2>4. n \in 1 .. N /\ n - 1 \in 0 .. N /\ n - 1 \notin bad
    BY <1>3, <2>2, <2>3
  <2>5. Right(After(patches, n - 1), after[n - 1])
    BY <2>4
  <2>6. after[n] = ApplyPatch(after[n - 1], patches[n])
    BY <1>8, <1>12, <2>4, <2>5
  <2>7. Right(After(patches, n), after[n])
    BY <1>7, <1>11, <2>4, <2>5, <2>6
  <2>8. QED
    BY <2>7
<1>14. Right({}, rebuilt)
  <2>1. N \in 0 .. N
    BY <1>3
  <2>2. Right(After(patches, N), after[N])
    BY <1>13, <2>1
  <2>3. rebuilt = after[N]
    BY <1>5
  <2>4. QED
    BY <1>10, <2>2, <2>3
<1>15. QED
  BY <1>8, <1>9, <1>14 DEF rebuilt


(* All users once, from the best to the worst.                             *)
Sorts(active, deals, order) ==
  LET all == DOMAIN active \cup DOMAIN deals
      n   == Len(order)
  IN  /\ all \subseteq Nat /\ order \in Seq(all) /\ n \in Nat /\ DOMAIN order = 1 .. n
      /\ \A u \in all : \E i \in 1 .. n : order[i] = u
      /\ \A i, j \in 1 .. n : order[i] = order[j] => i = j
      /\ \A i, j \in 1 .. n : i < j => Better(active, deals, order[i], order[j])

LEMMA ReferenceIsSorted ==
  ASSUME NEW rating, NEW active, NEW deals, Minute(rating, active, deals)
  PROVE  Sorts(active, deals, Reference(active, deals))
<1> DEFINE all == DOMAIN active \cup DOMAIN deals
           ref == Reference(active, deals)
           R   == Ranking(active, deals, all)
<1>1. IsFiniteSet(all) /\ IsOrder(all, R)
  BY UsersAreRanked
<1>2. ref = InOrder(all, R)
  BY DEF Reference, Ranking
<1>3. all \subseteq Nat
  BY DEF Minute, IsRating, AreDeals
<1>4. \A u, v : <<u, v>> \in R => Better(active, deals, u, v)
  BY DEF Ranking
<1> HIDE DEF all, R, ref
<1>5. /\ ref \in Seq(all) /\ Len(ref) \in Nat
      /\ \A i \in 1 .. Len(ref) : Rank(all, R, ref[i]) = i - 1
      /\ \A u \in all : Rank(all, R, u) + 1 \in 1 .. Len(ref) /\ ref[Rank(all, R, u) + 1] = u
      /\ \A i, j \in 1 .. Len(ref) : i < j => <<ref[i], ref[j]>> \in R
  BY <1>1, <1>2, InOrderIsSorted
<1>6. \A u \in all : \E i \in 1 .. Len(ref) : ref[i] = u
  BY <1>5
<1>7. \A i, j \in 1 .. Len(ref) : ref[i] = ref[j] => i = j
  BY <1>5
<1>8. \A i, j \in 1 .. Len(ref) : i < j => Better(active, deals, ref[i], ref[j])
  BY <1>4, <1>5
<1>9. DOMAIN ref = 1 .. Len(ref)
  BY <1>5
<1>10. QED
  BY <1>3, <1>5, <1>6, <1>7, <1>8, <1>9 DEF Sorts, all, ref

(* ratingRefreshPositions: the users with their new totals and places.     *)
IsRefreshed(active, deals, after) ==
  /\ DOMAIN after = DOMAIN active \cup DOMAIN deals
  /\ \A u \in DOMAIN after :
       /\ after[u].amountWon = Total(active, deals, u)
       /\ after[u].rating = (CHOOSE i \in DOMAIN Reference(active, deals) :
                               Reference(active, deals)[i] = u) - 1

(* They are in a rating as the next minute expects it.                     *)
LEMMA ReferenceIsARating ==
  ASSUME NEW rating, NEW active, NEW deals, Minute(rating, active, deals),
         NEW after, IsRefreshed(active, deals, after)
  PROVE  IsRating(Reference(active, deals), after)
<1> DEFINE all == DOMAIN active \cup DOMAIN deals
           ref == Reference(active, deals)
           n   == Len(ref)
<1>1. /\ all \subseteq Nat /\ ref \in Seq(all) /\ n \in Nat /\ DOMAIN ref = 1 .. n
      /\ \A u \in all : \E i \in 1 .. n : ref[i] = u
      /\ \A i, j \in 1 .. n : ref[i] = ref[j] => i = j
      /\ \A i, j \in 1 .. n : i < j => Better(active, deals, ref[i], ref[j])
  BY ReferenceIsSorted DEF Sorts
<1> DEFINE place(u) == CHOOSE i \in DOMAIN ref : ref[i] = u
<1>2. \A u : Total(active, deals, u) \in Int
  BY TotalsAreIntegers DEF Minute
<1>3. \A u, v : Better(active, deals, u, v) => Total(active, deals, u) >= Total(active, deals, v)
  BY <1>2 DEF Better
<1>4. \A u \in all : after[u].amountWon = Total(active, deals, u) /\ after[u].rating = place(u) - 1
  BY DEF IsRefreshed
<1> HIDE DEF all, ref, n
<1>5. ASSUME NEW u \in all
      PROVE  place(u) \in 1 .. n /\ ref[place(u)] = u
  BY <1>1
<1>6. ASSUME NEW i \in 1 .. n
      PROVE  ref[i] \in all /\ place(ref[i]) = i
  <2>1. ref[i] \in all
    BY <1>1 DEF n
  <2>2. QED
    BY <1>1, <1>5, <2>1
<1> HIDE DEF place
<1>7. ASSUME NEW u \in all
      PROVE  /\ after[u].amountWon \in Int /\ after[u].rating \in 0 .. n - 1
             /\ ref[after[u].rating + 1] = u
  <2>1. after[u].rating = place(u) - 1 /\ place(u) \in 1 .. n
    BY <1>4, <1>5
  <2>2. after[u].rating \in 0 .. n - 1 /\ after[u].rating + 1 = place(u)
    BY <1>1, <2>1
  <2>3. QED
    BY <1>2, <1>4, <1>5, <2>2
<1>8. ASSUME NEW i \in 1 .. n
      PROVE  /\ after[ref[i]].rating = i - 1
             /\ after[ref[i]].amountWon = Total(active, deals, ref[i])
  BY <1>4, <1>6
<1>9. \A i, j \in 1 .. n : i < j => after[ref[i]].amountWon >= after[ref[j]].amountWon
  BY <1>1, <1>3, <1>8
<1>10. DOMAIN after = all /\ all \subseteq Nat /\ ref \in Seq(all)
  BY <1>1 DEF all, IsRefreshed
<1>11. QED
  BY <1>7, <1>8, <1>9, <1>10 DEF IsRating, n, ref

(* A rating is made of two fields of its users.                            *)
LEMMA OtherFieldsDoNotCount ==
  ASSUME NEW rating, NEW active, IsRating(rating, active),
         NEW after, DOMAIN after = DOMAIN active,
         \A u \in DOMAIN active : /\ after[u].amountWon = active[u].amountWon
                                  /\ after[u].rating = active[u].rating
  PROVE  IsRating(rating, after)
<1>1. \A i \in 1 .. Len(rating) : rating[i] \in DOMAIN active
  BY RatingTypes
<1>2. \A i \in 1 .. Len(rating) : /\ after[rating[i]].amountWon = active[rating[i]].amountWon
                                  /\ after[rating[i]].rating = active[rating[i]].rating
  BY <1>1
<1>3. QED
  BY <1>2 DEF IsRating


(* "u" comes before "v".                                                   *)
Earlier(order, u, v) == \E i, j \in DOMAIN order : i < j /\ order[i] = u /\ order[j] = v

LEMMA PlacesOrderUsers ==
  ASSUME NEW rating, NEW active, IsRating(rating, active),
         NEW u \in DOMAIN active, NEW v \in DOMAIN active
  PROVE  Earlier(rating, u, v) <=> active[u].rating < active[v].rating
<1> DEFINE n == Len(rating)
<1>1. /\ n \in Nat /\ DOMAIN rating = 1 .. n
      /\ \A i \in 1 .. n : active[rating[i]].rating = i - 1
  BY RatingTypes
<1>2. /\ active[u].rating + 1 \in 1 .. n /\ rating[active[u].rating + 1] = u
      /\ active[v].rating + 1 \in 1 .. n /\ rating[active[v].rating + 1] = v
      /\ active[u].rating \in 0 .. n - 1 /\ active[v].rating \in 0 .. n - 1
  BY PlacesAreKnown
<1> HIDE DEF n
<1>3. ASSUME Earlier(rating, u, v)
      PROVE  active[u].rating < active[v].rating
  <2>1. PICK i \in 1 .. n, j \in 1 .. n : i < j /\ rating[i] = u /\ rating[j] = v
    BY <1>1, <1>3 DEF Earlier
  <2>2. active[u].rating = i - 1 /\ active[v].rating = j - 1
    BY <1>1, <2>1
  <2>3. QED
    BY <2>1, <2>2
<1>4. ASSUME active[u].rating < active[v].rating
      PROVE  Earlier(rating, u, v)
  <2>1. active[u].rating + 1 < active[v].rating + 1
    BY <1>2, <1>4
  <2>2. QED
    BY <1>1, <1>2, <2>1 DEF Earlier
<1>5. QED
  BY <1>3, <1>4

(* Users without a deal stay in their order.                               *)
LEMMA UndisturbedUsersKeepTheirOrder ==
  ASSUME NEW rating, NEW active, NEW deals, Minute(rating, active, deals),
         NEW u \in DOMAIN active \ DOMAIN deals, NEW v \in DOMAIN active \ DOMAIN deals
  PROVE  Earlier(Reference(active, deals), u, v) <=> active[u].rating < active[v].rating
<1> DEFINE ref == Reference(active, deals)
           n   == Len(ref)
<1>1. Sorts(active, deals, ref)
  BY ReferenceIsSorted
<1> HIDE DEF ref
<1>2. /\ n \in Nat /\ DOMAIN ref = 1 .. n
      /\ \A x \in DOMAIN active : \E i \in 1 .. n : ref[i] = x
      /\ \A i, j \in 1 .. n : i < j => Better(active, deals, ref[i], ref[j])
  BY <1>1 DEF Sorts
<1>3. ASSUME NEW x \in DOMAIN active \ DOMAIN deals, NEW y \in DOMAIN active \ DOMAIN deals,
             Better(active, deals, x, y)
      PROVE  active[x].rating < active[y].rating
  <2> DEFINE i == active[x].rating + 1
             j == active[y].rating + 1
  <2>1. /\ i \in 1 .. Len(rating) /\ rating[i] = x /\ active[x].rating = i - 1
        /\ j \in 1 .. Len(rating) /\ rating[j] = y /\ active[y].rating = j - 1
        /\ Len(rating) \in Nat
    <3>1. IsRating(rating, active)
      BY DEF Minute
    <3>2. QED
      BY <3>1, PlacesAreKnown, RatingTypes
  <2>2. /\ Total(active, deals, x) = active[x].amountWon /\ active[x].amountWon \in Int
        /\ Total(active, deals, y) = active[y].amountWon /\ active[y].amountWon \in Int
    <3>1. IsRating(rating, active) /\ AreDeals(active, deals)
      BY DEF Minute
    <3>2. \A w \in DOMAIN active \ DOMAIN deals : Total(active, deals, w) = active[w].amountWon
      BY <3>1, TotalsAreIntegers
    <3>3. active[x].amountWon \in Int /\ active[y].amountWon \in Int
      BY <3>1 DEF IsRating
    <3>4. QED
      BY <3>2, <3>3
  <2> HIDE DEF i, j
  <2>3. j <= i => active[y].amountWon >= active[x].amountWon
    <3>1. j <= i => active[rating[j]].amountWon >= active[rating[i]].amountWon
      BY <2>1, WinningsFall DEF Minute
    <3>2. QED
      BY <2>1, <3>1
  <2>4. \/ active[x].amountWon > active[y].amountWon
        \/ active[x].rating < active[y].rating
    BY <1>3, <2>2 DEF Better
  <2>5. QED
    BY <2>1, <2>2, <2>3, <2>4
<1>4. ASSUME Earlier(ref, u, v)
      PROVE  active[u].rating < active[v].rating
  <2>1. Better(active, deals, u, v)
    BY <1>2, <1>4 DEF Earlier
  <2>2. QED
    BY <1>3, <2>1
<1>5. ASSUME active[u].rating < active[v].rating
      PROVE  Earlier(ref, u, v)
  <2>1. PICK i \in 1 .. n, j \in 1 .. n : ref[i] = u /\ ref[j] = v
    BY <1>2
  <2>2. active[u].rating \in Int /\ active[v].rating \in Int
    <3>1. active[u].rating \in 0 .. Len(rating) - 1 /\ active[v].rating \in 0 .. Len(rating) - 1
      BY PlacesAreKnown DEF Minute
    <3>2. QED
      BY <3>1
  <2>3. i # j
    BY <1>5, <2>1, <2>2
  <2>4. ~(j < i)
    <3>1. SUFFICES ASSUME j < i PROVE FALSE
      OBVIOUS
    <3>2. Better(active, deals, v, u)
      BY <1>2, <2>1, <3>1
    <3>3. QED
      BY <1>3, <1>5, <2>2, <3>2
  <2>5. i < j
    BY <1>2, <2>3, <2>4
  <2>6. QED
    BY <1>2, <2>1, <2>5 DEF Earlier
<1>6. QED
  BY <1>4, <1>5 DEF ref

LEMMA RatingsArePermutations ==
  ASSUME NEW rating, NEW active, IsRating(rating, active)
  PROVE  rating \in SetToSeqs(DOMAIN active)
<1> DEFINE n == Len(rating)
           A == DOMAIN active
<1>1. n \in Nat /\ n = Cardinality(A) /\ DOMAIN rating = 1 .. n
  BY RatingTypes, UsersAreCounted
<1>2. rating \in [1 .. n -> A]
  BY <1>1, RatingTypes DEF IsRating
<1>3. \A i, j \in 1 .. n : i # j => rating[i] # rating[j]
  <2>1. \A i \in 1 .. n : active[rating[i]].rating = i - 1
    BY RatingTypes
  <2>2. QED
    BY <1>1, <2>1
<1>4. QED
  BY <1>1, <1>2, <1>3 DEF SetToSeqs
=============================================================================
