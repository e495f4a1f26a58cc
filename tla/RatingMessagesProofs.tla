------------------------- MODULE RatingMessagesProofs -------------------------
(***************************************************************************)
(* For all dimensions with TopPositions <= CompetitionDistance + 1 and all *)
(* ratings: a worker's buffer always ends with the top of the current      *)
(* rating, the client computes the number of entries it has been sent, and *)
(* takes each of them for the right place.                                 *)
(***************************************************************************)
EXTENDS RatingMessages, SequenceTheorems, TLAPS

-----------------------------------------------------------------------------
(* Sequences.                                                              *)

(* A part of a sequence.                                                   *)
LEMMA PartFacts ==
  ASSUME NEW S, NEW s \in Seq(S), NEW m \in Nat \ {0}, NEW n \in 0 .. Len(s), m <= n + 1
  PROVE  /\ SubSeq(s, m, n) \in Seq(S)
         /\ Len(SubSeq(s, m, n)) = n - m + 1
         /\ \A i \in 1 .. n - m + 1 : SubSeq(s, m, n)[i] = s[m + i - 1]
<1>1. Len(s) \in Nat
  BY LenProperties
<1>2. \A i \in m .. n : s[i] \in S
  BY <1>1, ElementOfSeq
<1>3. m \in Int /\ n \in Int
  BY <1>1
<1>4. /\ SubSeq(s, m, n) \in Seq(S)
      /\ Len(SubSeq(s, m, n)) = IF m <= n THEN n - m + 1 ELSE 0
      /\ \A i \in 1 .. n - m + 1 : SubSeq(s, m, n)[i] = s[m + i - 1]
  BY <1>2, <1>3, SubSeqProperties
<1>5. (IF m <= n THEN n - m + 1 ELSE 0) = n - m + 1
  BY <1>3
<1>6. QED
  BY <1>4, <1>5

(* Two sequences, one after the other.                                     *)
LEMMA JoinFacts ==
  ASSUME NEW S, NEW a \in Seq(S), NEW b \in Seq(S), NEW d, d = a \o b
  PROVE  /\ d \in Seq(S) /\ Len(d) = Len(a) + Len(b)
         /\ \A i \in 1 .. Len(a) : d[i] = a[i]
         /\ \A i \in 1 .. Len(b) : d[Len(a) + i] = b[i]
<1>1. Len(a) \in Nat /\ Len(b) \in Nat
  BY LenProperties
<1>2. /\ d \in Seq(S) /\ Len(d) = Len(a) + Len(b)
      /\ \A i \in 1 .. Len(a) + Len(b) : d[i] = IF i <= Len(a) THEN a[i] ELSE b[i - Len(a)]
  BY ConcatProperties
<1>3. \A i \in 1 .. Len(a) : d[i] = a[i]
  BY <1>1, <1>2
<1>4. ASSUME NEW i \in 1 .. Len(b) PROVE d[Len(a) + i] = b[i]
  <2>1. Len(a) + i \in 1 .. Len(a) + Len(b) /\ ~ (Len(a) + i <= Len(a)) /\ Len(a) + i - Len(a) = i
    BY <1>1
  <2>2. d[Len(a) + i] = b[Len(a) + i - Len(a)]
    BY <1>2, <2>1
  <2>3. QED
    BY <2>1, <2>2
<1>5. QED
  BY <1>2, <1>3, <1>4

(* A sequence of one element.                                              *)
LEMMA SingletonFacts ==
  ASSUME NEW S, NEW e \in S
  PROVE  <<e>> \in Seq(S) /\ Len(<<e>>) = 1 /\ <<e>>[1] = e
  OBVIOUS

(* A sequence of two elements.                                             *)
LEMMA PairFacts ==
  ASSUME NEW S, NEW d \in S, NEW e \in S
  PROVE  <<d, e>> \in Seq(S) /\ Len(<<d, e>>) = 2 /\ <<d, e>>[1] = d /\ <<d, e>>[2] = e
  OBVIOUS

(* Around one element.                                                     *)
LEMMA SandwichFacts ==
  ASSUME NEW S, NEW a \in Seq(S), NEW e \in S, NEW b \in Seq(S),
         NEW d, d = (a \o <<e>>) \o b
  PROVE  /\ d \in Seq(S)
         /\ Len(d) = Len(a) + 1 + Len(b)
         /\ \A i \in 1 .. Len(a) + 1 + Len(b) :
              d[i] = IF i <= Len(a) THEN a[i]
                     ELSE IF i = Len(a) + 1 THEN e ELSE b[i - Len(a) - 1]
<1>1. Len(a) \in Nat /\ Len(b) \in Nat
  BY LenProperties
<1>2. <<e>> \in Seq(S) /\ Len(<<e>>) = 1 /\ <<e>>[1] = e
  BY SingletonFacts
<1>3. PICK c \in Seq(S) : c = a \o <<e>>
  BY <1>2, ConcatProperties
<1>4. Len(c) = Len(a) + 1
      /\ \A i \in 1 .. Len(a) + 1 : c[i] = IF i <= Len(a) THEN a[i] ELSE <<e>>[i - Len(a)]
  BY <1>2, <1>3, ConcatProperties
<1>5. \A i \in 1 .. Len(a) + 1 : c[i] = IF i <= Len(a) THEN a[i] ELSE e
  <2>1. ASSUME NEW i \in 1 .. Len(a) + 1, ~ (i <= Len(a)) PROVE i - Len(a) = 1
    BY <1>1, <2>1
  <2>2. QED
    BY <1>2, <1>4, <2>1
<1>6. d \in Seq(S) /\ d = c \o b
  BY <1>3, ConcatProperties
<1>7. Len(d) = Len(c) + Len(b)
      /\ \A i \in 1 .. Len(c) + Len(b) : d[i] = IF i <= Len(c) THEN c[i] ELSE b[i - Len(c)]
  BY <1>6, ConcatProperties
<1>8. ASSUME NEW i \in 1 .. Len(a) + 1 + Len(b)
      PROVE  d[i] = IF i <= Len(a) THEN a[i]
                    ELSE IF i = Len(a) + 1 THEN e ELSE b[i - Len(a) - 1]
  <2>1. CASE i <= Len(a) + 1
    BY <1>1, <1>4, <1>5, <1>7, <2>1
  <2>2. CASE ~ (i <= Len(a) + 1)
    <3>1. i - Len(c) = i - Len(a) - 1
      BY <1>1, <1>4
    <3>2. QED
      BY <1>1, <1>4, <1>7, <2>2, <3>1
  <2>3. QED
    BY <2>1, <2>2
<1>9. QED
  BY <1>1, <1>4, <1>6, <1>7, <1>8

-----------------------------------------------------------------------------
(* Buffers.                                                                *)
(* operator<< at the end of the storage appends.                           *)
LEMMA PutAtEnd ==
  ASSUME NEW S, NEW s \in Seq(S), NEW n, n = Len(s), NEW cells \in Seq(S)
  PROVE  Put([storage |-> s, pos |-> n], cells)
           = [storage |-> s \o cells, pos |-> n + Len(cells)]
<1>1. Len(s) \in Nat /\ Len(cells) \in Nat
  BY LenProperties
<1>2. SubSeq(s, 1, Len(s)) = s
  BY SubSeqFull
<1>3. SubSeq(s, Len(s) + Len(cells) + 1, Len(s)) = << >>
  BY <1>1, SubSeqEmpty
<1>4. s \o cells \in Seq(S)
  BY ConcatProperties
<1>5. (s \o cells) \o << >> = s \o cells
  BY <1>4, ConcatEmptySeq
<1>6. QED
  BY <1>2, <1>3, <1>5 DEF Put

(* operator<< inside the storage replaces a cell.                          *)
LEMMA PutInside ==
  ASSUME NEW S, NEW s \in Seq(S), NEW p \in Nat, p < Len(s), NEW cell \in S
  PROVE  Put([storage |-> s, pos |-> p], <<cell>>)
           = [storage |-> [s EXCEPT ![p + 1] = cell], pos |-> p + 1]
<1> DEFINE q == p + 2
           n == Len(s)
           a == SubSeq(s, 1, p)
           b == SubSeq(s, q, n)
           m == (a \o <<cell>>) \o b
           e == [s EXCEPT ![p + 1] = cell]
<1>1. n \in Nat /\ p < n
  BY LenProperties
<1>2. q \in Nat \ {0} /\ q <= n + 1 /\ n \in 0 .. Len(s)
  BY <1>1
<1>3. Put([storage |-> s, pos |-> p], <<cell>>) = [storage |-> m, pos |-> p + 1]
  <2>1. Len(<<cell>>) = 1 /\ p + 1 + 1 = q
    BY SingletonFacts
  <2>2. QED
    BY <2>1 DEF Put
<1>4. e \in Seq(S) /\ Len(e) = n /\ \A i \in 1 .. n : e[i] = IF i = p + 1 THEN cell ELSE s[i]
  <2>1. p + 1 \in 1 .. Len(s)
    BY <1>1
  <2>2. QED
    BY <2>1, ExceptSeq
<1> HIDE DEF e
<1>5. a \in Seq(S) /\ Len(a) = p /\ \A i \in 1 .. p : a[i] = s[i]
  <2>1. 1 \in Nat \ {0} /\ p \in 0 .. Len(s) /\ 1 <= p + 1 /\ p - 1 + 1 = p
        /\ \A i \in 1 .. p : 1 + i - 1 = i
    BY <1>1
  <2>2. a \in Seq(S) /\ Len(a) = p - 1 + 1 /\ \A i \in 1 .. p - 1 + 1 : a[i] = s[1 + i - 1]
    BY <2>1, PartFacts
  <2>3. QED
    BY <2>1, <2>2
<1> HIDE DEF a
<1>6. b \in Seq(S) /\ Len(b) = n - q + 1 /\ \A i \in 1 .. n - q + 1 : b[i] = s[q + i - 1]
  <2> HIDE DEF q, n
  <2>1. QED
    BY <1>2, PartFacts
<1> HIDE DEF b
<1>7. m \in Seq(S) /\ Len(m) = p + 1 + Len(b)
      /\ \A i \in 1 .. p + 1 + Len(b) :
           m[i] = IF i <= p THEN a[i] ELSE IF i = p + 1 THEN cell ELSE b[i - p - 1]
  <2>1. /\ m \in Seq(S) /\ Len(m) = Len(a) + 1 + Len(b)
        /\ \A i \in 1 .. Len(a) + 1 + Len(b) :
             m[i] = IF i <= Len(a) THEN a[i]
                    ELSE IF i = Len(a) + 1 THEN cell ELSE b[i - Len(a) - 1]
    <3>1. a \in Seq(S) /\ b \in Seq(S) /\ m = (a \o <<cell>>) \o b
      BY <1>5, <1>6
    <3> HIDE DEF m
    <3>2. QED
      BY <3>1, SandwichFacts
  <2> HIDE DEF m
  <2>2. QED
    BY <1>5, <2>1
<1> HIDE DEF m, n
<1>8. Len(m) = n /\ p + 1 + Len(b) = n
  BY <1>1, <1>6, <1>7
<1>9. ASSUME NEW i \in 1 .. n PROVE m[i] = e[i]
  <2>1. CASE i <= p
    BY <1>1, <1>4, <1>5, <1>7, <1>8, <2>1
  <2>2. CASE i = p + 1
    BY <1>1, <1>4, <1>7, <1>8, <2>2
  <2>3. CASE i > p + 1
    <3>1. i - p - 1 \in 1 .. n - q + 1 /\ q + (i - p - 1) - 1 = i
      BY <1>1, <2>3
    <3>2. m[i] = b[i - p - 1] /\ e[i] = s[i]
      BY <1>1, <1>4, <1>7, <1>8, <2>3
    <3>3. QED
      BY <1>6, <3>1, <3>2
  <2>4. QED
    BY <1>1, <2>1, <2>2, <2>3
<1>10. m = e
  BY <1>4, <1>7, <1>8, <1>9, SeqEqual
<1>11. QED
  BY <1>3, <1>10 DEF e

-----------------------------------------------------------------------------
(* How many entries there are.                                             *)

(* The top of a rating.                                                    *)
LEMMA TopFacts ==
  ASSUME NEW S, NEW r \in Seq(S)
  PROVE  /\ TopRatings(r) \in Seq(S) /\ Len(TopRatings(r)) = Lesser(TopPositions, Len(r))
         /\ Lesser(TopPositions, Len(r)) \in 0 .. Len(r)
         /\ \A i \in 1 .. Lesser(TopPositions, Len(r)) : TopRatings(r)[i] = r[i]
<1> DEFINE t == Lesser(TopPositions, Len(r))
<1>1. t \in 0 .. Len(r) /\ t \in Nat
  BY LenProperties, DimensionsAssumption DEF Lesser
<1> HIDE DEF t
<1>2. 1 \in Nat \ {0} /\ 1 <= t + 1 /\ t - 1 + 1 = t /\ \A i \in 1 .. t : 1 + i - 1 = i
  BY <1>1
<1>3. /\ SubSeq(r, 1, t) \in Seq(S) /\ Len(SubSeq(r, 1, t)) = t - 1 + 1
      /\ \A i \in 1 .. t - 1 + 1 : SubSeq(r, 1, t)[i] = r[1 + i - 1]
  BY <1>1, <1>2, PartFacts
<1>4. TopRatings(r) = SubSeq(r, 1, t)
  BY DEF TopRatings, t
<1>5. QED
  BY <1>1, <1>2, <1>3, <1>4 DEF t

(* How long the surroundings are.                                          *)
Around(pos, size) ==
  IF RangeBegin(pos) < RangeEnd(pos, size) THEN RangeEnd(pos, size) - RangeBegin(pos) ELSE 0

(* The service's range in numbers.                                         *)
LEMMA RangeFacts ==
  ASSUME NEW size \in Nat, NEW pos \in 0 .. size
  PROVE  /\ RangeBegin(pos) \in Nat /\ RangeEnd(pos, size) \in 0 .. size
         /\ Around(pos, size) \in Nat
         /\ Around(pos, size) > 0 =>
              /\ RangeBegin(pos) + Around(pos, size) = RangeEnd(pos, size)
              /\ TopPositions < size
  BY DimensionsAssumption DEF RangeBegin, RangeEnd, Around, Lesser, Greater

LEMMA SurroundingsFacts ==
  ASSUME NEW S, NEW r \in Seq(S), NEW pos \in 0 .. Len(r)
  PROVE  /\ Surroundings(r, pos) \in Seq(S)
         /\ Len(Surroundings(r, pos)) = Around(pos, Len(r))
         /\ \A i \in 1 .. Around(pos, Len(r)) :
              Surroundings(r, pos)[i] = r[RangeBegin(pos) + i]
<1> DEFINE b == RangeBegin(pos)
           e == RangeEnd(pos, Len(r))
<1>1. Len(r) \in Nat
  BY LenProperties
<1>2. b \in Nat /\ e \in 0 .. Len(r) /\ e \in Nat
  BY <1>1, RangeFacts
<1>3. Surroundings(r, pos) = SubSeq(r, b + 1, e)
  BY DEF Surroundings
<1>4. Around(pos, Len(r)) = IF b < e THEN e - b ELSE 0
  BY DEF Around
<1> HIDE DEF b, e
<1>5. CASE b < e
  <2> DEFINE m == b + 1
  <2>1. m \in Nat \ {0} /\ m <= e + 1 /\ e - m + 1 = e - b
        /\ \A i \in 1 .. e - b : m + i - 1 = b + i
    BY <1>2, <1>5
  <2> HIDE DEF m
  <2>2. /\ SubSeq(r, m, e) \in Seq(S) /\ Len(SubSeq(r, m, e)) = e - m + 1
        /\ \A i \in 1 .. e - m + 1 : SubSeq(r, m, e)[i] = r[m + i - 1]
    BY <1>2, <2>1, PartFacts
  <2>3. QED
    BY <1>3, <1>4, <1>5, <2>1, <2>2 DEF b, m
<1>6. CASE ~ (b < e)
  <2>1. b + 1 \in Int /\ e \in Int /\ e < b + 1
    BY <1>2, <1>6
  <2>2. Surroundings(r, pos) = << >>
    BY <1>3, <2>1, SubSeqEmpty
  <2>3. << >> \in Seq(S) /\ Len(<< >>) = 0
    BY EmptySeq
  <2>4. QED
    BY <1>4, <1>6, <2>2, <2>3
<1>7. QED
  BY <1>5, <1>6

(* The client's number of entries is the service's. It would not be if the *)
(* top reached further than the surroundings of its last user.             *)
THEOREM CountsAgree ==
  ASSUME NEW size \in Nat, NEW pos \in 0 .. size
  PROVE  EntryCount(size, pos) = Lesser(TopPositions, size) + Around(pos, size)
  BY DimensionsAssumption DEF EntryCount, Around, RangeBegin, RangeEnd, Lesser, Greater

(* The client's places are the top and the surroundings.                   *)
LEMMA PlacesCover ==
  ASSUME NEW size \in Nat, NEW pos \in 0 .. size
  PROVE  {ExpectedPlace(pos, i) : i \in 1 .. EntryCount(size, pos)}
           = {p \in 0 .. size - 1 :
                \/ p < TopPositions
                \/ p \in pos - CompetitionDistance .. pos + CompetitionDistance}
<1> DEFINE n == EntryCount(size, pos)
           Shown(p) == \/ p < TopPositions
                       \/ p \in pos - CompetitionDistance .. pos + CompetitionDistance
<1>1. n = Lesser(TopPositions, size) + Around(pos, size)
  BY CountsAgree
<1> HIDE DEF n
<1>2. n \in Nat
  <2>1. Around(pos, size) \in Nat
    BY RangeFacts
  <2>2. QED
    BY <1>1, <2>1, DimensionsAssumption DEF Lesser
<1>3. ASSUME NEW i \in 1 .. n
      PROVE  ExpectedPlace(pos, i) \in 0 .. size - 1 /\ Shown(ExpectedPlace(pos, i))
  BY <1>1, <1>2, DimensionsAssumption
     DEF ExpectedPlace, Around, RangeBegin, RangeEnd, Lesser, Greater
<1>4. ASSUME NEW p \in 0 .. size - 1, Shown(p)
      PROVE  \E i \in 1 .. n : ExpectedPlace(pos, i) = p
  <2>1. CASE p < TopPositions
    <3>1. p + 1 \in 1 .. n /\ ExpectedPlace(pos, p + 1) = p
      BY <1>1, <1>2, <2>1, RangeFacts, DimensionsAssumption DEF ExpectedPlace, Lesser
    <3>2. QED
      BY <3>1
  <2>2. CASE ~ (p < TopPositions)
    <3> DEFINE i == TopPositions + 1 + (p - RangeBegin(pos))
    <3>1. i \in 1 .. n /\ i > TopPositions
      BY <1>1, <1>2, <1>4, <2>2, DimensionsAssumption
         DEF Around, RangeBegin, RangeEnd, Lesser, Greater
    <3>2. ExpectedPlace(pos, i) = p
      BY <1>4, <2>2, <3>1, DimensionsAssumption DEF ExpectedPlace, RangeBegin, Greater
    <3>3. QED
      BY <3>1, <3>2
  <2>3. QED
    BY <2>1, <2>2
<1>5. QED
  BY <1>3, <1>4 DEF n

-----------------------------------------------------------------------------
(* What is sent.                                                           *)
Headers == [id : Ids \cup {InvalidId}, ratingLength : Nat, ratingPos : Nat]
Words   == {"USER_RATING", "PROTOCOL_ERROR", "USER_UNRECOGNIZED", "MULTIPLE_REGISTRATION"}
Cells   == Nat \cup Words \cup Headers \cup Entries \cup Ids
Streams == [storage : Seq(Cells), pos : Nat]

(* What a worker with s in its buffer sends.                               *)
Packed(s, around, header) ==
  WriteMessage(Put(SetPos(Put([storage |-> s, pos |-> Len(s)], around), Base), <<header>>))

(* The message of a buffer with a cached top and the entries behind it.    *)
LEMMA MessageFacts ==
  ASSUME NEW s \in Seq(Cells), Len(s) >= 3, NEW around \in Seq(Cells), NEW header \in Cells
  PROVE  \E m \in Seq(Cells) :
           /\ Packed(s, around, header) = [storage |-> m, pos |-> 1]
           /\ Len(m) = Len(s) + Len(around)
           /\ m[1] = Len(m) /\ m[2] = s[2] /\ m[3] = header
           /\ \A i \in 4 .. Len(s) : m[i] = s[i]
           /\ \A i \in 1 .. Len(around) : m[Len(s) + i] = around[i]
<1> DEFINE n == Len(s)
           k == Len(around)
           a == s \o around
           b == [a EXCEPT ![3] = header]
           m == [b EXCEPT ![1] = n + k]
<1>1. n \in Nat /\ k \in Nat /\ n >= 3
  BY LenProperties
<1>2. /\ a \in Seq(Cells) /\ Len(a) = n + k
      /\ \A i \in 1 .. n : a[i] = s[i]
      /\ \A i \in 1 .. k : a[n + i] = around[i]
  BY JoinFacts
<1>3. Put([storage |-> s, pos |-> n], around) = [storage |-> a, pos |-> n + k]
  BY PutAtEnd
<1> HIDE DEF a, n, k
<1>4. /\ b \in Seq(Cells) /\ Len(b) = n + k
      /\ \A i \in 1 .. n + k : b[i] = IF i = 3 THEN header ELSE a[i]
  <2>1. 3 \in 1 .. Len(a)
    BY <1>1, <1>2
  <2>2. QED
    BY <1>2, <2>1, ExceptSeq
<1>5. SetPos([storage |-> a, pos |-> n + k], Base) = [storage |-> a, pos |-> 2]
  BY <1>1, <1>2 DEF SetPos, Base
<1>6. Put([storage |-> a, pos |-> 2], <<header>>) = [storage |-> b, pos |-> 3]
  <2> DEFINE p == 2
  <2>1. a \in Seq(Cells) /\ p \in Nat /\ p < Len(a)
    BY <1>1, <1>2
  <2> HIDE DEF p
  <2>2. Put([storage |-> a, pos |-> p], <<header>>)
          = [storage |-> [a EXCEPT ![p + 1] = header], pos |-> p + 1]
    BY <2>1, PutInside
  <2>3. p = 2 /\ p + 1 = 3
    BY DEF p
  <2>4. QED
    BY <2>2, <2>3
<1> HIDE DEF b
<1>7. /\ m \in Seq(Cells) /\ Len(m) = n + k
      /\ \A i \in 1 .. n + k : m[i] = IF i = 1 THEN n + k ELSE b[i]
  <2>1. 1 \in 1 .. Len(b) /\ n + k \in Cells
    BY <1>1, <1>4 DEF Cells
  <2>2. QED
    BY <1>4, <2>1, ExceptSeq
<1>8. SetPos([storage |-> b, pos |-> 3], 0) = [storage |-> b, pos |-> 0]
  BY <1>1, <1>4 DEF SetPos
<1>9. Put([storage |-> b, pos |-> 0], <<n + k>>) = [storage |-> m, pos |-> 1]
  <2> DEFINE size == n + k
             p == 0
  <2>1. p \in Nat /\ p < Len(b) /\ size \in Cells
    BY <1>1, <1>4 DEF Cells
  <2> HIDE DEF size, p
  <2>2. Put([storage |-> b, pos |-> p], <<size>>)
          = [storage |-> [b EXCEPT ![p + 1] = size], pos |-> p + 1]
    BY <1>4, <2>1, PutInside
  <2>3. p = 0 /\ p + 1 = 1 /\ size = n + k
    BY DEF p, size
  <2>4. QED
    BY <2>2, <2>3
<1>10. WriteMessage([storage |-> b, pos |-> 3]) = [storage |-> m, pos |-> 1]
  BY <1>4, <1>8, <1>9 DEF WriteMessage
<1> HIDE DEF m
<1>11. m[1] = n + k /\ m[2] = s[2] /\ m[3] = header
  BY <1>1, <1>2, <1>4, <1>7
<1>12. \A i \in 4 .. n : m[i] = s[i]
  BY <1>1, <1>2, <1>4, <1>7
<1>13. ASSUME NEW i \in 1 .. k PROVE m[n + i] = around[i]
  <2>1. n + i \in 1 .. n + k /\ n + i # 1 /\ n + i # 3
    BY <1>1
  <2>2. QED
    BY <1>2, <1>4, <1>7, <2>1
<1>14. Packed(s, around, header) = [storage |-> m, pos |-> 1]
  BY <1>3, <1>5, <1>6, <1>10 DEF Packed, n
<1>15. QED
  BY <1>7, <1>11, <1>12, <1>13, <1>14 DEF n, k

-----------------------------------------------------------------------------
(* The invariant.                                                          *)
MessagesInv ==
  /\ ratingBuffer \in Streams /\ errorBuffer \in Streams
  /\ CacheKept /\ PackIsRead /\ PlacesAgree

(* Ratings as sequences of cells.                                          *)
LEMMA RatingFacts ==
  ASSUME NEW r \in Ratings
  PROVE  r \in Seq(Cells) /\ Len(r) \in Nat
<1>1. r \in Seq(Entries)
  BY RatingsAssumption
<1>2. Entries \subseteq Cells
  BY DEF Cells
<1>3. r \in Seq(Cells)
  BY <1>1, <1>2, SeqMonotonic
<1>4. QED
  BY <1>3, LenProperties

(* The top is cached behind size, code and header.                         *)
LEMMA CacheFacts ==
  ASSUME NEW r \in Ratings, NEW stream \in Streams, Len(stream.storage) >= 2,
         stream.storage[2] = "USER_RATING"
  PROVE  LET c == CacheTopRatings(stream, r)
         IN  /\ c \in Streams /\ c.pos = Base + 1 + Len(TopRatings(r))
             /\ Len(c.storage) = Base + 1 + Len(TopRatings(r))
             /\ c.storage[2] = "USER_RATING"
             /\ \A i \in 1 .. Len(TopRatings(r)) : c.storage[Base + 1 + i] = TopRatings(r)[i]
<1> DEFINE s == stream.storage
           a == SubSeq(s, 1, 2)
           h == Header(InvalidId, 0, 0)
           b == a \o <<h>>
           t == TopRatings(r)
           d == b \o t
<1>1. s \in Seq(Cells) /\ Len(s) \in Nat /\ Len(s) >= 2 /\ s[2] = "USER_RATING"
  BY LenProperties DEF Streams
<1>2. t \in Seq(Cells) /\ Len(t) \in Nat
  BY RatingFacts, TopFacts, LenProperties
<1>3. h \in Cells
  BY DEF Cells, Headers, Header
<1>4. Rewind(stream, Base) = [storage |-> a, pos |-> 2]
  BY <1>1 DEF Rewind, Base
<1> HIDE DEF s, h, t
<1>5. a \in Seq(Cells) /\ Len(a) = 2 /\ a[2] = "USER_RATING"
  <2>1. 1 \in Nat \ {0} /\ 2 \in 0 .. Len(s) /\ 1 <= 2 + 1 /\ 2 - 1 + 1 = 2 /\ 1 + 2 - 1 = 2
    BY <1>1
  <2>2. a \in Seq(Cells) /\ Len(a) = 2 - 1 + 1 /\ \A i \in 1 .. 2 - 1 + 1 : a[i] = s[1 + i - 1]
    BY <1>1, <2>1, PartFacts
  <2>3. QED
    BY <1>1, <2>1, <2>2
<1> HIDE DEF a
<1>6. <<h>> \in Seq(Cells) /\ Len(<<h>>) = 1
  BY <1>3, SingletonFacts
<1>7. Put([storage |-> a, pos |-> 2], <<h>>) = [storage |-> b, pos |-> 3]
  <2>1. Put([storage |-> a, pos |-> 2], <<h>>) = [storage |-> a \o <<h>>, pos |-> 2 + Len(<<h>>)]
    BY <1>5, <1>6, PutAtEnd
  <2>2. QED
    BY <1>6, <2>1
<1>8. b = a \o <<h>>
  OBVIOUS
<1> HIDE DEF b
<1>9. b \in Seq(Cells) /\ Len(b) = 3 /\ b[2] = "USER_RATING"
  <2>1. /\ b \in Seq(Cells) /\ Len(b) = Len(a) + Len(<<h>>)
        /\ \A i \in 1 .. Len(a) : b[i] = a[i]
    <3>1. a \in Seq(Cells) /\ <<h>> \in Seq(Cells) /\ b = a \o <<h>>
      BY <1>5, <1>6, <1>8
    <3>2. QED
      BY <3>1, JoinFacts
  <2>2. QED
    BY <1>5, <1>6, <2>1
<1>10. Put([storage |-> b, pos |-> 3], t) = [storage |-> d, pos |-> 3 + Len(t)]
  BY <1>2, <1>9, PutAtEnd
<1>11. d = b \o t
  OBVIOUS
<1> HIDE DEF d
<1>12. /\ d \in Seq(Cells) /\ Len(d) = 3 + Len(t)
       /\ \A i \in 1 .. 3 : d[i] = b[i]
       /\ \A i \in 1 .. Len(t) : d[3 + i] = t[i]
  <2>1. /\ d \in Seq(Cells) /\ Len(d) = Len(b) + Len(t)
        /\ \A i \in 1 .. Len(b) : d[i] = b[i]
        /\ \A i \in 1 .. Len(t) : d[Len(b) + i] = t[i]
    <3>1. b \in Seq(Cells) /\ t \in Seq(Cells) /\ d = b \o t
      BY <1>2, <1>9, <1>11
    <3>2. QED
      BY <3>1, JoinFacts
  <2>2. QED
    BY <1>9, <2>1
<1>13. CacheTopRatings(stream, r) = [storage |-> d, pos |-> 3 + Len(t)]
  BY <1>4, <1>7, <1>10 DEF CacheTopRatings, h, t
<1>14. Base + 1 = 3 /\ 3 + Len(t) \in Nat
  BY <1>2 DEF Base
<1>15. QED
  BY <1>9, <1>12, <1>13, <1>14 DEF t, Streams

(* A buffer as createAdapted...Buffer makes it.                            *)
LEMMA AdaptedFacts ==
  ASSUME NEW code \in Words
  PROVE  /\ AdaptedBuffer(code) \in Streams /\ AdaptedBuffer(code).pos = 2
         /\ Len(AdaptedBuffer(code).storage) = 2 /\ AdaptedBuffer(code).storage[2] = code
<1> DEFINE s == <<0, code>>
<1>1. s \in Seq(Cells) /\ Len(s) = 2 /\ s[2] = code
  <2>1. 0 \in Cells /\ code \in Cells
    BY DEF Cells
  <2>2. QED
    BY <2>1, PairFacts
<1>2. << >> \in Seq(Cells) /\ 0 = Len(<< >>)
  BY EmptySeq
<1> HIDE DEF s
<1>3. Put([storage |-> << >>, pos |-> 0], s) = [storage |-> << >> \o s, pos |-> 0 + Len(s)]
  BY <1>1, <1>2, PutAtEnd
<1>4. << >> \o s = s
  BY <1>1, ConcatEmptySeq
<1>5. AdaptedBuffer(code) = [storage |-> s, pos |-> 2]
  BY <1>1, <1>3, <1>4 DEF AdaptedBuffer, s
<1>6. QED
  BY <1>1, <1>5 DEF Streams

(* A message with the top of r, the surroundings of pos and a header that  *)
(* says so.                                                                *)
IsPack(m, r, id, pos) ==
  LET t == Lesser(TopPositions, Len(r))
      k == Around(pos, Len(r))
  IN  /\ Len(m) = 3 + t + k
      /\ m[1] = Len(m) /\ m[2] = "USER_RATING" /\ m[3] = Header(id, Len(r), pos)
      /\ \A i \in 1 .. t : m[3 + i] = r[i]
      /\ \A i \in 1 .. k : m[3 + t + i] = r[RangeBegin(pos) + i]

(* What the client reads of it.                                            *)
LEMMA ReadFacts ==
  ASSUME NEW m \in Seq(Cells), NEW r \in Ratings, NEW id, NEW pos \in 0 .. Len(r),
         IsPack(m, r, id, pos)
  PROVE  /\ Receive(m).code = "USER_RATING" /\ Receive(m).header = Header(id, Len(r), pos)
         /\ Receive(m).left = 0
         /\ Len(Receive(m).entries) = EntryCount(Len(r), pos)
         /\ \A i \in 1 .. EntryCount(Len(r), pos) :
              Receive(m).entries[i] = r[ExpectedPlace(pos, i) + 1]
<1> DEFINE n == Len(m)
           t == Lesser(TopPositions, Len(r))
           k == Around(pos, Len(r))
           payload == SubSeq(m, 2, n)
           count == EntryCount(Len(r), pos)
           entries == SubSeq(payload, 3, n - 1)
<1>0. /\ n = 3 + t + k /\ m[1] = n /\ m[2] = "USER_RATING" /\ m[3] = Header(id, Len(r), pos)
      /\ \A i \in 1 .. t : m[3 + i] = r[i]
      /\ \A i \in 1 .. k : m[3 + t + i] = r[RangeBegin(pos) + i]
  BY DEF IsPack
<1>1. Len(r) \in Nat
  BY RatingFacts
<1>2. t \in Nat /\ k \in Nat /\ n = 3 + t + k /\ count = t + k
  <2>1. t \in Nat
    BY <1>1, DimensionsAssumption DEF Lesser
  <2>2. k \in Nat
    BY <1>1, RangeFacts
  <2>3. count = t + k
    BY <1>1, CountsAgree
  <2>4. n = 3 + t + k
    BY <1>0
  <2>5. QED
    BY <2>1, <2>2, <2>3, <2>4
<1>10. k > 0 => t = TopPositions
  BY <1>1, RangeFacts, DimensionsAssumption DEF Lesser
<1>11. \A i \in Nat : i <= t => i <= TopPositions
  BY <1>1, DimensionsAssumption DEF Lesser
<1> HIDE DEF t, k
<1>3. /\ payload \in Seq(Cells) /\ Len(payload) = n - 1
      /\ \A i \in 1 .. n - 1 : payload[i] = m[i + 1]
  <2> HIDE DEF n
  <2>0. n = Len(m)
    BY DEF n
  <2>1. 2 \in Nat \ {0} /\ n \in 0 .. Len(m) /\ 2 <= n + 1 /\ n - 2 + 1 = n - 1
        /\ \A i \in 1 .. n - 1 : 2 + i - 1 = i + 1
    BY <1>2, <2>0
  <2>2. payload \in Seq(Cells) /\ Len(payload) = n - 2 + 1
        /\ \A i \in 1 .. n - 2 + 1 : payload[i] = m[2 + i - 1]
    BY <2>1, PartFacts
  <2>3. QED
    BY <2>1, <2>2
<1> HIDE DEF payload, n, count
<1>4. /\ entries \in Seq(Cells) /\ Len(entries) = count
      /\ \A i \in 1 .. count : entries[i] = payload[i + 2]
  <2>1. 3 \in Nat \ {0} /\ n - 1 \in 0 .. Len(payload) /\ 3 <= n - 1 + 1 /\ n - 1 - 3 + 1 = count
        /\ \A i \in 1 .. count : 3 + i - 1 = i + 2
    BY <1>2, <1>3
  <2>2. entries \in Seq(Cells) /\ Len(entries) = n - 1 - 3 + 1
        /\ \A i \in 1 .. n - 1 - 3 + 1 : entries[i] = payload[3 + i - 1]
    BY <1>3, <2>1, PartFacts
  <2>3. QED
    BY <2>1, <2>2
<1> HIDE DEF entries
<1>5. payload[1] = "USER_RATING" /\ payload[2] = Header(id, Len(r), pos)
  <2>1. 1 \in 1 .. n - 1 /\ 2 \in 1 .. n - 1 /\ 1 + 1 = 2 /\ 2 + 1 = 3
    BY <1>2
  <2>2. payload[1] = m[1 + 1] /\ payload[2] = m[2 + 1]
    BY <1>3, <2>1
  <2>3. QED
    BY <1>0, <2>2
<1>6. Receive(m) = [code |-> payload[1], header |-> payload[2], entries |-> entries, left |-> 0]
  <2>1. EntryCount(payload[2].ratingLength, payload[2].ratingPos) = count
    BY <1>5 DEF Header, count
  <2>2. /\ 2 + count = n - 1 /\ Len(payload) = n - 1
        /\ Lesser(n - 1, n - 1) = n - 1 /\ n - 1 - (n - 1) = 0
    BY <1>2, <1>3 DEF Lesser
  <2>3. ReadRating(payload) =
          [code |-> payload[1], header |-> payload[2], entries |-> entries, left |-> 0]
    BY <2>1, <2>2 DEF ReadRating, entries
  <2>4. Receive(m) = ReadRating(payload)
    BY <1>0, <1>5 DEF Receive, payload
  <2>5. QED
    BY <2>3, <2>4
<1>7. ASSUME NEW i \in 1 .. count PROVE entries[i] = r[ExpectedPlace(pos, i) + 1]
  <2>1. entries[i] = m[i + 3]
    <3>1. i + 2 \in 1 .. n - 1 /\ i + 2 + 1 = i + 3
      BY <1>2
    <3>2. payload[i + 2] = m[i + 2 + 1]
      BY <1>3, <3>1
    <3>3. QED
      BY <1>4, <3>1, <3>2
  <2>2. CASE i <= t
    <3>1. i \in 1 .. t /\ 3 + i = i + 3
      BY <1>2, <2>2
    <3>2. ExpectedPlace(pos, i) + 1 = i
      BY <1>2, <1>11, <2>2, <3>1, DimensionsAssumption DEF ExpectedPlace
    <3>3. m[3 + i] = r[i]
      BY <1>0, <3>1
    <3>4. QED
      BY <2>1, <3>1, <3>2, <3>3
  <2>3. CASE ~ (i <= t)
    <3>1. i - t \in 1 .. k /\ 3 + t + (i - t) = i + 3
      BY <1>2, <2>3
    <3>2. t = TopPositions
      BY <1>2, <1>10, <3>1
    <3>3. ExpectedPlace(pos, i) + 1 = RangeBegin(pos) + (i - t)
      <4>1. ExpectedPlace(pos, i) = RangeBegin(pos) + (i - TopPositions - 1)
        BY <2>3, <3>2 DEF ExpectedPlace, RangeBegin
      <4>2. RangeBegin(pos) \in Nat
        BY <1>1, RangeFacts
      <4>3. QED
        BY <1>2, <3>1, <3>2, <4>1, <4>2
    <3>4. m[3 + t + (i - t)] = r[RangeBegin(pos) + (i - t)]
      BY <1>0, <3>1
    <3>5. QED
      BY <2>1, <3>1, <3>3, <3>4
  <2>4. QED
    BY <2>2, <2>3
<1>8. QED
  BY <1>4, <1>5, <1>6, <1>7 DEF count

(* rewind cuts the storage off.                                            *)
LEMMA RewindFacts ==
  ASSUME NEW m \in Seq(Cells), NEW q, NEW p \in 0 .. Len(m)
  PROVE  LET w == Rewind([storage |-> m, pos |-> q], p)
         IN  /\ w \in Streams /\ w.pos = p /\ Len(w.storage) = p
             /\ \A i \in 1 .. p : w.storage[i] = m[i]
<1> DEFINE x == SubSeq(m, 1, p)
<1>1. Len(m) \in Nat /\ p \in Nat /\ p <= Len(m)
  BY LenProperties
<1>2. 1 \in Nat \ {0} /\ 1 <= p + 1 /\ p - 1 + 1 = p /\ \A i \in 1 .. p : 1 + i - 1 = i
  BY <1>1
<1>3. x \in Seq(Cells) /\ Len(x) = p - 1 + 1 /\ \A i \in 1 .. p - 1 + 1 : x[i] = m[1 + i - 1]
  BY <1>2, PartFacts
<1>4. Rewind([storage |-> m, pos |-> q], p) = [storage |-> x, pos |-> p]
  BY <1>1 DEF Rewind
<1> HIDE DEF x
<1>5. QED
  BY <1>1, <1>2, <1>3, <1>4 DEF Streams

(* writeMessage replaces the first cell by the size.                       *)
LEMMA SizeFacts ==
  ASSUME NEW a \in Seq(Cells), 0 < Len(a), NEW q
  PROVE  \E m \in Seq(Cells) :
           /\ WriteMessage([storage |-> a, pos |-> q]) = [storage |-> m, pos |-> 1]
           /\ Len(m) = Len(a) /\ m[1] = Len(a)
           /\ \A i \in 2 .. Len(a) : m[i] = a[i]
<1> DEFINE n == Len(a)
           m == [a EXCEPT ![1] = n]
<1>1. n \in Nat /\ n \in Cells /\ 0 < n
  BY LenProperties DEF Cells
<1>2. SetPos([storage |-> a, pos |-> q], 0) = [storage |-> a, pos |-> 0]
  BY <1>1 DEF SetPos
<1>3. Put([storage |-> a, pos |-> 0], <<n>>) = [storage |-> [a EXCEPT ![0 + 1] = n], pos |-> 0 + 1]
  <2>1. 0 \in Nat /\ 0 < Len(a) /\ n \in Cells
    BY <1>1
  <2> HIDE DEF n
  <2>2. QED
    BY <2>1, PutInside
<1>4. m \in Seq(Cells) /\ Len(m) = Len(a)
      /\ \A i \in 1 .. Len(a) : m[i] = IF i = 1 THEN n ELSE a[i]
  <2>1. 1 \in 1 .. Len(a) /\ n \in Cells
    BY <1>1
  <2> HIDE DEF n
  <2>2. QED
    BY <2>1, ExceptSeq
<1>5. WriteMessage([storage |-> a, pos |-> q]) = [storage |-> m, pos |-> 1]
  BY <1>2, <1>3 DEF WriteMessage
<1>6. m[1] = Len(a) /\ \A i \in 2 .. Len(a) : m[i] = a[i]
  <2> HIDE DEF m
  <2>1. QED
    BY <1>1, <1>4
<1> HIDE DEF m
<1>7. QED
  BY <1>4, <1>5, <1>6

-----------------------------------------------------------------------------
(* The steps.                                                              *)
LEMMA InitMessagesInv == ASSUME Init PROVE MessagesInv
<1>1. rating \in Ratings
  BY DEF Init
<1>2. /\ AdaptedBuffer("USER_RATING") \in Streams
      /\ Len(AdaptedBuffer("USER_RATING").storage) = 2
      /\ AdaptedBuffer("USER_RATING").storage[2] = "USER_RATING"
  <2>1. "USER_RATING" \in Words
    BY DEF Words
  <2>2. QED
    BY <2>1, AdaptedFacts
<1>3. /\ errorBuffer \in Streams /\ errorBuffer.pos = Base /\ Len(errorBuffer.storage) = Base
      /\ errorBuffer.storage[2] = "PROTOCOL_ERROR"
  <2>1. "PROTOCOL_ERROR" \in Words
    BY DEF Words
  <2>2. /\ AdaptedBuffer("PROTOCOL_ERROR") \in Streams
        /\ AdaptedBuffer("PROTOCOL_ERROR").pos = 2
        /\ Len(AdaptedBuffer("PROTOCOL_ERROR").storage) = 2
        /\ AdaptedBuffer("PROTOCOL_ERROR").storage[2] = "PROTOCOL_ERROR"
    BY <2>1, AdaptedFacts
  <2>3. errorBuffer = AdaptedBuffer("PROTOCOL_ERROR") /\ Base = 2
    BY DEF Init, Base
  <2>4. QED
    BY <2>2, <2>3
<1>4. ratingBuffer = CacheTopRatings(AdaptedBuffer("USER_RATING"), rating)
  BY DEF Init
<1>5. /\ ratingBuffer \in Streams /\ ratingBuffer.pos = Base + 1 + Len(TopRatings(rating))
      /\ Len(ratingBuffer.storage) = Base + 1 + Len(TopRatings(rating))
      /\ ratingBuffer.storage[2] = "USER_RATING"
      /\ \A i \in 1 .. Len(TopRatings(rating)) :
           ratingBuffer.storage[Base + 1 + i] = TopRatings(rating)[i]
  <2>1. 2 >= 2
    OBVIOUS
  <2>2. QED
    BY <1>1, <1>2, <1>4, <2>1, CacheFacts
<1>6. CacheKept
  BY <1>1, <1>3, <1>5 DEF CacheKept, Init
<1>7. PackIsRead /\ PlacesAgree
  BY DEF Init, PackIsRead, PlacesAgree
<1>8. QED
  BY <1>3, <1>5, <1>6, <1>7 DEF MessagesInv

LEMMA WakeUpKeepsInv ==
  ASSUME MessagesInv, NEW r \in Ratings, WakeUp(r)
  PROVE  MessagesInv'
<1>1. /\ rating' = r /\ ratingBuffer' = CacheTopRatings(ratingBuffer, r)
      /\ topRatingsEnd' = ratingBuffer'.pos
      /\ errorBuffer' = errorBuffer /\ request' = request /\ received' = received
  BY DEF WakeUp
<1>2. /\ ratingBuffer \in Streams /\ errorBuffer \in Streams
      /\ CacheKept /\ PackIsRead /\ PlacesAgree
  BY DEF MessagesInv
<1>3. Len(ratingBuffer.storage) >= 2 /\ ratingBuffer.storage[2] = "USER_RATING"
  <2>1. rating \in Ratings /\ Len(ratingBuffer.storage) = 2 + 1 + Len(TopRatings(rating))
    BY <1>2 DEF CacheKept, Base
  <2>2. Len(TopRatings(rating)) \in Nat
    BY <2>1, RatingFacts, TopFacts, LenProperties
  <2>3. QED
    BY <1>2, <2>1, <2>2 DEF CacheKept
<1>4. /\ ratingBuffer' \in Streams /\ ratingBuffer'.pos = Base + 1 + Len(TopRatings(r))
      /\ Len(ratingBuffer'.storage) = Base + 1 + Len(TopRatings(r))
      /\ ratingBuffer'.storage[2] = "USER_RATING"
      /\ \A i \in 1 .. Len(TopRatings(r)) :
           ratingBuffer'.storage[Base + 1 + i] = TopRatings(r)[i]
  BY <1>1, <1>2, <1>3, CacheFacts
<1>5. CacheKept'
  BY <1>1, <1>2, <1>4 DEF CacheKept
<1>6. PackIsRead' /\ PlacesAgree'
  BY <1>1, <1>2 DEF PackIsRead, PlacesAgree
<1>7. QED
  BY <1>1, <1>2, <1>4, <1>5, <1>6 DEF MessagesInv

LEMMA ProcessRatingKeepsInv ==
  ASSUME MessagesInv, NEW id \in Ids, NEW pos \in 0 .. Len(rating), ProcessRating(id, pos)
  PROVE  MessagesInv'
<1> DEFINE s == ratingBuffer.storage
           t == Len(TopRatings(rating))
           around == Surroundings(rating, pos)
           header == Header(id, Len(rating), pos)
           message == WriteMessage(StoreRating(ratingBuffer, rating, id, pos))
<1>1. /\ ratingBuffer \in Streams /\ errorBuffer \in Streams
      /\ CacheKept
  BY DEF MessagesInv
<1>2. /\ ratingBuffer' = Rewind(message, topRatingsEnd)
      /\ received' = Receive(message.storage)
      /\ request' = [code |-> "USER_RATING", rating |-> rating, id |-> id, pos |-> pos]
      /\ rating' = rating /\ topRatingsEnd' = topRatingsEnd /\ errorBuffer' = errorBuffer
  BY DEF ProcessRating, SendRating
<1>3. rating \in Ratings /\ rating \in Seq(Cells) /\ Len(rating) \in Nat
  BY <1>1, RatingFacts DEF CacheKept
<1>4. /\ s \in Seq(Cells) /\ topRatingsEnd = 3 + t /\ Len(s) = 3 + t
      /\ ratingBuffer = [storage |-> s, pos |-> Len(s)]
      /\ s[2] = "USER_RATING" /\ \A i \in 1 .. t : s[3 + i] = TopRatings(rating)[i]
  <2>1. Base + 1 = 3
    BY DEF Base
  <2>2. QED
    BY <1>1, <2>1 DEF CacheKept, Streams
<1>5. /\ t \in Nat /\ t = Lesser(TopPositions, Len(rating))
      /\ \A i \in 1 .. t : TopRatings(rating)[i] = rating[i]
  BY <1>3, TopFacts, LenProperties
<1>6. /\ around \in Seq(Cells) /\ Len(around) = Around(pos, Len(rating))
      /\ \A i \in 1 .. Around(pos, Len(rating)) : around[i] = rating[RangeBegin(pos) + i]
  BY <1>3, SurroundingsFacts
<1>7. Around(pos, Len(rating)) \in Nat
  BY <1>3, RangeFacts
<1>8. header \in Cells /\ Nat \subseteq Cells
  BY <1>3 DEF Header, Headers, Cells
<1>9. message = Packed(s, around, header)
  BY <1>4 DEF StoreRating, Packed
<1> HIDE DEF s, t, around, header, message
<1>10. Len(s) >= 3
  BY <1>4, <1>5
<1>11. PICK m \in Seq(Cells) :
         /\ message = [storage |-> m, pos |-> 1]
         /\ Len(m) = Len(s) + Len(around)
         /\ m[1] = Len(m) /\ m[2] = s[2] /\ m[3] = header
         /\ \A i \in 4 .. Len(s) : m[i] = s[i]
         /\ \A i \in 1 .. Len(around) : m[Len(s) + i] = around[i]
  <2>1. \E m \in Seq(Cells) :
          /\ Packed(s, around, header) = [storage |-> m, pos |-> 1]
          /\ Len(m) = Len(s) + Len(around)
          /\ m[1] = Len(m) /\ m[2] = s[2] /\ m[3] = header
          /\ \A i \in 4 .. Len(s) : m[i] = s[i]
          /\ \A i \in 1 .. Len(around) : m[Len(s) + i] = around[i]
    <3>1. s \in Seq(Cells) /\ Len(s) >= 3 /\ around \in Seq(Cells)
          /\ header \in Cells
      BY <1>4, <1>6, <1>8, <1>10
    <3>2. QED
      BY <3>1, MessageFacts
  <2>2. QED
    BY <1>9, <2>1
<1>12. \A i \in 1 .. t : m[3 + i] = s[3 + i]
  <2>1. ASSUME NEW i \in 1 .. t PROVE 3 + i \in 4 .. Len(s)
    BY <1>4, <1>5
  <2>2. QED
    BY <1>11, <2>1
<1>13. IsPack(m, rating, id, pos)
  <2>1. Len(m) = 3 + t + Around(pos, Len(rating)) /\ m[1] = Len(m) /\ m[2] = "USER_RATING"
    BY <1>4, <1>6, <1>11
  <2>2. \A i \in 1 .. t : m[3 + i] = rating[i]
    BY <1>4, <1>5, <1>12
  <2>3. \A i \in 1 .. Around(pos, Len(rating)) : m[3 + t + i] = rating[RangeBegin(pos) + i]
    BY <1>4, <1>6, <1>11
  <2>4. QED
    BY <1>5, <1>11, <2>1, <2>2, <2>3 DEF IsPack, header
<1>14. 3 + t \in 0 .. Len(m)
  BY <1>4, <1>5, <1>6, <1>7, <1>11
<1>15. /\ ratingBuffer' \in Streams /\ ratingBuffer'.pos = 3 + t
       /\ Len(ratingBuffer'.storage) = 3 + t
       /\ \A i \in 1 .. 3 + t : ratingBuffer'.storage[i] = m[i]
  BY <1>2, <1>4, <1>11, <1>14, RewindFacts
<1>16. CacheKept'
  <2>1. ratingBuffer'.storage[2] = "USER_RATING"
    <3>1. 2 \in 1 .. 3 + t
      BY <1>5
    <3>2. QED
      BY <1>4, <1>11, <1>15, <3>1
  <2>2. ASSUME NEW i \in 1 .. t PROVE ratingBuffer'.storage[3 + i] = TopRatings(rating)[i]
    <3>1. 3 + i \in 1 .. 3 + t
      BY <1>5
    <3>2. ratingBuffer'.storage[3 + i] = m[3 + i]
      BY <1>15, <3>1
    <3>3. QED
      BY <1>4, <1>12, <3>2
  <2>3. Base + 1 = 3
    BY DEF Base
  <2>4. QED
    BY <1>1, <1>2, <1>4, <1>15, <2>1, <2>2, <2>3 DEF CacheKept, t
<1>17. received' = Receive(m)
  BY <1>2, <1>11
<1>18. /\ Receive(m).code = "USER_RATING" /\ Receive(m).header = Header(id, Len(rating), pos)
       /\ Receive(m).left = 0
       /\ Len(Receive(m).entries) = EntryCount(Len(rating), pos)
       /\ \A i \in 1 .. EntryCount(Len(rating), pos) :
            Receive(m).entries[i] = rating[ExpectedPlace(pos, i) + 1]
  BY <1>3, <1>11, <1>13, ReadFacts
<1>19. PackIsRead'
  BY <1>2, <1>17, <1>18 DEF PackIsRead
<1>20. PlacesAgree'
  <2>1. {ExpectedPlace(pos, i) : i \in 1 .. EntryCount(Len(rating), pos)}
          = {p \in 0 .. Len(rating) - 1 :
               \/ p < TopPositions
               \/ p \in pos - CompetitionDistance .. pos + CompetitionDistance}
    BY <1>3, PlacesCover
  <2>2. QED
    BY <1>2, <1>17, <1>18, <2>1 DEF PlacesAgree
<1>21. QED
  BY <1>1, <1>2, <1>15, <1>16, <1>19, <1>20 DEF MessagesInv

LEMMA ProcessErrorKeepsInv ==
  ASSUME MessagesInv, NEW error \in Words, NEW id \in Ids, ProcessError(error, id)
  PROVE  MessagesInv'
<1> DEFINE s == errorBuffer.storage
           body == <<error, id>>
           a == s \o body
           message == WriteMessage(Put(errorBuffer, body))
<1>1. /\ ratingBuffer \in Streams /\ errorBuffer \in Streams
      /\ CacheKept
  BY DEF MessagesInv
<1>2. /\ errorBuffer' = Rewind(message, 2) /\ received' = Receive(message.storage)
      /\ request' = [code |-> "PROTOCOL_ERROR", error |-> error, id |-> id]
      /\ rating' = rating /\ ratingBuffer' = ratingBuffer /\ topRatingsEnd' = topRatingsEnd
  BY DEF ProcessError, Base
<1>3. /\ s \in Seq(Cells) /\ Len(s) = 2 /\ s[2] = "PROTOCOL_ERROR"
      /\ errorBuffer = [storage |-> s, pos |-> 2]
  BY <1>1 DEF CacheKept, Streams, Base
<1>4. /\ body \in Seq(Cells) /\ Len(body) = 2 /\ body[1] = error /\ body[2] = id
  <2>1. error \in Cells /\ id \in Cells
    BY DEF Cells
  <2>2. QED
    BY <2>1, PairFacts
<1> HIDE DEF s, body
<1>5. Put([storage |-> s, pos |-> 2], body) = [storage |-> a, pos |-> 4]
  <2>1. Put([storage |-> s, pos |-> Len(s)], body) = [storage |-> a, pos |-> Len(s) + Len(body)]
    BY <1>3, <1>4, PutAtEnd
  <2>2. QED
    BY <1>3, <1>4, <2>1
<1>6. a = s \o body
  OBVIOUS
<1> HIDE DEF a
<1>7. a \in Seq(Cells) /\ Len(a) = 4 /\ a[2] = s[2] /\ a[3] = error /\ a[4] = id
  <2>1. /\ a \in Seq(Cells) /\ Len(a) = Len(s) + Len(body)
        /\ \A i \in 1 .. Len(s) : a[i] = s[i]
        /\ \A i \in 1 .. Len(body) : a[Len(s) + i] = body[i]
    <3>1. s \in Seq(Cells) /\ body \in Seq(Cells) /\ a = s \o body
      BY <1>3, <1>4, <1>6
    <3>2. QED
      BY <3>1, JoinFacts
  <2>2. a[2] = s[2] /\ a[2 + 1] = body[1] /\ a[2 + 2] = body[2]
    BY <1>3, <1>4, <2>1
  <2>3. QED
    BY <1>3, <1>4, <2>1, <2>2
<1>8. message = WriteMessage([storage |-> a, pos |-> 4])
  <2>1. Put(errorBuffer, body) = [storage |-> a, pos |-> 4]
    BY <1>3, <1>5
  <2>2. QED
    BY <2>1
<1> HIDE DEF message
<1>9. PICK m \in Seq(Cells) :
        /\ WriteMessage([storage |-> a, pos |-> 4]) = [storage |-> m, pos |-> 1]
        /\ Len(m) = Len(a) /\ m[1] = Len(a)
        /\ \A i \in 2 .. Len(a) : m[i] = a[i]
  <2>1. a \in Seq(Cells) /\ 0 < Len(a)
    BY <1>7
  <2>2. QED
    BY <2>1, SizeFacts
<1>10. message = [storage |-> m, pos |-> 1]
  BY <1>8, <1>9
<1>11. /\ Len(m) = 4 /\ m[1] = 4
       /\ m[2] = "PROTOCOL_ERROR" /\ m[3] = error /\ m[4] = id
  <2>1. 2 \in 2 .. Len(a) /\ 3 \in 2 .. Len(a) /\ 4 \in 2 .. Len(a)
    BY <1>7
  <2>2. m[2] = a[2] /\ m[3] = a[3] /\ m[4] = a[4]
    BY <1>9, <2>1
  <2>3. QED
    BY <1>3, <1>7, <1>9, <2>2
<1>12. /\ errorBuffer' \in Streams /\ errorBuffer'.pos = 2 /\ Len(errorBuffer'.storage) = 2
       /\ errorBuffer'.storage[2] = "PROTOCOL_ERROR"
  <2>1. 2 \in 0 .. Len(m)
    BY <1>11
  <2>2. /\ errorBuffer' \in Streams /\ errorBuffer'.pos = 2 /\ Len(errorBuffer'.storage) = 2
        /\ \A i \in 1 .. 2 : errorBuffer'.storage[i] = m[i]
    <3>1. errorBuffer' = Rewind([storage |-> m, pos |-> 1], 2)
      BY <1>2, <1>10
    <3> DEFINE p == 2
    <3>2. p \in 0 .. Len(m) /\ errorBuffer' = Rewind([storage |-> m, pos |-> 1], p)
      BY <2>1, <3>1
    <3> HIDE DEF p
    <3>3. /\ errorBuffer' \in Streams /\ errorBuffer'.pos = p /\ Len(errorBuffer'.storage) = p
          /\ \A i \in 1 .. p : errorBuffer'.storage[i] = m[i]
      BY <3>2, RewindFacts
    <3>4. QED
      BY <3>3 DEF p
  <2>3. QED
    BY <1>11, <2>2
<1>13. CacheKept'
  BY <1>1, <1>2, <1>12 DEF CacheKept, Base
<1> DEFINE payload == SubSeq(m, 2, 4)
<1>14. payload[1] = m[2] /\ payload[2] = m[3] /\ payload[3] = m[4]
  <2>1. 2 \in Nat \ {0} /\ 4 \in 0 .. Len(m) /\ 2 <= 4 + 1 /\ 4 - 2 + 1 = 3
    BY <1>11
  <2>2. \A i \in 1 .. 4 - 2 + 1 : payload[i] = m[2 + i - 1]
    BY <2>1, PartFacts
  <2>3. QED
    BY <2>1, <2>2
<1> HIDE DEF payload
<1>15. received' = [code |-> "PROTOCOL_ERROR", error |-> error, id |-> id]
  BY <1>2, <1>10, <1>11, <1>14 DEF Receive, ReadError, payload
<1>16. PackIsRead' /\ PlacesAgree'
  BY <1>2, <1>15 DEF PackIsRead, PlacesAgree
<1>17. QED
  BY <1>1, <1>2, <1>12, <1>13, <1>16 DEF MessagesInv

-----------------------------------------------------------------------------
(* All of it together.                                                     *)
THEOREM MessagesInvHolds == Spec => []MessagesInv
<1>1. Init => MessagesInv
  BY InitMessagesInv
<1>2. MessagesInv /\ [Next]_vars => MessagesInv'
  <2> SUFFICES ASSUME MessagesInv, [Next]_vars PROVE MessagesInv'
    OBVIOUS
  <2>1. CASE \E r \in Ratings : WakeUp(r)
    BY <2>1, WakeUpKeepsInv
  <2>2. CASE \E id \in Ids, pos \in 0 .. Len(rating) : ProcessRating(id, pos)
    BY <2>2, ProcessRatingKeepsInv
  <2>3. CASE \E error \in {"USER_UNRECOGNIZED", "MULTIPLE_REGISTRATION"}, id \in Ids :
               ProcessError(error, id)
    <3>1. {"USER_UNRECOGNIZED", "MULTIPLE_REGISTRATION"} \subseteq Words
      BY DEF Words
    <3>2. QED
      BY <2>3, <3>1, ProcessErrorKeepsInv
  <2>4. CASE UNCHANGED vars
    BY <2>4 DEF vars, MessagesInv, CacheKept, PackIsRead, PlacesAgree
  <2>5. QED
    BY <2>1, <2>2, <2>3, <2>4 DEF Next
<1>3. QED
  BY <1>1, <1>2, PTL DEF Spec

(* A worker's buffer is back in the state "top ratings only" whenever it   *)
(* begins a message.                                                       *)
THEOREM CacheIsKept == Spec => []CacheKept
  BY MessagesInvHolds, PTL DEF MessagesInv

(* The client reads every message to its end and not beyond.               *)
THEOREM PacksAreRead == Spec => []PackIsRead
  BY MessagesInvHolds, PTL DEF MessagesInv

(* The client gets the top and the neighbours, each at its place.          *)
THEOREM PlacesDoAgree == Spec => []PlacesAgree
  BY MessagesInvHolds, PTL DEF MessagesInv
=============================================================================
