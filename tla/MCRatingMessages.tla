-------------------------- MODULE MCRatingMessages --------------------------
(* RatingMessages with the dimensions of the protocol and ratings of       *)
(* lengths around their sums.                                              *)
EXTENDS RatingMessages

NoId == -1

Lengths == {0, 1, 9, 10, 11, 12, 20, 21, 22, 31, 32, 33}

(* The i-th entry of a rating of length n, in no other rating.             *)
EntryOf(n, i) == 100 * n + i

LengthenedRatings == {[i \in 1 .. n |-> EntryOf(n, i)] : n \in Lengths}
AllEntries        == {EntryOf(n, i) : n \in Lengths, i \in 1 .. 33}

ASSUME RatingsAreSequences == \A r \in LengthenedRatings : \A i \in DOMAIN r : r[i] \in AllEntries
=============================================================================
