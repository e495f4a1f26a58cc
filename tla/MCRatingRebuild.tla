--------------------------- MODULE MCRatingRebuild ---------------------------
(* RatingRebuild on every rating of at most four users.                    *)
EXTENDS RatingRebuild

FourUsers == 1 .. 4
=============================================================================
