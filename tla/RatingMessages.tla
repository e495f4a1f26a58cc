---------------------------- MODULE RatingMessages ----------------------------
(***************************************************************************)
(* A worker's message buffers and the client that reads what is sent from  *)
(* them. The top of the rating is the same for everybody: a worker stores  *)
(* it once a minute and appends, for each user, the part of the rating     *)
(* around that user. How many entries a message has is not sent: service   *)
(* and client compute it apart from each other.                            *)
(*                                                                         *)
(* A buffer is a sequence of cells: a message size, a code, the three      *)
(* numbers of a rating header, an entry of the rating. What is overwritten *)
(* is always replaced by a cell of the same kind.                          *)
(***************************************************************************)
EXTENDS Integers, Sequences

CONSTANTS
  TopPositions, CompetitionDistance,  \* RatingDimensions
  Entries,    \* what is sent of one user: id, winnings and name
  Ratings,    \* the ratings a recalculation may leave
  Ids,        \* users
  InvalidId   \* what the header has before it has an id

ASSUME DimensionsAssumption ==
  /\ TopPositions \in Nat /\ CompetitionDistance \in Nat
  /\ TopPositions <= CompetitionDistance + 1

ASSUME RatingsAssumption == Ratings \subseteq Seq(Entries)

VARIABLES
  rating,         \* CoreRatingData's rating
  ratingBuffer,   \* RatingBufferData's buffer
  topRatingsEnd,  \* and where its cached part ends
  errorBuffer,    \* the buffer for errors
  request,        \* history: what the last message was to say
  received        \* the last message as the client has read it

vars == <<rating, ratingBuffer, topRatingsEnd, errorBuffer, request, received>>

-----------------------------------------------------------------------------
(* BinaryOStream.                                                          *)
Lesser(m, n)  == IF m <= n THEN m ELSE n
Greater(m, n) == IF m >= n THEN m ELSE n

SetPos(stream, pos) ==
  IF pos > Len(stream.storage) THEN stream ELSE [stream EXCEPT !.pos = pos]

Rewind(stream, pos) ==
  IF pos > Len(stream.storage) THEN stream
  ELSE [storage |-> SubSeq(stream.storage, 1, pos), pos |-> pos]

(* operator<<: overwrites what is there, and extends the storage.          *)
Put(stream, cells) ==
  [storage |-> SubSeq(stream.storage, 1, stream.pos) \o cells
               \o SubSeq(stream.storage, stream.pos + Len(cells) + 1, Len(stream.storage)),
   pos     |-> stream.pos + Len(cells)]

(* Room for the size, then the code; bodies begin after these two cells.   *)
AdaptedBuffer(code) == Put([storage |-> << >>, pos |-> 0], <<0, code>>)
Base == 2

(* writeMessage: the size goes in front; what is sent is all of storage.   *)
WriteMessage(stream) == Put(SetPos(stream, 0), <<Len(stream.storage)>>)

-----------------------------------------------------------------------------
(* The service's side.                                                     *)
Header(id, length, pos) == [id |-> id, ratingLength |-> length, ratingPos |-> pos]

(* cacheTopRatings                                                         *)
TopRatings(r) == SubSeq(r, 1, Lesser(TopPositions, Len(r)))

CacheTopRatings(stream, r) ==
  Put(Put(Rewind(stream, Base), <<Header(InvalidId, 0, 0)>>), TopRatings(r))

(* processRatingImpl: the entries around the user that are not in the top. *)
RangeBegin(pos)     == Greater(TopPositions, pos - CompetitionDistance)
RangeEnd(pos, size) == Lesser(size, pos + CompetitionDistance + 1)

Surroundings(r, pos) == SubSeq(r, RangeBegin(pos) + 1, RangeEnd(pos, Len(r)))

StoreRating(stream, r, id, pos) ==
  Put(SetPos(Put(stream, Surroundings(r, pos)), Base), <<Header(id, Len(r), pos)>>)

-----------------------------------------------------------------------------
(* The client's side.                                                      *)

(* Mutant of EntryCount: without the user itself.                          *)
EntryCountOthers(length, pos) ==
  Lesser(TopPositions, pos)
  + (IF pos > TopPositions THEN Lesser(pos - TopPositions, CompetitionDistance) ELSE 0)
  + Lesser(length - pos, CompetitionDistance)

(* RatingPackMessage::init: top, competition above, competition below and  *)
(* the user itself.                                                        *)
EntryCount(length, pos) ==
  Lesser(TopPositions, pos)
  + (IF pos > TopPositions THEN Lesser(pos - TopPositions, CompetitionDistance) ELSE 0)
  + Lesser(length - pos, CompetitionDistance + 1)

(* What is read from a payload; "left" is what is left of it, negative if  *)
(* it has been too short.                                                  *)
ReadRating(payload) ==
  LET end == 2 + EntryCount(payload[2].ratingLength, payload[2].ratingPos)
  IN  [code |-> payload[1], header |-> payload[2],
       entries |-> SubSeq(payload, 3, Lesser(end, Len(payload))),
       left |-> Len(payload) - end]

ReadError(payload) == [code |-> payload[1], error |-> payload[2], id |-> payload[3]]

(* receive takes as much as the size says.                                 *)
Receive(message) ==
  LET payload == SubSeq(message, 2, message[1])
  IN  IF payload[1] = "USER_RATING" THEN ReadRating(payload) ELSE ReadError(payload)

(* validateRating: the place in the rating of the i-th entry.              *)
ExpectedPlace(pos, i) ==
  IF i <= TopPositions THEN i - 1
  ELSE Greater(TopPositions, pos - CompetitionDistance) + (i - TopPositions - 1)

-----------------------------------------------------------------------------
Init ==
  /\ rating \in Ratings
  /\ ratingBuffer = CacheTopRatings(AdaptedBuffer("USER_RATING"), rating)
  /\ topRatingsEnd = ratingBuffer.pos
  /\ errorBuffer = AdaptedBuffer("PROTOCOL_ERROR")
  /\ request = [code |-> "NOTHING"] /\ received = [code |-> "NOTHING"]

(* Mutant of WakeUp: the old top stays cached.                             *)
WakeUpUncached(r) ==
  /\ rating' = r
  /\ UNCHANGED <<ratingBuffer, topRatingsEnd, errorBuffer, request, received>>

(* The worker has slept through a recalculation.                           *)
WakeUp(r) ==
  /\ rating' = r
  /\ ratingBuffer' = CacheTopRatings(ratingBuffer, r)
  /\ topRatingsEnd' = ratingBuffer'.pos
  /\ UNCHANGED <<errorBuffer, request, received>>

(* A rating is sent; what is in the buffer then is returned to "after".    *)
SendRating(id, pos, after) ==
  LET message == WriteMessage(StoreRating(ratingBuffer, rating, id, pos))
  IN  /\ ratingBuffer' = Rewind(message, after)
      /\ received' = Receive(message.storage)
      /\ request' = [code |-> "USER_RATING", rating |-> rating, id |-> id, pos |-> pos]
      /\ UNCHANGED <<rating, topRatingsEnd, errorBuffer>>

(* Mutant of ProcessRating: the surroundings stay in the buffer.           *)
ProcessRatingUnrestored(id, pos) ==
  SendRating(id, pos, Len(ratingBuffer.storage) + Len(Surroundings(rating, pos)))

(* processRatingImpl, for a user with a place or one past the last one.    *)
ProcessRating(id, pos) == SendRating(id, pos, topRatingsEnd)

ProcessError(error, id) ==
  LET message == WriteMessage(Put(errorBuffer, <<error, id>>))
  IN  /\ errorBuffer' = Rewind(message, Base)
      /\ received' = Receive(message.storage)
      /\ request' = [code |-> "PROTOCOL_ERROR", error |-> error, id |-> id]
      /\ UNCHANGED <<rating, ratingBuffer, topRatingsEnd>>

Next ==
  \/ \E r \in Ratings : WakeUp(r)
  \/ \E id \in Ids, pos \in 0 .. Len(rating) : ProcessRating(id, pos)
  \/ \E error \in {"USER_UNRECOGNIZED", "MULTIPLE_REGISTRATION"}, id \in Ids :
       ProcessError(error, id)

Spec == Init /\ [][Next]_vars

-----------------------------------------------------------------------------
(* Between messages the buffer ends with the top of the current rating     *)
(* (the assertion in processRatingImpl, "otherwise cache will be broken"), *)
(* and the errors' buffer with its code.                                   *)
CacheKept ==
  /\ rating \in Ratings
  /\ topRatingsEnd = Base + 1 + Len(TopRatings(rating))
  /\ ratingBuffer.pos = topRatingsEnd
  /\ Len(ratingBuffer.storage) = topRatingsEnd
  /\ ratingBuffer.storage[2] = "USER_RATING"
  /\ \A i \in 1 .. Len(TopRatings(rating)) :
       ratingBuffer.storage[Base + 1 + i] = TopRatings(rating)[i]
  /\ errorBuffer.pos = Base /\ Len(errorBuffer.storage) = Base
  /\ errorBuffer.storage[2] = "PROTOCOL_ERROR"

(* The client reads what it has been sent: all entries, and no more.       *)
PackIsRead ==
  /\ received.code = request.code
  /\ request.code = "USER_RATING" =>
       /\ received.header = Header(request.id, Len(request.rating), request.pos)
       /\ received.left = 0
  /\ request.code = "PROTOCOL_ERROR" =>
       received.error = request.error /\ received.id = request.id

(* The client takes each entry for the one at its place in the rating, and *)
(* gets the top and everybody within CompetitionDistance of the user.      *)
PlacesAgree ==
  request.code = "USER_RATING" =>
    LET places == {ExpectedPlace(request.pos, i) : i \in 1 .. Len(received.entries)}
    IN  /\ places = {p \in 0 .. Len(request.rating) - 1 :
                       \/ p < TopPositions
                       \/ p \in request.pos - CompetitionDistance .. request.pos + CompetitionDistance}
        /\ \A i \in 1 .. Len(received.entries) :
             received.entries[i] = request.rating[ExpectedPlace(request.pos, i) + 1]
=============================================================================
