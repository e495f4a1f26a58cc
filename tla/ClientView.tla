----------------------------- MODULE ClientView -----------------------------
(***************************************************************************)
(* The service as the test application sees it: Strategy sends messages    *)
(* and keeps a UserDataStorage beside them, against which it judges what   *)
(* the service reports. It registers a user once, connects only users that *)
(* are not connected, gives deals only to users that are, and uses fake    *)
(* ids that it never registers. Names are left out of its storage. When    *)
(* the session is lost the next client may be any other, whose messages    *)
(* follow no such rules, and the service does not tell the difference.     *)
(***************************************************************************)
EXTENDS RatingService

CONSTANTS
  FakeIds,     \* ids below zero in the code: nobody registers them
  OtherEntries \* bound: entries in both buffers while the client is not the
               \* test application; MaxEntries while it is

ASSUME ClientViewAssumption == FakeIds \subseteq UserIds

VARIABLES
  testing,    \* the client is the test application
  users,      \* the users its storage has
  online      \* those in the storage's groups of connected users

clientVars == <<testing, users, online>>

ClientInit == Init /\ testing = TRUE /\ users = {} /\ online = {}

RegisterUser(u, name) ==
  /\ u \notin users \cup FakeIds
  /\ users' = users \cup {u} /\ UNCHANGED <<testing, online>>
  /\ Registered(u, name)

RenameUser(u, name) ==
  /\ u \in users
  /\ UNCHANGED clientVars
  /\ RenamedTo(u, name)

ConnectUser(u, second) ==
  /\ u \in users \ online
  /\ online' = online \cup {u} /\ UNCHANGED <<testing, users>>
  /\ Connected(u, second)

DisconnectUser(u) ==
  /\ u \in online
  /\ online' = online \ {u} /\ UNCHANGED <<testing, users>>
  /\ Disconnected(u)

FixUserWinnings(u, amount) ==
  /\ u \in online
  /\ UNCHANGED clientVars
  /\ DealWon(u, amount)

FakeUser(u) ==
  /\ UNCHANGED clientVars
  /\ \/ \E name \in Names : RenamedTo(u, name)
     \/ \E second \in Seconds : Connected(u, second)
     \/ Disconnected(u)
     \/ \E amount \in DealAmounts : DealWon(u, amount)

TestAppStep ==
  \/ \E u \in UserIds :
       \/ \E name \in Names : RegisterUser(u, name) \/ RenameUser(u, name)
       \/ \E second \in Seconds : ConnectUser(u, second)
       \/ DisconnectUser(u)
       \/ \E amount \in DealAmounts : FixUserWinnings(u, amount)
  \/ \E u \in FakeIds : FakeUser(u)
  \/ ServiceNext /\ UNCHANGED clientVars

(* The test application ends with the session, and its storage with it.    *)
TestAppLost ==
  /\ testing' = FALSE /\ users' = {} /\ online' = {}
  /\ Recover

OtherClientStep ==
  /\ UNCHANGED clientVars
  /\ Next
  /\ Entries(incoming') + Entries(draining') <= OtherEntries

ClientNext ==
  \/ testing /\ (TestAppStep \/ TestAppLost)
  \/ ~testing /\ OtherClientStep

ClientSpec == ClientInit /\ [][ClientNext]_<<serviceVars, clientVars>>

-----------------------------------------------------------------------------
(* No news of a connection of "u" is on its way to the rating data.        *)
Settled(u) ==
  u \notin DOMAIN incoming.connectionChanges \cup DOMAIN draining.connectionChanges

(* UserDataStorage::validateError: the service's recalculation complains   *)
(* about nobody but the fake users (test/storage.cpp:251-284).             *)
ReportsFakes == \A e \in core.errors : e[1] = "UserUnrecognized" /\ e[2] \in FakeIds

OnlyFakesAreReported == testing => ReportsFakes

(* A user counts as connected in the service as in the client, as soon as  *)
(* nothing is on its way, and whether or not it is in the rating.          *)
ConnectionsAgree ==
  testing => \A u \in Known(core) : Settled(u) =>
    (u \in online <=> SecondOf(u) # InvalidSecond)

(* UserDataStorage::validateError, of the errors workers send when they    *)
(* cannot keep a promise: for a user that the client has registered it is  *)
(* an "Unexpected user unrecognized error" and a failure of the test       *)
(* (test/storage.cpp:276-277). The service can send one.                   *)
RegisteredAreRecognized == \A promise \in promises : promise[1] \in users => ProcessRating(promise)

-----------------------------------------------------------------------------
(* Why the client's picture is right: what the service knows, or is about  *)
(* to, is what the client has registered, and nobody else but the fakes is *)
(* in the news.                                                            *)
Heard(buffer) ==
  DOMAIN buffer.usersRenamed \cup DOMAIN buffer.connectionChanges \cup DOMAIN buffer.dealsWon

RegistrationsInv ==
  LET closed == DOMAIN draining.usersRegistered
      open   == DOMAIN incoming.usersRegistered
  IN  /\ users = Known(core) \cup closed \cup open
      /\ users \cap FakeIds = {}
      /\ (Known(core) \cup closed) \cap open = {} /\ Known(core) \cap closed = {}
      /\ Active(core) \cap Silent(core) = {}
      /\ Heard(draining) \subseteq Known(core) \cup closed \cup FakeIds
      /\ Heard(incoming) \subseteq users \cup FakeIds
      /\ ~refreshing => draining = EmptyBuffer

(* Where the service will have "u" when all news has been processed.       *)
NextSecondOf(u) ==
  IF u \in DOMAIN incoming.connectionChanges THEN incoming.connectionChanges[u]
  ELSE IF u \in DOMAIN draining.connectionChanges THEN draining.connectionChanges[u]
  ELSE SecondOf(u)

ConnectionsInv ==
  /\ online \subseteq users
  /\ \A u \in users : u \in online <=> NextSecondOf(u) # InvalidSecond

PromisesInv ==
  \A promise \in promises :
    promise[1] \in FakeIds \cup Known(core) \cup DOMAIN draining.usersRegistered \/ promise[2]

PictureInv == RegistrationsInv /\ ConnectionsInv /\ PromisesInv /\ ReportsFakes

ViewInv == testing => PictureInv
=============================================================================
