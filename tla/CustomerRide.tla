---------------------------- MODULE CustomerRide ----------------------------
(***************************************************************************)
(* The customer's app from the booking to the tracking of a ride: the      *)
(* search screen (matching-waiting.tsx), the tracking screen (track.tsx)   *)
(* and CustomerSocketService, the socket singleton both of them read.      *)
(*                                                                         *)
(* The server's side is RideLife, with what each of its steps tells the    *)
(* customer.  An accepted ride is published twice (RIDE_ASSIGNED, then     *)
(* TRIP_ACCEPTED), and the singleton stores either in tripAccepted until a *)
(* screen clears it.  What is published while the socket is down is lost;  *)
(* the tracking screen makes up for it by reading the ride again whenever  *)
(* the socket connects.  No event with a listener here tells of the        *)
(* arrival, the completion or the cancellation of a ride.                  *)
(***************************************************************************)
EXTENDS RideLife, Integers, Sequences

CONSTANTS
    Fetches,    \* the reads of a ride that may be under way together
    MaxWire     \* the events that may be under way to the app

VARIABLES
    page,       \* the screen shown
    tracked,    \* its bookingId; NoRide is an id the server does not know
    stage,      \* the tracking screen's stage
    accepted,   \* the singleton's tripAccepted is set; for which ride, the
                \* screens do not ask
    socket,     \* "down", "up", or "joined": in the customer's room
    wire,       \* the events under way to the app
    fetch,      \* fetch[f]: a read of the tracked ride
    cancel      \* the request that cancels the search

appVars == <<page, tracked, stage, fetch>>
socketVars == <<accepted, socket, wire>>
vars == <<status, driver, started, page, tracked, stage, fetch,
          accepted, socket, wire, cancel>>

Events == {"accepted", "started"}

FetchRecord == [at : {"idle", "asked", "read", "failed"}, saw : Statuses]

NotAsked == [at |-> "idle", saw |-> "NONE"]

Asked == [at |-> "asked", saw |-> "NONE"]

Cancelling == [at : {"no", "sent", "back"}, ride : Rides \cup {NoRide}]

NoCancel == [at |-> "no", ride |-> NoRide]

\* Every variable has its type.
CustomerTypeOK ==
    /\ LifeTypeOK
    /\ page \in {"home", "matching", "track"}
    /\ tracked \in Rides \cup {NoRide}
    /\ stage \in {"ASSIGNED", "IN_PROGRESS", "COMPLETED"}
    /\ accepted \in BOOLEAN
    /\ socket \in {"down", "up", "joined"}
    /\ wire \in Seq(Events)
    /\ fetch \in [Fetches -> FetchRecord]
    /\ cancel \in Cancelling

Init ==
    /\ LifeInit
    /\ page = "home"
    /\ tracked = NoRide
    /\ stage = "ASSIGNED"
    /\ accepted = FALSE
    /\ socket = "down"
    /\ wire = <<>>
    /\ fetch = [f \in Fetches |-> NotAsked]
    /\ cancel = NoCancel

-----------------------------------------------------------------------------
(* What the server tells the customer's app. *)

\* The gateway sends events to the sockets in the customer's room.  The copies
\* for the rooms of the trip and the ride, which the app joins as well, tell
\* the same and are left out.
Publish(events) ==
    /\ Len(wire) + Len(events) <= MaxWire
    /\ wire' = IF socket = "joined" THEN wire \o events ELSE wire
    /\ UNCHANGED <<accepted, socket>>

\* The driver's side of ride r moves.  ArriveUnassigned is left out: for the
\* customer's app it is a ride that nobody accepts, told of by no event.
DriverMoves(r) ==
    /\ \/ /\ \E d \in Drivers : Accept(r, d)
          /\ Publish(<<"accepted", "accepted">>)
       \/ Start(r) /\ Publish(<<"started">>)
       \/ (Arrive(r) \/ Complete(r) \/ DriverCancel(r)) /\ Publish(<<>>)
    /\ UNCHANGED <<appVars, cancel>>

-----------------------------------------------------------------------------
(* Reads of the tracked ride. *)

Nothing == [f \in Fetches |-> NotAsked]

\* A failed read leaves nothing behind; it is kept until the next connection
\* only for MissedStartShown to see.
Forgotten(f) == IF fetch[f].at = "failed" THEN NotAsked ELSE fetch[f]

\* A tracking screen reads its ride when it is mounted; the answers to the
\* reads of the one before it change nothing any more.
FirstRead ==
    \E f \in Fetches : fetch' = [Nothing EXCEPT ![f] = Asked]

\* GET /rides/{id}, with its two fallbacks; an unknown id is no ride.
ServeFetch(f) ==
    /\ fetch[f].at = "asked"
    /\ tracked # NoRide
    /\ fetch' = [fetch EXCEPT ![f] = [at |-> "read", saw |-> status[tracked]]]
    /\ UNCHANGED <<lifeVars, page, tracked, stage, socketVars, cancel>>

FailFetch(f) ==
    /\ fetch[f].at \in {"asked", "read"}
    /\ fetch' = [fetch EXCEPT ![f] = [at |-> "failed", saw |-> "NONE"]]
    /\ UNCHANGED <<lifeVars, page, tracked, stage, socketVars, cancel>>

\* A bug: the status is stored as it comes.
StatusAsStage(saw) == saw

\* A bug: the driver's arrival is taken for the start.
PickupIsUnderWay(saw) ==
    CASE saw \in {"PICKUP", "IN_PROGRESS"} -> "IN_PROGRESS"
      [] saw \in {"COMPLETED", "ASSIGNED"} -> saw
      [] OTHER -> stage

\* The statuses that set the stage; PICKUP and CANCELLED do not.
StageOf(saw) ==
    IF saw \in {"IN_PROGRESS", "COMPLETED", "ASSIGNED"} THEN saw ELSE stage

\* An answer sets the stage, however old what it read is by now.
ApplyFetch(f) ==
    /\ fetch[f].at = "read"
    /\ stage' = StageOf(fetch[f].saw)
    /\ fetch' = [fetch EXCEPT ![f] = NotAsked]
    /\ UNCHANGED <<lifeVars, page, tracked, socketVars, cancel>>

-----------------------------------------------------------------------------
(* The screens. *)

\* A bug: the stage outlives the screen, as tripAccepted does.
StageStays(where, r) ==
    /\ page' = where
    /\ tracked' = r
    /\ stage' = stage

Show(where, r) ==
    /\ page' = where
    /\ tracked' = r
    /\ stage' = "ASSIGNED"

GoHome == Show("home", NoRide) /\ fetch' = Nothing

\* handleBookCab: when the answer does not come the search screen opens all
\* the same, under an id of the app's own, created or not.
Book(r) ==
    /\ page = "home"
    /\ \/ Request(r) /\ Show("matching", r)
       \/ Request(r) /\ Show("matching", NoRide)
       \/ UNCHANGED lifeVars /\ Show("matching", NoRide)
    /\ fetch' = Nothing
    /\ UNCHANGED <<socketVars, cancel>>

\* handleSendPreferredRequest asks for a second ride; the screen stays with
\* the first.
Prefer(r) ==
    /\ page = "matching"
    /\ Request(r)
    /\ UNCHANGED <<appVars, socketVars, cancel>>

\* The effect that waits for tripAccepted clears it and opens the tracking
\* screen, for the screen's own booking whatever ride was accepted.  The other
\* ways to that screen, from the list of trips and from a notification, mount
\* it with a first read just the same and are left out.
OpenTrack ==
    /\ page = "matching"
    /\ accepted
    /\ accepted' = FALSE
    /\ Show("track", tracked)
    /\ FirstRead
    /\ UNCHANGED <<lifeVars, socket, wire, cancel>>

\* Back, or the tracking screen's cancel, whose request to the booking
\* service cannot find a ride and which then goes home as well.
Back ==
    /\ page # "home"
    /\ GoHome
    /\ UNCHANGED <<lifeVars, socketVars, cancel>>

\* "Cancel Ride" on the search screen.
AskCancel ==
    /\ page = "matching"
    /\ cancel.at = "no"
    /\ cancel' = [at |-> "sent", ride |-> tracked]
    /\ UNCHANGED <<lifeVars, appVars, socketVars>>

ServeCancel ==
    /\ cancel.at = "sent"
    /\ \/ cancel.ride # NoRide /\ CustomerCancel(cancel.ride)
       \/ UNCHANGED lifeVars            \* lost, or refused
    /\ cancel' = [at |-> "back", ride |-> NoRide]
    /\ UNCHANGED <<appVars, socketVars>>

\* Its finally goes home, whether it failed and whatever is shown by then.
CancelDone ==
    /\ cancel.at = "back"
    /\ cancel' = NoCancel
    /\ GoHome
    /\ UNCHANGED <<lifeVars, socketVars>>

\* The app is killed and started again: it opens at home.
Kill ==
    /\ GoHome
    /\ accepted' = FALSE
    /\ socket' = "down"
    /\ wire' = <<>>
    /\ cancel' = NoCancel
    /\ UNCHANGED lifeVars

-----------------------------------------------------------------------------
(* The socket. *)

\* A bug: the tracking screen does not read its ride when the socket is back.
ConnectsOnly ==
    /\ socket = "down"
    /\ socket' = "up"
    /\ UNCHANGED <<lifeVars, appVars, accepted, wire, cancel>>

\* The connect handler asks for the customer's room and, on the tracking
\* screen, for the ride.
Connect ==
    /\ socket = "down"
    /\ socket' = "up"
    /\ IF page = "track"
       THEN \E f \in Fetches :
                /\ fetch[f].at \in {"idle", "failed"}
                /\ fetch' = [g \in Fetches |->
                                IF g = f THEN Asked ELSE Forgotten(g)]
       ELSE UNCHANGED fetch
    /\ UNCHANGED <<lifeVars, page, tracked, stage, accepted, wire, cancel>>

\* The gateway has put the socket into the room.
Join ==
    /\ socket = "up"
    /\ socket' = "joined"
    /\ UNCHANGED <<lifeVars, appVars, accepted, wire, cancel>>

Disconnect ==
    /\ socket # "down"
    /\ socket' = "down"
    /\ wire' = <<>>
    /\ UNCHANGED <<lifeVars, appVars, accepted, cancel>>

\* The next event: an accepted ride is stored, a start is heard by the
\* tracking screen only, which does not look at the ride it is about.
Hear ==
    /\ wire # <<>>
    /\ wire' = Tail(wire)
    /\ IF Head(wire) = "accepted"
       THEN accepted' = TRUE /\ UNCHANGED stage
       ELSE /\ stage' = IF page = "track" THEN "IN_PROGRESS" ELSE stage
            /\ UNCHANGED accepted
    /\ UNCHANGED <<lifeVars, page, tracked, fetch, socket, cancel>>

-----------------------------------------------------------------------------

Next ==
    \/ \E r \in Rides : DriverMoves(r) \/ Book(r) \/ Prefer(r)
    \/ \E f \in Fetches : ServeFetch(f) \/ FailFetch(f) \/ ApplyFetch(f)
    \/ OpenTrack \/ Back \/ AskCancel \/ ServeCancel \/ CancelDone \/ Kill
    \/ Connect \/ Join \/ Disconnect \/ Hear

Spec == Init /\ [][Next]_vars

\* Socket.io reconnects for ever, and a read is answered or times out.
FairSpec ==
    /\ Spec
    /\ WF_vars(Connect)
    /\ \A f \in Fetches :
          WF_vars(ServeFetch(f) \/ FailFetch(f) \/ ApplyFetch(f))

-----------------------------------------------------------------------------
ShowsUnderWay == page = "track" /\ stage = "IN_PROGRESS"

\* This step takes a start off the wire.
HearsStart == wire # <<>> /\ Head(wire) = "started" /\ wire' = Tail(wire)

(***************************************************************************)
(* A screen begins to show a trip under way in two ways only: the ride it  *)
(* tracks by then has been started, or a start is heard in this very step, *)
(* and some ride of the customer has.  No read of another ride does it,    *)
(* and no read of a ride not yet started, however many cross each other, a *)
(* change of screen, a restart or the driver's arrival (fetchBooking,      *)
(* TRIP_STARTED).  The start that is heard may be that of another ride:    *)
(* the handler does not look.                                              *)
(***************************************************************************)
UnderWayByStart ==
    [][(~ShowsUnderWay /\ ShowsUnderWay') =>
          tracked' \in started \/ (started # {} /\ HearsStart)]_vars

(***************************************************************************)
(* The app shows a trip as completed only if the very ride it tracks was   *)
(* started and so driven: an answer about the ride before it never ends up *)
(* on its screen.                                                          *)
(***************************************************************************)
CompletedIsTracked ==
    (page = "track" /\ stage = "COMPLETED") => tracked \in started

(***************************************************************************)
(* A start the app could not hear of, its socket being down, is shown once *)
(* the socket is back, unless a read of the ride has failed since the last *)
(* connection, the ride moves on or the customer leaves the screen         *)
(* (registerReconnectSync).                                                *)
(***************************************************************************)
MissedStartShown ==
    \A r \in Rides :
        (page = "track" /\ tracked = r /\ socket = "down"
         /\ status[r] = "IN_PROGRESS") ~>
            \/ stage = "IN_PROGRESS"
            \/ page # "track" \/ tracked # r \/ status[r] # "IN_PROGRESS"
            \/ \E f \in Fetches : fetch[f].at = "failed"

(***************************************************************************)
(* "status strictly synchronized with backend": the tracking screen of a   *)
(* ride opens only after a driver accepted it.                             *)
(***************************************************************************)
TracksAccepted ==
    page = "track" => tracked # NoRide /\ driver[tracked] # NoDriver
=============================================================================
