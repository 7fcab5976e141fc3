----------------------------- MODULE DriverTrip -----------------------------
(***************************************************************************)
(* The driver's trip screen (active-trip.tsx and the panels and services   *)
(* it is made of) with the handlers of the matching service it calls.      *)
(*                                                                         *)
(* The screen never asks the server where the ride stands: it keeps a      *)
(* phase of its own, which the answers to its calls move on.  A call may   *)
(* be lost before or after the server served it, the driver may leave the  *)
(* screen or the system kill the app while it is under way, and the        *)
(* request then still reaches the server.  Each handler is one step here;  *)
(* RideTrip opens them up.  The stops, the developer's sheet with its      *)
(* simulated next ride, the calls and the chat are left out.               *)
(***************************************************************************)
EXTENDS RideStore

CONSTANTS
    Me,         \* the driver whose app this is
    Calls       \* the calls to the server that may be under way together

ASSUME MeAssumption == Me \in Drivers

VARIABLES
    started,    \* the rides whose started_at is set
    receipt,    \* the rides that have a RideReceipt
    screen,     \* "trip" while the trip screen is mounted
    ride,       \* its activeRideId
    phase,      \* its phase
    arriving,   \* its arriving flag, which disables the buttons
    shown,      \* its showReceiptModal
    call        \* call[c]: a call under way

serverVars == <<status, driver, started, receipt>>
screenVars == <<screen, ride, phase, arriving, shown>>
vars == <<status, driver, started, receipt,
          screen, ride, phase, arriving, shown, call>>

Phases == {"EN_ROUTE_PICKUP", "ARRIVED_PICKUP",
           "EN_ROUTE_DESTINATION", "ARRIVED_DESTINATION"}

Kinds == {"arrive", "start", "complete", "receipt", "cancel", "noShow",
          "resolve"}

\* Who waits for an answer on the mounted screen: the screen and its panels,
\* or its no-show modal, which has a submitting flag of its own.
Mounted == {"screen", "modal"}

\* A call: how far it got, what it asks, for which ride, and who waits for the
\* answer; the app, once the screen is gone, or nobody.
CallRecord ==
    [at : {"idle", "sent", "yes", "no", "error"}, kind : Kinds,
     ride : Rides \cup {NoRide}, owner : Mounted \cup {"app", "none"}]

Idle == [at |-> "idle", kind |-> "arrive", ride |-> NoRide, owner |-> "none"]

\* Every variable has its type.
TripScreenTypeOK ==
    /\ RidesTypeOK
    /\ started \subseteq Rides
    /\ receipt \subseteq Rides
    /\ screen \in {"home", "trip"}
    /\ ride \in Rides \cup {NoRide}
    /\ phase \in Phases
    /\ arriving \in BOOLEAN
    /\ shown \in BOOLEAN
    /\ call \in [Calls -> CallRecord]

Init ==
    /\ RidesInit
    /\ started = {}
    /\ receipt = {}
    /\ screen = "home"
    /\ ride = NoRide
    /\ phase = "EN_ROUTE_PICKUP"
    /\ arriving = FALSE
    /\ shown = FALSE
    /\ call = [c \in Calls |-> Idle]

-----------------------------------------------------------------------------
(* The customer and the other drivers. *)

Request(r) ==
    /\ status[r] = "NONE"
    /\ SetRide(r, "MATCHING", NoDriver)
    /\ UNCHANGED <<started, receipt, screenVars, call>>

CustomerCancel(r) ==
    /\ status[r] \notin Closed \cup {"NONE"}
    /\ SetRide(r, "CANCELLED", driver[r])
    /\ UNCHANGED <<started, receipt, screenVars, call>>

\* A driver, this one or another, wins the ride; the app's side of it is
\* DriverOffers.
Accept(r, d) ==
    /\ status[r] = "MATCHING"
    /\ UniqueIndex(r, "ASSIGNED", d)
    /\ SetRide(r, "ASSIGNED", d)
    /\ UNCHANGED <<started, receipt, screenVars, call>>

-----------------------------------------------------------------------------
(* The screen comes and goes. *)

\* The screen's state when it is mounted for ride r, and when it is gone.
Fresh(where, r) ==
    /\ screen' = where
    /\ ride' = r
    /\ phase' = "EN_ROUTE_PICKUP"
    /\ arriving' = FALSE
    /\ shown' = FALSE

\* Nobody waits for call k any more, which the server may still serve.
Unheard(k) == IF k.at = "sent" THEN [k EXCEPT !.owner = "none"] ELSE Idle

\* Only a cancellation, with its alert, outlives the screen it was sent from.
Unmounted ==
    [c \in Calls |->
        IF call[c].owner \notin Mounted THEN call[c]
        ELSE IF call[c].kind \in {"cancel", "noShow"}
             THEN [call[c] EXCEPT !.owner = "app"]
             ELSE Unheard(call[c])]

Call(kind, r, owner) ==
    [at |-> "sent", kind |-> kind, ride |-> r, owner |-> owner]

\* With the ride's id: after an accepted offer, or from a notification.
\* Opening it again mounts another screen.
OpenTrip(r) ==
    /\ driver[r] = Me
    /\ status[r] \in Active \cup {"CANCELLED"}
    /\ Fresh("trip", r)
    /\ call' = Unmounted
    /\ UNCHANGED serverVars

\* Without an id the screen asks for the active job.
OpenUnnamed(c) ==
    /\ call[c].at = "idle"
    /\ screen = "home"
    /\ Fresh("trip", NoRide)
    /\ call' = [call EXCEPT ![c] = Call("resolve", NoRide, "screen")]
    /\ UNCHANGED serverVars

\* The back button, or the receipt is dismissed.
Leave ==
    /\ screen = "trip"
    /\ Fresh("home", NoRide)
    /\ call' = Unmounted
    /\ UNCHANGED serverVars

\* The system kills the app: the requests it sent are still served.
Kill ==
    /\ Fresh("home", NoRide)
    /\ call' = [c \in Calls |-> Unheard(call[c])]
    /\ UNCHANGED serverVars

-----------------------------------------------------------------------------
(* The buttons. *)

SendFrom(c, owner, kind) ==
    /\ screen = "trip"
    /\ call[c].at = "idle"
    /\ call' = [call EXCEPT ![c] = Call(kind, ride, owner)]

Send(c, kind) == SendFrom(c, "screen", kind)

\* The control is disabled until its call is answered.
WaitingAt(owner, kind) ==
    \E c \in Calls : call[c].owner = owner /\ call[c].kind = kind

Waiting(kind) == WaitingAt("screen", kind)

TapArrived(c) ==
    /\ phase = "EN_ROUTE_PICKUP"
    /\ ~arriving
    /\ Send(c, "arrive")
    /\ arriving' = TRUE
    /\ UNCHANGED <<serverVars, screen, ride, phase, shown>>

TapStart(c) ==
    /\ phase = "ARRIVED_PICKUP"
    /\ ~Waiting("start")
    /\ Send(c, "start")
    /\ UNCHANGED <<serverVars, screenVars>>

\* A bug: completion is offered as soon as the driver has arrived.
CompletesFromPickup(c) ==
    /\ phase \notin {"EN_ROUTE_PICKUP", "ARRIVED_DESTINATION"}
    /\ ~arriving
    /\ Send(c, "complete")
    /\ arriving' = TRUE
    /\ UNCHANGED <<serverVars, screen, ride, phase, shown>>

TapComplete(c) ==
    /\ phase = "EN_ROUTE_DESTINATION"
    /\ ~arriving
    /\ Send(c, "complete")
    /\ arriving' = TRUE
    /\ UNCHANGED <<serverVars, screen, ride, phase, shown>>

\* The cancel sheet, opened before the ride started, stays open when the
\* phase changes beneath it.
TapCancel(c) ==
    /\ phase # "ARRIVED_DESTINATION"
    /\ ~Waiting("cancel")
    /\ Send(c, "cancel")
    /\ UNCHANGED <<serverVars, screenVars>>

\* The waiting card's button.
TapNoShow(c) ==
    /\ phase = "ARRIVED_PICKUP"
    /\ ~Waiting("noShow")
    /\ Send(c, "noShow")
    /\ UNCHANGED <<serverVars, screenVars>>

\* The modal knows nothing of the card's call; like the cancel sheet it stays
\* open when the phase changes beneath it.
ConfirmNoShow(c) ==
    /\ phase \in {"ARRIVED_PICKUP", "EN_ROUTE_DESTINATION"}
    /\ ~WaitingAt("modal", "noShow")
    /\ SendFrom(c, "modal", "noShow")
    /\ UNCHANGED <<serverVars, screenVars>>

-----------------------------------------------------------------------------
(* The server. *)

Asks(c, kind) == call[c].at = "sent" /\ call[c].kind = kind

Mine(c) == call[c].ride # NoRide /\ driver[call[c].ride] = Me

\* An answer nobody waits for is the end of the call.
Answer(c, at) ==
    call' = [call EXCEPT ![c] = IF @.owner = "none" THEN Idle
                                ELSE [@ EXCEPT !.at = at]]

Refuse(c, at) == Answer(c, at) /\ UNCHANGED serverVars

\* verify_pickup_arrival: whatever the status and whoever drives the ride, if
\* anybody does; "no" from afar.
ServeArrive(c) ==
    LET r == call[c].ride IN
    /\ Asks(c, "arrive")
    /\ \/ /\ r # NoRide
          /\ status[r] # "NONE"
          /\ UniqueIndex(r, "PICKUP", driver[r])
          /\ SetRide(r, "PICKUP", driver[r])
          /\ Answer(c, "yes")
          /\ UNCHANGED <<started, receipt>>
       \/ r # NoRide /\ Refuse(c, "no")
       \/ r = NoRide /\ Refuse(c, "error")
       \/ /\ r # NoRide
          /\ ~UniqueIndex(r, "PICKUP", driver[r])
          /\ Refuse(c, "error")
    /\ UNCHANGED screenVars

\* verify_and_start_ride: a ride under way is only confirmed; a wrong or old
\* PIN, a distance or any other status is refused.
ServeStart(c) ==
    LET r == call[c].ride IN
    /\ Asks(c, "start")
    /\ \/ Mine(c) /\ status[r] = "IN_PROGRESS" /\ Refuse(c, "yes")
       \/ /\ Mine(c)
          /\ status[r] \in {"ASSIGNED", "PICKUP"}
          /\ SetRide(r, "IN_PROGRESS", driver[r])
          /\ started' = started \cup {r}
          /\ Answer(c, "yes")
          /\ UNCHANGED receipt
       \/ ~(Mine(c) /\ status[r] = "IN_PROGRESS") /\ Refuse(c, "error")
    /\ UNCHANGED screenVars

\* Any ride of his but a cancelled one; a second receipt, of a ride that was
\* reopened, is an IntegrityError.
Completable(c) ==
    LET r == call[c].ride IN
    /\ Mine(c)
    /\ status[r] # "CANCELLED"
    /\ r \in receipt => status[r] = "COMPLETED"

\* complete_ride: a ride that is completed is only reported.
ServeComplete(c) ==
    LET r == call[c].ride IN
    /\ Asks(c, "complete")
    /\ \/ /\ Mine(c)
          /\ status[r] = "COMPLETED"
          /\ r \in receipt
          /\ Refuse(c, "yes")
       \/ /\ Mine(c)
          /\ status[r] # "CANCELLED"
          /\ r \notin receipt
          /\ SetRide(r, "COMPLETED", driver[r])
          /\ receipt' = receipt \cup {r}
          /\ Answer(c, "yes")
          /\ UNCHANGED started
       \/ ~Completable(c) /\ Refuse(c, "error")
    /\ UNCHANGED screenVars

ServeReceipt(c) ==
    /\ Asks(c, "receipt")
    /\ Refuse(c, IF call[c].ride \in receipt THEN "yes" ELSE "error")
    /\ UNCHANGED screenVars

\* cancel_ride_by_driver: a closed ride is only reported; the reason given
\* may be refused.
ServeCancel(c) ==
    LET r == call[c].ride IN
    /\ Asks(c, "cancel")
    /\ \/ Mine(c) /\ status[r] \in Closed /\ Refuse(c, "yes")
       \/ /\ Mine(c)
          /\ status[r] \notin Closed \cup {"IN_PROGRESS"}
          /\ SetRide(r, "CANCELLED", driver[r])
          /\ Answer(c, "yes")
          /\ UNCHANGED <<started, receipt>>
       \/ ~(Mine(c) /\ status[r] \in Closed) /\ Refuse(c, "error")
    /\ UNCHANGED screenVars

\* process_no_show: refused before five minutes, from afar, or without a call.
ServeNoShow(c) ==
    LET r == call[c].ride IN
    /\ Asks(c, "noShow")
    /\ \/ /\ Mine(c)
          /\ status[r] \in {"ASSIGNED", "PICKUP"}
          /\ SetRide(r, "CANCELLED", driver[r])
          /\ Answer(c, "yes")
          /\ UNCHANGED <<started, receipt>>
       \/ Refuse(c, "error")
    /\ UNCHANGED screenVars

\* The driver's ride under way or, without one, a ride he has an offer for.
Resolvable(r) ==
    \/ driver[r] = Me /\ status[r] \in Active
    \/ status[r] \in Open /\ ~HasActiveRide(Me)

\* /driver/jobs/active looks for the user's id among the drivers' ids and finds
\* no ride; where it cannot be asked, /matching/rides/active can.
ServeResolve(c) ==
    /\ Asks(c, "resolve")
    /\ \/ \E r \in Rides :
              /\ Resolvable(r)
              /\ call' = [call EXCEPT ![c] =
                             IF @.owner = "none" THEN Idle
                             ELSE [@ EXCEPT !.at = "yes", !.ride = r]]
       \/ Answer(c, "no")
    /\ UNCHANGED <<serverVars, screenVars>>

\* A request that never arrives, or an answer that does not.
Lose(c) ==
    /\ call[c].at \in {"sent", "yes", "no"}
    /\ Answer(c, "error")
    /\ UNCHANGED <<serverVars, screenVars>>

-----------------------------------------------------------------------------
(* The answers. *)

Answered(c, kind) ==
    /\ call[c].at \in {"yes", "no", "error"}
    /\ call[c].kind = kind
    /\ call[c].owner = "screen"

Done(c) == call' = [call EXCEPT ![c] = Idle]

\* verifyArrival permits the arrival when the server cannot be asked.
ArriveAnswered(c) ==
    /\ Answered(c, "arrive")
    /\ phase' = IF call[c].at = "no" THEN phase ELSE "ARRIVED_PICKUP"
    /\ arriving' = FALSE
    /\ Done(c)
    /\ UNCHANGED <<serverVars, screen, ride, shown>>

\* A bug: the start too is permitted when the server cannot be asked.
StartPermitted(c) ==
    /\ Answered(c, "start")
    /\ phase' = IF call[c].at = "no" THEN phase ELSE "EN_ROUTE_DESTINATION"
    /\ Done(c)
    /\ UNCHANGED <<serverVars, screen, ride, arriving, shown>>

StartAnswered(c) ==
    /\ Answered(c, "start")
    /\ phase' = IF call[c].at = "yes" THEN "EN_ROUTE_DESTINATION" ELSE phase
    /\ Done(c)
    /\ UNCHANGED <<serverVars, screen, ride, arriving, shown>>

\* A bug: a completion that fails leaves the buttons disabled.
KeepsArriving(c) ==
    /\ Answered(c, "complete")
    /\ IF call[c].at = "yes"
       THEN call' = [call EXCEPT ![c] = Call("receipt", ride, "screen")]
       ELSE Done(c)
    /\ UNCHANGED <<serverVars, screenVars>>

\* A completed ride's receipt is fetched before anything is shown.
CompleteAnswered(c) ==
    /\ Answered(c, "complete")
    /\ IF call[c].at = "yes"
       THEN /\ call' = [call EXCEPT ![c] = Call("receipt", ride, "screen")]
            /\ UNCHANGED arriving
       ELSE Done(c) /\ arriving' = FALSE
    /\ UNCHANGED <<serverVars, screen, ride, phase, shown>>

\* A bug: the status of the ride is stored for the phase.
StatusAsPhase(c) ==
    /\ Answered(c, "receipt")
    /\ IF call[c].at = "yes"
       THEN shown' = TRUE /\ phase' = "COMPLETED"
       ELSE UNCHANGED <<shown, phase>>
    /\ arriving' = FALSE
    /\ Done(c)
    /\ UNCHANGED <<serverVars, screen, ride>>

ReceiptAnswered(c) ==
    /\ Answered(c, "receipt")
    /\ IF call[c].at = "yes"
       THEN shown' = TRUE /\ phase' = "ARRIVED_DESTINATION"
       ELSE UNCHANGED <<shown, phase>>
    /\ arriving' = FALSE
    /\ Done(c)
    /\ UNCHANGED <<serverVars, screen, ride>>

\* The job names the ride.  Its status is the table's ("pickup"), not one of
\* the two the screen knows ("DRIVER_ARRIVED"), so the phase stays.
ResolveAnswered(c) ==
    /\ Answered(c, "resolve")
    /\ ride' = IF call[c].at = "yes" THEN call[c].ride ELSE ride
    /\ Done(c)
    /\ UNCHANGED <<serverVars, screen, phase, arriving, shown>>

\* The alert of a cancelled ride takes the app off whatever screen it shows.
CancelAnswered(c) ==
    /\ call[c].at \in {"yes", "no", "error"}
    /\ call[c].kind \in {"cancel", "noShow"}
    /\ IF call[c].at = "yes"
       THEN /\ Fresh("home", NoRide)
            /\ call' = [Unmounted EXCEPT ![c] = Idle]
       ELSE Done(c) /\ UNCHANGED screenVars
    /\ UNCHANGED serverVars

-----------------------------------------------------------------------------

Tap(c) ==
    \/ OpenUnnamed(c) \/ TapArrived(c) \/ TapStart(c) \/ TapComplete(c)
    \/ TapCancel(c) \/ TapNoShow(c) \/ ConfirmNoShow(c)

Serve(c) ==
    \/ ServeArrive(c) \/ ServeStart(c) \/ ServeComplete(c)
    \/ ServeReceipt(c) \/ ServeCancel(c) \/ ServeNoShow(c)
    \/ ServeResolve(c)

Deliver(c) ==
    \/ ArriveAnswered(c) \/ StartAnswered(c) \/ CompleteAnswered(c)
    \/ ReceiptAnswered(c) \/ ResolveAnswered(c) \/ CancelAnswered(c)

Next ==
    \/ \E r \in Rides :
          \/ Request(r) \/ CustomerCancel(r) \/ OpenTrip(r)
          \/ \E d \in Drivers : Accept(r, d)
    \/ Leave \/ Kill
    \/ \E c \in Calls : Tap(c) \/ Serve(c) \/ Lose(c) \/ Deliver(c)

Spec == Init /\ [][Next]_vars

\* Every call ends: it is served or it times out, and the app then goes on.
FairSpec ==
    Spec /\ \A c \in Calls : WF_vars(Serve(c) \/ Lose(c) \/ Deliver(c))

-----------------------------------------------------------------------------
(***************************************************************************)
(* The screen drives to the destination only with a ride the server has    *)
(* started: neither a lost answer, nor an arrival the server never heard   *)
(* of, nor a late look at the active job gets the driver past the PIN.     *)
(***************************************************************************)
DrivesStartedRides ==
    (screen = "trip"
     /\ phase \in {"EN_ROUTE_DESTINATION", "ARRIVED_DESTINATION"}) =>
        ride \in started

Life == INSTANCE RideLife

(***************************************************************************)
(* Whatever the driver taps, loses or restarts, the ride goes through      *)
(* RideLife: in particular no ride is completed that was never started,    *)
(* though the server's own handler would complete it (complete_ride).      *)
(***************************************************************************)
ImplementsLife == Life!LifeSpec

(***************************************************************************)
(* The buttons of the screen come back: no order of answers and failures   *)
(* leaves it disabled (every handler's finally).                           *)
(***************************************************************************)
ButtonsComeBack == arriving ~> ~arriving
=============================================================================
