-------------------------- MODULE DriverTripProofs --------------------------
(***************************************************************************)
(* What holds of the driver's trip screen for any number of rides, drivers *)
(* and calls under way together, and that it implements RideLife.          *)
(***************************************************************************)
EXTENDS DriverTrip, TLAPS

(* A ride under way was started; a ride with a driver was accepted. *)
RidesInv ==
    \A r \in Rides :
        /\ status[r] = "IN_PROGRESS" => r \in started
        /\ driver[r] # NoDriver => status[r] \in Active \cup Closed

(* What a call knows: a completion is asked for, a receipt fetched and a
   start reported only of a started ride; and a call the screen waits for is
   about the screen's own ride, or was sent before the screen knew it. *)
CallOK(k) ==
    /\ k \in CallRecord
    /\ k.kind \in {"complete", "receipt"} => k.ride \in started
    /\ (k.kind = "start" /\ k.at = "yes") => k.ride \in started
    /\ k.owner = "screen" =>
           /\ screen = "trip"
           /\ k.kind \in {"start", "complete", "receipt"} =>
                  k.ride \in {ride, NoRide}
           /\ k.kind = "resolve" => ride = NoRide

Resolving(k) == k.owner = "screen" /\ k.kind = "resolve"

CallsInv ==
    /\ call \in [Calls -> CallRecord]
    /\ \A c \in Calls : CallOK(call[c])
    /\ \A c, e \in Calls : Resolving(call[c]) /\ Resolving(call[e]) => c = e

TInv == TripScreenTypeOK /\ RidesInv /\ CallsInv /\ DrivesStartedRides

USE NoDriverAssumption, NoRideAssumption, MeAssumption

-----------------------------------------------------------------------------
(* The calls. *)

LEMMA IdleOK ==
  /\ Idle \in CallRecord
  /\ Idle.owner = "none" /\ Idle.kind = "arrive" /\ Idle.at = "idle"
BY DEF Idle, CallRecord, Kinds

(* One call changes, without becoming another look at the active job. *)
LEMMA UpdateCall ==
  ASSUME CallsInv, NEW c \in Calls, NEW k,
         call' = [call EXCEPT ![c] = k], CallOK(k)',
         started \subseteq started', UNCHANGED <<screen, ride>>,
         Resolving(k) => Resolving(call[c])
  PROVE  CallsInv'
<1>1. k \in CallRecord
  BY DEF CallOK
<1>2. call' \in [Calls -> CallRecord]
  BY <1>1 DEF CallsInv
<1>3. ASSUME NEW e \in Calls PROVE CallOK(call[e])'
  <2>1. CASE e = c
    BY <2>1, call'[e] = k DEF CallsInv
  <2>2. CASE e # c
    <3>1. call'[e] = call[e] /\ CallOK(call[e])
      BY <2>2 DEF CallsInv
    <3>2. QED
      BY <3>1 DEF CallOK
  <2>3. QED
    BY <2>1, <2>2
<1>4. ASSUME NEW e \in Calls, NEW f \in Calls,
             Resolving(call'[e]), Resolving(call'[f])
      PROVE  e = f
  <2>1. Resolving(call[e]) /\ Resolving(call[f])
    BY <1>4 DEF CallsInv
  <2>2. QED
    BY <2>1 DEF CallsInv
<1>5. QED
  BY <1>2, <1>3, <1>4 DEF CallsInv, Resolving

(* The screen goes: nobody but the app itself waits for what it sent. *)
LEMMA GoneCalls ==
  ASSUME CallsInv, call' \in [Calls -> CallRecord], UNCHANGED started,
         \A c \in Calls :
            /\ call'[c].owner # "screen"
            /\ \/ call'[c] = Idle
               \/ /\ call'[c].at = call[c].at /\ call'[c].kind = call[c].kind
                  /\ call'[c].ride = call[c].ride
  PROVE  CallsInv'
<1>1. ASSUME NEW c \in Calls PROVE CallOK(call[c])'
  BY IdleOK DEF CallsInv, CallOK
<1>2. QED
  BY <1>1 DEF CallsInv, Resolving

LEMMA UnheardOK ==
  ASSUME NEW k \in CallRecord
  PROVE  /\ Unheard(k) \in CallRecord
         /\ Unheard(k).owner \notin Mounted
         /\ \/ Unheard(k) = Idle
            \/ /\ Unheard(k).at = k.at /\ Unheard(k).kind = k.kind
               /\ Unheard(k).ride = k.ride
BY IdleOK DEF Unheard, CallRecord, Mounted

LEMMA UnmountedOK ==
  ASSUME CallsInv, NEW c \in Calls
  PROVE  /\ Unmounted[c] \in CallRecord
         /\ Unmounted[c].owner \notin Mounted
         /\ \/ Unmounted[c] = Idle
            \/ /\ Unmounted[c].at = call[c].at
               /\ Unmounted[c].kind = call[c].kind
               /\ Unmounted[c].ride = call[c].ride
<1>1. call[c] \in CallRecord
  BY DEF CallsInv
<1>2. CASE call[c].owner \notin Mounted
  <2>1. Unmounted[c] = call[c]
    BY <1>2 DEF Unmounted
  <2>2. QED
    BY <1>1, <1>2, <2>1
<1>3. CASE call[c].owner \in Mounted /\ call[c].kind \in {"cancel", "noShow"}
  BY <1>1, <1>3 DEF Unmounted, CallRecord, Mounted
<1>4. CASE call[c].owner \in Mounted /\ call[c].kind \notin {"cancel", "noShow"}
  BY <1>1, <1>4, UnheardOK DEF Unmounted
<1>5. QED
  BY <1>2, <1>3, <1>4

LEMMA UnmountKeepsCalls ==
  ASSUME CallsInv, UNCHANGED started,
         call' = Unmounted \/ \E c \in Calls : call' = [Unmounted EXCEPT ![c] = Idle]
  PROVE  CallsInv'
<1>1. call' \in [Calls -> CallRecord]
  BY IdleOK, UnmountedOK DEF Unmounted
<1>2. \A c \in Calls : call'[c] = Idle \/ call'[c] = Unmounted[c]
  BY DEF Unmounted
<1>3. QED
  BY <1>1, <1>2, IdleOK, UnmountedOK, GoneCalls DEF Mounted

(* The call of a button. *)
LEMMA SendKeepsCalls ==
  ASSUME CallsInv, ride \in Rides \cup {NoRide}, NEW c \in Calls,
         NEW kind \in Kinds \ {"resolve"}, NEW owner \in Mounted, screen = "trip",
         kind \in {"complete", "receipt"} => ride \in started,
         call' = [call EXCEPT ![c] = Call(kind, ride, owner)],
         UNCHANGED <<started, screen, ride>>
  PROVE  CallsInv'
<1>1. CallOK(Call(kind, ride, owner))'
  BY DEF CallOK, Call, CallRecord, Mounted
<1>2. ~Resolving(Call(kind, ride, owner))
  BY DEF Resolving, Call
<1>3. QED
  BY <1>1, <1>2, UpdateCall

(* An answer, which only a start must have been earned for. *)
LEMMA AnswerKeepsCalls ==
  ASSUME CallsInv, NEW c \in Calls, NEW at \in {"yes", "no", "error"},
         Answer(c, at),
         started \subseteq started', UNCHANGED <<screen, ride>>,
         at = "yes" => /\ call[c].kind # "resolve"
                       /\ call[c].kind = "start" => call[c].ride \in started'
  PROVE  CallsInv'
<1>1. CallOK(call[c]) /\ call[c] \in CallRecord
  BY DEF CallsInv
<1>2. CASE call[c].owner = "none"
  <2>1. call' = [call EXCEPT ![c] = Idle]
    BY <1>2 DEF Answer, CallsInv
  <2>2. CallOK(Idle)' /\ ~Resolving(Idle)
    BY IdleOK DEF CallOK, Resolving
  <2>3. QED
    BY <2>1, <2>2, UpdateCall
<1>3. CASE call[c].owner # "none"
  <2>0. PICK k : k = [call[c] EXCEPT !.at = at]
    OBVIOUS
  <2>1. call' = [call EXCEPT ![c] = k]
    BY <1>3, <2>0 DEF Answer, CallsInv
  <2>2. /\ k \in CallRecord /\ k.at = at
        /\ k.kind = call[c].kind /\ k.ride = call[c].ride
        /\ k.owner = call[c].owner
    BY <1>1, <2>0 DEF CallRecord
  <2>3. CallOK(k)'
    BY <1>1, <2>2 DEF CallOK
  <2>4. Resolving(k) => Resolving(call[c])
    BY <2>2 DEF Resolving
  <2>5. QED
    BY <2>1, <2>3, <2>4, UpdateCall
<1>4. QED
  BY <1>2, <1>3

(* The end of a call. *)
LEMMA DoneKeepsCalls ==
  ASSUME CallsInv, NEW c \in Calls, Done(c), UNCHANGED <<started, screen, ride>>
  PROVE  CallsInv'
<1>1. CallOK(Idle)' /\ ~Resolving(Idle)
  BY IdleOK DEF CallOK, Resolving
<1>2. QED
  BY <1>1, UpdateCall DEF Done

-----------------------------------------------------------------------------
LEMMA InitTInv == Init => TInv
BY IdleOK DEF Init, TInv, TripScreenTypeOK, RidesInv, CallsInv, CallOK,
              Resolving, DrivesStartedRides, RidesTypeOK, RidesInit, Statuses,
              Phases

(* The customer and the other drivers. *)
LEMMA WorldKeepsTInv ==
  ASSUME TInv, NEW r \in Rides,
         Request(r) \/ CustomerCancel(r) \/ \E d \in Drivers : Accept(r, d)
  PROVE  TInv'
<1>1. UNCHANGED <<started, receipt, screenVars, call>>
  BY DEF Request, CustomerCancel, Accept
<1>2. PICK s \in {"MATCHING", "CANCELLED", "ASSIGNED"},
           d \in Drivers \cup {NoDriver} :
         SetRide(r, s, d) /\ (s = "MATCHING" => d = NoDriver)
  BY DEF TInv, TripScreenTypeOK, RidesTypeOK, Request, CustomerCancel, Accept
<1>3. RidesTypeOK' /\ RidesInv'
  BY <1>1, <1>2 DEF TInv, TripScreenTypeOK, RidesTypeOK, RidesInv, SetRide,
                    Statuses, Active, Closed
<1>4. CallsInv'
  BY <1>1 DEF TInv, CallsInv, CallOK, Resolving, screenVars
<1>5. QED
  BY <1>1, <1>3, <1>4 DEF TInv, TripScreenTypeOK, DrivesStartedRides, screenVars

(* The screen comes and goes. *)
LEMMA ScreenKeepsTInv ==
  ASSUME TInv,
         \/ \E r \in Rides : OpenTrip(r)
         \/ \E c \in Calls : OpenUnnamed(c)
         \/ Leave \/ Kill
  PROVE  TInv'
<1>1. UNCHANGED serverVars
  BY DEF OpenTrip, OpenUnnamed, Leave, Kill
<1>2. /\ screen' \in {"home", "trip"} /\ ride' \in Rides \cup {NoRide}
      /\ phase' = "EN_ROUTE_PICKUP" /\ arriving' = FALSE /\ shown' = FALSE
  BY DEF OpenTrip, OpenUnnamed, Leave, Kill, Fresh
<1>3. CallsInv'
  <2>1. ASSUME NEW r \in Rides, OpenTrip(r) PROVE CallsInv'
    BY <2>1, <1>1, UnmountKeepsCalls DEF OpenTrip, TInv, serverVars
  <2>2. ASSUME NEW c \in Calls, OpenUnnamed(c) PROVE CallsInv'
    <3>1. \A e \in Calls : call[e].owner # "screen"
      BY <2>2 DEF OpenUnnamed, TInv, CallsInv, CallOK
    <3>2. PICK k : k = Call("resolve", NoRide, "screen")
      OBVIOUS
    <3>3. /\ k \in CallRecord /\ k.kind = "resolve" /\ k.at = "sent"
      BY <3>2 DEF Call, CallRecord, Kinds, Mounted
    <3>4. call' = [call EXCEPT ![c] = k] /\ screen' = "trip" /\ ride' = NoRide
      BY <2>2, <3>2 DEF OpenUnnamed, Fresh
    <3>5. call' \in [Calls -> CallRecord]
      BY <3>3, <3>4 DEF TInv, CallsInv
    <3>6. ASSUME NEW e \in Calls PROVE CallOK(call[e])'
      <4>1. CASE e = c
        <5>1. call'[e] = k
          BY <3>4, <4>1 DEF TInv, CallsInv
        <5>2. QED
          BY <3>3, <3>4, <5>1 DEF CallOK
      <4>2. CASE e # c
        <5>1. call'[e] = call[e] /\ CallOK(call[e]) /\ call[e].owner # "screen"
          BY <3>1, <3>4, <4>2 DEF TInv, CallsInv
        <5>2. QED
          BY <1>1, <5>1 DEF CallOK, serverVars
      <4>3. QED
        BY <4>1, <4>2
    <3>7. \A e \in Calls : Resolving(call'[e]) => e = c
      BY <3>1, <3>4 DEF Resolving, TInv, CallsInv
    <3>8. QED
      BY <3>5, <3>6, <3>7 DEF CallsInv, Resolving
  <2>3. CASE Leave
    BY <2>3, <1>1, UnmountKeepsCalls DEF Leave, TInv, serverVars
  <2>4. CASE Kill
    <3>1. CallsInv /\ UNCHANGED started
      BY <1>1 DEF TInv, serverVars
    <3>2. \A c \in Calls : call'[c] = Unheard(call[c]) /\ call[c] \in CallRecord
      BY <2>4, <3>1 DEF Kill, CallsInv
    <3>3. call' \in [Calls -> CallRecord]
      BY <2>4, <3>2, UnheardOK DEF Kill
    <3>4. \A c \in Calls :
            /\ call'[c].owner # "screen"
            /\ \/ call'[c] = Idle
               \/ /\ call'[c].at = call[c].at /\ call'[c].kind = call[c].kind
                  /\ call'[c].ride = call[c].ride
      BY <3>2, UnheardOK DEF Mounted
    <3>5. QED
      BY <3>1, <3>3, <3>4, GoneCalls
  <2>5. QED
    BY <2>1, <2>2, <2>3, <2>4
<1>4. QED
  BY <1>1, <1>2, <1>3 DEF TInv, TripScreenTypeOK, RidesTypeOK, RidesInv,
     CallsInv, DrivesStartedRides, serverVars, Phases

(* The buttons. *)
LEMMA TapKeepsTInv ==
  ASSUME TInv, NEW c \in Calls,
         \/ TapArrived(c) \/ TapStart(c) \/ TapComplete(c)
         \/ TapCancel(c) \/ TapNoShow(c) \/ ConfirmNoShow(c)
  PROVE  TInv'
<1>1. /\ UNCHANGED <<serverVars, screen, ride, phase, shown>>
      /\ screen = "trip" /\ arriving' \in BOOLEAN
  BY DEF TInv, TripScreenTypeOK, TapArrived, TapStart, TapComplete, TapCancel,
         TapNoShow, ConfirmNoShow, Send, SendFrom, screenVars
<1>2. PICK kind \in Kinds \ {"resolve"}, owner \in Mounted :
        /\ call' = [call EXCEPT ![c] = Call(kind, ride, owner)]
        /\ kind \in {"complete", "receipt"} => phase = "EN_ROUTE_DESTINATION"
  BY DEF TapArrived, TapStart, TapComplete, TapCancel, TapNoShow,
         ConfirmNoShow, Send, SendFrom, Kinds, Mounted
<1>3. kind \in {"complete", "receipt"} => ride \in started
  BY <1>1, <1>2 DEF TInv, DrivesStartedRides
<1>4. CallsInv'
  BY <1>1, <1>2, <1>3, SendKeepsCalls DEF TInv, TripScreenTypeOK, serverVars
<1>5. QED
  BY <1>1, <1>4 DEF TInv, TripScreenTypeOK, RidesTypeOK, RidesInv, CallsInv,
     DrivesStartedRides, serverVars

-----------------------------------------------------------------------------
(* The server. *)

LEMMA ServedKeepsTInv ==
  ASSUME TInv, NEW c \in Calls, NEW at \in {"yes", "no", "error"},
         Answer(c, at), UNCHANGED screenVars,
         RidesTypeOK', RidesInv',
         started \subseteq started', started' \subseteq Rides,
         receipt' \subseteq Rides,
         at = "yes" => /\ call[c].kind # "resolve"
                       /\ call[c].kind = "start" => call[c].ride \in started'
  PROVE  TInv'
<1>1. CallsInv'
  BY AnswerKeepsCalls DEF TInv, screenVars
<1>2. QED
  BY <1>1 DEF TInv, TripScreenTypeOK, CallsInv, DrivesStartedRides, screenVars

LEMMA SetKeepsRides ==
  ASSUME TInv, NEW r \in Rides, NEW s \in Active \cup Closed,
         SetRide(r, s, driver[r]), started \subseteq started',
         s = "IN_PROGRESS" => r \in started'
  PROVE  RidesTypeOK' /\ RidesInv'
BY DEF TInv, TripScreenTypeOK, RidesTypeOK, RidesInv, SetRide, Statuses,
       Active, Closed

LEMMA RefuseKeepsTInv ==
  ASSUME TInv, NEW c \in Calls, NEW at \in {"yes", "no", "error"},
         Refuse(c, at), UNCHANGED screenVars,
         at = "yes" => /\ call[c].kind # "resolve"
                       /\ call[c].kind = "start" => call[c].ride \in started
  PROVE  TInv'
<1>1. Answer(c, at) /\ UNCHANGED <<status, driver, started, receipt>>
  BY DEF Refuse, serverVars
<1>2. RidesTypeOK' /\ RidesInv'
  BY <1>1 DEF TInv, TripScreenTypeOK, RidesTypeOK, RidesInv
<1>3. /\ started \subseteq started' /\ started' \subseteq Rides
      /\ receipt' \subseteq Rides
  BY <1>1 DEF TInv, TripScreenTypeOK
<1>4. QED
  BY <1>1, <1>2, <1>3, ServedKeepsTInv

(* A call that moves a ride moves it with its driver. *)
LEMMA MoveKeepsTInv ==
  ASSUME TInv, NEW c \in Calls, NEW at \in {"yes", "no", "error"},
         Answer(c, at), UNCHANGED screenVars,
         NEW r \in Rides, NEW s \in Active \cup Closed,
         SetRide(r, s, driver[r]),
         started \subseteq started', started' \subseteq Rides,
         receipt' \subseteq Rides,
         s = "IN_PROGRESS" => r \in started',
         at = "yes" => /\ call[c].kind # "resolve"
                       /\ call[c].kind = "start" => call[c].ride \in started'
  PROVE  TInv'
<1>1. RidesTypeOK' /\ RidesInv'
  BY SetKeepsRides
<1>2. QED
  BY <1>1, ServedKeepsTInv

LEMMA ServeKeepsTInv ==
  ASSUME TInv, NEW c \in Calls, Serve(c)
  PROVE  TInv'
<1> DEFINE r == call[c].ride
<1>1. /\ started \subseteq Rides /\ receipt \subseteq Rides
      /\ call[c] \in CallRecord /\ r \in Rides \cup {NoRide}
  BY DEF TInv, TripScreenTypeOK, CallsInv, CallRecord
<1>2. CASE ServeArrive(c)
  <2>1. UNCHANGED screenVars /\ call[c].kind = "arrive"
    BY <1>2 DEF ServeArrive, Asks
  <2>2. CASE /\ r # NoRide /\ SetRide(r, "PICKUP", driver[r])
             /\ Answer(c, "yes") /\ UNCHANGED <<started, receipt>>
    BY <1>1, <2>1, <2>2, MoveKeepsTInv DEF Active
  <2>3. CASE Refuse(c, "no") \/ Refuse(c, "error")
    BY <2>1, <2>3, RefuseKeepsTInv
  <2>4. QED
    BY <1>2, <2>2, <2>3 DEF ServeArrive
<1>3. CASE ServeStart(c)
  <2>1. UNCHANGED screenVars /\ call[c].kind = "start"
    BY <1>3 DEF ServeStart, Asks
  <2>2. CASE Mine(c) /\ status[r] = "IN_PROGRESS" /\ Refuse(c, "yes")
    <3>1. r \in started
      BY <1>1, <2>2 DEF Mine, TInv, RidesInv
    <3>2. QED
      BY <2>1, <2>2, <3>1, RefuseKeepsTInv
  <2>3. CASE /\ Mine(c) /\ SetRide(r, "IN_PROGRESS", driver[r])
             /\ started' = started \cup {r} /\ Answer(c, "yes")
             /\ UNCHANGED receipt
    <3>1. r \in Rides
      BY <1>1, <2>3 DEF Mine
    <3>2. /\ started \subseteq started' /\ started' \subseteq Rides
          /\ receipt' \subseteq Rides /\ r \in started'
      BY <1>1, <2>3, <3>1
    <3>3. QED
      BY <2>1, <2>3, <3>1, <3>2, MoveKeepsTInv DEF Active
  <2>4. CASE Refuse(c, "error")
    BY <2>1, <2>4, RefuseKeepsTInv
  <2>5. QED
    BY <1>3, <2>2, <2>3, <2>4 DEF ServeStart
<1>4. CASE ServeComplete(c)
  <2>1. UNCHANGED screenVars /\ call[c].kind = "complete"
    BY <1>4 DEF ServeComplete, Asks
  <2>2. CASE /\ Mine(c) /\ SetRide(r, "COMPLETED", driver[r])
             /\ receipt' = receipt \cup {r} /\ Answer(c, "yes")
             /\ UNCHANGED started
    <3>1. r \in Rides /\ receipt' \subseteq Rides
      BY <1>1, <2>2 DEF Mine
    <3>2. QED
      BY <1>1, <2>1, <2>2, <3>1, MoveKeepsTInv DEF Closed
  <2>3. CASE Refuse(c, "yes") \/ Refuse(c, "error")
    BY <2>1, <2>3, RefuseKeepsTInv
  <2>4. QED
    BY <1>4, <2>2, <2>3 DEF ServeComplete
<1>5. CASE ServeReceipt(c)
  <2>1. /\ UNCHANGED screenVars /\ call[c].kind = "receipt"
        /\ Refuse(c, "yes") \/ Refuse(c, "error")
    BY <1>5 DEF ServeReceipt, Asks
  <2>2. QED
    BY <2>1, RefuseKeepsTInv
<1>6. CASE ServeCancel(c)
  <2>1. UNCHANGED screenVars /\ call[c].kind = "cancel"
    BY <1>6 DEF ServeCancel, Asks
  <2>2. CASE /\ Mine(c) /\ SetRide(r, "CANCELLED", driver[r])
             /\ Answer(c, "yes") /\ UNCHANGED <<started, receipt>>
    <3>1. r \in Rides
      BY <1>1, <2>2 DEF Mine
    <3>2. QED
      BY <1>1, <2>1, <2>2, <3>1, MoveKeepsTInv DEF Closed
  <2>3. CASE Refuse(c, "yes") \/ Refuse(c, "error")
    BY <2>1, <2>3, RefuseKeepsTInv
  <2>4. QED
    BY <1>6, <2>2, <2>3 DEF ServeCancel
<1>7. CASE ServeNoShow(c)
  <2>1. UNCHANGED screenVars /\ call[c].kind = "noShow"
    BY <1>7 DEF ServeNoShow, Asks
  <2>2. CASE /\ Mine(c) /\ SetRide(r, "CANCELLED", driver[r])
             /\ Answer(c, "yes") /\ UNCHANGED <<started, receipt>>
    <3>1. r \in Rides
      BY <1>1, <2>2 DEF Mine
    <3>2. QED
      BY <1>1, <2>1, <2>2, <3>1, MoveKeepsTInv DEF Closed
  <2>3. CASE Refuse(c, "error")
    BY <2>1, <2>3, RefuseKeepsTInv
  <2>4. QED
    BY <1>7, <2>2, <2>3 DEF ServeNoShow
<1>8. CASE ServeResolve(c)
  <2>1. UNCHANGED <<serverVars, screenVars>> /\ Asks(c, "resolve")
    BY <1>8 DEF ServeResolve
  <2>2. CASE Answer(c, "no")
    BY <2>1, <2>2, RefuseKeepsTInv DEF Refuse
  <2>3. ASSUME NEW q \in Rides,
               call' = [call EXCEPT ![c] =
                            IF @.owner = "none" THEN Idle
                            ELSE [@ EXCEPT !.at = "yes", !.ride = q]]
        PROVE  TInv'
    <3>1. PICK k : k = IF call[c].owner = "none" THEN Idle
                       ELSE [call[c] EXCEPT !.at = "yes", !.ride = q]
      OBVIOUS
    <3>2. call' = [call EXCEPT ![c] = k]
      BY <2>3, <3>1 DEF TInv, CallsInv
    <3>3. CASE call[c].owner = "none"
      <4>1. k = Idle
        BY <3>1, <3>3
      <4>2. CallOK(k)' /\ ~Resolving(k)
        BY <4>1, IdleOK DEF CallOK, Resolving
      <4>3. CallsInv'
        BY <2>1, <3>2, <4>2, UpdateCall DEF TInv, serverVars, screenVars
      <4>4. QED
        BY <2>1, <4>3 DEF TInv, TripScreenTypeOK, RidesTypeOK, RidesInv,
           CallsInv, DrivesStartedRides, serverVars, screenVars
    <3>4. CASE call[c].owner # "none"
      <4>2. k = [call[c] EXCEPT !.at = "yes", !.ride = q]
        BY <3>1, <3>4
      <4>3. /\ k \in CallRecord /\ k.at = "yes" /\ k.ride = q
            /\ k.kind = "resolve" /\ k.owner = call[c].owner
        BY <1>1, <2>1, <4>2 DEF CallRecord, Asks
      <4>4. CallOK(call[c]) /\ call[c].kind = "resolve"
        BY <2>1 DEF TInv, CallsInv, Asks
      <4>6. CallOK(k)'
        BY <2>1, <4>3, <4>4 DEF CallOK, serverVars, screenVars
      <4>7. Resolving(k) => Resolving(call[c])
        BY <4>3, <4>4 DEF Resolving
      <4>8. CallsInv'
        BY <2>1, <3>2, <4>6, <4>7, UpdateCall DEF TInv, serverVars, screenVars
      <4>9. QED
        BY <2>1, <4>8 DEF TInv, TripScreenTypeOK, RidesTypeOK, RidesInv,
           CallsInv, DrivesStartedRides, serverVars, screenVars
    <3>5. QED
      BY <3>3, <3>4
  <2>4. QED
    BY <1>8, <2>2, <2>3 DEF ServeResolve
<1>9. QED
  BY <1>2, <1>3, <1>4, <1>5, <1>6, <1>7, <1>8 DEF Serve

LEMMA LoseKeepsTInv ==
  ASSUME TInv, NEW c \in Calls, Lose(c)
  PROVE  TInv'
BY RefuseKeepsTInv DEF Lose, Refuse

-----------------------------------------------------------------------------
(* The answers. *)

LEMMA DeliverKeepsTInv ==
  ASSUME TInv, NEW c \in Calls, Deliver(c)
  PROVE  TInv'
<1>1. /\ CallsInv /\ CallOK(call[c]) /\ started \subseteq Rides
      /\ NoRide \notin started
  BY DEF TInv, CallsInv, TripScreenTypeOK
<1>2. CASE ArriveAnswered(c)
  <2>1. CallsInv'
    BY <1>2, DoneKeepsCalls DEF ArriveAnswered, TInv, serverVars
  <2>2. QED
    BY <1>2, <2>1 DEF ArriveAnswered, TInv, TripScreenTypeOK, RidesTypeOK,
       RidesInv, CallsInv, DrivesStartedRides, serverVars, Phases
<1>3. CASE StartAnswered(c)
  <2>1. CallsInv'
    BY <1>3, DoneKeepsCalls DEF StartAnswered, TInv, serverVars
  <2>2. call[c].at = "yes" => ride \in started
    BY <1>1, <1>3 DEF StartAnswered, Answered, CallOK
  <2>3. QED
    BY <1>3, <2>1, <2>2 DEF StartAnswered, TInv, TripScreenTypeOK, RidesTypeOK,
       RidesInv, CallsInv, DrivesStartedRides, serverVars, Phases
<1>4. CASE CompleteAnswered(c)
  <2>1. ride \in started /\ screen = "trip"
    BY <1>1, <1>4 DEF CompleteAnswered, Answered, CallOK
  <2>2. UNCHANGED <<serverVars, screen, ride, phase, shown>>
        /\ arriving' \in BOOLEAN
    BY <1>4 DEF CompleteAnswered, TInv, TripScreenTypeOK
  <2>3. CASE call[c].at = "yes"
    <3>1. call' = [call EXCEPT ![c] = Call("receipt", ride, "screen")]
      BY <1>4, <2>3 DEF CompleteAnswered
    <3>2. CallsInv'
      BY <2>1, <2>2, <3>1, SendKeepsCalls
         DEF TInv, TripScreenTypeOK, serverVars, Kinds, Mounted
    <3>3. QED
      BY <2>2, <3>2 DEF TInv, TripScreenTypeOK, RidesTypeOK, RidesInv,
         CallsInv, DrivesStartedRides, serverVars
  <2>4. CASE call[c].at # "yes"
    <3>1. CallsInv'
      BY <1>1, <1>4, <2>2, <2>4, DoneKeepsCalls
         DEF CompleteAnswered, serverVars
    <3>2. QED
      BY <2>2, <3>1 DEF TInv, TripScreenTypeOK, RidesTypeOK, RidesInv,
         CallsInv, DrivesStartedRides, serverVars
  <2>5. QED
    BY <2>3, <2>4
<1>5. CASE ReceiptAnswered(c)
  <2>1. CallsInv'
    BY <1>5, DoneKeepsCalls DEF ReceiptAnswered, TInv, serverVars
  <2>2. ride \in started
    BY <1>1, <1>5 DEF ReceiptAnswered, Answered, CallOK
  <2>3. QED
    BY <1>5, <2>1, <2>2 DEF ReceiptAnswered, TInv, TripScreenTypeOK,
       RidesTypeOK, RidesInv, CallsInv, DrivesStartedRides, serverVars, Phases
<1>6. CASE ResolveAnswered(c)
  <2>1. Resolving(call[c]) /\ ride = NoRide /\ screen = "trip"
    BY <1>1, <1>6 DEF ResolveAnswered, Answered, CallOK, Resolving
  <2>2. /\ UNCHANGED <<serverVars, screen, arriving, shown>>
        /\ call' = [call EXCEPT ![c] = Idle]
    BY <1>6 DEF ResolveAnswered, Done
  <2>3. \A e \in Calls : Resolving(call[e]) => e = c
    BY <1>1, <2>1 DEF CallsInv
  <2>4. ride' \in Rides \cup {NoRide}
    BY <1>1, <1>6 DEF ResolveAnswered, TInv, TripScreenTypeOK, CallOK,
       CallRecord
  <2>5. phase' \in Phases \ {"EN_ROUTE_DESTINATION", "ARRIVED_DESTINATION"}
    BY <1>1, <1>6, <2>1 DEF ResolveAnswered, TInv, TripScreenTypeOK,
       DrivesStartedRides
  <2>6. CallsInv'
    <3>1. call' \in [Calls -> CallRecord]
      BY <1>1, <2>2, IdleOK DEF CallsInv
    <3>2. ASSUME NEW e \in Calls PROVE CallOK(call[e])' /\ ~Resolving(call'[e])
      <4>1. CASE e = c
        BY <1>1, <2>2, <4>1, IdleOK DEF CallsInv, CallOK, Resolving
      <4>2. CASE e # c
        <5>1. /\ call'[e] = call[e] /\ CallOK(call[e])
              /\ ~Resolving(call[e])
          BY <1>1, <2>2, <2>3, <4>2 DEF CallsInv
        <5>2. (/\ call[e].owner = "screen"
               /\ call[e].kind \in {"start", "complete", "receipt"}) =>
                  call[e].ride = NoRide
          BY <2>1, <5>1 DEF CallOK
        <5>3. QED
          BY <2>2, <5>1, <5>2 DEF CallOK, Resolving, serverVars
      <4>3. QED
        BY <4>1, <4>2
    <3>3. QED
      BY <3>1, <3>2 DEF CallsInv, Resolving
  <2>7. QED
    BY <2>2, <2>4, <2>5, <2>6 DEF TInv, TripScreenTypeOK, RidesTypeOK,
       RidesInv, CallsInv, DrivesStartedRides, serverVars
<1>7. CASE CancelAnswered(c)
  <2>1. CASE call[c].at = "yes"
    <3>1. Fresh("home", NoRide) /\ UNCHANGED serverVars
          /\ call' = [Unmounted EXCEPT ![c] = Idle]
      BY <1>7, <2>1 DEF CancelAnswered
    <3>2. CallsInv'
      BY <1>1, <3>1, UnmountKeepsCalls DEF serverVars
    <3>3. QED
      BY <3>1, <3>2 DEF Fresh, TInv, TripScreenTypeOK, RidesTypeOK, RidesInv,
         CallsInv, DrivesStartedRides, serverVars, Phases
  <2>2. CASE call[c].at # "yes"
    <3>1. Done(c) /\ UNCHANGED <<serverVars, screenVars>>
      BY <1>7, <2>2 DEF CancelAnswered
    <3>2. CallsInv'
      BY <1>1, <3>1, DoneKeepsCalls DEF serverVars, screenVars
    <3>3. QED
      BY <3>1, <3>2 DEF TInv, TripScreenTypeOK, RidesTypeOK, RidesInv,
         CallsInv, DrivesStartedRides, serverVars, screenVars
  <2>3. QED
    BY <2>1, <2>2
<1>8. QED
  BY <1>2, <1>3, <1>4, <1>5, <1>6, <1>7 DEF Deliver

-----------------------------------------------------------------------------
LEMMA NextKeepsTInv == TInv /\ [Next]_vars => TInv'
<1> SUFFICES ASSUME TInv, [Next]_vars PROVE TInv'
  OBVIOUS
<1>1. ASSUME NEW r \in Rides,
             \/ Request(r) \/ CustomerCancel(r)
             \/ \E d \in Drivers : Accept(r, d)
      PROVE  TInv'
  BY <1>1, WorldKeepsTInv
<1>2. ASSUME NEW r \in Rides, OpenTrip(r) PROVE TInv'
  BY <1>2, ScreenKeepsTInv
<1>3. CASE Leave \/ Kill
  BY <1>3, ScreenKeepsTInv
<1>4. ASSUME NEW c \in Calls, Tap(c) PROVE TInv'
  <2>1. CASE OpenUnnamed(c)
    BY <2>1, ScreenKeepsTInv
  <2>2. CASE \/ TapArrived(c) \/ TapStart(c) \/ TapComplete(c)
             \/ TapCancel(c) \/ TapNoShow(c) \/ ConfirmNoShow(c)
    BY <2>2, TapKeepsTInv
  <2>3. QED
    BY <1>4, <2>1, <2>2 DEF Tap
<1>5. ASSUME NEW c \in Calls, Serve(c) PROVE TInv'
  BY <1>5, ServeKeepsTInv
<1>6. ASSUME NEW c \in Calls, Lose(c) PROVE TInv'
  BY <1>6, LoseKeepsTInv
<1>7. ASSUME NEW c \in Calls, Deliver(c) PROVE TInv'
  BY <1>7, DeliverKeepsTInv
<1>8. CASE UNCHANGED vars
  BY <1>8 DEF vars, TInv, TripScreenTypeOK, RidesTypeOK, RidesInv, CallsInv,
     CallOK, Resolving, DrivesStartedRides
<1>9. QED
  BY <1>1, <1>2, <1>3, <1>4, <1>5, <1>6, <1>7, <1>8 DEF Next

(* Spec keeps the inductive invariant. *)
LEMMA SpecTInv == Spec => []TInv
BY InitTInv, NextKeepsTInv, PTL DEF Spec

(***************************************************************************)
(* The screen and its calls keep their types (active-trip.tsx).            *)
(***************************************************************************)
THEOREM ScreenTypeCorrect == Spec => []TripScreenTypeOK
<1>1. TInv => TripScreenTypeOK
  BY DEF TInv
<1>2. QED
  BY <1>1, SpecTInv, PTL

(***************************************************************************)
(* The screen drives to the destination only with a ride the server has    *)
(* started (handleRideStartSuccess, the auto-resolve effect).              *)
(***************************************************************************)
THEOREM DrivesOnlyStarted == Spec => []DrivesStartedRides
<1>1. TInv => DrivesStartedRides
  BY DEF TInv
<1>2. QED
  BY <1>1, SpecTInv, PTL

-----------------------------------------------------------------------------
(* The refinement: every step of the app and its handlers is a step of the *)
(* ride's life, or leaves the ride alone.                                  *)

LEMMA InitIsLife == Init => Life!LifeInit
BY DEF Init, RidesInit, Life!LifeInit, Life!RidesInit

LEMMA NextIsLife == TInv /\ [Next]_vars => [Life!LifeNext]_(Life!lifeVars)
<1> SUFFICES ASSUME TInv, [Next]_vars
             PROVE  [Life!LifeNext]_(Life!lifeVars)
  OBVIOUS
<1> USE DEF Life!LifeNext, Life!RideMoves, Life!lifeVars, Life!SetRide,
            SetRide
<1>1. ASSUME NEW r \in Rides, Request(r) PROVE Life!Request(r)
  BY <1>1 DEF Request, Life!Request
<1>2. ASSUME NEW r \in Rides, CustomerCancel(r) PROVE Life!CustomerCancel(r)
  BY <1>2 DEF CustomerCancel, Life!CustomerCancel, Closed, Life!Closed
<1>3. ASSUME NEW r \in Rides, NEW d \in Drivers, Accept(r, d)
      PROVE  Life!Accept(r, d)
  BY <1>3 DEF Accept, Life!Accept, UniqueIndex, Life!UniqueIndex, Active,
     Life!Active
<1>4. CASE UNCHANGED <<status, driver, started>>
  BY <1>4
<1>5. ASSUME NEW c \in Calls, Serve(c)
      PROVE  [Life!LifeNext]_(Life!lifeVars)
  <2> DEFINE r == call[c].ride
  <2>1. CallOK(call[c]) /\ r \in Rides \cup {NoRide}
    BY DEF TInv, CallsInv, CallRecord
  <2>2. Mine(c) => r \in Rides /\ status[r] \in Active \cup Closed
    BY <2>1 DEF Mine, TInv, RidesInv
  <2>3. CASE ServeArrive(c)
    <3>1. CASE UNCHANGED serverVars
      BY <3>1 DEF serverVars
    <3>2. CASE ~UNCHANGED serverVars
      <4>1. r \in Rides /\ (Life!Arrive(r) \/ Life!ArriveUnassigned(r))
        BY <2>1, <2>3, <3>2 DEF ServeArrive, Refuse, Life!Arrive,
           Life!ArriveUnassigned, UniqueIndex, Life!UniqueIndex, Active,
           Life!Active
      <4>2. QED
        BY <4>1
    <3>3. QED
      BY <3>1, <3>2
  <2>4. CASE ServeStart(c)
    <3>1. CASE UNCHANGED serverVars
      BY <3>1 DEF serverVars
    <3>2. CASE ~UNCHANGED serverVars
      <4>1. r \in Rides /\ Life!Start(r)
        BY <2>2, <2>4, <3>2 DEF ServeStart, Refuse, Life!Start
      <4>2. QED
        BY <4>1
    <3>3. QED
      BY <3>1, <3>2
  <2>5. CASE ServeComplete(c)
    <3>1. CASE UNCHANGED serverVars
      BY <3>1 DEF serverVars
    <3>2. CASE ~UNCHANGED serverVars
      <4>1. r \in Rides /\ Life!Complete(r)
        BY <2>1, <2>2, <2>5, <3>2 DEF ServeComplete, Asks, CallOK, Refuse,
           Life!Complete
      <4>2. QED
        BY <4>1
    <3>3. QED
      BY <3>1, <3>2
  <2>6. CASE ServeCancel(c)
    <3>1. CASE UNCHANGED serverVars
      BY <3>1 DEF serverVars
    <3>2. CASE ~UNCHANGED serverVars
      <4>1. r \in Rides /\ Life!DriverCancel(r)
        BY <2>2, <2>6, <3>2 DEF ServeCancel, Refuse, Life!DriverCancel,
           Active, Closed
      <4>2. QED
        BY <4>1
    <3>3. QED
      BY <3>1, <3>2
  <2>7. CASE ServeNoShow(c)
    <3>1. CASE UNCHANGED serverVars
      BY <3>1 DEF serverVars
    <3>2. CASE ~UNCHANGED serverVars
      <4>1. r \in Rides /\ Life!DriverCancel(r)
        BY <2>2, <2>7, <3>2 DEF ServeNoShow, Refuse, Life!DriverCancel
      <4>2. QED
        BY <4>1
    <3>3. QED
      BY <3>1, <3>2
  <2>8. CASE ServeReceipt(c) \/ ServeResolve(c)
    BY <2>8 DEF ServeReceipt, ServeResolve, Refuse, serverVars
  <2>9. QED
    BY <1>5, <2>3, <2>4, <2>5, <2>6, <2>7, <2>8 DEF Serve
<1>6. ASSUME NEW r \in Rides, OpenTrip(r)
      PROVE  UNCHANGED <<status, driver, started>>
  BY <1>6 DEF OpenTrip, serverVars
<1>7. CASE Leave \/ Kill
  BY <1>7 DEF Leave, Kill, serverVars
<1>8. ASSUME NEW c \in Calls, Tap(c) \/ Lose(c)
      PROVE  UNCHANGED <<status, driver, started>>
  BY <1>8 DEF Tap, OpenUnnamed, TapArrived, TapStart, TapComplete, TapCancel,
     TapNoShow, ConfirmNoShow, Lose, serverVars
<1>9. ASSUME NEW c \in Calls, Deliver(c)
      PROVE  UNCHANGED <<status, driver, started>>
  BY <1>9 DEF Deliver, ArriveAnswered, StartAnswered, CompleteAnswered,
     ReceiptAnswered, ResolveAnswered, CancelAnswered, serverVars
<1>10. CASE UNCHANGED vars
  BY <1>10 DEF vars
<1>11. QED
  BY <1>1, <1>2, <1>3, <1>4, <1>5, <1>6, <1>7, <1>8, <1>9, <1>10 DEF Next

(***************************************************************************)
(* Whatever the driver taps, loses or restarts, the ride goes through      *)
(* RideLife (complete_ride, verify_and_start_ride and the other handlers). *)
(***************************************************************************)
THEOREM TripImplementsLife == Spec => ImplementsLife
<1>1. Spec => [][Life!LifeNext]_(Life!lifeVars)
  BY SpecTInv, NextIsLife, PTL DEF Spec
<1>2. QED
  BY <1>1, InitIsLife, PTL DEF Spec, ImplementsLife, Life!LifeSpec

-----------------------------------------------------------------------------
(* What RideLife promises, and so the app with its handlers keeps. *)

(* A ride under way or completed was started. *)
DrivenWasStarted ==
    \A r \in Rides : status[r] \in {"IN_PROGRESS", "COMPLETED"} => r \in started

(* A ride that was not accepted has no driver. *)
MatchingIsFree ==
    \A r \in Rides : status[r] \in {"NONE", "MATCHING"} => driver[r] = NoDriver

(* Nobody takes a ride over from its driver, whatever becomes of it. *)
KeepsDriver ==
    [][\A r \in Rides :
          driver[r] # NoDriver => driver'[r] = driver[r]]_(Life!lifeVars)

LInv == /\ Life!LifeTypeOK
        /\ OneActiveRidePerDriver /\ DrivenWasStarted /\ MatchingIsFree

(* Every move of a ride writes one row; only an acceptance writes another
   driver, and the index looks at whatever makes the row active. *)
LEMMA LifeMoves ==
  ASSUME LInv, NEW r \in Rides, Life!RideMoves(r)
  PROVE  \E s \in Statuses, d \in Drivers \cup {NoDriver} :
            /\ SetRide(r, s, d)
            /\ \/ s \notin Active
               \/ d = NoDriver
               \/ UniqueIndex(r, s, d)
               \/ d = driver[r] /\ status[r] \in Active
            /\ driver[r] # NoDriver => d = driver[r]
            /\ s \in {"IN_PROGRESS", "COMPLETED"} => r \in started'
            /\ s \in {"NONE", "MATCHING"} => d = NoDriver
            /\ started \subseteq started' /\ started' \subseteq Rides
<1>1. /\ driver[r] \in Drivers \cup {NoDriver} /\ started \subseteq Rides
      /\ status[r] \in {"NONE", "MATCHING"} => driver[r] = NoDriver
  BY DEF LInv, MatchingIsFree, Life!LifeTypeOK, Life!RidesTypeOK,
         Life!Statuses
<1> USE DEF Life!SetRide, SetRide, Life!UniqueIndex, UniqueIndex,
            Life!Active, Active, Statuses
<1>2. CASE Life!Request(r)
  BY <1>1, <1>2 DEF Life!Request
<1>3. CASE Life!Arrive(r)
  BY <1>1, <1>3 DEF Life!Arrive
<1>4. CASE Life!ArriveUnassigned(r)
  BY <1>1, <1>4 DEF Life!ArriveUnassigned
<1>5. CASE Life!Start(r)
  BY <1>1, <1>5 DEF Life!Start
<1>6. CASE Life!Complete(r)
  BY <1>1, <1>6 DEF Life!Complete
<1>7. CASE Life!DriverCancel(r)
  BY <1>1, <1>7 DEF Life!DriverCancel
<1>8. CASE Life!CustomerCancel(r)
  BY <1>1, <1>8 DEF Life!CustomerCancel
<1>9. ASSUME NEW d \in Drivers, Life!Accept(r, d)
      PROVE  \E s \in Statuses, e \in Drivers \cup {NoDriver} :
                /\ SetRide(r, s, e)
                /\ s = "ASSIGNED" /\ UniqueIndex(r, s, e)
                /\ driver[r] = NoDriver /\ started' = started
  BY <1>1, <1>9 DEF Life!Accept
<1>10. QED
  BY <1>1, <1>2, <1>3, <1>4, <1>5, <1>6, <1>7, <1>8, <1>9 DEF Life!RideMoves

LEMMA LifeKeepsLInv == LInv /\ [Life!LifeNext]_(Life!lifeVars) => LInv'
<1> SUFFICES ASSUME LInv, [Life!LifeNext]_(Life!lifeVars) PROVE LInv'
  OBVIOUS
<1> USE DEF LInv, Life!LifeTypeOK, Life!RidesTypeOK, Life!Statuses, Statuses
<1>1. CASE UNCHANGED <<status, driver, started>>
  BY <1>1 DEF OneActiveRidePerDriver, DrivenWasStarted, MatchingIsFree
<1>2. ASSUME NEW r \in Rides, Life!RideMoves(r) PROVE LInv'
  <2>1. PICK s \in Statuses, d \in Drivers \cup {NoDriver} :
          /\ SetRide(r, s, d)
          /\ \/ s \notin Active
             \/ d = NoDriver
             \/ UniqueIndex(r, s, d)
             \/ d = driver[r] /\ status[r] \in Active
          /\ driver[r] # NoDriver => d = driver[r]
          /\ s \in {"IN_PROGRESS", "COMPLETED"} => r \in started'
          /\ s \in {"NONE", "MATCHING"} => d = NoDriver
          /\ started \subseteq started' /\ started' \subseteq Rides
    BY <1>2, LifeMoves
  <2>2. Life!LifeTypeOK'
    BY <2>1 DEF SetRide
  <2>3. OneActiveRidePerDriver'
    BY <2>1 DEF SetRide, UniqueIndex, OneActiveRidePerDriver
  <2>4. DrivenWasStarted'
    BY <2>1 DEF SetRide, DrivenWasStarted
  <2>5. MatchingIsFree'
    BY <2>1 DEF SetRide, MatchingIsFree
  <2>6. QED
    BY <2>2, <2>3, <2>4, <2>5
<1>3. QED
  BY <1>1, <1>2 DEF Life!LifeNext, Life!lifeVars

LEMMA LifeInvariant == Life!LifeSpec => []LInv
<1>1. Life!LifeInit => LInv
  BY DEF Life!LifeInit, Life!RidesInit, LInv, Life!LifeTypeOK,
     Life!RidesTypeOK, Life!Statuses, OneActiveRidePerDriver,
     DrivenWasStarted, MatchingIsFree, Active
<1>2. QED
  BY <1>1, LifeKeepsLInv, PTL DEF Life!LifeSpec

(***************************************************************************)
(* RideLife makes no two rides active for one driver: an arrival report    *)
(* that reopens a closed ride is checked by the index like an assignment.  *)
(***************************************************************************)
THEOREM LifeKeepsOneActive == Life!LifeSpec => []OneActiveRidePerDriver
<1>1. LInv => OneActiveRidePerDriver
  BY DEF LInv
<1>2. QED
  BY <1>1, LifeInvariant, PTL

(***************************************************************************)
(* In RideLife a ride that has a driver keeps him: neither a cancellation  *)
(* nor an arrival report that reopens the ride gives it to another.        *)
(***************************************************************************)
THEOREM LifeKeepsDriver == Life!LifeSpec => KeepsDriver
<1>1. LInv /\ [Life!LifeNext]_(Life!lifeVars) =>
        [\A r \in Rides :
            driver[r] # NoDriver => driver'[r] = driver[r]]_(Life!lifeVars)
  <2> SUFFICES ASSUME LInv, NEW q \in Rides, Life!RideMoves(q),
                      NEW r \in Rides, driver[r] # NoDriver
               PROVE  driver'[r] = driver[r]
    BY DEF Life!LifeNext
  <2>1. PICK s \in Statuses, d \in Drivers \cup {NoDriver} :
          SetRide(q, s, d) /\ (driver[q] # NoDriver => d = driver[q])
    BY LifeMoves
  <2>2. QED
    BY <2>1 DEF SetRide, LInv, Life!LifeTypeOK, Life!RidesTypeOK
<1>2. QED
  BY <1>1, LifeInvariant, PTL DEF Life!LifeSpec, KeepsDriver

(***************************************************************************)
(* No order of taps, losses, restarts and late answers makes two rides     *)
(* active for one driver (verify_pickup_arrival and the other handlers):   *)
(* the trip screen implements RideLife.                                    *)
(***************************************************************************)
THEOREM TripKeepsOneActive == Spec => []OneActiveRidePerDriver
BY TripImplementsLife, LifeKeepsOneActive, PTL DEF ImplementsLife

(***************************************************************************)
(* Nor does it give a ride that has a driver to another one.               *)
(***************************************************************************)
THEOREM TripKeepsDriver == Spec => KeepsDriver
BY TripImplementsLife, LifeKeepsDriver, PTL DEF ImplementsLife

(***************************************************************************)
(* No ride is under way or completed that was never started, though the    *)
(* server's own complete_ride does not ask.                                *)
(***************************************************************************)
THEOREM TripDrivesStarted == Spec => []DrivenWasStarted
<1>1. LInv => DrivenWasStarted
  BY DEF LInv
<1>2. QED
  BY <1>1, TripImplementsLife, LifeInvariant, PTL DEF ImplementsLife

(* Only started rides are charged. *)
ChargedWasStarted == receipt \subseteq started

LEMMA ServeCharges ==
  ASSUME TInv, ChargedWasStarted, NEW c \in Calls, Serve(c)
  PROVE  ChargedWasStarted'
<1>1. CallOK(call[c])
  BY DEF TInv, CallsInv
<1>2. CASE ServeComplete(c)
  <2>1. call[c].ride \in started
    BY <1>1, <1>2 DEF ServeComplete, Asks, CallOK
  <2>2. QED
    BY <1>2, <2>1 DEF ServeComplete, Refuse, serverVars, ChargedWasStarted
<1>3. CASE ServeStart(c)
  BY <1>3 DEF ServeStart, Refuse, serverVars, ChargedWasStarted
<1>4. CASE ~ServeComplete(c) /\ ~ServeStart(c)
  <2>1. UNCHANGED <<started, receipt>>
    BY <1>4 DEF Serve, ServeArrive, ServeReceipt, ServeCancel, ServeNoShow,
       ServeResolve, Refuse, serverVars
  <2>2. QED
    BY <2>1 DEF ChargedWasStarted
<1>5. QED
  BY <1>2, <1>3, <1>4

LEMMA NextCharges == TInv /\ ChargedWasStarted /\ [Next]_vars => ChargedWasStarted'
<1> SUFFICES ASSUME TInv, ChargedWasStarted, [Next]_vars
             PROVE  ChargedWasStarted'
  OBVIOUS
<1>1. ASSUME NEW c \in Calls, Serve(c) PROVE ChargedWasStarted'
  BY <1>1, ServeCharges
<1>2. CASE UNCHANGED <<started, receipt>>
  BY <1>2 DEF ChargedWasStarted
<1>3. ASSUME NEW r \in Rides,
             \/ Request(r) \/ CustomerCancel(r) \/ OpenTrip(r)
             \/ \E d \in Drivers : Accept(r, d)
      PROVE  UNCHANGED <<started, receipt>>
  BY <1>3 DEF Request, CustomerCancel, OpenTrip, Accept, serverVars
<1>4. CASE Leave \/ Kill
  BY <1>2, <1>4 DEF Leave, Kill, serverVars
<1>5. ASSUME NEW c \in Calls, Tap(c) \/ Lose(c)
      PROVE  UNCHANGED <<started, receipt>>
  BY <1>5 DEF Tap, OpenUnnamed, TapArrived, TapStart, TapComplete, TapCancel,
     TapNoShow, ConfirmNoShow, Lose, serverVars
<1>6. ASSUME NEW c \in Calls, Deliver(c)
      PROVE  UNCHANGED <<started, receipt>>
  BY <1>6 DEF Deliver, ArriveAnswered, StartAnswered, CompleteAnswered,
     ReceiptAnswered, ResolveAnswered, CancelAnswered, serverVars
<1>7. CASE UNCHANGED vars
  BY <1>2, <1>7 DEF vars
<1>8. QED
  BY <1>1, <1>2, <1>3, <1>4, <1>5, <1>6, <1>7 DEF Next

(***************************************************************************)
(* A ride has a receipt only if its start was reported with the PIN, which *)
(* the completion itself does not look at: of the driver's app, only the   *)
(* phase of the screen stands before it (complete_ride).                   *)
(***************************************************************************)
THEOREM OnlyStartedCharged == Spec => []ChargedWasStarted
<1>1. Init => ChargedWasStarted
  BY DEF Init, ChargedWasStarted
<1>2. QED
  BY <1>1, NextCharges, SpecTInv, PTL DEF Spec

-----------------------------------------------------------------------------
(* No control of the screen sends twice. *)

OnScreen(k) == k.owner \in Mounted

(* The calls of one control of the screen: its panels have one for each kind,
   the no-show modal has its own. *)
SameControl(k, l) == k.owner = l.owner /\ k.kind = l.kind

(* The calls that go with the arriving flag. *)
Disabling(k) == OnScreen(k) /\ k.kind \in {"arrive", "complete", "receipt"}

OneCallPerControl ==
    \A c, e \in Calls :
        (OnScreen(call[c]) /\ SameControl(call[c], call[e])) => c = e

(* Of the modal's calls each is a no-show. *)
ModalReports ==
    \A c \in Calls : call[c].owner = "modal" => call[c].kind = "noShow"

DisabledByOne ==
    /\ arriving => \E c \in Calls : Disabling(call[c])
    /\ ~arriving => \A c \in Calls : ~Disabling(call[c])
    /\ \A c, e \in Calls : Disabling(call[c]) /\ Disabling(call[e]) => c = e

(* Nobody waits for a call that was not sent. *)
IdleUnheard ==
    \A c \in Calls : call[c].at = "idle" => ~OnScreen(call[c])

BInv == OneCallPerControl /\ ModalReports /\ DisabledByOne /\ IdleUnheard

(* One call changes: it is no new call, or the first of its kind, and the
   flag follows it. *)
LEMMA UpdateKeepsBInv ==
  ASSUME TInv, BInv, NEW c \in Calls, NEW k,
         call' = [call EXCEPT ![c] = k], k.at = "idle" => ~OnScreen(k),
         OnScreen(k) =>
            \/ OnScreen(call[c]) /\ SameControl(call[c], k)
            \/ \A e \in Calls \ {c} : ~SameControl(call[e], k),
         k.owner = "modal" => k.kind = "noShow",
         \/ (Disabling(k) <=> Disabling(call[c])) /\ arriving' = arriving
         \/ Disabling(call[c]) /\ ~Disabling(k) /\ arriving' = FALSE
         \/ ~arriving /\ Disabling(k) /\ arriving' = TRUE
  PROVE  BInv'
<1>1. call'[c] = k /\ \A e \in Calls \ {c} : call'[e] = call[e]
  BY DEF TInv, CallsInv
<1>2. OneCallPerControl' /\ ModalReports'
  BY <1>1 DEF BInv, OneCallPerControl, ModalReports, OnScreen, SameControl
<1>3. DisabledByOne'
  <2>1. CASE (Disabling(k) <=> Disabling(call[c])) /\ arriving' = arriving
    BY <1>1, <2>1 DEF BInv, DisabledByOne
  <2>2. CASE Disabling(call[c]) /\ ~Disabling(k) /\ arriving' = FALSE
    BY <1>1, <2>2 DEF BInv, DisabledByOne
  <2>3. CASE ~arriving /\ Disabling(k) /\ arriving' = TRUE
    BY <1>1, <2>3 DEF BInv, DisabledByOne
  <2>4. QED
    BY <2>1, <2>2, <2>3
<1>4. IdleUnheard'
  BY <1>1 DEF BInv, IdleUnheard
<1>5. QED
  BY <1>2, <1>3, <1>4 DEF BInv

LEMMA NoneKeepsBInv ==
  ASSUME arriving' = FALSE, \A c \in Calls : ~OnScreen(call'[c])
  PROVE  BInv'
BY DEF BInv, OneCallPerControl, ModalReports, DisabledByOne, IdleUnheard,
       Disabling, OnScreen, SameControl, Mounted

(* An answer leaves a call where it is or ends one nobody waits for. *)
LEMMA AnswerKeepsBInv ==
  ASSUME TInv, BInv, NEW c \in Calls, NEW at \in {"yes", "no", "error"},
         Answer(c, at), UNCHANGED arriving
  PROVE  BInv'
<1>1. PICK k : k = IF call[c].owner = "none" THEN Idle
                   ELSE [call[c] EXCEPT !.at = at]
  OBVIOUS
<1>2. call' = [call EXCEPT ![c] = k]
  BY <1>1 DEF Answer, TInv, CallsInv
<1>3. call[c] \in CallRecord
  BY DEF TInv, CallsInv
<1>4. \/ /\ k.owner = call[c].owner /\ k.kind = call[c].kind
         /\ k.at # "idle"
      \/ k.owner = "none" /\ call[c].owner = "none"
  BY <1>1, <1>3, IdleOK DEF CallRecord
<1>5. k.owner = "modal" => k.kind = "noShow"
  BY <1>4 DEF BInv, ModalReports
<1>6. QED
  BY <1>2, <1>4, <1>5, UpdateKeepsBInv DEF OnScreen, Disabling, SameControl,
     Mounted

LEMMA ServeKeepsBInv ==
  ASSUME TInv, BInv, NEW c \in Calls, Serve(c) \/ Lose(c)
  PROVE  BInv'
<1>1. UNCHANGED arriving
  BY DEF Serve, ServeArrive, ServeStart, ServeComplete, ServeReceipt,
     ServeCancel, ServeNoShow, ServeResolve, Lose, screenVars
<1>2. CASE \E at \in {"yes", "no", "error"} : Answer(c, at)
  BY <1>1, <1>2, AnswerKeepsBInv
<1>3. ASSUME NEW r \in Rides,
             call' = [call EXCEPT ![c] =
                          IF @.owner = "none" THEN Idle
                          ELSE [@ EXCEPT !.at = "yes", !.ride = r]]
      PROVE  BInv'
  <2>1. PICK k : k = IF call[c].owner = "none" THEN Idle
                     ELSE [call[c] EXCEPT !.at = "yes", !.ride = r]
    OBVIOUS
  <2>2. call' = [call EXCEPT ![c] = k]
    BY <1>3, <2>1 DEF TInv, CallsInv
  <2>3. call[c] \in CallRecord
    BY DEF TInv, CallsInv
  <2>4. \/ /\ k.owner = call[c].owner /\ k.kind = call[c].kind
           /\ k.at # "idle"
        \/ k.owner = "none" /\ call[c].owner = "none"
    BY <2>1, <2>3, IdleOK DEF CallRecord
  <2>5. k.owner = "modal" => k.kind = "noShow"
    BY <2>4 DEF BInv, ModalReports
  <2>6. QED
    BY <1>1, <2>2, <2>4, <2>5, UpdateKeepsBInv DEF OnScreen, Disabling,
       SameControl, Mounted
<1>4. CASE ServeResolve(c)
  BY <1>2, <1>3, <1>4 DEF ServeResolve
<1>5. CASE ~ServeResolve(c)
  <2>1. \E at \in {"yes", "no", "error"} : Answer(c, at)
    BY <1>5 DEF Serve, ServeArrive, ServeStart, ServeComplete, ServeReceipt,
       ServeCancel, ServeNoShow, Lose, Refuse
  <2>2. QED
    BY <1>2, <2>1
<1>6. QED
  BY <1>4, <1>5

(* A button sends the only call of its kind. *)
LEMMA TapKeepsBInv ==
  ASSUME TInv, BInv, NEW c \in Calls, Tap(c)
  PROVE  BInv'
<1>1. \A e \in Calls : call[e].owner = "screen" => screen = "trip"
  BY DEF TInv, CallsInv, CallOK
<1>2. CASE OpenUnnamed(c)
  <2>1. PICK k : k = Call("resolve", NoRide, "screen")
    OBVIOUS
  <2>2. /\ call' = [call EXCEPT ![c] = k] /\ arriving' = FALSE
        /\ k.kind = "resolve" /\ k.at = "sent" /\ k.owner = "screen"
        /\ \A e \in Calls : call[e].owner # "screen"
    BY <1>1, <1>2, <2>1 DEF OpenUnnamed, Fresh, Call
  <2>3. \A e \in Calls : ~Disabling(call[e])
    BY <2>2 DEF Disabling, OnScreen, Mounted, BInv, ModalReports
  <2>4. ~Disabling(k) /\ ~arriving
    BY <2>2, <2>3 DEF Disabling, BInv, DisabledByOne
  <2>5. \A e \in Calls : ~SameControl(call[e], k)
    BY <2>2 DEF SameControl
  <2>6. QED
    BY <2>2, <2>3, <2>4, <2>5, UpdateKeepsBInv DEF TInv, TripScreenTypeOK
<1>3. CASE TapArrived(c) \/ TapComplete(c)
  <2>1. PICK kind \in {"arrive", "complete"} :
            call' = [call EXCEPT ![c] = Call(kind, ride, "screen")]
    BY <1>3 DEF TapArrived, TapComplete, Send, SendFrom
  <2>2. ~arriving /\ arriving' = TRUE
    BY <1>3 DEF TapArrived, TapComplete
  <2>3. PICK k : k = Call(kind, ride, "screen")
    OBVIOUS
  <2>4. /\ k.kind = kind /\ k.at = "sent" /\ k.owner = "screen"
        /\ Disabling(k)
    BY <2>1, <2>3 DEF Call, Disabling, OnScreen, Mounted
  <2>5. \A e \in Calls : ~SameControl(call[e], k)
    BY <2>2, <2>4 DEF BInv, DisabledByOne, Disabling, OnScreen, SameControl
  <2>6. QED
    BY <2>1, <2>2, <2>3, <2>4, <2>5, UpdateKeepsBInv
<1>4. CASE TapStart(c) \/ TapCancel(c) \/ TapNoShow(c) \/ ConfirmNoShow(c)
  <2>1. PICK kind \in {"start", "cancel", "noShow"}, owner \in Mounted :
            /\ call' = [call EXCEPT ![c] = Call(kind, ride, owner)]
            /\ ~WaitingAt(owner, kind) /\ call[c].at = "idle"
            /\ owner = "modal" => kind = "noShow"
    BY <1>4 DEF TapStart, TapCancel, TapNoShow, ConfirmNoShow, Send, SendFrom,
                Waiting, Mounted
  <2>2. UNCHANGED arriving
    BY <1>4 DEF TapStart, TapCancel, TapNoShow, ConfirmNoShow, screenVars
  <2>3. PICK k : k = Call(kind, ride, owner)
    OBVIOUS
  <2>4. /\ k.kind = kind /\ k.at = "sent" /\ k.owner = owner
        /\ ~Disabling(k)
    BY <2>1, <2>3 DEF Call, Disabling
  <2>5. \A e \in Calls : ~SameControl(call[e], k)
    BY <2>1, <2>4 DEF WaitingAt, SameControl
  <2>6. ~Disabling(call[c])
    BY <2>1 DEF BInv, IdleUnheard, Disabling
  <2>7. QED
    BY <2>1, <2>2, <2>3, <2>4, <2>5, <2>6, UpdateKeepsBInv
<1>5. QED
  BY <1>2, <1>3, <1>4 DEF Tap

(* An answer ends its call; that of a completion becomes the receipt's. *)
LEMMA DoneKeepsBInv ==
  ASSUME TInv, BInv, NEW c \in Calls, Done(c),
         \/ ~Disabling(call[c]) /\ UNCHANGED arriving
         \/ Disabling(call[c]) /\ arriving' = FALSE
  PROVE  BInv'
BY IdleOK, UpdateKeepsBInv DEF Done, Disabling, OnScreen, Mounted

LEMMA DeliverKeepsBInv ==
  ASSUME TInv, BInv, NEW c \in Calls, Deliver(c)
  PROVE  BInv'
<1>1. CASE ArriveAnswered(c)
  BY <1>1, DoneKeepsBInv DEF ArriveAnswered, Answered, Disabling, OnScreen,
     Mounted
<1>2. CASE StartAnswered(c)
  BY <1>2, DoneKeepsBInv DEF StartAnswered, Answered, Disabling, OnScreen,
     Mounted
<1>3. CASE CompleteAnswered(c)
  <2>1. Disabling(call[c])
    BY <1>3 DEF CompleteAnswered, Answered, Disabling, OnScreen,
     Mounted
  <2>2. CASE call[c].at = "yes"
    <3>1. PICK k : k = Call("receipt", ride, "screen")
      OBVIOUS
    <3>2. call' = [call EXCEPT ![c] = k] /\ UNCHANGED arriving
      BY <1>3, <2>2, <3>1 DEF CompleteAnswered
    <3>3. /\ k.kind = "receipt" /\ k.at = "sent" /\ k.owner = "screen"
          /\ Disabling(k)
      BY <3>1 DEF Call, Disabling, OnScreen, Mounted
    <3>4. \A e \in Calls \ {c} : ~SameControl(call[e], k)
      BY <2>1, <3>3 DEF BInv, DisabledByOne, Disabling, OnScreen, SameControl
    <3>5. QED
      BY <2>1, <3>2, <3>3, <3>4, UpdateKeepsBInv
  <2>3. CASE call[c].at # "yes"
    BY <1>3, <2>1, <2>3, DoneKeepsBInv DEF CompleteAnswered
  <2>4. QED
    BY <2>2, <2>3
<1>4. CASE ReceiptAnswered(c)
  BY <1>4, DoneKeepsBInv DEF ReceiptAnswered, Answered, Disabling, OnScreen,
     Mounted
<1>5. CASE ResolveAnswered(c)
  BY <1>5, DoneKeepsBInv DEF ResolveAnswered, Answered, Disabling, OnScreen,
     Mounted
<1>6. CASE CancelAnswered(c)
  <2>1. CASE call[c].at = "yes"
    <3>1. arriving' = FALSE /\ call' = [Unmounted EXCEPT ![c] = Idle]
      BY <1>6, <2>1 DEF CancelAnswered, Fresh
    <3>2. \A e \in Calls : call'[e] = Idle \/ call'[e] = Unmounted[e]
      BY <3>1 DEF Unmounted
    <3>3. QED
      BY <3>1, <3>2, IdleOK, UnmountedOK, NoneKeepsBInv
         DEF TInv, OnScreen, Mounted
  <2>2. CASE call[c].at # "yes"
    <3>1. Done(c) /\ UNCHANGED arriving /\ ~Disabling(call[c])
      BY <1>6, <2>2 DEF CancelAnswered, screenVars, Disabling
    <3>2. QED
      BY <3>1, DoneKeepsBInv
  <2>3. QED
    BY <2>1, <2>2
<1>7. QED
  BY <1>1, <1>2, <1>3, <1>4, <1>5, <1>6 DEF Deliver

LEMMA NextKeepsBInv == TInv /\ BInv /\ [Next]_vars => BInv'
<1> SUFFICES ASSUME TInv, BInv, [Next]_vars PROVE BInv'
  OBVIOUS
<1>1. ASSUME NEW c \in Calls, Tap(c) PROVE BInv'
  BY <1>1, TapKeepsBInv
<1>2. ASSUME NEW c \in Calls, Serve(c) \/ Lose(c) PROVE BInv'
  BY <1>2, ServeKeepsBInv
<1>3. ASSUME NEW c \in Calls, Deliver(c) PROVE BInv'
  BY <1>3, DeliverKeepsBInv
<1>4. CASE Leave \/ \E r \in Rides : OpenTrip(r)
  <2>1. arriving' = FALSE /\ call' = Unmounted
    BY <1>4 DEF Leave, OpenTrip, Fresh
  <2>2. QED
    BY <2>1, UnmountedOK, NoneKeepsBInv DEF TInv, OnScreen
<1>5. CASE Kill
  <2>1. arriving' = FALSE /\ \A c \in Calls : call'[c] = Unheard(call[c])
    BY <1>5 DEF Kill, Fresh
  <2>2. \A c \in Calls : call[c] \in CallRecord
    BY DEF TInv, CallsInv
  <2>3. QED
    BY <2>1, <2>2, UnheardOK, NoneKeepsBInv DEF OnScreen
<1>6. CASE UNCHANGED <<arriving, call>>
  BY <1>6 DEF BInv, OneCallPerControl, ModalReports, DisabledByOne, IdleUnheard
<1>7. ASSUME NEW r \in Rides,
             \/ Request(r) \/ CustomerCancel(r)
             \/ \E d \in Drivers : Accept(r, d)
      PROVE  UNCHANGED <<arriving, call>>
  BY <1>7 DEF Request, CustomerCancel, Accept, screenVars
<1>8. CASE UNCHANGED vars
  BY <1>6, <1>8 DEF vars
<1>9. QED
  BY <1>1, <1>2, <1>3, <1>4, <1>5, <1>6, <1>7, <1>8 DEF Next

LEMMA SpecBInv == Spec => []BInv
<1>1. Init => BInv
  BY IdleOK DEF Init, BInv, OneCallPerControl, ModalReports, DisabledByOne,
     IdleUnheard, Disabling, OnScreen, Mounted
<1>2. QED
  BY <1>1, NextKeepsBInv, SpecTInv, PTL DEF Spec

(***************************************************************************)
(* No control of the screen waits for two calls: no order of taps, answers *)
(* and remounts arrives, starts, completes or cancels twice from one       *)
(* screen (arriving in active-trip.tsx, submitting in its panels).  A      *)
(* no-show has two controls, and the card and the modal may each report    *)
(* one: neither looks at the flag of the other.                            *)
(***************************************************************************)
THEOREM NoControlSendsTwice == Spec => []OneCallPerControl
<1>1. BInv => OneCallPerControl
  BY DEF BInv
<1>2. QED
  BY <1>1, SpecBInv, PTL

(* The screen waits for two calls of one kind. *)
TwoOfAKind(kind) ==
    \E c, e \in Calls : /\ c # e /\ OnScreen(call[c]) /\ OnScreen(call[e])
                        /\ call[c].kind = kind /\ call[e].kind = kind

OnlyNoShowsTwice == \A kind \in Kinds \ {"noShow"} : ~TwoOfAKind(kind)

(***************************************************************************)
(* So only no-shows are ever sent twice from one screen, and then one call *)
(* is the waiting card's and the other the modal's                         *)
(* (handleNoShowConfirm, handleConfirmNoShow).                             *)
(***************************************************************************)
THEOREM OnlyNoShowsSentTwice == Spec => []OnlyNoShowsTwice
<1>1. BInv => OnlyNoShowsTwice
  <2> SUFFICES ASSUME BInv, NEW kind \in Kinds \ {"noShow"},
                      NEW c \in Calls, NEW e \in Calls, c # e,
                      OnScreen(call[c]), OnScreen(call[e]),
                      call[c].kind = kind, call[e].kind = kind
               PROVE  FALSE
    BY DEF OnlyNoShowsTwice, TwoOfAKind
  <2>1. call[c].owner = "screen" /\ call[e].owner = "screen"
    BY DEF BInv, ModalReports, OnScreen, Mounted
  <2>2. QED
    BY <2>1 DEF BInv, OneCallPerControl, SameControl
<1>2. QED
  BY <1>1, SpecBInv, PTL

(***************************************************************************)
(* The buttons are disabled exactly while one arrival, completion or       *)
(* receipt is under way: of ButtonsComeBack, which adds that calls end,    *)
(* this is what the code must get right (every handler's finally).         *)
(***************************************************************************)
THEOREM DisabledWhileAsking == Spec => []DisabledByOne
<1>1. BInv => DisabledByOne
  BY DEF BInv
<1>2. QED
  BY <1>1, SpecBInv, PTL
=============================================================================
