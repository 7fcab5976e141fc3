------------------------- MODULE CustomerRideProofs -------------------------
(***************************************************************************)
(* What the customer's screens show, for any number of rides, drivers,     *)
(* reads and events under way together.                                    *)
(***************************************************************************)
EXTENDS CustomerRide, SequenceTheorems, TLAPS

(* A ride under way or completed was started. *)
DrivenInv ==
    \A r \in Rides : status[r] \in {"IN_PROGRESS", "COMPLETED"} => r \in started

(* A read that saw such a ride saw the tracked one. *)
ReadsInv ==
    \A f \in Fetches :
        fetch[f].saw \in {"IN_PROGRESS", "COMPLETED"} => tracked \in started

(* An event that tells of a start follows one. *)
WireInv == \A i \in 1..Len(wire) : wire[i] = "started" => started # {}

StageInv == stage = "COMPLETED" => tracked \in started

CInv == CustomerTypeOK /\ DrivenInv /\ ReadsInv /\ WireInv /\ StageInv

USE NoDriverAssumption, NoRideAssumption

-----------------------------------------------------------------------------
(* The life of the rides. *)

LEMMA LifeKeeps ==
  ASSUME LifeTypeOK, DrivenInv, NEW r \in Rides,
         \/ Request(r) \/ Arrive(r) \/ Start(r) \/ Complete(r)
         \/ DriverCancel(r) \/ CustomerCancel(r)
         \/ \E d \in Drivers : Accept(r, d)
  PROVE  LifeTypeOK' /\ DrivenInv' /\ started \subseteq started'
<1> USE DEF LifeTypeOK, RidesTypeOK, DrivenInv, SetRide, Statuses
<1>1. CASE Request(r)
  BY <1>1 DEF Request
<1>2. CASE Arrive(r)
  BY <1>2 DEF Arrive
<1>3. CASE Start(r)
  BY <1>3 DEF Start
<1>4. CASE Complete(r)
  BY <1>4 DEF Complete
<1>5. CASE DriverCancel(r)
  BY <1>5 DEF DriverCancel
<1>6. CASE CustomerCancel(r)
  BY <1>6 DEF CustomerCancel
<1>7. ASSUME NEW d \in Drivers, Accept(r, d)
      PROVE  LifeTypeOK' /\ DrivenInv' /\ started \subseteq started'
  BY <1>7 DEF Accept
<1>8. QED
  BY <1>1, <1>2, <1>3, <1>4, <1>5, <1>6, <1>7

(* The parts of the type that are not the rides'. *)
AppTypeOK ==
    /\ page \in {"home", "matching", "track"}
    /\ tracked \in Rides \cup {NoRide}
    /\ stage \in {"ASSIGNED", "IN_PROGRESS", "COMPLETED"}
    /\ fetch \in [Fetches -> FetchRecord]

SocketTypeOK ==
    /\ accepted \in BOOLEAN
    /\ socket \in {"down", "up", "joined"}
    /\ wire \in Seq(Events)

LEMMA TypeParts ==
  CustomerTypeOK <=>
     LifeTypeOK /\ AppTypeOK /\ SocketTypeOK /\ cancel \in Cancelling
BY DEF CustomerTypeOK, AppTypeOK, SocketTypeOK

LEMMA EmptyWire == <<>> \in Seq(Events) /\ Len(<<>>) = 0
BY EmptySeq

LEMMA ReadRecords ==
  /\ NotAsked \in FetchRecord /\ NotAsked.saw = "NONE"
  /\ Asked \in FetchRecord /\ Asked.saw = "NONE"
BY DEF NotAsked, Asked, FetchRecord, Statuses

(* The rides move and the app does not. *)
LEMMA LifeKeepsCInv ==
  ASSUME CInv, LifeTypeOK', DrivenInv', started \subseteq started',
         UNCHANGED <<appVars, accepted, socket>>,
         cancel' \in Cancelling, SocketTypeOK', WireInv'
  PROVE  CInv'
BY DEF CInv, CustomerTypeOK, SocketTypeOK, ReadsInv, StageInv, appVars

LEMMA LifeKeepsWire ==
  ASSUME CInv, started \subseteq started', UNCHANGED socketVars
  PROVE  SocketTypeOK' /\ WireInv'
BY DEF CInv, CustomerTypeOK, SocketTypeOK, WireInv, socketVars

(* What the server publishes of a start comes after it. *)
LEMMA PublishKeepsWire ==
  ASSUME CInv, started \subseteq started', NEW events \in Seq(Events),
         Publish(events),
         \A i \in 1..Len(events) : events[i] = "started" => started' # {}
  PROVE  SocketTypeOK' /\ WireInv'
<1>1. wire \in Seq(Events) /\ UNCHANGED <<accepted, socket>>
  BY DEF CInv, CustomerTypeOK, Publish
<1>2. wire' \in Seq(Events)
  BY <1>1, ConcatProperties DEF Publish
<1>3. ASSUME NEW i \in 1..Len(wire'), wire'[i] = "started"
      PROVE  started' # {}
  <2>1. CASE wire' = wire
    BY <1>3, <2>1 DEF CInv, WireInv
  <2>2. CASE wire' = wire \o events
    <3>1. CASE i <= Len(wire)
      BY <1>1, <1>3, <2>2, <3>1, ConcatProperties DEF CInv, WireInv
    <3>2. CASE i > Len(wire)
      <4>1. i - Len(wire) \in 1..Len(events)
            /\ wire'[i] = events[i - Len(wire)]
        BY <1>1, <1>3, <2>2, <3>2, ConcatProperties
      <4>2. QED
        BY <1>3, <4>1
    <3>3. QED
      BY <1>1, <1>3, <3>1, <3>2
  <2>3. QED
    BY <2>1, <2>2 DEF Publish
<1>4. QED
  BY <1>1, <1>2, <1>3 DEF CInv, CustomerTypeOK, SocketTypeOK, WireInv

-----------------------------------------------------------------------------
LEMMA InitCInv == Init => CInv
<1> SUFFICES ASSUME Init PROVE CInv
  OBVIOUS
<1>1. LifeTypeOK /\ DrivenInv
  BY DEF Init, LifeInit, RidesInit, LifeTypeOK, RidesTypeOK, DrivenInv, Statuses
<1>2. fetch \in [Fetches -> FetchRecord] /\ ReadsInv
  BY ReadRecords DEF Init, ReadsInv
<1>3. wire \in Seq(Events) /\ WireInv
  BY EmptyWire DEF Init, WireInv
<1>4. cancel \in Cancelling
  BY DEF Init, NoCancel, Cancelling
<1>5. QED
  BY <1>1, <1>2, <1>3, <1>4 DEF Init, CInv, CustomerTypeOK, StageInv

LEMMA DriverKeepsCInv ==
  ASSUME CInv, NEW r \in Rides, DriverMoves(r)
  PROVE  CInv'
<1>1. LifeTypeOK /\ DrivenInv /\ cancel \in Cancelling
  BY DEF CInv, CustomerTypeOK
<1>2. UNCHANGED <<appVars, cancel>>
  BY DEF DriverMoves
<1>3. LifeTypeOK' /\ DrivenInv' /\ started \subseteq started'
  BY <1>1, LifeKeeps DEF DriverMoves
<1>4. UNCHANGED <<accepted, socket>> /\ SocketTypeOK' /\ WireInv'
  <2>1. CASE Publish(<<"accepted", "accepted">>)
    <3>1. <<"accepted", "accepted">> \in Seq(Events)
          /\ \A i \in 1..Len(<<"accepted", "accepted">>) :
                 <<"accepted", "accepted">>[i] # "started"
      BY DEF Events
    <3>2. QED
      BY <1>3, <2>1, <3>1, PublishKeepsWire DEF Publish
  <2>2. CASE Start(r) /\ Publish(<<"started">>)
    <3>1. <<"started">> \in Seq(Events) /\ started' # {}
      BY <2>2 DEF Events, Start
    <3>2. QED
      BY <1>3, <2>2, <3>1, PublishKeepsWire DEF Publish
  <2>3. CASE Publish(<<>>)
    <3>1. PICK events \in Seq(Events) : events = <<>> /\ Len(events) = 0
      BY EmptyWire
    <3>2. Publish(events) /\ UNCHANGED <<accepted, socket>>
      BY <2>3, <3>1 DEF Publish
    <3>3. \A i \in 1..Len(events) : events[i] = "started" => started' # {}
      BY <3>1
    <3>4. QED
      BY <1>3, <3>2, <3>3, PublishKeepsWire
  <2>4. QED
    BY <2>1, <2>2, <2>3 DEF DriverMoves
<1>5. QED
  BY <1>1, <1>2, <1>3, <1>4, LifeKeepsCInv

-----------------------------------------------------------------------------
(* Reads. *)

LEMMA ReadsKeepCInv ==
  ASSUME CInv, NEW f \in Fetches,
         ServeFetch(f) \/ FailFetch(f) \/ ApplyFetch(f)
  PROVE  CInv'
<1>1. /\ UNCHANGED <<lifeVars, page, tracked, socketVars, cancel>>
      /\ fetch \in [Fetches -> FetchRecord] /\ LifeTypeOK
  BY DEF ServeFetch, FailFetch, ApplyFetch, CInv, CustomerTypeOK
<1>2. CASE ServeFetch(f) \/ FailFetch(f)
  <2>1. PICK k \in FetchRecord :
          /\ fetch' = [fetch EXCEPT ![f] = k]
          /\ k.saw \in {"IN_PROGRESS", "COMPLETED"} => tracked \in started
    <3>1. CASE ServeFetch(f)
      <4>1. tracked \in Rides /\ status[tracked] \in Statuses
        BY <3>1 DEF ServeFetch, CInv, CustomerTypeOK, LifeTypeOK, RidesTypeOK
      <4>2. [at |-> "read", saw |-> status[tracked]] \in FetchRecord
        BY <4>1 DEF FetchRecord
      <4>3. QED
        BY <3>1, <4>1, <4>2 DEF ServeFetch, CInv, DrivenInv
    <3>2. CASE FailFetch(f)
      <4>1. [at |-> "failed", saw |-> "NONE"] \in FetchRecord
        BY DEF FetchRecord, Statuses
      <4>2. QED
        BY <3>2, <4>1 DEF FailFetch
    <3>3. QED
      BY <1>2, <3>1, <3>2
  <2>2. UNCHANGED stage
    BY <1>2 DEF ServeFetch, FailFetch
  <2>3. fetch' \in [Fetches -> FetchRecord] /\ ReadsInv'
    BY <1>1, <2>1 DEF CInv, ReadsInv, lifeVars
  <2>4. QED
    BY <1>1, <2>2, <2>3 DEF CInv, CustomerTypeOK, LifeTypeOK, RidesTypeOK,
       DrivenInv, WireInv, StageInv, lifeVars, socketVars
<1>3. CASE ApplyFetch(f)
  <2>1. fetch' = [fetch EXCEPT ![f] = NotAsked]
        /\ stage' = StageOf(fetch[f].saw)
    BY <1>3 DEF ApplyFetch
  <2>2. fetch' \in [Fetches -> FetchRecord] /\ ReadsInv'
    BY <1>1, <2>1, ReadRecords DEF CInv, ReadsInv, lifeVars
  <2>3. stage' \in {"ASSIGNED", "IN_PROGRESS", "COMPLETED"} /\ StageInv'
    BY <1>1, <2>1 DEF CInv, CustomerTypeOK, ReadsInv, StageInv, StageOf,
       lifeVars
  <2>4. QED
    BY <1>1, <2>2, <2>3 DEF CInv, CustomerTypeOK, LifeTypeOK, RidesTypeOK,
       DrivenInv, WireInv, lifeVars, socketVars
<1>4. QED
  BY <1>2, <1>3

-----------------------------------------------------------------------------
(* Screens. *)

(* A screen that opens begins at ASSIGNED, with at most a read it asked for. *)
LEMMA OpenedKeepsCInv ==
  ASSUME CInv, NEW where \in {"home", "matching", "track"},
         NEW q \in Rides \cup {NoRide}, Show(where, q),
         fetch' = Nothing \/ \E f \in Fetches : fetch' = [Nothing EXCEPT ![f] = Asked],
         LifeTypeOK', DrivenInv', started \subseteq started',
         SocketTypeOK', WireInv', cancel' \in Cancelling
  PROVE  CInv'
<1>1. fetch' \in [Fetches -> FetchRecord]
      /\ \A f \in Fetches : fetch'[f].saw = "NONE"
  BY ReadRecords DEF Nothing
<1>2. QED
  BY <1>1 DEF CInv, CustomerTypeOK, SocketTypeOK, ReadsInv, StageInv, Show

LEMMA ScreensKeepCInv ==
  ASSUME CInv,
         \/ \E r \in Rides : Book(r) \/ Prefer(r)
         \/ OpenTrack \/ Back \/ AskCancel \/ ServeCancel \/ CancelDone \/ Kill
  PROVE  CInv'
<1>1. LifeTypeOK /\ DrivenInv /\ cancel \in Cancelling
      /\ tracked \in Rides \cup {NoRide}
  BY DEF CInv, CustomerTypeOK
<1>2. ASSUME UNCHANGED lifeVars
      PROVE  LifeTypeOK' /\ DrivenInv' /\ started \subseteq started'
  BY <1>1, <1>2 DEF LifeTypeOK, RidesTypeOK, DrivenInv, lifeVars
<1>3. ASSUME NEW r \in Rides, Book(r) PROVE CInv'
  <2>1. LifeTypeOK' /\ DrivenInv' /\ started \subseteq started'
    BY <1>1, <1>2, <1>3, LifeKeeps DEF Book
  <2>2. SocketTypeOK' /\ WireInv'
    BY <1>3, <2>1, LifeKeepsWire DEF Book
  <2>3. PICK q \in {r, NoRide} : Show("matching", q)
    BY <1>3 DEF Book
  <2>4. fetch' = Nothing /\ cancel' \in Cancelling
    BY <1>1, <1>3 DEF Book
  <2>5. QED
    BY <2>1, <2>2, <2>3, <2>4, OpenedKeepsCInv
<1>4. ASSUME NEW r \in Rides, Prefer(r) PROVE CInv'
  <2>1. LifeTypeOK' /\ DrivenInv' /\ started \subseteq started'
    BY <1>1, <1>4, LifeKeeps DEF Prefer
  <2>2. SocketTypeOK' /\ WireInv'
    BY <1>4, <2>1, LifeKeepsWire DEF Prefer
  <2>3. UNCHANGED <<appVars, accepted, socket>> /\ cancel' \in Cancelling
    BY <1>1, <1>4 DEF Prefer, socketVars
  <2>4. QED
    BY <2>1, <2>2, <2>3, LifeKeepsCInv
<1>5. CASE OpenTrack
  <2>1. LifeTypeOK' /\ DrivenInv' /\ started \subseteq started'
    BY <1>2, <1>5 DEF OpenTrack
  <2>2. SocketTypeOK' /\ WireInv' /\ cancel' \in Cancelling
    BY <1>1, <1>5 DEF OpenTrack, CInv, CustomerTypeOK, SocketTypeOK, WireInv,
       lifeVars
  <2>3. Show("track", tracked)
        /\ \E f \in Fetches : fetch' = [Nothing EXCEPT ![f] = Asked]
    BY <1>5 DEF OpenTrack, FirstRead
  <2>4. QED
    BY <1>1, <2>1, <2>2, <2>3, OpenedKeepsCInv
<1>6. CASE Back \/ CancelDone
  <2>1. GoHome /\ UNCHANGED <<lifeVars, socketVars>>
    BY <1>6 DEF Back, CancelDone
  <2>2. LifeTypeOK' /\ DrivenInv' /\ started \subseteq started'
    BY <1>2, <2>1
  <2>3. SocketTypeOK' /\ WireInv'
    BY <2>1, <2>2, LifeKeepsWire
  <2>4. cancel' \in Cancelling
    BY <1>1, <1>6 DEF Back, CancelDone, NoCancel, Cancelling
  <2>5. Show("home", NoRide) /\ fetch' = Nothing
    BY <2>1 DEF GoHome
  <2>6. QED
    BY <2>2, <2>3, <2>4, <2>5, OpenedKeepsCInv
<1>7. CASE AskCancel
  <2>1. LifeTypeOK' /\ DrivenInv' /\ started \subseteq started'
    BY <1>2, <1>7 DEF AskCancel
  <2>2. SocketTypeOK' /\ WireInv'
    BY <1>7, <2>1, LifeKeepsWire DEF AskCancel
  <2>3. UNCHANGED <<appVars, accepted, socket>> /\ cancel' \in Cancelling
    BY <1>1, <1>7 DEF AskCancel, socketVars, Cancelling
  <2>4. QED
    BY <2>1, <2>2, <2>3, LifeKeepsCInv
<1>8. CASE ServeCancel
  <2>1. LifeTypeOK' /\ DrivenInv' /\ started \subseteq started'
    <3>1. CASE UNCHANGED lifeVars
      BY <1>2, <3>1
    <3>2. CASE cancel.ride # NoRide /\ CustomerCancel(cancel.ride)
      <4>1. cancel.ride \in Rides
        BY <1>1, <3>2 DEF Cancelling
      <4>2. QED
        BY <1>1, <3>2, <4>1, LifeKeeps
    <3>3. QED
      BY <1>8, <3>1, <3>2 DEF ServeCancel
  <2>2. SocketTypeOK' /\ WireInv'
    BY <1>8, <2>1, LifeKeepsWire DEF ServeCancel
  <2>3. UNCHANGED <<appVars, accepted, socket>> /\ cancel' \in Cancelling
    BY <1>1, <1>8 DEF ServeCancel, socketVars, Cancelling
  <2>4. QED
    BY <2>1, <2>2, <2>3, LifeKeepsCInv
<1>9. CASE Kill
  <2>1. LifeTypeOK' /\ DrivenInv' /\ started \subseteq started'
    BY <1>2, <1>9 DEF Kill
  <2>2. SocketTypeOK' /\ WireInv' /\ cancel' \in Cancelling
    <3>1. accepted' = FALSE /\ socket' = "down" /\ wire' = <<>>
          /\ cancel' = NoCancel
      BY <1>9 DEF Kill
    <3>2. accepted' \in BOOLEAN
      BY <3>1
    <3>3. wire' \in Seq(Events) /\ Len(wire') = 0
      BY <3>1, EmptyWire
    <3>4. QED
      BY <3>1, <3>2, <3>3 DEF SocketTypeOK, WireInv, NoCancel, Cancelling
  <2>3. Show("home", NoRide) /\ fetch' = Nothing
    BY <1>9 DEF Kill, GoHome
  <2>4. QED
    BY <2>1, <2>2, <2>3, OpenedKeepsCInv
<1>10. QED
  BY <1>3, <1>4, <1>5, <1>6, <1>7, <1>8, <1>9

-----------------------------------------------------------------------------
(* The socket. *)

LEMMA SocketKeepsCInv ==
  ASSUME CInv, Connect \/ Join \/ Disconnect \/ Hear
  PROVE  CInv'
<1>1. /\ UNCHANGED <<lifeVars, page, tracked, cancel>>
      /\ fetch \in [Fetches -> FetchRecord]
  BY DEF Connect, Join, Disconnect, Hear, appVars, CInv, CustomerTypeOK
<1>2. LifeTypeOK' /\ DrivenInv'
  BY <1>1 DEF CInv, CustomerTypeOK, LifeTypeOK, RidesTypeOK, DrivenInv, lifeVars
<1>3. CASE Connect
  <2>1. UNCHANGED <<stage, accepted, wire>> /\ socket' = "up"
    BY <1>3 DEF Connect
  <2>2. \A f \in Fetches :
           fetch'[f] = fetch[f] \/ fetch'[f] \in {Asked, NotAsked}
    BY <1>3 DEF Connect, Forgotten
  <2>3. fetch' \in [Fetches -> FetchRecord]
    <3>1. CASE UNCHANGED fetch
      BY <1>1, <3>1
    <3>2. ASSUME NEW f \in Fetches,
                 fetch' = [g \in Fetches |->
                             IF g = f THEN Asked ELSE Forgotten(g)]
          PROVE  fetch' \in [Fetches -> FetchRecord]
      BY <1>1, <3>2, ReadRecords DEF Forgotten
    <3>3. QED
      BY <1>3, <3>1, <3>2 DEF Connect
  <2>4. ReadsInv'
    BY <1>1, <2>2, ReadRecords DEF CInv, ReadsInv, lifeVars
  <2>5. QED
    BY <1>1, <1>2, <2>1, <2>3, <2>4 DEF CInv, CustomerTypeOK, WireInv,
       StageInv, lifeVars
<1>4. CASE Join
  BY <1>1, <1>2, <1>4 DEF Join, appVars, CInv, CustomerTypeOK, ReadsInv,
     WireInv, StageInv, lifeVars
<1>5. CASE Disconnect
  BY <1>1, <1>2, <1>5 DEF Disconnect, appVars, CInv, CustomerTypeOK, ReadsInv,
     WireInv, StageInv, lifeVars
<1>6. CASE Hear
  <2>1. wire \in Seq(Events) /\ wire # <<>> /\ wire' = Tail(wire)
    BY <1>6 DEF Hear, CInv, CustomerTypeOK
  <2>2. wire' \in Seq(Events) /\ Head(wire) \in Events
    BY <2>1, HeadTailProperties
  <2>3. WireInv'
    BY <1>1, <2>1, HeadTailProperties DEF CInv, WireInv, lifeVars
  <2>4. /\ accepted' \in BOOLEAN /\ UNCHANGED <<fetch, socket>>
        /\ \/ stage' = stage
           \/ stage' = "IN_PROGRESS" /\ Head(wire) # "accepted"
    <3>1. UNCHANGED <<fetch, socket>>
      BY <1>6 DEF Hear
    <3>2. CASE Head(wire) = "accepted"
      BY <1>6, <3>1, <3>2 DEF Hear
    <3>3. CASE Head(wire) # "accepted"
      BY <1>6, <3>1, <3>3 DEF Hear, CInv, CustomerTypeOK
    <3>4. QED
      BY <3>2, <3>3
  <2>5. StageInv' /\ stage' \in {"ASSIGNED", "IN_PROGRESS", "COMPLETED"}
    BY <1>1, <2>4 DEF CInv, CustomerTypeOK, StageInv, lifeVars
  <2>6. QED
    BY <1>1, <1>2, <2>2, <2>3, <2>4, <2>5 DEF CInv, CustomerTypeOK, ReadsInv,
       lifeVars
<1>7. QED
  BY <1>3, <1>4, <1>5, <1>6

-----------------------------------------------------------------------------
LEMMA NextKeepsCInv == CInv /\ [Next]_vars => CInv'
<1> SUFFICES ASSUME CInv, [Next]_vars PROVE CInv'
  OBVIOUS
<1>1. ASSUME NEW r \in Rides, DriverMoves(r) PROVE CInv'
  BY <1>1, DriverKeepsCInv
<1>2. ASSUME NEW f \in Fetches, ServeFetch(f) \/ FailFetch(f) \/ ApplyFetch(f)
      PROVE  CInv'
  BY <1>2, ReadsKeepCInv
<1>3. CASE \/ \E r \in Rides : Book(r) \/ Prefer(r)
           \/ OpenTrack \/ Back \/ AskCancel \/ ServeCancel \/ CancelDone
           \/ Kill
  BY <1>3, ScreensKeepCInv
<1>4. CASE Connect \/ Join \/ Disconnect \/ Hear
  BY <1>4, SocketKeepsCInv
<1>5. CASE UNCHANGED vars
  BY <1>5 DEF vars, CInv, CustomerTypeOK, LifeTypeOK, RidesTypeOK, DrivenInv,
     ReadsInv, WireInv, StageInv
<1>6. QED
  BY <1>1, <1>2, <1>3, <1>4, <1>5 DEF Next

(* Spec keeps the inductive invariant. *)
LEMMA SpecCInv == Spec => []CInv
BY InitCInv, NextKeepsCInv, PTL DEF Spec

(***************************************************************************)
(* The screens, the reads and the socket keep their types (track.tsx,      *)
(* matching-waiting.tsx, CustomerSocketService).                           *)
(***************************************************************************)
THEOREM CustomerTypeCorrect == Spec => []CustomerTypeOK
<1>1. CInv => CustomerTypeOK
  BY DEF CInv
<1>2. QED
  BY <1>1, SpecCInv, PTL

(* What a screen is that has just been opened. *)
LEMMA OpenedIsAssigned ==
  ASSUME \/ \E r \in Rides : Book(r)
         \/ OpenTrack \/ Back \/ CancelDone \/ Kill
  PROVE  ~ShowsUnderWay'
BY DEF Book, OpenTrack, Back, CancelDone, Kill, GoHome, Show, ShowsUnderWay

(* The steps that leave page and stage alone. *)
LEMMA OthersShowNothing ==
  ASSUME \/ \E r \in Rides : DriverMoves(r) \/ Prefer(r)
         \/ \E f \in Fetches : ServeFetch(f) \/ FailFetch(f)
         \/ AskCancel \/ ServeCancel \/ Connect \/ Join \/ Disconnect
         \/ UNCHANGED vars
  PROVE  UNCHANGED <<page, stage>>
BY DEF DriverMoves, Prefer, ServeFetch, FailFetch, AskCancel, ServeCancel,
       Connect, Join, Disconnect, appVars, vars

LEMMA ShownByStart ==
  CInv /\ [Next]_vars =>
      [(~ShowsUnderWay /\ ShowsUnderWay') =>
          tracked' \in started \/ (started # {} /\ HearsStart)]_vars
<1> SUFFICES ASSUME CInv, Next, ~ShowsUnderWay, ShowsUnderWay'
             PROVE  tracked' \in started \/ (started # {} /\ HearsStart)
  OBVIOUS
<1>1. ASSUME UNCHANGED <<page, stage>> PROVE FALSE
  BY <1>1 DEF ShowsUnderWay
<1>2. ASSUME NEW f \in Fetches, ApplyFetch(f)
      PROVE  tracked' \in started
  <2>1. /\ stage # "IN_PROGRESS" /\ StageOf(fetch[f].saw) = "IN_PROGRESS"
        /\ tracked' = tracked
    BY <1>2 DEF ApplyFetch, ShowsUnderWay
  <2>2. fetch[f].saw = "IN_PROGRESS"
    BY <2>1 DEF StageOf
  <2>3. QED
    BY <2>1, <2>2 DEF CInv, ReadsInv
<1>3. CASE Hear
  <2>1. wire \in Seq(Events) /\ wire # <<>> /\ wire' = Tail(wire)
    BY <1>3 DEF Hear, CInv, CustomerTypeOK
  <2>2. Head(wire) # "accepted"
    BY <1>1, <1>3 DEF Hear
  <2>3. Head(wire) = "started" /\ 1 \in 1..Len(wire) /\ Head(wire) = wire[1]
    BY <2>1, <2>2, HeadTailProperties DEF Events
  <2>4. started # {}
    BY <2>3 DEF CInv, WireInv
  <2>5. QED
    BY <2>1, <2>3, <2>4 DEF HearsStart
<1>4. QED
  BY <1>1, <1>2, <1>3, OpenedIsAssigned, OthersShowNothing DEF Next

(***************************************************************************)
(* A screen begins to show a trip under way only with its ride started, or *)
(* on hearing a start of one of the customer's rides (fetchBooking, the    *)
(* TRIP_STARTED handler).                                                  *)
(***************************************************************************)
THEOREM ShownUnderWayByStart == Spec => UnderWayByStart
BY SpecCInv, ShownByStart, PTL DEF Spec, UnderWayByStart

(***************************************************************************)
(* A trip is shown as completed only if the tracked ride itself was        *)
(* started: no answer about an earlier ride reaches the screen.            *)
(***************************************************************************)
THEOREM CompletedTracked == Spec => []CompletedIsTracked
<1>1. CInv => CompletedIsTracked
  BY DEF CInv, StageInv, CompletedIsTracked
<1>2. QED
  BY <1>1, SpecCInv, PTL
=============================================================================
