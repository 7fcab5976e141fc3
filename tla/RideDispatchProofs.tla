------------------------- MODULE RideDispatchProofs -------------------------
(***************************************************************************)
(* Proofs about RideDispatch, for any number of rides, drivers and         *)
(* concurrent sessions, whether or not sessions fail.                      *)
(***************************************************************************)
EXTENDS RideDispatch, TLAPS

\* A session that serves a request knows the ride, and the driver if the
\* request is a driver's.
SessionsServe ==
    \A s \in Sessions :
        /\ pc[s] # "idle" => job[s].ride \in Rides
        /\ pc[s] \in {"accept", "reject", "lock", "locked", "expire"} =>
               job[s].drv \in Drivers

\* The row lock: one holder, and what the holder tested stays true.
LockHolds ==
    \A s \in Sessions :
        pc[s] = "locked" =>
            /\ CanAssign(job[s].ride)
            /\ \A t \in Sessions \ {s} :
                   ~(pc[t] = "locked" /\ job[t].ride = job[s].ride)

\* A ride not inserted yet has no driver.
Unborn == \A r \in Rides : status[r] = "NONE" => driver[r] = NoDriver

\* The inductive invariant.
IInv ==
    /\ DispatchTypeOK
    /\ SessionsServe
    /\ LockHolds
    /\ Unborn
    /\ AcceptedMeansWon
    /\ OneActiveRidePerDriver

-----------------------------------------------------------------------------
(* Type correctness. *)

\* What a session starts or goes on with is well typed.
LEMMA GotoType ==
    ASSUME NEW s \in Sessions, NEW step \in Steps, NEW j \in Job,
           pc \in [Sessions -> Steps], job \in [Sessions -> Job],
           Goto(s, step, j)
    PROVE  pc' \in [Sessions -> Steps] /\ job' \in [Sessions -> Job]
BY DEF Goto

LEMMA NoJobType == NoJob \in Job
BY DEF NoJob, Job, OfferStatuses

LEMMA ReturnType ==
    ASSUME NEW s \in Sessions,
           pc \in [Sessions -> Steps], job \in [Sessions -> Job],
           Return(s)
    PROVE  pc' \in [Sessions -> Steps] /\ job' \in [Sessions -> Job]
BY GotoType, NoJobType DEF Return, Steps

\* Writing one offer keeps the table well typed.
LEMMA WriteOfferType ==
    ASSUME NEW r, NEW d, NEW seen, NEW v \in OfferStatuses,
           offer \in [Rides -> [Drivers -> OfferStatuses]],
           WriteOffer(r, d, seen, v)
    PROVE  offer' \in [Rides -> [Drivers -> OfferStatuses]]
BY DEF WriteOffer

LEMMA SetRideType ==
    ASSUME NEW r, NEW st \in Statuses, NEW d \in Drivers \cup {NoDriver},
           RidesTypeOK, SetRide(r, st, d)
    PROVE  RidesTypeOK'
BY DEF RidesTypeOK, SetRide

LEMMA TypeInit == DispatchInit => DispatchTypeOK
BY NoJobType DEF DispatchInit, RidesInit, DispatchTypeOK, RidesTypeOK,
                 Statuses, OfferStatuses, Steps

LEMMA TypeStep == DispatchTypeOK /\ [DispatchNext]_vars => DispatchTypeOK'
<1> SUFFICES ASSUME DispatchTypeOK, [DispatchNext]_vars
             PROVE  DispatchTypeOK'
    OBVIOUS
<1> USE DEF DispatchTypeOK
<1>1. CASE UNCHANGED vars
    BY <1>1 DEF RidesTypeOK, vars
<1>2. ASSUME NEW s \in Sessions, Arrive(s)
      PROVE  DispatchTypeOK'
  <2> USE DEF RidesTypeOK, Start, Steps, Job, NoJob, offerVars, rideVars
  <2>1. PICK r \in Rides :
           \/ CreateRide(s, r) \/ Redispatch(s, r) \/ CancelRead(s, r)
           \/ \E d \in Drivers :
                 \/ \E step \in {"accept", "reject"} : Respond(s, r, d, step)
                 \/ CheckOffer(s, r, d)
    BY <1>2 DEF Arrive
  <2>2. CASE CreateRide(s, r)
    BY <2>2, NoJobType DEF CreateRide, Statuses, SetRide
  <2>3. CASE Redispatch(s, r)
    BY <2>3, NoJobType DEF Redispatch
  <2>4. CASE CancelRead(s, r)
    BY <2>4, NoJobType DEF CancelRead
  <2>5. ASSUME NEW d \in Drivers, NEW step \in {"accept", "reject"},
               Respond(s, r, d, step)
        PROVE  DispatchTypeOK'
    <3>1. offer[r][d] \in OfferStatuses
      OBVIOUS
    <3> QED BY <2>5, <3>1 DEF Respond
  <2>6. ASSUME NEW d \in Drivers, CheckOffer(s, r, d)
        PROVE  DispatchTypeOK'
    BY <2>6 DEF CheckOffer, OfferStatuses
  <2> QED BY <2>1, <2>2, <2>3, <2>4, <2>5, <2>6
<1>3. ASSUME NEW s \in Sessions, Proceed(s)
      PROVE  DispatchTypeOK'
  <2>0. /\ job[s] \in Job
        /\ job[s].set \subseteq Drivers
        /\ job[s].drv \in Drivers \cup {NoDriver}
        /\ job[s].ride \in Rides \cup {NoRide}
    BY DEF Job
  <2>1. CASE BackgroundDispatch(s)
    BY <2>0, <2>1, GotoType, ReturnType
       DEF BackgroundDispatch, RidesTypeOK, rideVars, offerVars, Steps
  <2>2. CASE FindCandidates(s)
    <3>1. PICK passing \in SUBSET Drivers, found \in SUBSET Drivers :
             \/ Return(s)
             \/ Goto(s, "insert", [job[s] EXCEPT !.set = found])
      <4>1. PICK passing \in SUBSET (Drivers \ Steady) :
               LET r == job[s].ride
                   online == Steady \cup passing
                   near == Candidates(r, online \cap Near)
                   found == IF near = {} THEN Candidates(r, online) ELSE near
               IN  IF found = {}
                   THEN Return(s)
                   ELSE Goto(s, "insert", [job[s] EXCEPT !.set = found])
        BY <2>2 DEF FindCandidates
      <4>2. Candidates(job[s].ride, Steady \cup passing) \subseteq Drivers
        BY DispatchAssumption DEF Candidates
      <4>3. Candidates(job[s].ride, (Steady \cup passing) \cap Near)
               \subseteq Drivers
        BY DispatchAssumption DEF Candidates
      <4> QED BY <4>1, <4>2, <4>3
    <3>2. [job[s] EXCEPT !.set = found] \in Job
      BY <2>0 DEF Job
    <3>3. pc' \in [Sessions -> Steps] /\ job' \in [Sessions -> Job]
      BY <3>1, <3>2, GotoType, ReturnType DEF Steps
    <3> QED BY <2>2, <3>3 DEF FindCandidates, RidesTypeOK, rideVars, offerVars
  <2>3. CASE InsertOffers(s)
    BY <2>3, ReturnType
       DEF InsertOffers, RidesTypeOK, rideVars, OfferStatuses
  <2>4. CASE RefuseBusy(s)
    BY <2>4, ReturnType, WriteOfferType
       DEF RefuseBusy, RidesTypeOK, rideVars, OfferStatuses
  <2>5. CASE RefuseAnswered(s)
    BY <2>5, ReturnType DEF RefuseAnswered, RidesTypeOK, rideVars, offerVars
  <2>6. CASE RefuseLate(s)
    BY <2>6, ReturnType, WriteOfferType
       DEF RefuseLate, RidesTypeOK, rideVars, OfferStatuses
  <2>7. CASE Reject(s)
    BY <2>0, <2>7, GotoType, WriteOfferType
       DEF Reject, RidesTypeOK, rideVars, OfferStatuses, Steps
  <2>8. CASE CountRemaining(s)
    <3>1. [NoJob EXCEPT !.ride = job[s].ride] \in Job
      BY <2>0, NoJobType DEF Job
    <3> QED BY <2>8, <3>1, GotoType, ReturnType
               DEF CountRemaining, RidesTypeOK, rideVars, offerVars, Steps
  <2>9. CASE AskForLock(s)
    BY <2>0, <2>9, GotoType
       DEF AskForLock, RidesTypeOK, rideVars, offerVars, Steps
  <2>10. CASE LoseRide(s)
    BY <2>10, ReturnType, WriteOfferType
       DEF LoseRide, RidesTypeOK, rideVars, OfferStatuses
  <2>11. CASE TakeLock(s)
    <3> DEFINE losers ==
          {e \in Drivers \ {job[s].drv} : offer[job[s].ride][e] = "PENDING"}
    <3>1. [job[s] EXCEPT !.set = losers] \in Job
      BY <2>0 DEF Job
    <3> QED BY <2>11, <3>1, GotoType
               DEF TakeLock, RidesTypeOK, rideVars, offerVars, Steps
  <2>12. CASE WinRide(s)
    <3>1. [NoJob EXCEPT !.ride = job[s].ride, !.set = job[s].set] \in Job
      BY <2>0, NoJobType DEF Job
    <3>2. RidesTypeOK'
      BY <2>0, <2>12, SetRideType DEF WinRide, Statuses
    <3>3. offer' \in [Rides -> [Drivers -> OfferStatuses]]
      BY <2>12 DEF WinRide, OfferStatuses
    <3> QED BY <2>12, <3>1, <3>2, <3>3, GotoType DEF WinRide, Steps
  <2>13. CASE IndexRefuses(s)
    BY <2>13, ReturnType DEF IndexRefuses, RidesTypeOK, rideVars, offerVars
  <2>14. CASE CancelReadOffers(s)
    <3> DEFINE pending == {d \in Drivers : offer[job[s].ride][d] = "PENDING"}
    <3>1. [job[s] EXCEPT !.set = pending] \in Job
      BY <2>0 DEF Job
    <3> QED BY <2>14, <3>1, GotoType
               DEF CancelReadOffers, RidesTypeOK, rideVars, offerVars, Steps
  <2>15. CASE CancelCommit(s)
    <3>1. ToTell(s) \subseteq Drivers
      BY <2>0 DEF ToTell
    <3>2. [NoJob EXCEPT !.ride = job[s].ride, !.set = ToTell(s)] \in Job
      BY <2>0, <3>1, NoJobType DEF Job
    <3>3. RidesTypeOK'
      BY <2>15 DEF CancelCommit, SetRide, RidesTypeOK, Statuses
    <3>4. offer' \in [Rides -> [Drivers -> OfferStatuses]]
      BY <2>15 DEF CancelCommit, OfferStatuses
    <3> QED BY <2>15, <3>2, <3>3, <3>4, GotoType DEF CancelCommit, Steps
  <2>16. CASE Tell(s)
    BY <2>16, ReturnType DEF Tell, RidesTypeOK, rideVars, offerVars
  <2>17. CASE ExpireOffer(s)
    BY <2>17, ReturnType, WriteOfferType
       DEF ExpireOffer, RidesTypeOK, rideVars, OfferStatuses
  <2> QED BY <1>3, <2>1, <2>2, <2>3, <2>4, <2>5, <2>6, <2>7, <2>8, <2>9,
             <2>10, <2>11, <2>12, <2>13, <2>14, <2>15, <2>16, <2>17
          DEF Proceed
<1>4. ASSUME NEW s \in Sessions, Fail(s)
      PROVE  DispatchTypeOK'
    BY <1>4, ReturnType DEF Fail, RidesTypeOK, rideVars, offerVars
<1>5. CASE Environment
  <2>1. ASSUME NEW r \in Rides, NEW d \in Drivers, Deadline(r, d)
        PROVE  DispatchTypeOK'
    BY <2>1 DEF Deadline, RidesTypeOK, rideVars, sessionVars
  <2>2. ASSUME NEW r \in Rides, NEW d \in Drivers, RadarMatch(r, d)
        PROVE  DispatchTypeOK'
    BY <2>2, SetRideType DEF RadarMatch, Statuses, offerVars, sessionVars
  <2>3. ASSUME NEW r \in Rides, Age(r)
        PROVE  DispatchTypeOK'
    BY <2>3 DEF Age, RidesTypeOK, rideVars, offerVars, sessionVars
  <2> QED BY <1>5, <2>1, <2>2, <2>3 DEF Environment
<1> QED BY <1>1, <1>2, <1>3, <1>4, <1>5 DEF DispatchNext

(***************************************************************************)
(* The variables keep their types.                                         *)
(***************************************************************************)
THEOREM TypeCorrect == DispatchSpec => []DispatchTypeOK
BY TypeInit, TypeStep, PTL DEF DispatchSpec

-----------------------------------------------------------------------------
(* What a step can do to the rides, the locks and the accepted offers. *)

\* Only these actions write the rides.
LEMMA RideSteps ==
    ASSUME DispatchNext
    PROVE  \/ UNCHANGED rideVars
           \/ \E s \in Sessions, r \in Rides : CreateRide(s, r)
           \/ \E s \in Sessions : WinRide(s) \/ CancelCommit(s)
           \/ \E r \in Rides, d \in Drivers : RadarMatch(r, d)
<1>1. ASSUME NEW s \in Sessions, Arrive(s)
      PROVE  UNCHANGED rideVars \/ \E r \in Rides : CreateRide(s, r)
    BY <1>1 DEF Arrive, Redispatch, CancelRead, Respond, CheckOffer
<1>2. ASSUME NEW s \in Sessions, Proceed(s)
      PROVE  UNCHANGED rideVars \/ WinRide(s) \/ CancelCommit(s)
    BY <1>2 DEF Proceed, BackgroundDispatch, FindCandidates, InsertOffers,
                RefuseBusy, RefuseAnswered, RefuseLate, Reject,
                CountRemaining, AskForLock, LoseRide, TakeLock,
                IndexRefuses, CancelReadOffers, Tell, ExpireOffer
<1>3. ASSUME NEW s \in Sessions, Fail(s)
      PROVE  UNCHANGED rideVars
    BY <1>3 DEF Fail
<1>4. CASE Environment
    BY <1>4 DEF Environment, Age, Deadline
<1> QED BY <1>1, <1>2, <1>3, <1>4 DEF DispatchNext

\* A step of a session leaves the other sessions alone, and only TakeLock
\* makes a session a lock holder.
LEMMA LockSteps ==
    ASSUME DispatchTypeOK, DispatchNext, NEW t \in Sessions
    PROVE  \/ pc'[t] = pc[t] /\ job'[t] = job[t]
           \/ pc'[t] # "locked"
           \/ TakeLock(t)
<1> USE DEF DispatchTypeOK
<1>1. ASSUME NEW s \in Sessions, Arrive(s)
      PROVE  (pc'[t] = pc[t] /\ job'[t] = job[t]) \/ pc'[t] # "locked"
    BY <1>1 DEF Arrive, CreateRide, Redispatch, CancelRead, Respond,
                CheckOffer, Start
<1>2. ASSUME NEW s \in Sessions, Proceed(s)
      PROVE  \/ pc'[t] = pc[t] /\ job'[t] = job[t]
             \/ pc'[t] # "locked"
             \/ TakeLock(t)
  <2>1. CASE s # t
    BY <1>2, <2>1
       DEF Proceed, BackgroundDispatch, FindCandidates, InsertOffers,
           RefuseBusy, RefuseAnswered, RefuseLate, Reject, CountRemaining,
           AskForLock, LoseRide, TakeLock, WinRide, IndexRefuses,
           CancelReadOffers, CancelCommit, Tell, ExpireOffer, Goto, Return
  <2>2. CASE s = t /\ ~TakeLock(t)
    BY <1>2, <2>2
       DEF Proceed, BackgroundDispatch, FindCandidates, InsertOffers,
           RefuseBusy, RefuseAnswered, RefuseLate, Reject, CountRemaining,
           AskForLock, LoseRide, WinRide, IndexRefuses,
           CancelReadOffers, CancelCommit, Tell, ExpireOffer, Goto, Return
  <2> QED BY <2>1, <2>2
<1>3. ASSUME NEW s \in Sessions, Fail(s)
      PROVE  (pc'[t] = pc[t] /\ job'[t] = job[t]) \/ pc'[t] # "locked"
    BY <1>3 DEF Fail, Return, Goto
<1>4. CASE Environment
    BY <1>4 DEF Environment, Age, Deadline, RadarMatch, sessionVars
<1> QED BY <1>1, <1>2, <1>3, <1>4 DEF DispatchNext

\* An offer becomes ACCEPTED only when its driver wins the ride.
LEMMA AcceptSteps ==
    ASSUME DispatchTypeOK, DispatchNext, NEW r \in Rides, NEW d \in Drivers,
           offer'[r][d] = "ACCEPTED"
    PROVE  \/ offer[r][d] = "ACCEPTED"
           \/ \E s \in Sessions :
                 WinRide(s) /\ job[s].ride = r /\ job[s].drv = d
<1> USE DEF DispatchTypeOK
<1>1. ASSUME NEW s \in Sessions, Arrive(s)
      PROVE  offer[r][d] = "ACCEPTED"
    BY <1>1 DEF Arrive, CreateRide, Redispatch, CancelRead, Respond,
                CheckOffer, offerVars
<1>2. ASSUME NEW s \in Sessions, Proceed(s)
      PROVE  \/ offer[r][d] = "ACCEPTED"
             \/ WinRide(s) /\ job[s].ride = r /\ job[s].drv = d
  <2>1. CASE WinRide(s)
    BY <2>1 DEF WinRide
  <2>2. CASE InsertOffers(s)
    BY <2>2 DEF InsertOffers
  <2>3. CASE CancelCommit(s)
    BY <2>3 DEF CancelCommit
  <2>4. CASE RefuseBusy(s) \/ RefuseLate(s) \/ Reject(s) \/ LoseRide(s)
             \/ ExpireOffer(s)
    BY <2>4 DEF RefuseBusy, RefuseLate, Reject, LoseRide, ExpireOffer,
                WriteOffer
  <2>5. CASE UNCHANGED offerVars
    BY <2>5 DEF offerVars
  <2>6. \/ UNCHANGED offerVars \/ WinRide(s) \/ InsertOffers(s)
        \/ CancelCommit(s)
        \/ RefuseBusy(s) \/ RefuseLate(s) \/ Reject(s) \/ LoseRide(s)
        \/ ExpireOffer(s)
    BY <1>2 DEF Proceed, BackgroundDispatch, FindCandidates, RefuseAnswered,
                CountRemaining, AskForLock, TakeLock, IndexRefuses,
                CancelReadOffers, Tell
  <2> QED BY <2>1, <2>2, <2>3, <2>4, <2>5, <2>6
<1>3. ASSUME NEW s \in Sessions, Fail(s)
      PROVE  offer[r][d] = "ACCEPTED"
    BY <1>3 DEF Fail, offerVars
<1>4. CASE Environment
    BY <1>4 DEF Environment, Age, Deadline, RadarMatch, offerVars
<1> QED BY <1>1, <1>2, <1>3, <1>4 DEF DispatchNext

\* An offer changes only by these writes: a wave, which finds no row of its
\* drivers; the commit of an accept; that of a cancellation; and the statuses
\* that one session gives the offer it serves.
LEMMA OfferSteps ==
    ASSUME DispatchTypeOK, DispatchNext, NEW r \in Rides, NEW d \in Drivers
    PROVE  \/ offer'[r][d] = offer[r][d]
           \/ offer'[r][d] = "PENDING" /\ offer[r][d] = "none"
           \/ offer'[r][d] \in {"ACCEPTED", "SUPERSEDED", "EXPIRED", "REJECTED"}
           \/ \E s \in Sessions :
                 /\ WinRide(s)
                 /\ job[s].ride = r /\ d \in job[s].set /\ offer'[r][d] = "REMOVED"
           \/ \E s \in Sessions :
                 /\ CancelCommit(s)
                 /\ job[s].ride = r /\ d \in job[s].set
                 /\ offer'[r][d] = "CANCELLED"
<1> USE DEF DispatchTypeOK
<1>1. ASSUME NEW s \in Sessions, Arrive(s)
      PROVE  offer'[r][d] = offer[r][d]
    BY <1>1 DEF Arrive, CreateRide, Redispatch, CancelRead, Respond,
                CheckOffer, offerVars
<1>2. ASSUME NEW s \in Sessions, Proceed(s)
      PROVE  \/ offer'[r][d] = offer[r][d]
             \/ offer'[r][d] = "PENDING" /\ offer[r][d] = "none"
             \/ offer'[r][d] \in {"ACCEPTED", "SUPERSEDED", "EXPIRED",
                                   "REJECTED"}
             \/ /\ WinRide(s)
                /\ job[s].ride = r /\ d \in job[s].set
                /\ offer'[r][d] = "REMOVED"
             \/ /\ CancelCommit(s)
                /\ job[s].ride = r /\ d \in job[s].set
                /\ offer'[r][d] = "CANCELLED"
  <2>1. CASE WinRide(s)
    BY <2>1 DEF WinRide
  <2>2. CASE InsertOffers(s)
    BY <2>2 DEF InsertOffers, OffersFit
  <2>3. CASE CancelCommit(s)
    BY <2>3 DEF CancelCommit
  <2>4. CASE RefuseBusy(s) \/ RefuseLate(s) \/ Reject(s) \/ LoseRide(s)
             \/ ExpireOffer(s)
    BY <2>4 DEF RefuseBusy, RefuseLate, Reject, LoseRide, ExpireOffer,
                WriteOffer
  <2>5. CASE UNCHANGED offerVars
    BY <2>5 DEF offerVars
  <2>6. \/ UNCHANGED offerVars \/ WinRide(s) \/ InsertOffers(s)
        \/ CancelCommit(s)
        \/ RefuseBusy(s) \/ RefuseLate(s) \/ Reject(s) \/ LoseRide(s)
        \/ ExpireOffer(s)
    BY <1>2 DEF Proceed, BackgroundDispatch, FindCandidates, RefuseAnswered,
                CountRemaining, AskForLock, TakeLock, IndexRefuses,
                CancelReadOffers, Tell
  <2> QED BY <2>1, <2>2, <2>3, <2>4, <2>5, <2>6
<1>3. ASSUME NEW s \in Sessions, Fail(s)
      PROVE  offer'[r][d] = offer[r][d]
    BY <1>3 DEF Fail, offerVars
<1>4. CASE Environment
    BY <1>4 DEF Environment, Age, Deadline, RadarMatch, offerVars
<1> QED BY <1>1, <1>2, <1>3, <1>4 DEF DispatchNext

-----------------------------------------------------------------------------
(* The inductive invariant. *)

LEMMA ServeStep ==
    ASSUME DispatchTypeOK, SessionsServe, [DispatchNext]_vars
    PROVE  SessionsServe'
<1> SUFFICES ASSUME NEW t \in Sessions
             PROVE  /\ pc'[t] # "idle" => job'[t].ride \in Rides
                    /\ pc'[t] \in {"accept", "reject", "lock", "locked",
                                   "expire"} => job'[t].drv \in Drivers
    BY DEF SessionsServe
<1> DEFINE Serves ==
        /\ pc'[t] # "idle" => job'[t].ride \in Rides
        /\ pc'[t] \in {"accept", "reject", "lock", "locked", "expire"} =>
               job'[t].drv \in Drivers
<1> USE DEF DispatchTypeOK, SessionsServe
<1>0. job[t] \in Job
    OBVIOUS
<1>1. ASSUME NEW s \in Sessions, Arrive(s)
      PROVE  Serves
  <2>1. ASSUME NEW r \in Rides,
               CreateRide(s, r) \/ Redispatch(s, r) \/ CancelRead(s, r)
        PROVE  Serves
    <3>1. CASE CreateRide(s, r)
      BY <3>1 DEF CreateRide, Start, NoJob
    <3>2. CASE Redispatch(s, r)
      BY <3>2 DEF Redispatch, Start, NoJob
    <3>3. CASE CancelRead(s, r)
      BY <3>3 DEF CancelRead, Start, NoJob
    <3> QED BY <2>1, <3>1, <3>2, <3>3
  <2>2. ASSUME NEW r \in Rides, NEW d \in Drivers,
               \/ \E step \in {"accept", "reject"} : Respond(s, r, d, step)
               \/ CheckOffer(s, r, d)
        PROVE  Serves
    <3>1. ASSUME NEW step \in {"accept", "reject"}, Respond(s, r, d, step)
          PROVE  Serves
      BY <3>1 DEF Respond, Start, NoJob
    <3>2. CASE CheckOffer(s, r, d)
      BY <3>2 DEF CheckOffer, Start, NoJob
    <3> QED BY <2>2, <3>1, <3>2
  <2> HIDE DEF Serves
  <2> QED BY <1>1, <2>1, <2>2 DEF Arrive
<1>2. ASSUME NEW s \in Sessions, Proceed(s)
      PROVE  Serves
  <2>1. CASE s # t
    BY <1>2, <2>1
       DEF Proceed, BackgroundDispatch, FindCandidates, InsertOffers,
           RefuseBusy, RefuseAnswered, RefuseLate, Reject, CountRemaining,
           AskForLock, LoseRide, TakeLock, WinRide, IndexRefuses,
           CancelReadOffers, CancelCommit, Tell, ExpireOffer, Goto, Return
  <2>2. CASE s = t
    <3>1. CASE Return(s)
      BY <2>2, <3>1 DEF Return, Goto
    <3>2. CASE BackgroundDispatch(s) \/ Reject(s) \/ AskForLock(s)
      BY <1>0, <2>2, <3>2
         DEF BackgroundDispatch, Reject, AskForLock, Goto, Return
    <3>3. CASE FindCandidates(s) /\ ~Return(s)
      <4>1. pc[s] = "candidates"
            /\ \E ds : Goto(s, "insert", [job[s] EXCEPT !.set = ds])
        BY <3>3 DEF FindCandidates
      <4>2. PICK ds : Goto(s, "insert", [job[s] EXCEPT !.set = ds])
        BY <4>1
      <4> QED BY <1>0, <2>2, <4>1, <4>2 DEF Goto, Job
    <3>4. CASE TakeLock(s)
      BY <1>0, <2>2, <3>4 DEF TakeLock, Goto, Job
    <3>5. CASE CancelReadOffers(s)
      BY <1>0, <2>2, <3>5 DEF CancelReadOffers, Goto, Job
    <3>6. CASE CountRemaining(s) /\ ~Return(s)
      BY <1>0, <2>2, <3>6 DEF CountRemaining, Goto, NoJob
    <3>7. CASE WinRide(s)
      BY <1>0, <2>2, <3>7 DEF WinRide, Goto, NoJob
    <3>8. CASE CancelCommit(s)
      BY <1>0, <2>2, <3>8 DEF CancelCommit, Goto, NoJob
    <3>9. \/ Return(s)
          \/ FindCandidates(s) \/ TakeLock(s) \/ CancelReadOffers(s)
          \/ CountRemaining(s) \/ WinRide(s) \/ CancelCommit(s)
          \/ BackgroundDispatch(s) \/ Reject(s) \/ AskForLock(s)
      BY <1>2 DEF Proceed, InsertOffers, RefuseBusy, RefuseAnswered,
                  RefuseLate, LoseRide, IndexRefuses, Tell, ExpireOffer
    <3> QED BY <3>1, <3>2, <3>3, <3>4, <3>5, <3>6, <3>7, <3>8, <3>9
  <2> QED BY <2>1, <2>2
<1>3. ASSUME NEW s \in Sessions, Fail(s)
      PROVE  Serves
    BY <1>3 DEF Fail, Return, Goto
<1>4. CASE Environment \/ UNCHANGED vars
    BY <1>4 DEF Environment, Age, Deadline, RadarMatch, sessionVars, vars
<1> QED BY <1>1, <1>2, <1>3, <1>4 DEF DispatchNext

\* The ride of a lock holder does not change until the holder commits: every
\* other writer of the row waits for the lock.
LEMMA LockKeepsRide ==
    ASSUME DispatchTypeOK, LockHolds, DispatchNext, NEW s \in Sessions,
           pc[s] = "locked", pc'[s] = "locked"
    PROVE  /\ status'[job[s].ride] = status[job[s].ride]
           /\ driver'[job[s].ride] = driver[job[s].ride]
<1> USE DEF DispatchTypeOK, RidesTypeOK
<1>1. ASSUME NEW t \in Sessions, NEW r \in Rides, CreateRide(t, r)
      PROVE  /\ status'[job[s].ride] = status[job[s].ride]
             /\ driver'[job[s].ride] = driver[job[s].ride]
    BY <1>1 DEF CreateRide, SetRide, LockHolds, CanAssign, Open
<1>2. ASSUME NEW t \in Sessions, WinRide(t)
      PROVE  /\ status'[job[s].ride] = status[job[s].ride]
             /\ driver'[job[s].ride] = driver[job[s].ride]
  <2>1. t # s
    BY <1>2 DEF WinRide, Goto
  <2> QED BY <1>2, <2>1 DEF WinRide, SetRide, LockHolds
<1>3. ASSUME NEW t \in Sessions, CancelCommit(t)
      PROVE  /\ status'[job[s].ride] = status[job[s].ride]
             /\ driver'[job[s].ride] = driver[job[s].ride]
    BY <1>3 DEF CancelCommit, SetRide, Unlocked
<1>4. ASSUME NEW r \in Rides, NEW d \in Drivers, RadarMatch(r, d)
      PROVE  /\ status'[job[s].ride] = status[job[s].ride]
             /\ driver'[job[s].ride] = driver[job[s].ride]
    BY <1>4 DEF RadarMatch, SetRide, Unlocked
<1> QED BY <1>1, <1>2, <1>3, <1>4, RideSteps DEF rideVars

LEMMA LockStep ==
    ASSUME DispatchTypeOK, LockHolds, [DispatchNext]_vars
    PROVE  LockHolds'
<1>1. CASE UNCHANGED vars
    BY <1>1 DEF LockHolds, CanAssign, vars
<1>2. CASE DispatchNext
  <2> SUFFICES ASSUME NEW s \in Sessions, pc'[s] = "locked"
               PROVE  /\ CanAssign(job[s].ride)'
                      /\ \A t \in Sessions \ {s} :
                            ~(pc'[t] = "locked" /\ job'[t].ride = job'[s].ride)
    BY DEF LockHolds
  <2>1. CASE TakeLock(s)
    <3>1. CanAssign(job[s].ride)'
      BY <2>1 DEF TakeLock, CanAssign, rideVars, Goto, DispatchTypeOK, Job
    <3>2. ASSUME NEW t \in Sessions \ {s}
          PROVE  pc'[t] = pc[t] /\ job'[t] = job[t]
      BY <2>1 DEF TakeLock, Goto, DispatchTypeOK
    <3>3. job'[s].ride = job[s].ride /\ Unlocked(job[s].ride)
      BY <2>1 DEF TakeLock, Goto, DispatchTypeOK, Job
    <3> QED BY <3>1, <3>2, <3>3 DEF Unlocked
  <2>2. CASE ~TakeLock(s)
    <3>1. pc[s] = "locked" /\ job'[s] = job[s]
      BY <1>2, <2>2, LockSteps
    <3>2. CanAssign(job[s].ride)'
      BY <1>2, <3>1, LockKeepsRide DEF LockHolds, CanAssign
    <3>3. ASSUME NEW t \in Sessions \ {s}, pc'[t] = "locked"
          PROVE  job'[t].ride # job'[s].ride
      <4>1. CASE TakeLock(t)
        BY <3>1, <4>1 DEF TakeLock, Goto, Unlocked, DispatchTypeOK, Job
      <4>2. CASE pc[t] = "locked" /\ job'[t] = job[t]
        BY <3>1, <4>2 DEF LockHolds
      <4> QED BY <1>2, <3>3, <4>1, <4>2, LockSteps
    <3> QED BY <3>2, <3>3
  <2> QED BY <2>1, <2>2
<1> QED BY <1>1, <1>2

LEMMA UnbornStep ==
    ASSUME DispatchTypeOK, Unborn, [DispatchNext]_vars
    PROVE  Unborn'
<1> USE DEF DispatchTypeOK, RidesTypeOK, Unborn, SetRide
<1>1. CASE UNCHANGED rideVars
    BY <1>1 DEF rideVars
<1>2. ASSUME NEW s \in Sessions, NEW r \in Rides, CreateRide(s, r)
      PROVE  Unborn'
    BY <1>2 DEF CreateRide
<1>3. ASSUME NEW s \in Sessions, WinRide(s) \/ CancelCommit(s)
      PROVE  Unborn'
    BY <1>3 DEF WinRide, CancelCommit
<1>4. ASSUME NEW r \in Rides, NEW d \in Drivers, RadarMatch(r, d)
      PROVE  Unborn'
    BY <1>4 DEF RadarMatch
<1> QED BY <1>1, <1>2, <1>3, <1>4, RideSteps DEF vars, rideVars

\* A ride keeps its driver: whoever assigns it holds the lock, or finds it
\* unlocked, and has seen that it has none.
LEMMA DriverStays ==
    ASSUME IInv, [DispatchNext]_vars, NEW r \in Rides, driver[r] # NoDriver
    PROVE  driver'[r] = driver[r]
<1> USE DEF IInv, DispatchTypeOK, RidesTypeOK, SetRide
<1>1. ASSUME NEW s \in Sessions, NEW q \in Rides, CreateRide(s, q)
      PROVE  driver'[r] = driver[r]
    BY <1>1 DEF CreateRide, Unborn
<1>2. ASSUME NEW s \in Sessions, WinRide(s)
      PROVE  driver'[r] = driver[r]
    BY <1>2 DEF WinRide, LockHolds, CanAssign
<1>3. ASSUME NEW s \in Sessions, CancelCommit(s)
      PROVE  driver'[r] = driver[r]
    BY <1>3 DEF CancelCommit
<1>4. ASSUME NEW q \in Rides, NEW d \in Drivers, RadarMatch(q, d)
      PROVE  driver'[r] = driver[r]
    BY <1>4 DEF RadarMatch, CanAssign
<1> QED BY <1>1, <1>2, <1>3, <1>4, RideSteps DEF vars, rideVars

LEMMA AcceptedStep == IInv /\ [DispatchNext]_vars => AcceptedMeansWon'
<1> SUFFICES ASSUME IInv, [DispatchNext]_vars,
                    NEW r \in Rides, NEW d \in Drivers,
                    offer'[r][d] = "ACCEPTED"
             PROVE  driver'[r] = d
    BY DEF AcceptedMeansWon
<1> USE DEF IInv, DispatchTypeOK, RidesTypeOK
<1>1. CASE offer[r][d] = "ACCEPTED"
  <2>1. driver[r] = d /\ d # NoDriver
    BY <1>1, NoDriverAssumption DEF AcceptedMeansWon
  <2> QED BY <2>1, DriverStays
<1>2. ASSUME NEW s \in Sessions,
             WinRide(s), job[s].ride = r, job[s].drv = d
      PROVE  driver'[r] = d
    BY <1>2 DEF WinRide, SetRide
<1> QED BY <1>1, <1>2, AcceptSteps DEF vars

LEMMA OneActiveStep ==
    ASSUME DispatchTypeOK, OneActiveRidePerDriver, [DispatchNext]_vars
    PROVE  OneActiveRidePerDriver'
<1> USE DEF DispatchTypeOK, RidesTypeOK, OneActiveRidePerDriver, SetRide, Active
<1>1. CASE UNCHANGED rideVars
    BY <1>1 DEF rideVars
<1>2. ASSUME NEW s \in Sessions, NEW r \in Rides, CreateRide(s, r)
      PROVE  OneActiveRidePerDriver'
    BY <1>2 DEF CreateRide
<1>3. ASSUME NEW s \in Sessions, WinRide(s)
      PROVE  OneActiveRidePerDriver'
    BY <1>3 DEF WinRide, UniqueIndex
<1>4. ASSUME NEW s \in Sessions, CancelCommit(s)
      PROVE  OneActiveRidePerDriver'
    BY <1>4 DEF CancelCommit
<1>5. ASSUME NEW r \in Rides, NEW d \in Drivers, RadarMatch(r, d)
      PROVE  OneActiveRidePerDriver'
    BY <1>5 DEF RadarMatch, UniqueIndex
<1> QED BY <1>1, <1>2, <1>3, <1>4, <1>5, RideSteps DEF vars, rideVars

LEMMA InvInit == DispatchInit => IInv
<1> SUFFICES ASSUME DispatchInit PROVE IInv
    OBVIOUS
<1>1. DispatchTypeOK
    BY TypeInit
<1>2. SessionsServe /\ LockHolds
    BY DEF DispatchInit, SessionsServe, LockHolds
<1>3. Unborn /\ AcceptedMeansWon /\ OneActiveRidePerDriver
    BY DEF DispatchInit, RidesInit, Unborn, AcceptedMeansWon,
           OneActiveRidePerDriver
<1> QED BY <1>1, <1>2, <1>3 DEF IInv

LEMMA InvStep == IInv /\ [DispatchNext]_vars => IInv'
BY TypeStep, ServeStep, LockStep, UnbornStep, AcceptedStep, OneActiveStep
   DEF IInv

LEMMA Inductive == DispatchSpec => []IInv
BY InvInit, InvStep, PTL DEF DispatchSpec

-----------------------------------------------------------------------------
(* Safety. *)

(***************************************************************************)
(* An ACCEPTED offer belongs to the driver who has the ride.               *)
(***************************************************************************)
THEOREM AcceptedIsWinner == DispatchSpec => []AcceptedMeansWon
<1>1. IInv => AcceptedMeansWon
    BY DEF IInv
<1> QED BY <1>1, Inductive, PTL

(***************************************************************************)
(* A driver never has two active rides.                                    *)
(***************************************************************************)
THEOREM OneActive == DispatchSpec => []OneActiveRidePerDriver
<1>1. IInv => OneActiveRidePerDriver
    BY DEF IInv
<1> QED BY <1>1, Inductive, PTL

(***************************************************************************)
(* The first accept wins, for good.                                        *)
(***************************************************************************)
THEOREM WinnerIsFinal == DispatchSpec => FirstAcceptWins
<1>1. IInv /\ [DispatchNext]_vars =>
         [\A r \in Rides : driver[r] # NoDriver => driver'[r] = driver[r]]_vars
    BY DriverStays
<1> QED BY <1>1, Inductive, PTL DEF DispatchSpec, FirstAcceptWins

(***************************************************************************)
(* A cancelled ride is never assigned or dispatched again.                 *)
(***************************************************************************)
LEMMA CancelledStep ==
    ASSUME IInv, [DispatchNext]_vars, NEW r \in Rides, status[r] = "CANCELLED"
    PROVE  status'[r] = "CANCELLED"
<1> USE DEF IInv, DispatchTypeOK, RidesTypeOK, SetRide
<1>1. ASSUME NEW s \in Sessions, NEW q \in Rides, CreateRide(s, q)
      PROVE  status'[r] = "CANCELLED"
    BY <1>1 DEF CreateRide
<1>2. ASSUME NEW s \in Sessions, WinRide(s)
      PROVE  status'[r] = "CANCELLED"
    BY <1>2 DEF WinRide, LockHolds, CanAssign, Open
<1>3. ASSUME NEW s \in Sessions, CancelCommit(s)
      PROVE  status'[r] = "CANCELLED"
    BY <1>3 DEF CancelCommit
<1>4. ASSUME NEW q \in Rides, NEW d \in Drivers, RadarMatch(q, d)
      PROVE  status'[r] = "CANCELLED"
    BY <1>4 DEF RadarMatch, CanAssign, Open
<1> QED BY <1>1, <1>2, <1>3, <1>4, RideSteps DEF vars, rideVars

THEOREM CancelIsFinal == DispatchSpec => CancelledStays
<1>1. IInv /\ [DispatchNext]_vars =>
         [\A r \in Rides :
             status[r] = "CANCELLED" => status'[r] = "CANCELLED"]_vars
    BY CancelledStep
<1> QED BY <1>1, Inductive, PTL DEF DispatchSpec, CancelledStays

\* Only a wave that finds no row of the driver writes a PENDING offer.
LEMMA ReofferStep ==
    ASSUME IInv, [DispatchNext]_vars, NEW r \in Rides, NEW d \in Drivers,
           offer'[r][d] = "PENDING"
    PROVE  offer[r][d] \in {"none", "PENDING"}
BY OfferSteps DEF IInv, vars

(***************************************************************************)
(* No driver is ever asked twice about one ride: whatever dispatches run   *)
(* at the same time, an offer that was answered, lost, withdrawn or let    *)
(* pass never becomes PENDING again (the unique index that makes the       *)
(* insert of dispatch_ride_request fail as a whole).                       *)
(***************************************************************************)
THEOREM NeverAskedAgain == DispatchSpec => NoReoffer
<1>1. IInv /\ [DispatchNext]_vars =>
         [\A r \in Rides, d \in Drivers :
             offer'[r][d] = "PENDING" => offer[r][d] \in {"none", "PENDING"}]_vars
    BY ReofferStep
<1> QED BY <1>1, Inductive, PTL DEF DispatchSpec, NoReoffer

\* The session that withdraws the offers goes on to publish what it withdrew.
LEMMA WithdrawStep ==
    ASSUME IInv, [DispatchNext]_vars, NEW r \in Rides, NEW d \in Drivers,
           offer'[r][d] \in {"REMOVED", "CANCELLED"},
           offer'[r][d] # offer[r][d]
    PROVE  Telling(r, d)'
<1> USE DEF IInv, DispatchTypeOK
<1>1. DispatchNext
    BY DEF vars
<1>2. ASSUME NEW s \in Sessions, WinRide(s), job[s].ride = r, d \in job[s].set
      PROVE  Telling(r, d)'
  <2>1. /\ pc'[s] = "tellLosers"
        /\ job'[s] = [NoJob EXCEPT !.ride = r, !.set = job[s].set]
    BY <1>2 DEF WinRide, Goto
  <2>2. job'[s].ride = r /\ d \in job'[s].set
    BY <1>2, <2>1 DEF NoJob
  <2> QED BY <2>1, <2>2 DEF Telling
<1>3. ASSUME NEW s \in Sessions, CancelCommit(s), job[s].ride = r,
             d \in job[s].set
      PROVE  Telling(r, d)'
  <2>1. /\ pc'[s] = "tellCancelled"
        /\ job'[s] = [NoJob EXCEPT !.ride = r, !.set = ToTell(s)]
    BY <1>3 DEF CancelCommit, Goto
  <2>2. job'[s].ride = r /\ d \in job'[s].set
    BY <1>3, <2>1 DEF NoJob, ToTell
  <2> QED BY <2>1, <2>2 DEF Telling
<1> QED BY <1>1, <1>2, <1>3, OfferSteps

(***************************************************************************)
(* A driver whose offer is withdrawn is always on the list of those the    *)
(* withdrawing session is about to tell, however many sessions withdraw    *)
(* offers of the ride, and however old the list of one of them is          *)
(* (respond_to_offer and cancel_ride_request).                             *)
(***************************************************************************)
THEOREM WithdrawnAreTold == DispatchSpec => WithdrawnIsTold
<1>1. IInv /\ [DispatchNext]_vars =>
         [\A r \in Rides, d \in Drivers :
             (offer'[r][d] \in {"REMOVED", "CANCELLED"} /\ offer'[r][d] # offer[r][d])
                 => Telling(r, d)']_vars
    BY WithdrawStep
<1> QED BY <1>1, Inductive, PTL DEF DispatchSpec, WithdrawnIsTold

-----------------------------------------------------------------------------
(* Refinement. *)

LEMMA AssignmentInit == DispatchInit => Assignment!Init
BY DEF DispatchInit, RidesInit, Assignment!Init, Active

\* Whoever assigns an open, unassigned ride the index allows, wins it.
LEMMA AssignWins ==
    ASSUME DispatchTypeOK, NEW r \in Rides, NEW d \in Drivers,
           CanAssign(r), UniqueIndex(r, "ASSIGNED", d),
           SetRide(r, "ASSIGNED", d)
    PROVE  Assignment!Win(r, d)
<1> USE DEF DispatchTypeOK, RidesTypeOK
<1>1. status[r] \notin Active \cup {"CANCELLED"} /\ driver[r] = NoDriver
    BY DEF CanAssign, Open, Active
<1>2. d # NoDriver
    BY NoDriverAssumption
<1>3. Assignment!Free(d)
    BY <1>1, <1>2 DEF Assignment!Free, UniqueIndex, Active
<1>4. /\ status' = [status EXCEPT ![r] = "ASSIGNED"]
      /\ driver' = [driver EXCEPT ![r] = d]
    BY DEF SetRide
<1>5. {q \in Rides : status'[q] \in Active}
         = {q \in Rides : status[q] \in Active} \cup {r}
    BY <1>4 DEF Active
<1>6. {q \in Rides : status'[q] = "CANCELLED"}
         = {q \in Rides : status[q] = "CANCELLED"}
    BY <1>1, <1>4
<1> QED BY <1>1, <1>3, <1>4, <1>5, <1>6 DEF Assignment!Win

LEMMA AssignmentStep ==
    ASSUME IInv, [DispatchNext]_vars
    PROVE  [Assignment!Next]_(Assignment!avars)
<1> USE DEF IInv, DispatchTypeOK, RidesTypeOK
<1>1. CASE UNCHANGED rideVars
    BY <1>1 DEF rideVars, Assignment!avars
<1>2. ASSUME NEW s \in Sessions, NEW r \in Rides, CreateRide(s, r)
      PROVE  UNCHANGED Assignment!avars
  <2>1. status[r] = "NONE" /\ driver[r] = NoDriver
    BY <1>2 DEF CreateRide, Unborn
  <2>2. /\ status' = [status EXCEPT ![r] = "MATCHING"]
        /\ driver' = [driver EXCEPT ![r] = NoDriver]
    BY <1>2 DEF CreateRide, SetRide
  <2>3. driver' = driver
    BY <2>1, <2>2
  <2>4. {q \in Rides : status'[q] \in Active}
           = {q \in Rides : status[q] \in Active}
    BY <2>1, <2>2 DEF Active
  <2>5. {q \in Rides : status'[q] = "CANCELLED"}
           = {q \in Rides : status[q] = "CANCELLED"}
    BY <2>1, <2>2
  <2> QED BY <2>3, <2>4, <2>5 DEF Assignment!avars
<1>3. ASSUME NEW s \in Sessions, WinRide(s)
      PROVE  Assignment!Next
  <2>1. pc[s] = "locked"
    BY <1>3 DEF WinRide
  <2>2. PICK r \in Rides, d \in Drivers : r = job[s].ride /\ d = job[s].drv
    BY <2>1 DEF SessionsServe
  <2>3. CanAssign(r)
    BY <2>1, <2>2 DEF LockHolds
  <2>4. UniqueIndex(r, "ASSIGNED", d) /\ SetRide(r, "ASSIGNED", d)
    BY <1>3, <2>2 DEF WinRide, SetRide
  <2>5. Assignment!Win(r, d)
    BY <2>3, <2>4, AssignWins
  <2> QED BY <2>5 DEF Assignment!Next
<1>4. ASSUME NEW s \in Sessions, CancelCommit(s)
      PROVE  Assignment!Next
  <2>1. PICK r \in Rides : r = job[s].ride
    BY <1>4 DEF CancelCommit, SessionsServe
  <2>2. /\ status' = [status EXCEPT ![r] = "CANCELLED"]
        /\ driver' = driver
    BY <1>4, <2>1 DEF CancelCommit, SetRide
  <2>3. {q \in Rides : status'[q] \in Active}
           = {q \in Rides : status[q] \in Active} \ {r}
    BY <2>2 DEF Active
  <2>4. {q \in Rides : status'[q] = "CANCELLED"}
           = {q \in Rides : status[q] = "CANCELLED"} \cup {r}
    BY <2>2
  <2>5. Assignment!Die(r)
    BY <2>2, <2>3, <2>4 DEF Assignment!Die
  <2> QED BY <2>5 DEF Assignment!Next
<1>5. ASSUME NEW r \in Rides, NEW d \in Drivers, RadarMatch(r, d)
      PROVE  Assignment!Next
  <2>1. Assignment!Win(r, d)
    BY <1>5, AssignWins DEF RadarMatch
  <2> QED BY <2>1 DEF Assignment!Next
<1> QED BY <1>1, <1>2, <1>3, <1>4, <1>5, RideSteps DEF vars, rideVars

(***************************************************************************)
(* Dispatch implements RideAssignment.                                     *)
(***************************************************************************)
THEOREM ImplementsAssignment == DispatchSpec => AssignmentSpec
BY Inductive, AssignmentInit, AssignmentStep, PTL
   DEF DispatchSpec, AssignmentSpec, Assignment!Spec
=============================================================================
