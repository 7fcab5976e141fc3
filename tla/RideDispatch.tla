---------------------------- MODULE RideDispatch ----------------------------
(***************************************************************************)
(* Fan-out dispatch of on-demand rides: RideDispatchService and the Smart  *)
(* Radar match of the matching service.                                    *)
(*                                                                         *)
(* A session is one HTTP request (or one background task) with its own     *)
(* database session.  Its steps are the points where it touches the        *)
(* database: what it read earlier stays in its job, and may be stale when  *)
(* it is used.  PostgreSQL runs READ COMMITTED, so a plain SELECT sees the *)
(* last commit.  The only lock is SELECT ... FOR UPDATE on the ride: every *)
(* writer of the row waits for it, and so does an insert of an offer, whose *)
(* foreign key needs a share lock on the ride; updates of offers do not.   *)
(* SQLAlchemy writes the attributes a handler changed, as values.          *)
(*                                                                         *)
(* On-demand rides enter as MATCHING, so the assignment of MATCHING in     *)
(* dispatch_ride_request rewrites the value just read: no UPDATE is sent.  *)
(***************************************************************************)
EXTENDS RideStore

CONSTANTS
    Sessions,   \* the requests and background tasks that run concurrently
    Near,       \* the drivers within the first search radius, when online
    Steady,     \* the drivers who stay online and where they are
    MayFail     \* whether a session may fail, or the server stop, half way

ASSUME DispatchAssumption ==
    /\ Near \subseteq Drivers
    /\ Steady \subseteq Drivers
    /\ MayFail \in BOOLEAN

VARIABLES
    offer,      \* offer[r][d]: RideOffer.status; uq_ride_offer_driver allows
                \* one row for each ride and driver
    late,       \* the offers whose expires_at has passed
    old,        \* the active rides whose 15 minutes (expires_at) are over
    pc,         \* pc[s]: the next step of session s
    job         \* job[s]: what session s has read so far

offerVars == <<offer, late>>
sessionVars == <<pc, job>>
vars == <<status, driver, offer, late, old, pc, job>>

OfferStatuses == {"none", "PENDING", "ACCEPTED", "REJECTED", "EXPIRED",
                  "CANCELLED", "SUPERSEDED", "REMOVED"}

Steps == {"idle", "dispatch", "candidates", "insert",
          "accept", "reject", "lock", "locked", "remaining", "tellLosers",
          "cancelOffers", "cancelCommit", "tellCancelled", "expire"}

\* ride and drv: the ride and the driver served; seen: the offer status read;
\* set: the candidates found, or the drivers whose pending offers were read.
Job == [ride : Rides \cup {NoRide}, drv : Drivers \cup {NoDriver},
        seen : OfferStatuses, set : SUBSET Drivers]

NoJob == [ride |-> NoRide, drv |-> NoDriver, seen |-> "none", set |-> {}]

DispatchTypeOK ==
    /\ RidesTypeOK
    /\ offer \in [Rides -> [Drivers -> OfferStatuses]]
    /\ late \subseteq Rides \X Drivers
    /\ old \subseteq Rides
    /\ pc \in [Sessions -> Steps]
    /\ job \in [Sessions -> Job]

DispatchInit ==
    /\ RidesInit
    /\ offer = [r \in Rides |-> [d \in Drivers |-> "none"]]
    /\ late = {}
    /\ old = {}
    /\ pc = [s \in Sessions |-> "idle"]
    /\ job = [s \in Sessions |-> NoJob]

-----------------------------------------------------------------------------
(* Session bookkeeping. *)

Start(s, step, j) ==
    /\ pc[s] = "idle"
    /\ pc' = [pc EXCEPT ![s] = step]
    /\ job' = [job EXCEPT ![s] = j]

Goto(s, step, j) ==
    /\ pc' = [pc EXCEPT ![s] = step]
    /\ job' = [job EXCEPT ![s] = j]

Return(s) == Goto(s, "idle", NoJob)

\* The session commits offer (r, d) with status v, having read seen: an
\* attribute set to the value it was loaded with is not written.
WriteOffer(r, d, seen, v) ==
    offer' = IF seen = v THEN offer ELSE [offer EXCEPT ![r][d] = v]

\* SELECT without FOR UPDATE: nobody ever waits.
NoLock(r) == TRUE

\* No transaction holds the row lock of ride r.
Unlocked(r) == \A s \in Sessions : ~(pc[s] = "locked" /\ job[s].ride = r)

-----------------------------------------------------------------------------
(* Dispatch: create_ride_request, re_dispatch_ride, dispatch_ride_request. *)

Dispatchable == {"CREATED", "MATCHING", "DISPATCHING"}

\* create_ride_request commits the ride, then dispatches it in the same
\* session, whose identity map still holds the row it has just written.
CreateRide(s, r) ==
    /\ status[r] = "NONE"
    /\ SetRide(r, "MATCHING", NoDriver)
    /\ Start(s, "candidates", [NoJob EXCEPT !.ride = r])
    /\ UNCHANGED <<offerVars, old>>

\* The customer widens the search (re_dispatch_ride).  dispatch_ride_request
\* tests the status again, on the object this session already holds.
Redispatch(s, r) ==
    /\ status[r] \in Dispatchable
    /\ Start(s, "candidates", [NoJob EXCEPT !.ride = r])
    /\ UNCHANGED <<rideVars, offerVars, old>>

\* The task started by the last reject reads the ride in its own session.
BackgroundDispatch(s) ==
    /\ pc[s] = "dispatch"
    /\ IF status[job[s].ride] \in Dispatchable
       THEN Goto(s, "candidates", job[s])
       ELSE Return(s)
    /\ UNCHANGED <<rideVars, offerVars, old>>

\* Offers the search treats as still open or as already answered.
Answered == {"PENDING", "ACCEPTED", "REJECTED", "EXPIRED", "REMOVED",
             "SUPERSEDED"}

\* The search excludes a driver for an active ride only while that ride is
\* less than 15 minutes old.
Candidates(r, ds) ==
    {d \in ds :
        /\ offer[r][d] \notin Answered
        /\ \A q \in Rides \ old : ~(driver[q] = d /\ status[q] \in Active)}

\* The first wave looks near the pickup; when it finds nobody, the second
\* looks further.  Drivers other than the steady ones come and go.
FindCandidates(s) ==
    /\ pc[s] = "candidates"
    /\ \E passing \in SUBSET (Drivers \ Steady) :
         LET r == job[s].ride
             online == Steady \cup passing
             near == Candidates(r, online \cap Near)
             found == IF near = {} THEN Candidates(r, online) ELSE near
         IN  IF found = {} THEN Return(s)
                           ELSE Goto(s, "insert", [job[s] EXCEPT !.set = found])
    /\ UNCHANGED <<rideVars, offerVars, old>>

\* A dispatch that reuses the rows it finds instead of failing on them.
AnyOfferFits(r, ds) == TRUE

\* uq_ride_offer_driver: no driver of ds has a row for r yet.
OffersFit(r, ds) == \A d \in ds : offer[r][d] = "none"

\* One PENDING offer for each candidate, in one commit; if another dispatch
\* inserted one of them first, IntegrityError loses the whole wave.
InsertOffers(s) ==
    LET r == job[s].ride
        ds == job[s].set
    IN  /\ pc[s] = "insert"
        /\ Unlocked(r)
        /\ offer' = IF OffersFit(r, ds)
                    THEN [offer EXCEPT ![r] =
                            [d \in Drivers |-> IF d \in ds THEN "PENDING"
                                                           ELSE @[d]]]
                    ELSE offer
        /\ Return(s)
        /\ UNCHANGED <<rideVars, late, old>>

-----------------------------------------------------------------------------
(* respond_to_offer. *)

\* The driver taps Accept or Reject, maybe twice, maybe long after the card
\* was shown; the handler loads the offer.
Respond(s, r, d, step) ==
    /\ step \in {"accept", "reject"}
    /\ offer[r][d] # "none"
    /\ Start(s, step, [NoJob EXCEPT !.ride = r, !.drv = d,
                                    !.seen = offer[r][d]])
    /\ UNCHANGED <<rideVars, offerVars, old>>

\* An accept by a driver with an active ride is refused, whatever the offer.
Busy(s) == pc[s] = "accept" /\ HasActiveRide(job[s].drv)

RefuseBusy(s) ==
    /\ Busy(s)
    /\ WriteOffer(job[s].ride, job[s].drv, job[s].seen, "SUPERSEDED")
    /\ Return(s)
    /\ UNCHANGED <<rideVars, late, old>>

\* The offer was no longer pending when the handler loaded it.
RefuseAnswered(s) ==
    /\ pc[s] \in {"accept", "reject"} /\ ~Busy(s)
    /\ job[s].seen # "PENDING"
    /\ Return(s)
    /\ UNCHANGED <<rideVars, offerVars, old>>

RefuseLate(s) ==
    /\ pc[s] \in {"accept", "reject"} /\ ~Busy(s)
    /\ job[s].seen = "PENDING"
    /\ <<job[s].ride, job[s].drv>> \in late
    /\ WriteOffer(job[s].ride, job[s].drv, "PENDING", "EXPIRED")
    /\ Return(s)
    /\ UNCHANGED <<rideVars, late, old>>

\* The answer is in time: a reject is committed, an accept asks for the lock.
InTime(s) ==
    /\ job[s].seen = "PENDING"
    /\ <<job[s].ride, job[s].drv>> \notin late

Reject(s) ==
    /\ pc[s] = "reject"
    /\ InTime(s)
    /\ WriteOffer(job[s].ride, job[s].drv, "PENDING", "REJECTED")
    /\ Goto(s, "remaining", job[s])
    /\ UNCHANGED <<rideVars, late, old>>

AskForLock(s) ==
    /\ pc[s] = "accept" /\ ~Busy(s)
    /\ InTime(s)
    /\ Goto(s, "lock", job[s])
    /\ UNCHANGED <<rideVars, offerVars, old>>

\* A count that takes a rejected offer for one that may still be accepted.
Unrejected(r) ==
    {d \in Drivers : offer[r][d] \in {"PENDING", "REJECTED"}
                     /\ <<r, d>> \notin late}

\* The offers of r a driver may still accept.
Remaining(r) ==
    {d \in Drivers : offer[r][d] = "PENDING" /\ <<r, d>> \notin late}

\* After its reject the handler looks for remaining offers, and starts a new
\* dispatch in the background when there is none.
CountRemaining(s) ==
    /\ pc[s] = "remaining"
    /\ IF Remaining(job[s].ride) # {}
       THEN Return(s)
       ELSE Goto(s, "dispatch", [NoJob EXCEPT !.ride = job[s].ride])
    /\ UNCHANGED <<rideVars, offerVars, old>>

\* Accepting on what was read before the lock.
NoRecheck(r) == TRUE

\* Looking only at the driver under the lock.
UnassignedOnly(r) == driver[r] = NoDriver

\* The test of the locked row: open and unassigned.
CanAssign(r) == status[r] \in Open /\ driver[r] = NoDriver

LoseRide(s) ==
    /\ pc[s] = "lock"
    /\ Unlocked(job[s].ride)
    /\ ~CanAssign(job[s].ride)
    /\ WriteOffer(job[s].ride, job[s].drv, "PENDING", "SUPERSEDED")
    /\ Return(s)
    /\ UNCHANGED <<rideVars, late, old>>

\* The handler holds the lock and reads the competing offers.
TakeLock(s) ==
    LET r == job[s].ride IN
    /\ pc[s] = "lock"
    /\ Unlocked(r)
    /\ CanAssign(r)
    /\ Goto(s, "locked",
            [job[s] EXCEPT !.set =
                {e \in Drivers \ {job[s].drv} : offer[r][e] = "PENDING"}])
    /\ UNCHANGED <<rideVars, offerVars, old>>

\* The winner: ride assigned, offer accepted, competing offers removed, in
\* one commit.  The losers are told afterwards.
WinRide(s) ==
    LET r == job[s].ride
        d == job[s].drv
        losers == job[s].set
    IN  /\ pc[s] = "locked"
        /\ UniqueIndex(r, "ASSIGNED", d)
        /\ SetRide(r, "ASSIGNED", d)
        /\ offer' = [offer EXCEPT ![r] =
                        [e \in Drivers |-> IF e = d THEN "ACCEPTED"
                                           ELSE IF e \in losers THEN "REMOVED"
                                           ELSE @[e]]]
        /\ Goto(s, "tellLosers", [NoJob EXCEPT !.ride = r, !.set = losers])
        /\ UNCHANGED <<late, old>>

\* The driver won another ride since the check at the top: the commit raises
\* IntegrityError, and the offer stays as it was.
IndexRefuses(s) ==
    /\ pc[s] = "locked"
    /\ ~UniqueIndex(job[s].ride, "ASSIGNED", job[s].drv)
    /\ Return(s)
    /\ UNCHANGED <<rideVars, offerVars, old>>

\* RIDE_REQUEST_REMOVED, published after the commit to the drivers in the job.
Tell(s) ==
    /\ pc[s] \in {"tellLosers", "tellCancelled"}
    /\ Return(s)
    /\ UNCHANGED <<rideVars, offerVars, old>>

-----------------------------------------------------------------------------
(* cancel_ride_request: three unlocked steps. *)

CancelRead(s, r) ==
    /\ status[r] \notin Closed \cup {"NONE"}
    /\ Start(s, "cancelOffers", [NoJob EXCEPT !.ride = r, !.drv = driver[r]])
    /\ UNCHANGED <<rideVars, offerVars, old>>

CancelReadOffers(s) ==
    LET r == job[s].ride IN
    /\ pc[s] = "cancelOffers"
    /\ Goto(s, "cancelCommit",
            [job[s] EXCEPT !.set = {d \in Drivers : offer[r][d] = "PENDING"}])
    /\ UNCHANGED <<rideVars, offerVars, old>>

\* Without the test that the ride was assigned, or without the offers.
TellNull(s) == job[s].set \cup {job[s].drv}
TellAssigned(s) == {job[s].drv} \ {NoDriver}

\* The drivers of the offers read, and the one the ride had at first read.
ToTell(s) == job[s].set \cup ({job[s].drv} \ {NoDriver})

\* The status and the offers read are overwritten.
CancelCommit(s) ==
    LET r == job[s].ride
        ds == job[s].set
    IN  /\ pc[s] = "cancelCommit"
        /\ Unlocked(r)
        /\ SetRide(r, "CANCELLED", driver[r])
        /\ offer' = [offer EXCEPT ![r] =
                        [d \in Drivers |-> IF d \in ds THEN "CANCELLED"
                                                       ELSE @[d]]]
        /\ Goto(s, "tellCancelled", [NoJob EXCEPT !.ride = r, !.set = ToTell(s)])
        /\ UNCHANGED <<late, old>>

-----------------------------------------------------------------------------
(* get_offer_status, submit_radar_match_interest. *)

\* The app asks whether a pending offer still stands; an offer that is not
\* pending is answered without a write.
CheckOffer(s, r, d) ==
    /\ offer[r][d] = "PENDING"
    /\ Start(s, "expire", [NoJob EXCEPT !.ride = r, !.drv = d,
                                        !.seen = "PENDING"])
    /\ UNCHANGED <<rideVars, offerVars, old>>

ExpireOffer(s) ==
    LET r == job[s].ride
        d == job[s].drv
    IN  /\ pc[s] = "expire"
        /\ IF <<r, d>> \in late THEN WriteOffer(r, d, "PENDING", "EXPIRED")
                                ELSE offer' = offer
        /\ Return(s)
        /\ UNCHANGED <<rideVars, late, old>>

\* Of the rides an online driver selects on the radar, the first that is
\* still open is assigned under its lock; offers and other drivers are left
\* alone.  The handler does not look for an active ride: the index does.
RadarMatch(r, d) ==
    /\ Unlocked(r)
    /\ CanAssign(r)
    /\ UniqueIndex(r, "ASSIGNED", d)
    /\ SetRide(r, "ASSIGNED", d)
    /\ UNCHANGED <<offerVars, old, sessionVars>>

-----------------------------------------------------------------------------
(* The environment. *)

\* A session fails: an exception, a lost connection, a stopped server.
\* What it committed stays; what it had still to do is lost.
Fail(s) ==
    /\ MayFail
    /\ pc[s] # "idle"
    /\ Return(s)
    /\ UNCHANGED <<rideVars, offerVars, old>>

\* OFFER_TIMEOUT_SEC passes.  Nothing in the service runs at that moment.
Deadline(r, d) ==
    /\ offer[r][d] # "none"
    /\ late' = late \cup {<<r, d>>}
    /\ UNCHANGED <<rideVars, offer, old, sessionVars>>

\* An active ride grows old.
Age(r) ==
    /\ status[r] \in Active
    /\ old' = old \cup {r}
    /\ UNCHANGED <<rideVars, offerVars, sessionVars>>

-----------------------------------------------------------------------------

\* A new request arrives at session s.
Arrive(s) ==
    \E r \in Rides :
        \/ CreateRide(s, r)
        \/ Redispatch(s, r)
        \/ CancelRead(s, r)
        \/ \E d \in Drivers :
              \/ \E step \in {"accept", "reject"} : Respond(s, r, d, step)
              \/ CheckOffer(s, r, d)

\* Session s goes on with the request it serves.
Proceed(s) ==
    \/ BackgroundDispatch(s) \/ FindCandidates(s) \/ InsertOffers(s)
    \/ RefuseBusy(s) \/ RefuseAnswered(s) \/ RefuseLate(s)
    \/ Reject(s) \/ CountRemaining(s)
    \/ AskForLock(s) \/ LoseRide(s)
    \/ TakeLock(s) \/ WinRide(s) \/ IndexRefuses(s)
    \/ CancelReadOffers(s) \/ CancelCommit(s)
    \/ Tell(s) \/ ExpireOffer(s)

Environment ==
    \/ \E r \in Rides : Age(r)
    \/ \E r \in Rides, d \in Drivers : Deadline(r, d) \/ RadarMatch(r, d)

DispatchNext ==
    \/ \E s \in Sessions : Arrive(s) \/ Proceed(s) \/ Fail(s)
    \/ Environment

DispatchSpec == DispatchInit /\ [][DispatchNext]_vars

\* A request that the server has started is carried on to its end.
FairDispatchSpec == DispatchSpec /\ \A s \in Sessions : WF_vars(Proceed(s))

-----------------------------------------------------------------------------
(***************************************************************************)
(* An ACCEPTED offer belongs to the driver who has the ride, so a ride has *)
(* at most one ("Only ONE offer can be ACCEPTED per ride", RideOffer): no  *)
(* two accepts, and no accept and radar match, both go through.            *)
(***************************************************************************)
AcceptedMeansWon ==
    \A r \in Rides, d \in Drivers :
        offer[r][d] = "ACCEPTED" => driver[r] = d

(***************************************************************************)
(* First accept wins: a ride that has a driver keeps it, whatever accepts, *)
(* radar matches and cancellations were under way (respond_to_offer).      *)
(***************************************************************************)
FirstAcceptWins ==
    [][\A r \in Rides : driver[r] # NoDriver => driver'[r] = driver[r]]_vars

(***************************************************************************)
(* A cancelled ride stays cancelled: an accept or a dispatch that started  *)
(* before the cancellation never brings it back (cancel_ride_request).     *)
(***************************************************************************)
CancelledStays ==
    [][\A r \in Rides :
          status[r] = "CANCELLED" => status'[r] = "CANCELLED"]_vars

(***************************************************************************)
(* A driver who answered, or lost, or let pass an offer is never asked     *)
(* about that ride again, even by dispatches running at the same time      *)
(* (dispatch_ride_request and its candidate search).                       *)
(***************************************************************************)
NoReoffer ==
    [][\A r \in Rides, d \in Drivers :
          offer'[r][d] = "PENDING" => offer[r][d] \in {"none", "PENDING"}]_vars

(***************************************************************************)
(* A driver whose offer is withdrawn is on the list of the drivers to tell *)
(* of the session that withdraws it: respond_to_offer and                  *)
(* cancel_ride_request build the list before they commit, and publish      *)
(* after.                                                                  *)
(***************************************************************************)
Telling(r, d) ==
    \E s \in Sessions : /\ pc[s] \in {"tellLosers", "tellCancelled"}
                        /\ job[s].ride = r
                        /\ d \in job[s].set

WithdrawnIsTold ==
    [][\A r \in Rides, d \in Drivers :
          (offer'[r][d] \in {"REMOVED", "CANCELLED"} /\ offer'[r][d] # offer[r][d])
              => Telling(r, d)']_vars

(***************************************************************************)
(* Dispatch implements RideAssignment.                                     *)
(***************************************************************************)
Assignment ==
    INSTANCE RideAssignment
        WITH winner <- driver,
             serving <- {r \in Rides : status[r] \in Active},
             dead <- {r \in Rides : status[r] = "CANCELLED"}

AssignmentSpec == Assignment!Spec

(***************************************************************************)
(* A ride whose last open offer has just been rejected gets a new wave, if *)
(* a driver not asked yet is in range and stays there: the background task *)
(* of the last reject carries on to the insert.  (The wave may also be one *)
(* another session inserts, and the ride may leave MATCHING meanwhile.)    *)
(***************************************************************************)
Exhausted(r) ==
    /\ status[r] = "MATCHING"
    /\ \A d \in Drivers : offer[r][d] = "PENDING" => <<r, d>> \in late

RejectRedispatches ==
    \A r \in Rides :
        (/\ Exhausted(r)
         /\ \E s \in Sessions : pc[s] = "remaining" /\ job[s].ride = r)
            ~> (~Exhausted(r) \/ Candidates(r, Steady) = {})

-----------------------------------------------------------------------------
(* What the documents say of the program, and the code does not do. *)

(***************************************************************************)
(* A driver who had been assigned learns that the customer cancelled ("If  *)
(* driver was already assigned, also notify assigned driver").             *)
(***************************************************************************)
CancelTellsAssignedDriver ==
    [][\A r \in Rides, d \in Drivers :
          (status'[r] = "CANCELLED" /\ status[r] # "CANCELLED" /\ driver[r] = d)
              => Telling(r, d)']_vars

(***************************************************************************)
(* A ride whose offers all expired or were rejected is dispatched again    *)
(* while a driver not asked yet is in range ("If all active offers in the  *)
(* current wave are rejected or expire, the dispatch engine automatically  *)
(* expands search radius").                                                *)
(***************************************************************************)
ExpiryRedispatches ==
    \A r \in Rides :
        (/\ Exhausted(r)
         /\ \E d \in Drivers : offer[r][d] = "PENDING")
            ~> (~Exhausted(r) \/ Candidates(r, Steady) = {})
=============================================================================
