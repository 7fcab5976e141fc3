---------------------------- MODULE DriverOffers ----------------------------
(***************************************************************************)
(* The ride offers of one driver's app: the queue the socket, the polls    *)
(* and the notifications all write, the single full-screen card that shows *)
(* its first entry, and the answers the driver sends.  The server is       *)
(* modelled as far as this driver sees it: the status of each offer made   *)
(* to him, the rides he won, and the events pushed to his room.            *)
(*                                                                         *)
(* Offers are numbered in the order the server makes them.  Every offer    *)
(* lives equally long, so that is also the order in which they expire.     *)
(***************************************************************************)
EXTENDS Naturals, Sequences, FiniteSetsExt

CONSTANTS Offers,      \* the offers made to this driver, by age
          Calls,       \* answers that may be in flight together
          Fetches,     \* reads of the pending offers in flight together
          NoOffer,     \* nothing shown
          MaxWire      \* events under way to the app

ASSUME OffersAssumption == /\ Offers \subseteq Nat
                           /\ IsFiniteSet(Offers)
                           /\ NoOffer \notin Offers
                           /\ MaxWire \in Nat

VARIABLES server,      \* the status of each offer in the database
          won,         \* the offers by which the driver was assigned a ride
          late,        \* the offers whose expires_at has passed
          wire,        \* events on their way to the app, in order
          queue,       \* RideQueueService.queue
          shown,       \* state.incomingRequest: the entry the card renders
          card,        \* the state of the mounted IncomingRequestScreen
          dismissals,  \* its timers: an offer to open, or NoOffer
          call,        \* answers of the driver under way
          fetch,       \* reads of the server under way
          opened       \* rides whose /active-trip screen was opened

serverVars == <<server, won, late>>
cardVars   == <<queue, shown, card, dismissals>>
vars == <<server, won, late, wire, queue, shown, card, dismissals,
          call, fetch, opened>>

OfferStatus == {"NONE", "PENDING", "ACCEPTED", "DECLINED", "SUPERSEDED"}

CardStates == {"CLOSED", "NEW_OFFER", "ACCEPTING", "REJECTING", "ACCEPTED",
               "EXPIRED", "ALREADY_ASSIGNED"}

Results == {"none", "accepted", "superseded", "driver_busy", "expired",
            "rejected", "error"}

Event    == [event : {"NEW", "REMOVED"}, offer : Offers]
Card     == [state : CardStates, timer : Offers \cup {NoOffer}]
Response == [offer : Offers \cup {NoOffer}, accepted : BOOLEAN,
             by : {"card", "gone", "note"},
             step : {"idle", "first", "second", "back"}, result : Results]
Read     == [use : {"idle", "replace", "upsert", "sync", "open"},
             snap : SUBSET Offers]

IdleCall  == [offer |-> NoOffer, accepted |-> FALSE, by |-> "card",
              step |-> "idle", result |-> "none"]
IdleFetch == [use |-> "idle", snap |-> {}]
(* A bug: the timer that is not running is written 0. *)
ClosedAtZero == [state |-> "CLOSED", timer |-> 0]
Closed     == [state |-> "CLOSED", timer |-> NoOffer]
Mounted(o) == [state |-> "NEW_OFFER", timer |-> o]

OffersTypeOK ==
  /\ server \in [Offers -> OfferStatus]
  /\ won \subseteq Offers
  /\ late \subseteq Offers
  /\ wire \in Seq(Event)
  /\ queue \subseteq Offers
  /\ shown \in Offers \cup {NoOffer}
  /\ card \in Card
  /\ dismissals \subseteq Offers \cup {NoOffer}
  /\ call \in [Calls -> Response]
  /\ fetch \in [Fetches -> Read]
  /\ opened \subseteq Offers

Init ==
  /\ server = [o \in Offers |-> "NONE"]
  /\ won = {} /\ late = {}
  /\ wire = <<>>
  /\ queue = {} /\ shown = NoOffer
  /\ card = Closed /\ dismissals = {}
  /\ call = [c \in Calls |-> IdleCall]
  /\ fetch = [f \in Fetches |-> IdleFetch]
  /\ opened = {}

-----------------------------------------------------------------------------
(* What the server says. *)

Pending == {o \in Offers \ late : server[o] = "PENDING"}

(* An event reaches the app, or is lost because the socket is down or goes
   down: only what was pushed while it is up is delivered, in order. *)
Push(ev, o) ==
  /\ Len(wire) < MaxWire
  /\ wire' \in {wire, Append(wire, [event |-> ev, offer |-> o])}

Publish(o) ==
  /\ server[o] = "NONE" /\ o \notin late
  /\ \A p \in Offers : server[p] = "NONE" => p >= o
  /\ server' = [server EXCEPT ![o] = "PENDING"]
  /\ Push("NEW", o)
  /\ UNCHANGED <<won, late, cardVars, call, fetch, opened>>

Withdraw(o) ==                 \* another driver won, or the ride was cancelled
  /\ server[o] = "PENDING"
  /\ server' = [server EXCEPT ![o] = "SUPERSEDED"]
  /\ Push("REMOVED", o)
  /\ UNCHANGED <<won, late, cardVars, call, fetch, opened>>

Expire(o) ==                   \* the clock passes expires_at, oldest first
  /\ server[o] # "NONE" /\ o \notin late
  /\ \A p \in Offers : p < o => p \in late
  /\ late' = late \cup {o}
  /\ UNCHANGED <<server, won, wire, cardVars, call, fetch, opened>>

Verdict(o, accept) ==          \* the answer to a response
  IF accept /\ won # {} THEN "driver_busy"
  ELSE IF server[o] = "DECLINED" THEN "rejected"
  ELSE IF server[o] # "PENDING" THEN "superseded"
  ELSE IF o \in late THEN "expired"
  ELSE IF accept THEN "accepted" ELSE "rejected"

Record(o, verdict) ==          \* what the response leaves in the database
  /\ server' = CASE verdict = "driver_busy" ->
                        [server EXCEPT ![o] = "SUPERSEDED"]
                 [] verdict = "accepted" -> [server EXCEPT ![o] = "ACCEPTED"]
                 [] verdict = "rejected" -> [server EXCEPT ![o] = "DECLINED"]
                 [] OTHER -> server
  /\ won' = IF verdict = "accepted" THEN won \cup {o} ELSE won

-----------------------------------------------------------------------------
(* The queue and the card that shows its first entry. *)

(* A bug: newest first, as a stale comment of getQueue says. *)
NewestFirst(q) == IF q \ late = {} THEN NoOffer ELSE Max(q \ late)
Soonest(q) == IF q \ late = {} THEN NoOffer ELSE Min(q \ late)

Sending(cl, c) == cl[c].by = "card" /\ cl[c].step # "idle"

Orphaned(cl) == [c \in Calls |-> IF Sending(cl, c)
                                 THEN [cl[c] EXCEPT !.by = "gone"] ELSE cl[c]]

(* The overlay renders the card without a key: it is not mounted anew when
   another offer comes first. *)
(* A bug: a new card for the new offer, while the old answer is under way. *)
KeyedByOffer(st, next) == IF next = shown THEN [card EXCEPT !.state = st]
                                          ELSE Mounted(next)
StaysMounted(st, next) == [card EXCEPT !.state = st]

(***************************************************************************)
(* RideQueueService.notify with the new queue q: the socket service takes  *)
(* the first unexpired entry, the overlay mounts, keeps or unmounts the    *)
(* card.  A card that stays mounted keeps its state st and its timers ds   *)
(* even when it goes on to show another offer.  An unmounted card loses    *)
(* its timers, and the answers it sent find nobody to tell.                *)
(***************************************************************************)
Notify(q, st, ds, cl) ==
  /\ queue' = q
  /\ shown' = Soonest(q)
  /\ IF Soonest(q) = NoOffer
     THEN /\ card' = Closed
          /\ dismissals' = {}
          /\ call' = Orphaned(cl)
     ELSE /\ card' = IF card.state = "CLOSED" THEN Mounted(Soonest(q))
                     ELSE StaysMounted(st, Soonest(q))
          /\ dismissals' = ds
          /\ call' = cl

removeByOfferId(o, st, ds, cl) ==
  \/ o \in queue /\ Notify(queue \ {o}, st, ds, cl)
  \/ /\ o \notin queue
     /\ card' = [card EXCEPT !.state = st]
     /\ dismissals' = ds /\ call' = cl
     /\ UNCHANGED <<queue, shown>>

(* A bug: only an offer that is already there is written. *)
updateRequest(o) == IF o \in queue \ late
                    THEN Notify(queue, card.state, dismissals, call)
                    ELSE UNCHANGED <<cardVars, call>>
upsertRequest(o) ==
  \/ o \in late /\ UNCHANGED <<cardVars, call>>
  \/ o \notin late /\ Notify(queue \cup {o}, card.state, dismissals, call)

reconcileWithBackend(snap) == Notify(snap, card.state, dismissals, call)

clearIncomingRequest(cl) == Notify({}, "CLOSED", {}, cl)

-----------------------------------------------------------------------------
(* The socket. *)

(***************************************************************************)
(* fetchPendingOffers and what its caller does with the answer, which the  *)
(* model keeps until it is used: a list replaces the queue, or its newest  *)
(* entry is added to it; an empty list, which is also what any failure     *)
(* comes to, makes some callers ask for the active ride.  The home screen  *)
(* and the background task ignore an empty list.                           *)
(***************************************************************************)
FetchFree(f) == fetch[f].use = "idle"

fetchPendingOffers(f, use, empty) ==
  /\ FetchFree(f)
  /\ \/ Pending # {} /\ fetch' = [fetch EXCEPT ![f] = [use |-> use, snap |-> Pending]]
     \/ fetch' = [fetch EXCEPT ![f] = [use |-> empty, snap |-> {}]]

reconcileStateWithBackend(f) == fetchPendingOffers(f, "replace", "sync")

handleIncomingOffer ==
  /\ wire # <<>> /\ Head(wire).event = "NEW"
  /\ wire' = Tail(wire)
  /\ upsertRequest(Head(wire).offer)
  /\ UNCHANGED <<serverVars, fetch, opened>>

(* The card hears the event first; then the service drops the offer. *)
RemovedEvent ==
  /\ wire # <<>> /\ Head(wire).event = "REMOVED"
  /\ LET o == Head(wire).offer
         st == IF shown = o THEN "ALREADY_ASSIGNED" ELSE card.state
         ds == IF shown = o THEN dismissals \cup {NoOffer} ELSE dismissals
     IN removeByOfferId(o, st, ds, call)
  /\ wire' = Tail(wire)
  /\ UNCHANGED <<serverVars, fetch, opened>>

-----------------------------------------------------------------------------
(* The card. *)

Tap(c, accept) ==
  /\ card.state = "NEW_OFFER"
  /\ call[c].step = "idle"
  /\ call' = [call EXCEPT ![c] = [offer |-> shown, accepted |-> accept,
                                  by |-> "card", step |-> "first",
                                  result |-> "none"]]
  /\ card' = [card EXCEPT !.state = IF accept THEN "ACCEPTING" ELSE "REJECTING"]
  /\ UNCHANGED <<serverVars, wire, queue, shown, dismissals,
                 fetch, opened>>

(***************************************************************************)
(* respondToOffer: the request goes to one route and, on any failure, once *)
(* more to the other.  It may be lost on the way there or on the way back. *)
(***************************************************************************)
Respond(c) ==
  /\ call[c].step \in {"first", "second"}
  /\ \E arrives, answered \in BOOLEAN :
       LET o == call[c].offer
           verdict == Verdict(o, call[c].accepted)
           failed == IF call[c].step = "first"
                     THEN [call[c] EXCEPT !.step = "second"]
                     ELSE [call[c] EXCEPT !.step = "back", !.result = "error"]
           answer == [call[c] EXCEPT !.step = "back", !.result = verdict]
       IN /\ answered => arrives
          /\ IF arrives THEN Record(o, verdict) ELSE UNCHANGED <<server, won>>
          /\ call' = [call EXCEPT ![c] = IF answered THEN answer ELSE failed]
  /\ UNCHANGED <<late, wire, cardVars, fetch, opened>>

Back(c, by, results) ==
  /\ call[c].step = "back" /\ call[c].by \in by /\ call[c].result \in results

(* A bug: whatever is not a known refusal is a success. *)
NotRefused == {"accepted", "rejected"}
Success    == {"accepted"}

Freed(c) == [call EXCEPT ![c] = IdleCall]

Live(c) == call[c].by = "card"

AnswerLost(c) ==               \* superseded
  /\ Back(c, {"card", "gone"}, {"superseded"}) /\ call[c].accepted
  /\ removeByOfferId(call[c].offer,
                     IF Live(c) THEN "ALREADY_ASSIGNED" ELSE card.state,
                     IF Live(c) THEN dismissals \cup {NoOffer} ELSE dismissals,
                     Freed(c))
  /\ UNCHANGED <<serverVars, wire, fetch, opened>>

(* A bug: the buttons stay blocked after a failure. *)
RetryForgotten(c) ==
  /\ Back(c, {"card", "gone"}, {"driver_busy", "error"}) /\ call[c].accepted
  /\ call' = Freed(c)
  /\ UNCHANGED <<serverVars, wire, cardVars, fetch, opened>>
AnswerRetry(c) ==              \* driver_busy, or both requests failed
  /\ Back(c, {"card", "gone"}, {"driver_busy", "error"}) /\ call[c].accepted
  /\ card' = IF Live(c) THEN [card EXCEPT !.state = "NEW_OFFER"] ELSE card
  /\ call' = Freed(c)
  /\ UNCHANGED <<serverVars, wire, queue, shown, dismissals,
                 fetch, opened>>

AnswerExpired(c) ==
  /\ Back(c, {"card", "gone"}, {"expired"}) /\ call[c].accepted
  /\ removeByOfferId(call[c].offer,
                     IF Live(c) THEN "EXPIRED" ELSE card.state,
                     IF Live(c) THEN dismissals \cup {NoOffer} ELSE dismissals,
                     Freed(c))
  /\ UNCHANGED <<serverVars, wire, fetch, opened>>

AnswerWon(c) ==
  /\ Back(c, {"card", "gone"}, Success) /\ call[c].accepted
  /\ removeByOfferId(call[c].offer,
                     IF Live(c) THEN "ACCEPTED" ELSE card.state,
                     IF Live(c) THEN dismissals \cup {call[c].offer}
                                ELSE dismissals,
                     Freed(c))
  /\ UNCHANGED <<serverVars, wire, fetch, opened>>

AnswerUnknown(c) ==            \* any other status, such as an earlier decline
  /\ Back(c, {"card", "gone"}, {"rejected"}) /\ call[c].accepted
  /\ card' = IF Live(c) THEN [card EXCEPT !.state = "ALREADY_ASSIGNED"] ELSE card
  /\ dismissals' = IF Live(c) THEN dismissals \cup {NoOffer} ELSE dismissals
  /\ call' = Freed(c)
  /\ UNCHANGED <<serverVars, wire, queue, shown, fetch, opened>>

RejectDone(c) ==               \* whatever came back, the card is dismissed
  /\ Back(c, {"card", "gone"}, Results) /\ ~call[c].accepted
  /\ IF Live(c) THEN clearIncomingRequest(Freed(c))
                ELSE call' = Freed(c) /\ UNCHANGED cardVars
  /\ UNCHANGED <<serverVars, wire, fetch, opened>>

CardTimeout ==                 \* the countdown begun by the offer that mounted it
  /\ card.timer \in late
  /\ card' = [state |-> "EXPIRED", timer |-> NoOffer]
  /\ UNCHANGED <<serverVars, wire, queue, shown, dismissals, call,
                 fetch, opened>>

TapDismiss ==
  /\ card.state \in {"EXPIRED", "ALREADY_ASSIGNED"}
  /\ clearIncomingRequest(call)
  /\ UNCHANGED <<serverVars, wire, fetch, opened>>

DismissFires(d) ==             \* a timer of the card: dismiss, and open a ride
  /\ d \in dismissals
  /\ clearIncomingRequest(call)
  /\ opened' = opened \cup ({d} \ {NoOffer})
  /\ UNCHANGED <<serverVars, wire, fetch>>

-----------------------------------------------------------------------------
(* Notifications.  They come from the push service, from the app itself and
   once more when the app is launched from one, and they stay on display when
   the offer is over: the driver may respond to any offer he ever got. *)

NoteRespond(c, o, accept) ==   \* a rejection is sent to the second route only
  /\ server[o] # "NONE"
  /\ call[c].step = "idle"
  /\ call' = [call EXCEPT ![c] = [offer |-> o, accepted |-> accept,
                                  by |-> "note", result |-> "none",
                                  step |-> IF accept THEN "first" ELSE "second"]]
  /\ UNCHANGED <<serverVars, wire, cardVars, fetch, opened>>

NoteWon(c) ==
  /\ Back(c, {"note"}, Success) /\ call[c].accepted
  /\ opened' = opened \cup {call[c].offer}
  /\ call' = Freed(c)
  /\ UNCHANGED <<serverVars, wire, cardVars, fetch>>

NoteLost(c, f) ==              \* superseded: read the server again
  /\ Back(c, {"note"}, {"superseded"}) /\ call[c].accepted
  /\ call' = Freed(c)
  /\ reconcileStateWithBackend(f)
  /\ UNCHANGED <<serverVars, wire, cardVars, opened>>

NoteFailed(c) ==               \* busy, refused or failed: an alert, no more
  /\ \/ Back(c, {"note"}, {"driver_busy", "rejected", "error"})
        /\ call[c].accepted
     \/ Back(c, {"note"}, {"error"}) /\ ~call[c].accepted
  /\ call' = Freed(c)
  /\ UNCHANGED <<serverVars, wire, cardVars, fetch, opened>>

NoteDropped(c) ==              \* expired, or rejected as asked
  /\ \/ Back(c, {"note"}, {"expired"}) /\ call[c].accepted
     \/ Back(c, {"note"}, Results \ {"error"}) /\ ~call[c].accepted
  /\ removeByOfferId(call[c].offer, card.state, dismissals, Freed(c))
  /\ UNCHANGED <<serverVars, wire, fetch, opened>>

NoteTap(f) ==                  \* "verify backend state first"
  /\ \E o \in Offers : server[o] # "NONE"
  /\ fetchPendingOffers(f, "replace", "open")
  /\ UNCHANGED <<serverVars, wire, cardVars, call, opened>>

-----------------------------------------------------------------------------
(* Reads of the server that are not tied to an event, and what they bring. *)

Resume(f) ==                   \* the socket, the network or the app comes back
  /\ reconcileStateWithBackend(f)
  /\ UNCHANGED <<serverVars, wire, cardVars, call, opened>>

BackgroundTick(f) ==
  /\ fetchPendingOffers(f, "upsert", "idle")
  /\ UNCHANGED <<serverVars, wire, cardVars, call, opened>>

FetchDone(f) == fetch' = [fetch EXCEPT ![f] = IdleFetch]

ApplyOffers(f) ==
  /\ fetch[f].use = "replace"
  /\ reconcileWithBackend(fetch[f].snap)
  /\ FetchDone(f)
  /\ UNCHANGED <<serverVars, wire, opened>>

(***************************************************************************)
(* The newest offer of the list is added to the queue.  The background     *)
(* task ignores it when it was the last one it showed, less than 25        *)
(* seconds ago (driverBackgroundLocationService.ts:78).  The model has no  *)
(* such memory: a list ignored has the effect of a poll that failed, which *)
(* BackgroundTick may do at any time, and the poll after 25 seconds adds   *)
(* the offer again.                                                        *)
(***************************************************************************)
ApplyNewest(f) ==
  /\ fetch[f].use = "upsert"
  /\ \E o \in fetch[f].snap : /\ \A p \in fetch[f].snap : p <= o
                              /\ upsertRequest(o)
  /\ FetchDone(f)
  /\ UNCHANGED <<serverVars, wire, opened>>

(***************************************************************************)
(* getActiveRide and what follows.  The queue survives only the answer     *)
(* that an offer is still open; a failed request clears it, like a late    *)
(* answer would, so the two awaits are one step.                           *)
(***************************************************************************)
ApplyEmpty(f) ==
  /\ fetch[f].use = "sync"
  /\ \/ clearIncomingRequest(call)
     \/ won = {} /\ Pending # {} /\ UNCHANGED <<cardVars, call>>
  /\ FetchDone(f)
  /\ UNCHANGED <<serverVars, wire, opened>>

ApplyTap(f) ==                 \* go to the ride under way, if there is one
  /\ fetch[f].use = "open"
  /\ opened' \in {opened, opened \cup won}
  /\ FetchDone(f)
  /\ UNCHANGED <<serverVars, wire, cardVars, call>>

-----------------------------------------------------------------------------
Server == \E o \in Offers : Publish(o) \/ Withdraw(o) \/ Expire(o)

Answer(c) == \/ AnswerLost(c) \/ AnswerRetry(c) \/ AnswerExpired(c)
             \/ AnswerWon(c) \/ AnswerUnknown(c) \/ RejectDone(c)
             \/ NoteWon(c) \/ NoteFailed(c) \/ NoteDropped(c)
             \/ \E f \in Fetches : NoteLost(c, f)

Driver == \/ \E c \in Calls, accept \in BOOLEAN : Tap(c, accept)
          \/ TapDismiss
          \/ \E c \in Calls, o \in Offers, accept \in BOOLEAN :
               NoteRespond(c, o, accept)
          \/ \E f \in Fetches : NoteTap(f)

Apply(f) == ApplyOffers(f) \/ ApplyNewest(f) \/ ApplyEmpty(f) \/ ApplyTap(f)

Next ==
  \/ Server \/ Driver
  \/ handleIncomingOffer \/ RemovedEvent
  \/ \E f \in Fetches : Resume(f) \/ BackgroundTick(f) \/ Apply(f)
  \/ \E c \in Calls : Respond(c) \/ Answer(c)
  \/ CardTimeout
  \/ \E d \in Offers \cup {NoOffer} : DismissFires(d)

Spec == Init /\ [][Next]_vars

(***************************************************************************)
(* Requests end (they are answered or time out), timers fire, and answers  *)
(* and lists that came back are handled.  The background task runs on      *)
(* every location update, so as long as its slot comes free again and      *)
(* again and the server answers again and again, it reads the offers again *)
(* and again.                                                              *)
(***************************************************************************)
Poll(f) == BackgroundTick(f) /\ fetch'[f].use = "upsert"

Fairness ==
  /\ \A c \in Calls : WF_vars(Respond(c)) /\ WF_vars(Answer(c))
  /\ WF_vars(\E d \in Offers \cup {NoOffer} : DismissFires(d))
  /\ \A f \in Fetches : WF_vars(Apply(f)) /\ SF_vars(Poll(f))

FairSpec == Spec /\ Fairness

-----------------------------------------------------------------------------
(* The card renders the entry that expires first: no queued offer that is  *)
(* still open is hidden behind a later one, and no card is blank while an  *)
(* open offer waits (the subscriber in driverSocketService.ts and getQueue *)
(* in rideQueueService.ts, across every path that writes the queue).       *)
ShownIsNext ==
  /\ shown = NoOffer => queue \subseteq late
  /\ shown # NoOffer => /\ shown \in queue
                        /\ \A o \in queue : o < shown => o \in late

(* The card sends one answer at a time: while one of its answers is under  *)
(* way no button can send a second, whatever the timer, an event or a      *)
(* change of the shown offer does to its state (the "double-tap            *)
(* protection" of incoming-request.tsx).                                   *)
OneAnswerAtATime ==
  /\ \A c, d \in Calls : Sending(call, c) /\ Sending(call, d) => c = d
  /\ card.state \in {"NEW_OFFER", "CLOSED"} => \A c \in Calls : ~Sending(call, c)

(* The driver is sent to the trip screen only for a ride the server gave   *)
(* to him: not on a lost race, not on a failed request, and not from a     *)
(* notification that outlived its offer.                                   *)
TripOnlyIfAssigned == opened \subseteq won

(* The card never waits for ever: a card that is sending an answer, or     *)
(* that announces a result it will dismiss by itself, goes away or gives   *)
(* the buttons back.                                                       *)
Waiting == {"ACCEPTING", "REJECTING", "ACCEPTED", "ALREADY_ASSIGNED"}
CardNeverStuck == card.state \in Waiting ~> card.state \notin Waiting

(* A push that was lost does not lose the offer: the newest offer that     *)
(* stays open reaches the queue, whether the socket is up or not           *)
(* ("ALWAYS poll for pending ride offers", driverBackgroundLocationService *)
(* .ts).                                                                   *)
Newest(o) == o \in Pending /\ \A p \in Pending : p <= o
LostOfferRecovered == \A o \in Offers : Newest(o) ~> (o \in queue \/ ~Newest(o))

(* RideRequestCard.tsx announces on acceptance that navigation to the      *)
(* pickup point starts: once the card that asked is told the ride is his,  *)
(* the trip screen opens.                                                  *)
ToldWon(o) == \E c \in Calls : /\ Back(c, {"card"}, {"accepted"})
                              /\ call[c].accepted /\ call[c].offer = o
AcceptedOpensTrip == \A o \in Offers : ToldWon(o) ~> o \in opened
=============================================================================
