# Cab-Management: a TLA+ model of rides, from the apps to the money

These modules model three parts of the system. The first is the on-demand rides of the
matching service (`backend/matching-service`): how a ride request is offered to
drivers, won, driven, completed and cancelled, and what the PostgreSQL table they share
keeps true while requests overlap. The second is the two phone apps that live on these
rides: the driver's offers, availability and trip screen (`apps/driver-app`) and the
customer's search and tracking screens (`apps/customer-app`), each with a server it may
not reach, events it may miss and a process that may be killed. The third is the
customer's money in the payment service (`backend/payment-service`): wallet, promo
credits, reward points, gateway orders and refunds. Paths below are relative to `src/`.

## 1. The system

The backend is a set of FastAPI services over one PostgreSQL schema
(`backend/common/models/all_models.py`) and one Redis. Every HTTP request has a
database session of its own (`backend/common/database.py:101`, `get_db`): it commits
where the handler says so and at the end of the request, and rolls back when the
handler raises. Sessions do not flush on their own and do not expire what they
loaded, so a handler goes on with the row it read even when another session has
changed it since. SQLAlchemy writes the attributes the handler *changed*, as values:
assigning the value that was loaded writes nothing. PostgreSQL runs READ COMMITTED.
The services run as several worker processes, so no in-process lock protects anything:
what protects a ride is `SELECT ... FOR UPDATE` where the handler uses it, the unique
constraint on (ride, driver) of `ride_offers`, the unique `ride_id` of
`ride_receipts`, and the partial unique index
`ix_ride_requests_one_active_per_driver`.

The apps are Expo (React Native) programs: one JavaScript thread, so that a handler runs
undisturbed up to its next `await`, and everything else may run during it. Each app
keeps singletons (`DriverSocketService`, `RideQueueService`, `AvailabilityService`,
`CustomerSocketService`) that screens subscribe to. Screens are mounted and unmounted; a
promise outlives the screen that made it, and a request outlives the app that sent it.
The driver's app also has a background location task, which goes on when the app is killed.
Socket.io delivers in order while it is connected and loses what is sent meanwhile.

| component | state it keeps | operations | hard behaviour | correct when |
|---|---|---|---|---|
| ride table | status, assigned driver | every handler below | writers with and without row locks; index violations | a driver has one active ride |
| on-demand dispatch (`ride_dispatch.py`, `spatial_resolver.py`) | `ride_offers` | create, dispatch in two waves, re-dispatch, accept, reject, cancel, offer check | two accepts at once, stale offers, accept against cancel, overlapping dispatches, offers that time out with nothing running | first accept wins for good; a cancelled ride stays so; nobody is asked twice; withdrawn drivers are told; the last reject starts another wave |
| radar match (`atomic_matching.py`) | ride table | match the first open ride of those selected | races with accepts | same as dispatch |
| ride life cycle (`navigation_service`, `ride_start_service`, `trip_completion_service`, `cancellation_service`, `communication_service`) | ride row, `ride_receipts`, `driver_earning_ledger`, point wallet | arrive, start with PIN, complete, cancel (driver, customer), no-show | unlocked read-then-write of arrival, cancel and no-show against locked start and completion; retried completion | one earning for each ride; a completed ride has its receipt; compensation is covered by transactions |
| waiting charges (`waiting_service`) | two fare columns | recompute | none | arithmetic |
| back-to-back rides (`back_to_back_service`) | reservation on the ride row | reserve, release, activate | reservation against the index | a reserved ride is served next |
| negotiation (`negotiation_service`) | `ride_negotiations`, counter-offers | bid, counter, accept by either side, cancel | accept against cancel | one agreed driver and price |
| scheduled rides (`scheduled_ride_service`) | reservation, reminder times | accept, release, head to pickup, auto-release | periodic job against the driver | a reservation is released once |
| fan-out engine (`fanout_dispatch_engine`) | a second kind of offers on the same rides | create, accept, reject, expire, cancel | two dispatchers of one ride | as dispatch |
| sequential dispatch of bookings (`dispatch.py`, `redispatch_consumer.py`) | booking status, Redis keys | ask drivers one after the other, answer, re-dispatch | polling, late answers, lost pub/sub events | an accepted booking is not cancelled |
| seat booking (`booking-service`, `atomic_matching.py`, `api/v1/matching.py`) | seats, bookings, wallet | book, cancel, driver cancel, confirm | locked and unlocked seat updates | seats never negative nor above capacity |
| pending matching | pending bookings | corridor and nearby matching | geometry | - |
| payment service (`wallet_service`, `razorpay_service`, `payments.py`) | `customer_profiles` balances, `wallet_transactions`, `transactions`, `customer_refunds`, `payment_status` of the ride | intent with split, wallet payment, redemption, top-up, capture, failure, refund | commits inside a locked section, retries with a key, splits worked out from unlocked reads, crash between credit and record | a refund is credited once and recorded only if credited; the ledger explains the balances |
| driver wallet, tips, financial engine | balances, ledgers | debit, credit, hold, payout | retries, read-modify-write | the ledger accounts for the balance |
| driver app: offers (`rideQueueService`, `driverSocketService`, `rideRequestService`, `incoming-request.tsx`, `useDriverNotifications`) | offer queue, the card, its timers | push, withdrawal, list read, accept, reject, countdown, notification | five writers of one queue; a card that is not mounted anew for another offer; answers whose reply is lost; timers of unmounted screens | the card shows the next offer, sends one answer at a time, and opens a trip only for a ride that was won; lost pushes are made up for |
| driver app: presence (`availabilityService`, `driverSocketService`, `driverBackgroundLocationService`) | availability state, timers, connections; `drivers.status` on the server | go online, go offline, watchdog, reconnect, heartbeat, background task, restart | overlapping calls, two connections, late status requests, a kill half-way | an ONLINE app pings; the toggle is never stuck; the watchdog fires only off the network; an ONLINE driver is seen |
| driver app: trip screen (`active-trip.tsx` and its panels and services) | phase, ride id, flags | arrive, start with PIN, complete, receipt, cancel, no-show, open, leave | a phase that is the screen's own; arrival permitted without the server; late look-up of the ride; restart | nobody drives or completes a ride that was not started |
| customer app: ride screens (`cab.tsx`, `matching-waiting.tsx`, `track.tsx`, `customerSocketService`) | screen, tracked ride, stage, `tripAccepted` | book, prefer a driver, cancel, track, read, socket events | missed events, stale reads, leftovers of an earlier search | a trip shown as under way or completed is one; a missed start is shown |
| auth | OTPs, sessions | send, verify, refresh | retries | an OTP is used once |
| gateway, notifications, admin, hotel, parcel, transport, packers, airport, rental, outstation, carpool, corporate, other screens, deployment | own tables | - | little interaction with rides | - |

The handlers interact through the ride row above all: dispatch and the radar match
assign it, the services of the ride life cycle move it on, and each of them may
have read it before another changed it. Events (`publish_event`) go to
Redis and the websocket gateway after a commit; the apps hear those they listen for and
ask for the rest. What an app sends back are requests like any other, which may be late,
repeated, or sent by a screen that believes in another state of the ride.

`PROJECT.json` lists the components, and under "hazards" what in this code is hard to
test, each at its line.

## 2. The modules

    RideStore           the ride_requests table, its index, classes of statuses
      RideAssignment    abstract: a ride is won once, a driver serves one ride
      RideDispatch      offers, sessions, locks     (implements RideAssignment)
        MCRideDispatch      instances for TLC
        RideDispatchProofs  theorems
      RideTrip          the life of an assigned ride
        MCRideTrip          instances for TLC
        RideTripProofs      theorems
      RideLife          abstract: what may happen to a ride under two apps
        CustomerRide        the customer's screens, with RideLife for a server
          MCCustomerRide, CustomerRideProofs
      DriverTrip        the driver's trip screen and its handlers
                                             (implements RideLife)
        MCDriverTrip, DriverTripProofs
    DriverOffers        the offers in one driver's app
      MCDriverOffers, DriverOffersProofs
    DriverPresence      one driver's availability
      MCDriverPresence, DriverPresenceProofs
    CustomerFunds       the money of one customer
      MCCustomerFunds     instances for TLC
      CustomerFundsProofs theorems
        SumTheorems         sums over finite sets

### RideStore

`status` and `driver` are the two columns all handlers fight over; "NONE" is a row not
inserted yet. `SetRide` is a committed UPDATE of a row and `UniqueIndex` the condition
under which PostgreSQL accepts it. `RideRequest.status` is stored as the *value* of the
enumeration (`native_enum=False`), so the predicate of the index does match the rows.

### RideDispatch

A *session* is one HTTP request or one background task. `pc[s]` is the point in the
handler it has reached and `job[s]` what it has read so far; the steps are the
database accesses of the handler, so that every other session can run between any two
of them. `job[s].seen` is the status of the offer as the handler loaded it and
`job[s].set` the drivers found by the search or the competing offers read: both may be
stale when used.

| code | actions |
|---|---|
| `create_ride_request`, `dispatch_ride_request` | `CreateRide`, `FindCandidates`, `InsertOffers` |
| `re_dispatch_ride` | `Redispatch`, then as above |
| `respond_to_offer`, accept | `Respond`, `RefuseBusy`, `RefuseAnswered`, `RefuseLate`, `AskForLock`, `LoseRide`, `TakeLock`, `WinRide`, `IndexRefuses`, `Tell` |
| `respond_to_offer`, reject | `Respond`, `RefuseAnswered`, `RefuseLate`, `Reject`, `CountRemaining`, `BackgroundDispatch`, `FindCandidates`, `InsertOffers` |
| `cancel_ride_request` | `CancelRead`, `CancelReadOffers`, `CancelCommit`, `Tell` |
| `get_offer_status` | `CheckOffer`, `ExpireOffer` |
| `submit_radar_match_interest` | `RadarMatch` |
| a failure, a stopped server | `Fail` |
| the clock | `Deadline` (an offer's `expires_at`), `Age` (a ride's 15 minutes) |

The row lock is held from `TakeLock` to `WinRide`; a session in between blocks every
other writer of that row (`Unlocked`), and also the insert of offers, whose foreign key
takes a share lock on the ride. Updates of existing offers are not blocked: that is how
an offer may be rejected or cancelled while its ride is being won by somebody else.
The losing branch of the accept (lock, test, commit) contains no wait and is one step.

Data that is abstracted: positions, vehicle classes and the SQL of the search become
"online", "near" and "not excluded by an earlier offer or an active ride"; the driver
who is offline or out of range may change at every search (`passing`), except the
`Steady` ones. Fares, payloads and the payload of events are left out; which drivers a
handler is going to *tell* is kept, since that list is computed before the commit.

Two details of the code that the model keeps and a reader may not expect: the busy
guard of `respond_to_offer` runs before the test of the offer, so that a winner who
taps Accept twice turns his own offer into SUPERSEDED (`RefuseBusy`); and an active
ride stops excluding its driver from new offers 15 minutes after it was requested
(`Candidates`), so that such a driver is offered rides he cannot accept.

### RideTrip

Start, completion and the driver's cancel lock the row before they test it and commit
once: each is one step. `verify_pickup_arrival`, `cancel_ride_request` and
`process_no_show` read without a lock and commit later: they are requests
(`at[q]`, `read[q]`) of two or three steps, and a step of anybody else may come in
between. `Written` is the unit of work's rule that an attribute assigned its loaded
value is not written: an arrival that read PICKUP and commits after the start
does not undo the start, one that read ASSIGNED does. A write the index does not accept
rolls the request back (`ArriveCommit`). Completion posts the receipt and the ledger
entry in the commit of the status; the second receipt of a ride violates the unique
`ride_id` and rolls everything back, which is why `ReceiptFits` guards `CompleteRide`.

Dispatch appears as `Assign` (a MATCHING ride gets a driver, if the index lets it);
how the driver is chosen is RideDispatch's subject, and RideTrip does not use more of it
than theorem `WinnerIsFinal` gives. The driver of a request is the assigned
driver of the ride: an assigned driver is never replaced, so the apps of other drivers
have no ride to report on. The PIN is right, the driver near, the five
minutes over and a contact attempt logged whenever a guard asks for it. One unit of
`balance` and `log` is one compensation of 50 points; a driver without a wallet gets
nothing and no row (`NoShowCommit`), as in the code.

Left out of RideTrip: PIN attempts and their lockout, waiting charges, fares, tips,
`total_trips` and other driver metrics, the driver's online status, and two cancel
operations that no endpoint calls (`cancel_ride_by_customer`,
`process_no_show_cancellation`). Debits of the wallet by `booking_service` are left out too, so that
`balance` counts compensations only. `activate_next_ride_on_completion` finds nothing
to activate: a reservation can only be made by `reserve_next_ride`, whose commit the
index always refuses.

### RideLife

The moves a ride makes as the apps cause them, one step for each: the abstract server.
It differs from what the handlers allow in one place, `Complete`, which asks for a ride
that was started: `complete_ride` does not, so that the promise rests on the driver's
app, and `ImplementsLife` is the statement that it keeps it. `ArriveUnassigned` is the
handler's oddity that an arrival is accepted for a ride without a driver.

### DriverOffers

The server is what one driver sees of it: the status of each offer made to him (`server`),
the rides he won, and the events pushed to his room (`wire`), each of which may be lost.
The queue is a set, since `getQueue` sorts it by expiry whenever it is read (`Soonest`);
offers live equally long, so that their numbers order both creation and expiry.

| code | actions |
|---|---|
| the server's offers | `Publish`, `Withdraw`, `Expire` |
| `handleIncomingOffer`, the withdrawal events | `handleIncomingOffer`, `RemovedEvent` |
| `handleAccept`, `handleReject`, `respondToOffer` | `Tap`, `Respond`, `AnswerWon`, `AnswerLost`, `AnswerExpired`, `AnswerRetry`, `AnswerUnknown`, `RejectDone` |
| the card's countdown, banners and timers | `CardTimeout`, `TapDismiss`, `DismissFires` |
| `reconcileStateWithBackend`, background task, home screen | `Resume`, `BackgroundTick`, then `ApplyOffers`, `ApplyNewest`, `ApplyEmpty` |
| `handleNotificationResponse` | `NoteRespond`, `NoteWon`, `NoteLost`, `NoteFailed`, `NoteDropped`, `NoteTap`, `ApplyTap` |

`Notify` is what every writer of the queue sets off synchronously: the socket service
takes the first entry, the overlay mounts, keeps or unmounts the card. The overlay has no
key, so a card that stays mounted keeps state and timers when it goes on to show another
offer (`StaysMounted`); one that is unmounted loses its timers, and its answers in flight
come back to nobody (`Orphaned`). `respondToOffer` tries one route and on any failure
the other (`first`, `second`); a request may be lost before or after the server served
it. `Verdict` and `Record` are `respond_to_offer` as one step, which RideDispatch opens up.
A read of the pending offers takes its list when the server answers and is applied later.

### DriverPresence

`task[t]` is the await at which a call of `goOnline` or `goOffline` stands. `sock[s]`
is the life of a connection and `buffer[s]` the last presence event socket.io holds back
for it. `rest` are the requests to `/driver/status` under way, which land in any order or
not at all, and `server` is the row they all write. `current` (of the socket service) and
`ref` (of the availability service) may be different connections; the handlers of a connection
that was replaced still run. The watchdog is "armed" while its timeout runs and
"fired" until a network change clears the handle, as in the code. `Restart` leaves
the background task and the requests alone and restores what was stored.
The three places where the gateway makes a driver available (heartbeat, ping, connect)
are `Heartbeat`, `Ping` and `SocketUp`.

### DriverTrip

The screen's own `phase` is moved by answers only. A call is a record of how far it got
and of who waits for the answer: the mounted screen, its no-show modal (which has a flag of its
own), the app (only the alert of a cancellation outlives the screen), or nobody. A no-show
has two senders, the waiting card (`TapNoShow`) and the modal (`ConfirmNoShow`), each of
which looks at its own flag only, so that one screen may wait for two. `Serve` is the handler in one step with each
of its outcomes; its unlocked reads are RideTrip's subject. `Lose` is the lost request
*or* the lost answer, since the latter leaves the server served. `ArriveAnswered` takes an error for an
arrival, as `verifyArrival` does (`navigationService.ts:99`).
`OpenUnnamed` is the screen opened without an id: it asks for the active job, which finds
no ride on one route (`/driver/jobs/active` compares the id of the user with those of
driver profiles) and on the other the active ride or any open ride the driver may have an
offer for. The status that comes with it is the lower-case value of the table and matches
neither of the two the screen knows, so that the phase stays.

### CustomerRide

The server is RideLife, whose moves tell the customer what `Publish` says: an accepted
ride twice, a start once, nothing of arrival, completion and cancellation, for which the
server publishes events under names that the app does not listen for. `socket` is "joined" only once the
gateway has put it into the customer's room. Reads (`fetch`) take the status when
served and set the stage when applied, however old it is. A read that failed is kept as
such until the next connection, and excuses `MissedStartShown`, the only one to look at it. `Book` opens the
search screen even when the request failed, under an id made up by the app (`NoRide`);
`OpenTrack` trusts `tripAccepted`, whichever ride it is about. `ArriveUnassigned` is left
out of the moves: to this app such a ride is one that nobody accepts.

In both app models the clients' failover to the production host is not a step of its own: a
request that it repeats is answered like a second tap, and both kinds of loss are there.

### CustomerFunds

One customer, one ride, any number of requests. `at[r]` is the point in the handler
request r has reached, `local[r]` what it has read and worked out. `funds` are the
balances in the customer's row, `ledger` the `wallet_transactions` (debits negative),
`tx` the gateway orders, `refunds` the keys that have a `customer_refunds` row. Money
is counted in tenths of a rupee, the value of one reward point.

| code | actions |
|---|---|
| `process_refund` with `credit_wallet` | `RefundCheck`, `RefundLock`, `RefundCreditCheck`, `RefundCredit`, `RefundRecord` |
| `create_payment_intent` with `deduct_wallet`, `create_order` | `CashIntent`; `PaymentIntent`, then `IntentOrder` or `PromoCheck`, `PromoPay`, `WalletCheck`, `WalletPay`, `MarkPaid` |
| `wallet_pay` | `WalletPayRequest`, `RedeemPoints`, `RedeemCredit`, `SpendPoints`, `WalletPay`, `MarkPaid` |
| the redemption endpoint (`redeem_points`) | `RedeemRequest`, `RedeemPoints`, `RedeemCredit` |
| `verify_wallet_top_up` | `VerifyTopUp` |
| `capture_payment`, `_award_reward_points` | `Capture`, `RedeemPoints`, `RedeemCredit`, `SpendPoints`, `WalletPay`, `CapturePaid`, `Award` |
| `process_webhook`, payment.failed | `PaymentFailed` |
| an error, a stopped server | `Crash` |

Three properties of the session decide what the steps are. A commit ends every row lock
of the session, also the lock that an outer function took: `credit_wallet` commits, so
`RefundCredit` gives back the Transaction that `RefundLock` locked (`Unlock`), and
`RefundRecord` writes from what was read before. An object that a running function still holds
is not refreshed when the row is read again, with `FOR UPDATE` or without: `tx` in
`process_refund`, `customer` in `redeem_points`, `ride` in the intent. Other rows are
read afresh, since the identity map of the session is weak: that is why `LockedBalance` is the
present balance, and `RedeemCredit` uses `local[r].cash`. An attribute assigned its
loaded value is not written (`RefundRecord`, `MarkPaid`).

The idempotency key of a ledger row is looked for before the customer is locked, and its
column is not unique (`Journaled`, `Repeated`): two intents with one key that overlap
both pay, and a third then fails on finding two rows. Without a key (`NoRowKey`) nothing is
looked for: `create_payment_intent` passes none when the request has none (`DeductionKey`),
and every such intent deducts again, repeated or not. The key of a refund is safe only
because the Transaction is locked at that time.

`Capture` takes the part of an order due from the wallet and in points from the order's
metadata under the names the code looks for; orders of `create_payment_order` have them
(the first order of an instance may be one of those), orders of an intent do not.

Left out: coupons (the fare is the fare after them), referral rewards (the third bucket,
credited by code not modelled), saved payment methods, the booking branch of a capture
with the driver's 90 percent, and the gateway's callback for top-ups. `booking_service`
debits the same wallet row; its handlers belong to seat booking.

## 3. The runs

| run | question | instance |
|---|---|---|
| `dispatch_races` | do the races on one ride keep the promises of dispatch? | 1 ride, 2 drivers, 3 sessions that may fail, timeouts |
| `dispatch_two_rides` | does a driver ever get two rides, and does dispatch implement `RideAssignment`? | 2 rides, 2 drivers, 2 sessions, no timeouts |
| `dispatch_live` | does the last reject start another wave? | 1 ride, 2 steady drivers, 2 sessions, fair |
| `trip` | do late arrivals, cancels and no-shows break the money or the index? | 2 rides, 2 drivers (one with a wallet), 3 unlocked requests |
| `funds` | do overlapping refunds, payments, redemptions and captures lose or invent money? | 3 requests, 2 orders, 3 refunds of one payment, 1 intent key |
| `offers` | what can pushes, lists, notifications and answers do to the queue and the card? | 2 offers, 1 answer and 1 read in flight, 2 events |
| `offers_live` | does the card always come back, and does an offer whose push was lost arrive? | 1 offer, 1 answer, 1 read, fair |
| `presence` | is what the app shows, what it does and what the server says the same in the end? | 2 connections, 1 toggle call, fair |
| `driver_trip` | do lost calls, late answers and restarts keep the ride within RideLife? | 2 rides, 1 driver, 2 calls in flight, fair |
| `customer_ride` | do missed events and stale reads show a trip that is none? | 2 rides, 1 driver, 2 reads in flight, 2 events, fair |
| `over_refund` | violated: overlapping refunds together exceed the payment | 2 requests, otherwise as `funds` |
| `accepted_opens_trip` | violated: the trip screen of a won ride never opens | 1 offer, as `offers_live` |

**Bounds.** Three sessions are needed on one ride for the longest chain we know of: one
session holds the lock, a second waits behind it, a third changes an offer or cancels.
Two drivers give a winner and a loser; two rides are what `OneActiveRidePerDriver`
talks about, and two sessions what it takes to win both. `NoTimeouts` cuts the two-ride run at
states where an offer has timed out or a ride has become old; `dispatch_races` has both, of one
ride. That a driver with an old ride, who counts as free, cannot accept a second one is
therefore not seen by TLC; theorem `OneActive`, which has no such constraint, covers it.
In RideTrip nothing orders more than three requests, since a request interferes with
another only through one row and one wallet; `MaxPaid` (3, through the constraint
`FewPayments`) bounds the compensations of a driver, because a reopened ride can be
reported as no-show without end. Symmetry is used only in runs without liveness, over
sets whose members the specification never distinguishes (in RideTrip the drivers are
distinguished by their wallets and are not permuted).
In `funds` two requests are enough for every race on one key or balance, and the third
is the retry, the top-up or the capture that meets them; the refund keys cover the three
destinations and any two of the large ones exceed the payment (20 + 20 of 30); the
balances (cash 60, credits 10, points 10) cover the fare of 30 in full, in part and
twice, so that both answers of every balance check occur. A new request stands for a
client that retries, so that no request is used twice. Keys have fixed destinations and
are not permuted; requests are.
In `offers` two offers are what a card can confuse; a second answer on top of the first
is what `OneAnswerAtATime` forbids the card, and notifications compete with it for the
one call there is, so that answers of card and notification follow each other but do not
overlap. The proofs have any number of both. In `presence` two connections are what one reconnecting and
one new make; one call of the toggle, because it is disabled or hidden during one. `driver_trip` has two calls
because the screen's flags let a start, a cancel and a no-show overlap with each other, and a no-show of the card with one of the modal; two rides so
that an answer can come back to the screen of another ride. `customer_ride`
has two rides for a preferred request or a next booking, and two reads for answers out of
order; `MaxWire` 2 holds the two events of an accepted ride.

**Deadlock** is not checked: the system is quiet when every ride is closed and no
request is being served, and a customer or a driver need not ask for anything.
The same holds of the apps: home screen, nothing under way. `presence` is checked for deadlock.
Waiting for the lock cannot last, as the holder never waits for anything else; the one
place where the code locks several rows is listed among the hazards.

**Fairness.** `FairDispatchSpec` assumes weak fairness of `Proceed(s)`: a request that
the server runs is carried on to its end. Its steps are awaits of the database, which
answers; a session that waits for a row lock is served because the holder commits or
rolls back. Nothing is assumed of customers, drivers and the clock, and sessions of the
fair runs do not fail: the background task of a reject lives in memory, and a server
that stops loses it.

`offers_live`: a request is answered or times out, an answer that came back is handled,
the timers of the card fire (weak fairness: one JavaScript thread, `axios` timeouts), and
the background task reads the offers again and again, strongly fair because its slot in
the model is also used by other reads. `presence`: the awaits of `goOnline` and `goOffline` end (each request has a
timeout and each failure a `catch`; `getCurrentPositionAsync` has none, so that the
property also assumes that the phone answers when asked where it is), connections and status requests succeed if they are
possible again and again, and the background task and the ping come round. The phone is
allowed to stay off the network for ever, and the property is conditional on it.
`driver_trip` and `customer_ride`: each call or read ends one way or the other, and
socket.io reconnects. Nothing is assumed of the driver, the customer, or the rides.

**Findings.** Properties that state what a document, a comment or a text of the app says,
and that TLC finds violated. Two have a run:

- `RefundsWithinPayment`: "Validates refund_amount <= original_amount - already_refunded"
  (`wallet_service.py:594`); the lock it is validated under is gone before
  `refunded_amount` is written.
- `AcceptedOpensTrip`: "Starting live GPS route navigation to customer pickup point..."
  (`RideRequestCard.tsx:194`); removing the offer from the queue unmounts the card whose
  timer was to open the trip screen.

The others are kept in their modules and are reproduced by naming them as the property of
the configuration given:

| property | module, configuration | what it quotes, and what the code does |
|---|---|---|
| `ExpiryRedispatches` | RideDispatch, `MCRideDispatchLive.cfg` | "If all active offers in the current wave are rejected or expire, the dispatch engine automatically expands search radius" (`docs/DRIVER_DISPATCH_ARCHITECTURE.md:178`): it reacts to rejects only |
| `CancelTellsAssignedDriver` | RideDispatch, `MCRideDispatchOne.cfg` | "If driver was already assigned, also notify assigned driver" (`ride_dispatch.py:876`): the driver of the unlocked read is notified |
| `ArrivedFromAssigned` | RideTrip, `MCRideTrip.cfg` | "DRIVER_EN_ROUTE --> ARRIVED" as the only way there (`docs/STATE_MACHINES.md:18`): `verify_pickup_arrival` does not look at the status |
| `WalletMatchesLog` | RideTrip, `MCRideTrip.cfg` | "Audit log for every point credit / debit" (`all_models.py:1962`): two no-show reports leave two transactions and one credit |
| `PaidInFull` | CustomerFunds, `MCCustomerFunds.cfg` | "Final Gateway Payable = ... - Promotional Credits - Wallet Deduction" (`docs/CUSTOMER_PAYMENT_AND_WALLET_F11_F12.md:10`): only the gateway's part of a split is ever taken |
| `OfflineStaysOffline` | DriverPresence, `MCDriverPresence.cfg` | "You will stop receiving nearby ride requests" (`app/(tabs)/index.tsx:228`): heartbeats go on and make the driver available |
| `TracksAccepted` | CustomerRide, `MCCustomerRide.cfg` | "status strictly synchronized with backend" (`docs/CUSTOMER_DRIVER_CONTRACT.md:75`): a leftover `tripAccepted` opens the tracking screen of a ride nobody accepted |

## 4. The proofs

All theorems hold for every set of rides, drivers, sessions, requests, orders, refund
keys, offers, calls, reads and connections, from the assumptions `NoDriverAssumption`,
`NoRideAssumption`, `DispatchAssumption`, `WalletsAssumption`, `FundsAssumption`,
`OffersAssumption`, `PresenceAssumption` and `MeAssumption` only.

*RideDispatchProofs.* `IInv` strengthens the properties with what the sessions know:
a session that serves a ride has a ride and, when it answers an offer, a driver; a
session past `TakeLock` is the only one on its ride and that ride is still open and
unassigned; a ride that does not exist has no driver. From these, `WinRide` is
the only action that sets `driver` under the lock, and what it tested still holds when
it commits. `TypeCorrect`, `AcceptedIsWinner` and `OneActive` follow from `IInv`;
`WinnerIsFinal` and `CancelIsFinal` are action properties of it, and
`ImplementsAssignment` maps every step to a win, a death or a stutter of
RideAssignment. `MayFail` and the timeouts are not restricted in the proofs.
`NeverAskedAgain` (NoReoffer) and `WithdrawnAreTold` (WithdrawnIsTold) are action
properties that rest on one lemma about all writers of an offer, `OfferSteps`: a wave makes
pending only what had no row, a session gives its own offer an answer, and offers are
withdrawn only by the commits `WinRide` and `CancelCommit`, which withdraw drivers out of the
set the session goes on to tell.

*RideTripProofs.* `TInv` adds to the properties that a receipt and a ledger entry come
together (`ReceiptMeansEarned`), that a COMPLETED ride has its receipt, that a ride
still to be assigned has no driver, that a request under way has a ride, and that the
balance a no-show report has read is covered by the log at that time and later
(`ReadCovered`): the log only grows, so writing `read + 1` with one more row stays
covered, although a credit can be lost. `NoDoubleEarning`, `CompletionEarns`,
`TripsKeepOneActive`, `CompensationsCovered` and `TripTypeCorrect` are its parts;
they need no bound on the payments. `DriverAndBillKept` is an action property of the same
invariant that no run checks: a ride keeps the driver it was assigned, because only `Assign`
writes another and finds none, and its bill is neither removed nor posted again.

*CustomerFundsProofs.* From `FundsAssumption` only. `FInv` is the type invariant, what a
request's step says of its kind (`JobsServe`), and `RefundInv`: a refund
between its validation and its credit holds the Transaction (`LocksHeld`), so that two
refunds of one key, which name the same Transaction, are never both there; a refund
about to credit is not in the ledger (`CreditPending`) and one about to be recorded is,
unless the gateway pays it (`RecordPending`); a refund's row has its amount (`RowsFit`);
and what a refund has read leaves room for it (`ReadFits`), which stays true
although others write `refunded_amount`, since it speaks of the value read. Every step
that is no part of a refund is `Quiet`: it takes no lock, adds no row with a refund's
key and changes no amount of an order. `FundsTypeCorrect`, `RefundOnce`,
`RefundRecordsCredited` and `RefundBounded` are parts of `FInv`.
`RefundsRecorded` and `FundsExplained` are about sums over the ledger. Two things make them
inductive (`SumsInv`). A posting must be a *new* row, or the sum would not grow with the balance:
`RowsPast` says that the rows a request has written are of steps before the one it is at (`Rank`
orders the steps of a request), so that the row it writes next is not there yet. And what a
refund has read of `refunded_amount` must still be recorded when it is written back
(`ReadRecorded`): rows are never removed, so what was recorded at the read still is, and
the refund adds a row of its own in the commit that writes the sum; that is why lost updates make `refunded_amount` too
small but never too large.

*SumTheorems.* `MapThenSumSet` of the community modules takes its summand as an operator and
is unfolded once, in the module that sums (`TotalUnfold`, `AskedUnfold`); these lemmas are
about the recursive function it unfolds to. An induction over the subsets of a finite set is
written without an induction theorem: among the subsets that are counterexamples one has no
other below it (`SmallestSubset`, from the well-foundedness of strict inclusion), and there the
step fails. `SumsTakeAny` is the important one: a sum does not depend on which element is
taken first.

*DriverOffersProofs.* `OInv` adds to the three safety properties that the card is mounted
exactly while an offer is shown (`MountedIffShown`), that an answer under way names an
offer, and that what the app was told it won (`ToldIsWon`) and what a timer will open
(`TimersWon`) the server gave. Every writer of the queue goes through `Notify`, so lemma
`NotifyKeeps` carries most of the proof: it asks of its caller only that the state it
leaves on the card agrees with the answers under way (`Fit`). That `Soonest` is the least
open offer rests on `MinIsLeast`, from the well-foundedness of the naturals.
`OffersTypeCorrect`, `CardShowsNext`, `CardAnswersOnce`, `TripsAreAssigned` are its parts.
`CardsWaitForCause` proves a second invariant, `WaitingHasCause`: a card that sends has an
answer under way, one that announces a result has a timer, and one that announces a won ride
has a timer that opens it. This is the safety part of `CardNeverStuck`, which adds that
answers and timers come; again one lemma for `Notify` (`NotifyCaused`) serves all handlers.

*DriverPresenceProofs.* `PInv` needs one conjunct more, that an armed watchdog means a
network reported lost (`ArmedOffNet`); `OnlinePings` is a part of it and
`AutoOfflineOffNet` an action property of it. Any number of overlapping calls of
`goOnline` and `goOffline` is covered, which TLC does not do. `MInv` is the safety part of
`ToggleNeverStuck`: a moving state, in which the toggle is disabled, always has a call that ends
it (`MovingIsCalled`), and the alert that hides the toggle is open once at most
(`AlertOpensOnce`).

*DriverTripProofs.* `TInv` is the type invariant, `DrivesStartedRides`, `RidesInv` (a ride
under way was started, a ride with a driver was accepted) and `CallsInv`: a completion is
asked for, a receipt fetched and a start reported only of started rides; what the screen
waits for is about its own ride or was sent before it had one; and only one look-up of
the active job is waited for, without which a second answer could put another ride under
a phase that the first has earned. `TripImplementsLife` maps each action to a move of
RideLife or a stutter; `Complete` is where `CallsInv` is needed.
What RideLife promises is then proved of RideLife alone, whose invariant `LInv` is small (one
active ride, a ride under way was started, a ride to be accepted has no driver): `LifeKeepsOneActive`
and `LifeKeepsDriver`. The refinement carries it to the app with its handlers, with no look at
the screen: `TripKeepsOneActive`, `TripKeepsDriver`, `TripDrivesStarted`. Two invariants go
beyond RideLife. `OnlyStartedCharged`: a receipt is written only for a ride that was started,
which the server's completion does not ask. And `BInv`, about the calls the screen waits for:
no control has two of one kind (`NoControlSendsTwice`), so that two calls of one kind are a
no-show of the card and one of the modal (`OnlyNoShowsSentTwice`), and the buttons are disabled exactly while one
arrival, completion or receipt is under way (`DisabledWhileAsking`), which is the safety part of
`ButtonsComeBack`; it is inductive with `IdleUnheard`, that a slot not in use belongs to no screen.

*CustomerRideProofs.* `CInv` says that rides in progress or completed were started
(`DrivenInv`), that reads that saw such a status saw the tracked ride's (`ReadsInv`), that
events of a start follow one (`WireInv`), and that a completion is shown of a started ride
only (`StageInv`), which is `CompletedTracked`. `ShownUnderWayByStart` is an action property that
follows from `ReadsInv` and `WireInv`: a step that makes the screen show a trip under way is
the answer of a read, of its own ride, or a start heard, which may be another ride's.
`ReadsInv` holds across a change of the tracked ride
because mounting a screen forgets the reads of the one before (`FirstRead`).

Only model-checked are the liveness properties `RejectRedispatches`, `CardNeverStuck`,
`LostOfferRecovered`, `ToggleNeverStuck`, `OnlineIsVisible`, `ButtonsComeBack` and
`MissedStartShown`, which are out of the prover's reach (of three of them the safety part is
proved, see above), and the two violations, which are no theorems. Every safety invariant and
every action property that a passing run checks is a theorem.

## 5. Not modelled

Most of the repository's TypeScript is user interface: forms, maps, lists, prices and
texts of some fifteen products, and an admin site. Such a screen asks for something, shows it
and keeps no state across two requests; there is nothing in it for these methods, and the
modules cover only a small part of those lines. What is left out besides:

- *Small things that add no behaviour.* The background task does not show the same offer
  again within 25 seconds (`driverBackgroundLocationService.ts:78`; a poll ignored is like one
  that failed). The tracking screen opens in other ways too (`trips.tsx`,
  the customer app's `_layout.tsx`, `matching-waiting.tsx:293`), each of them a mount with a
  first read, like `OpenTrack`. Events are also sent to the rooms of the ride and the trip
  (`ride_start_service.py:353`, `ride_dispatch.py:721`): further copies of what `Publish` sends.
- *Within the apps.* `PendingRequestsModal` (it opens a trip even if both of its claims
  fail), the siren, `OFFER_EXPIRED` and `RIDE_CANCELLED` events of the driver (the trip
  screen has no handler for the latter), stops, chat, calls, the simulated next ride, the route
  `/(tabs)/dashboard` that a cancellation replaces the screen by and that does not exist,
  the rating that only `TRIP_COMPLETED` opens, and the token refresh, which each failing
  request starts for itself.
- *Dispatch.* The events of a wave are published before it is committed
  (`ride_dispatch.py:369`): drivers may hold an offer that a failed insert took back. The
  radar match locks several rides in the order the driver chose (`atomic_matching.py:166`).
- *In the model, but claimed by no property*, since no document says what should be: a
  winner's second tap (`ride_dispatch.py:521`), offers inserted after a cancel
  (`ride_dispatch.py:857`), promo credits deducted for a payment whose cash part then
  fails (`payments.py:218`), a failed payment reported after the capture
  (`razorpay_service.py:306`).
- *Other ways to assign a ride.* Negotiation accepts a counter-offer of a cancelled ride
  (`negotiation_service.py:445`); auto-release of scheduled rides overwrites without a
  lock (`scheduled_ride_service.py:920`); the fan-out engine sets MATCHING whatever the
  status was (`fanout_dispatch_engine.py:92`) and its expiry is never scheduled (`:528`);
  a back-to-back reservation always violates the unique index
  (`back_to_back_service.py:201`).
- *Bookings of published trips.* Late answers in Redis (`dispatch.py:168`), an accept that
  the polling loop does not see (`matching.py:224`), seats and refunds from unlocked
  reads (`booking_service.py:466`, `atomic_matching.py:95`), re-dispatch events lost
  while nobody listens (`redispatch_consumer.py:28`).
- *Money.* Coupons, referral rewards, top-up callbacks, booking captures, tips (a retried
  tip is paid twice, `trip_completion_service.py:443`), driver payouts, and the financial
  engine, which no service calls.
- *The composition of all handlers over one ride table.* RideDispatch and RideTrip each
  have the ride table to themselves and the apps have it with one step for each handler;
  dispatch reaches the others only as an assignment.
- Services of other products, reports, templates and configuration (see the components in
  `PROJECT.json`).
