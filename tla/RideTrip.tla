------------------------------ MODULE RideTrip ------------------------------
(***************************************************************************)
(* The life of an assigned ride: arrival at the pickup, start, completion  *)
(* with its receipt and ledger entry, and the three ways to cancel         *)
(* (NavigationService, RideStartService, TripCompletionService,            *)
(* CancellationService, CommunicationService, and the customer's cancel of *)
(* RideDispatchService).                                                   *)
(*                                                                         *)
(* Start, completion and the driver's cancel hold the row lock of the ride *)
(* from their read to their commit, and are single steps.  Arrival, the    *)
(* customer's cancel and no-show read without a lock and commit later what *)
(* they concluded: each is two or three steps of a request.                *)
(***************************************************************************)
EXTENDS RideStore, Naturals

CONSTANTS
    Requests,   \* the unlocked requests that run concurrently
    Wallets     \* the drivers who have a DriverPointWallet

ASSUME WalletsAssumption == Wallets \subseteq Drivers

VARIABLES
    arrived,    \* the rides whose pickup_arrived_at is set
    receipt,    \* the rides that have a RideReceipt
    earned,     \* earned[r]: TRIP_EARNING rows of r in DriverEarningLedger
    balance,    \* balance[d]: no-show compensations in the wallet of d
    log,        \* log[d]: DriverPointTransaction rows for them
    at,         \* at[q]: the next step of request q
    read        \* read[q]: what request q has read

moneyVars == <<receipt, earned>>
walletVars == <<balance, log>>
requestVars == <<at, read>>
tripVars == <<arrived, receipt, earned, balance, log, at, read>>
allVars == <<status, driver, tripVars>>

TripSteps == {"idle", "arrive", "cancel", "wallet", "noShow"}

Read == [ride : Rides \cup {NoRide}, status : Statuses, balance : Nat]

NoRead == [ride |-> NoRide, status |-> "NONE", balance |-> 0]

TripTypeOK ==
    /\ RidesTypeOK
    /\ arrived \subseteq Rides
    /\ receipt \subseteq Rides
    /\ earned \in [Rides -> Nat]
    /\ balance \in [Drivers -> Nat]
    /\ log \in [Drivers -> Nat]
    /\ at \in [Requests -> TripSteps]
    /\ read \in [Requests -> Read]

\* Rides that dispatch has created and offered.
TripInit ==
    /\ status = [r \in Rides |-> "MATCHING"]
    /\ driver = [r \in Rides |-> NoDriver]
    /\ arrived = {}
    /\ receipt = {}
    /\ earned = [r \in Rides |-> 0]
    /\ balance = [d \in Drivers |-> 0]
    /\ log = [d \in Drivers |-> 0]
    /\ at = [q \in Requests |-> "idle"]
    /\ read = [q \in Requests |-> NoRead]

-----------------------------------------------------------------------------
(* Requests. *)

\* Request q reads ride r and goes on to a later step.
ReadRide(q, r, step) ==
    /\ at[q] = "idle"
    /\ at' = [at EXCEPT ![q] = step]
    /\ read' = [read EXCEPT ![q] = [ride |-> r, status |-> status[r],
                                    balance |-> 0]]

End(q) ==
    /\ at' = [at EXCEPT ![q] = "idle"]
    /\ read' = [read EXCEPT ![q] = NoRead]

\* The request fails before its commit.
Abort(q) ==
    /\ at[q] # "idle"
    /\ End(q)
    /\ UNCHANGED <<rideVars, arrived, moneyVars, walletVars>>

\* The state's name in the documents, which RideRequestStatus does not have.
WrittenArrived(q, s) == "ARRIVED"

\* Status s, unless it is the one the request read: then no UPDATE is sent.
Written(q, s) == IF read[q].status = s THEN status[read[q].ride] ELSE s

-----------------------------------------------------------------------------
(* Assignment: what RideDispatch and the radar match do to the row. *)

Assign(r, d) ==
    /\ status[r] = "MATCHING"
    /\ UniqueIndex(r, "ASSIGNED", d)
    /\ SetRide(r, "ASSIGNED", d)
    /\ UNCHANGED tripVars

(* verify_pickup_arrival. *)

\* The app of a driver who was assigned reports the arrival, maybe late or
\* again; the handler looks neither at the status nor at the driver.
ArriveRead(q, r) ==
    /\ driver[r] # NoDriver
    /\ ReadRide(q, r, "arrive")
    /\ UNCHANGED <<rideVars, arrived, moneyVars, walletVars>>

ArriveCommit(q) ==
    LET r == read[q].ride
        s == Written(q, "PICKUP")
    IN  /\ at[q] = "arrive"
        /\ \/ /\ UniqueIndex(r, s, driver[r])
              /\ SetRide(r, s, driver[r])
              /\ arrived' = arrived \cup {r}
           \/ /\ ~UniqueIndex(r, s, driver[r])
              /\ UNCHANGED <<rideVars, arrived>>
        /\ End(q)
        /\ UNCHANGED <<moneyVars, walletVars>>

(* verify_and_start_ride, with the right PIN, in time and near the pickup. *)

StartRide(r) ==
    /\ driver[r] # NoDriver
    /\ status[r] \in {"ASSIGNED", "PICKUP"}
    /\ SetRide(r, "IN_PROGRESS", driver[r])
    /\ UNCHANGED tripVars

(* complete_ride. *)

\* ride_receipts without its unique ride_id.
AnyReceiptFits(r) == TRUE

\* The unique ride_id of ride_receipts; a second receipt is an IntegrityError
\* that rolls the completion back.
ReceiptFits(r) == r \notin receipt

\* Posting only for a trip that was started.
PostStarted(r) ==
    /\ receipt' = receipt \cup {r}
    /\ earned' = [earned EXCEPT ![r] = IF status[r] = "IN_PROGRESS" THEN @ + 1
                                                                    ELSE @]

\* The receipt and the TRIP_EARNING entry, in the commit of the new status.
Post(r) ==
    /\ receipt' = receipt \cup {r}
    /\ earned' = [earned EXCEPT ![r] = @ + 1]

\* Any ride of the driver that is not cancelled is completed; one that is
\* completed and has its receipt is only reported.
CompleteRide(r) ==
    /\ driver[r] # NoDriver
    /\ status[r] # "CANCELLED"
    /\ ~(status[r] = "COMPLETED" /\ r \in receipt)
    /\ ReceiptFits(r)
    /\ SetRide(r, "COMPLETED", driver[r])
    /\ Post(r)
    /\ UNCHANGED <<arrived, walletVars, requestVars>>

(* cancel_ride_by_driver. *)

DriverCancel(r) ==
    /\ driver[r] # NoDriver
    /\ status[r] \notin Closed \cup {"IN_PROGRESS"}
    /\ SetRide(r, "CANCELLED", driver[r])
    /\ UNCHANGED tripVars

(* cancel_ride_request. *)

CustomerCancelRead(q, r) ==
    /\ status[r] \notin Closed
    /\ ReadRide(q, r, "cancel")
    /\ UNCHANGED <<rideVars, arrived, moneyVars, walletVars>>

CustomerCancelCommit(q) ==
    /\ at[q] = "cancel"
    /\ SetRide(read[q].ride, "CANCELLED", driver[read[q].ride])
    /\ End(q)
    /\ UNCHANGED <<arrived, moneyVars, walletVars>>

(* process_no_show, five minutes after the arrival, near the pickup, with a
   contact attempt logged. *)

NoShowRead(q, r) ==
    /\ driver[r] # NoDriver
    /\ status[r] \in {"ASSIGNED", "PICKUP"}
    /\ r \in arrived
    /\ ReadRide(q, r, "wallet")
    /\ UNCHANGED <<rideVars, arrived, moneyVars, walletVars>>

NoShowReadWallet(q) ==
    /\ at[q] = "wallet"
    /\ at' = [at EXCEPT ![q] = "noShow"]
    /\ read' = [read EXCEPT ![q].balance = balance[driver[read[q].ride]]]
    /\ UNCHANGED <<rideVars, arrived, moneyVars, walletVars>>

\* A credit that leaves no transaction row.
CreditUnlogged(q, d) ==
    /\ balance' = [balance EXCEPT ![d] = read[q].balance + 1]
    /\ log' = log

\* The balance is written as a value computed from the one read.
Credit(q, d) ==
    /\ balance' = [balance EXCEPT ![d] = read[q].balance + 1]
    /\ log' = [log EXCEPT ![d] = @ + 1]

NoShowCommit(q) ==
    LET r == read[q].ride IN
    /\ at[q] = "noShow"
    /\ SetRide(r, "CANCELLED", driver[r])
    /\ \/ driver[r] \in Wallets /\ Credit(q, driver[r])
       \/ driver[r] \notin Wallets /\ UNCHANGED walletVars
    /\ End(q)
    /\ UNCHANGED <<arrived, moneyVars>>

-----------------------------------------------------------------------------

\* The handlers that hold the lock of ride r.
Locked(r) == StartRide(r) \/ CompleteRide(r) \/ DriverCancel(r)

Request(q, r) == ArriveRead(q, r) \/ CustomerCancelRead(q, r) \/ NoShowRead(q, r)

Advance(q) ==
    \/ ArriveCommit(q) \/ CustomerCancelCommit(q)
    \/ NoShowReadWallet(q) \/ NoShowCommit(q)
    \/ Abort(q)

TripNext ==
    \/ \E r \in Rides : Locked(r) \/ \E d \in Drivers : Assign(r, d)
    \/ \E q \in Requests : Advance(q) \/ \E r \in Rides : Request(q, r)

TripSpec == TripInit /\ [][TripNext]_allVars

-----------------------------------------------------------------------------
(***************************************************************************)
(* A ride earns at most once, however often its completion is requested    *)
(* and even when a late arrival report reopened it after it was completed  *)
(* (complete_ride, unique ride_id of RideReceipt).                         *)
(***************************************************************************)
EarnsOnce == \A r \in Rides : earned[r] <= 1

(***************************************************************************)
(* "Every completed cab ride writes an immutable record to                 *)
(* DriverEarningLedger": no handler, alone or racing with another, leaves  *)
(* a ride COMPLETED without its earning.                                   *)
(***************************************************************************)
CompletedRideEarns ==
    \A r \in Rides : status[r] = "COMPLETED" => earned[r] >= 1

(***************************************************************************)
(* The compensations in a driver's wallet are all covered by transaction   *)
(* rows, whatever no-show reports overlap (process_no_show).               *)
(***************************************************************************)
WalletCovered == \A d \in Drivers : balance[d] <= log[d]

-----------------------------------------------------------------------------
(* What the documents say of the program, and the code does not do. *)

(***************************************************************************)
(* A ride reaches the pickup only from its assignment ("DRIVER_EN_ROUTE    *)
(* --> ARRIVED: Driver within 100m Pickup", the state machine of the       *)
(* ride): an arrival report takes back no ride that was started or closed. *)
(***************************************************************************)
ArrivedFromAssigned ==
    [][\A r \in Rides :
          (status'[r] = "PICKUP" /\ status[r] # "PICKUP") =>
              status[r] = "ASSIGNED"]_allVars

(***************************************************************************)
(* The transactions of a wallet account for its whole balance ("Audit log  *)
(* for every point credit / debit", DriverPointTransaction).               *)
(***************************************************************************)
WalletMatchesLog == \A d \in Drivers : balance[d] = log[d]
=============================================================================
