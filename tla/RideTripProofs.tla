--------------------------- MODULE RideTripProofs ---------------------------
(***************************************************************************)
(* Proofs about RideTrip, for any number of rides, drivers and concurrent  *)
(* requests, and with no bound on the payments.                            *)
(***************************************************************************)
EXTENDS RideTrip, TLAPS

\* A request under way knows its ride, and a no-show report a ride that has
\* a driver.
RequestsServe ==
    \A q \in Requests :
        /\ at[q] # "idle" => read[q].ride \in Rides
        /\ at[q] \in {"wallet", "noShow"} => driver[read[q].ride] \in Drivers

\* Only a ride that has no driver can be assigned.
Unassigned == \A r \in Rides : status[r] = "MATCHING" => driver[r] = NoDriver

\* A receipt and a ledger entry come together.
ReceiptMeansEarned ==
    \A r \in Rides : earned[r] = IF r \in receipt THEN 1 ELSE 0

CompletedHasReceipt ==
    \A r \in Rides : status[r] = "COMPLETED" => r \in receipt

\* The balance a no-show report has read was covered, and still is.
ReadCovered ==
    \A q \in Requests :
        at[q] = "noShow" => read[q].balance <= log[driver[read[q].ride]]

\* The inductive invariant.
TInv ==
    /\ TripTypeOK
    /\ RequestsServe
    /\ Unassigned
    /\ ReceiptMeansEarned
    /\ CompletedHasReceipt
    /\ OneActiveRidePerDriver
    /\ WalletCovered
    /\ ReadCovered

-----------------------------------------------------------------------------
(* The row of a ride. *)

\* An update the index accepts keeps a driver to one active ride.
LEMMA UpdateKeepsOneActive ==
    ASSUME RidesTypeOK, OneActiveRidePerDriver,
           NEW r \in Rides, NEW s \in Statuses, NEW d \in Drivers \cup {NoDriver},
           UniqueIndex(r, s, d), SetRide(r, s, d)
    PROVE  RidesTypeOK' /\ OneActiveRidePerDriver'
<1>1. RidesTypeOK'
  BY DEF RidesTypeOK, SetRide
<1>2. OneActiveRidePerDriver'
  BY DEF RidesTypeOK, SetRide, UniqueIndex, OneActiveRidePerDriver
<1> QED BY <1>1, <1>2

\* So does an update that keeps the driver and leaves the ride inactive, or
\* finds it active.
LEMMA KeepDriverAccepted ==
    ASSUME RidesTypeOK, OneActiveRidePerDriver,
           NEW r \in Rides, NEW s \in Statuses,
           s \in Active => status[r] \in Active
    PROVE  UniqueIndex(r, s, driver[r])
BY DEF RidesTypeOK, UniqueIndex, OneActiveRidePerDriver, Active

\* Opening, carrying on and ending a request.
LEMMA ReadRideType ==
    ASSUME TripTypeOK, NEW q \in Requests, NEW r \in Rides,
           NEW step \in TripSteps, ReadRide(q, r, step)
    PROVE  at' \in [Requests -> TripSteps] /\ read' \in [Requests -> Read]
BY DEF TripTypeOK, RidesTypeOK, ReadRide, Read

LEMMA EndType ==
    ASSUME TripTypeOK, NEW q \in Requests, End(q)
    PROVE  at' \in [Requests -> TripSteps] /\ read' \in [Requests -> Read]
BY DEF TripTypeOK, End, NoRead, Read, TripSteps, Statuses

-----------------------------------------------------------------------------

LEMMA InitTInv == TripInit => TInv
<1> SUFFICES ASSUME TripInit PROVE TInv
  OBVIOUS
<1>1. TripTypeOK
  BY DEF TripInit, TripTypeOK, RidesTypeOK, Statuses, TripSteps, NoRead, Read
<1>2. RequestsServe /\ ReadCovered
  BY DEF TripInit, RequestsServe, ReadCovered
<1>3. Unassigned /\ ReceiptMeansEarned /\ CompletedHasReceipt
  BY DEF TripInit, Unassigned, ReceiptMeansEarned, CompletedHasReceipt
<1>4. OneActiveRidePerDriver /\ WalletCovered
  BY DEF TripInit, OneActiveRidePerDriver, WalletCovered, Active
<1> QED BY <1>1, <1>2, <1>3, <1>4 DEF TInv

\* A step that only changes what requests have read, or assigns, starts or
\* cancels a ride, is checked part by part: what is left unchanged by the row
\* update and by the request is stated once.
LEMMA RowStep ==
    ASSUME TInv, NEW r \in Rides, NEW s \in Statuses,
           NEW d \in Drivers \cup {NoDriver},
           UniqueIndex(r, s, d), SetRide(r, s, d),
           driver[r] # NoDriver => d = driver[r],
           s = "COMPLETED" => r \in receipt,
           s = "MATCHING" => d = NoDriver,
           UNCHANGED moneyVars
    PROVE  /\ RidesTypeOK' /\ Unassigned' /\ CompletedHasReceipt'
           /\ ReceiptMeansEarned' /\ OneActiveRidePerDriver'
           /\ \A q \in Rides : driver[q] \in Drivers => driver'[q] = driver[q]
<1> USE DEF TInv, TripTypeOK
<1>1. RidesTypeOK' /\ OneActiveRidePerDriver'
  BY UpdateKeepsOneActive
<1>2. Unassigned'
  BY DEF Unassigned, SetRide, RidesTypeOK
<1>3. CompletedHasReceipt' /\ ReceiptMeansEarned'
  BY DEF CompletedHasReceipt, ReceiptMeansEarned, SetRide, RidesTypeOK, moneyVars
<1>4. \A q \in Rides : driver[q] \in Drivers => driver'[q] = driver[q]
  BY NoDriverAssumption DEF SetRide, RidesTypeOK
<1> QED BY <1>1, <1>2, <1>3, <1>4

\* Drivers once assigned stay, so what requests know of them stays true.
LEMMA RequestsUndisturbed ==
    ASSUME TInv, RidesTypeOK', UNCHANGED requestVars, UNCHANGED walletVars,
           \A r \in Rides : driver[r] \in Drivers => driver'[r] = driver[r]
    PROVE  RequestsServe' /\ ReadCovered' /\ WalletCovered'
<1> USE DEF TInv, TripTypeOK, requestVars, walletVars, TripSteps
<1>1. RequestsServe'
  BY DEF RequestsServe
<1>2. ReadCovered'
  BY DEF ReadCovered, RequestsServe
<1>3. WalletCovered'
  BY DEF WalletCovered
<1> QED BY <1>1, <1>2, <1>3

LEMMA RequestEnds ==
    ASSUME TInv, RidesTypeOK', NEW q \in Requests, End(q), UNCHANGED walletVars,
           \A r \in Rides : driver[r] \in Drivers => driver'[r] = driver[r]
    PROVE  RequestsServe' /\ ReadCovered' /\ WalletCovered'
<1> USE DEF TInv, TripTypeOK, walletVars, TripSteps, End
<1>1. RequestsServe'
  BY DEF RequestsServe
<1>2. ReadCovered'
  BY DEF ReadCovered, RequestsServe
<1>3. WalletCovered'
  BY DEF WalletCovered
<1> QED BY <1>1, <1>2, <1>3

LEMMA RequestOpens ==
    ASSUME TInv, NEW q \in Requests, NEW r \in Rides,
           NEW step \in {"arrive", "cancel", "wallet"},
           ReadRide(q, r, step), step = "wallet" => driver[r] # NoDriver,
           UNCHANGED <<rideVars, arrived, moneyVars, walletVars>>
    PROVE  TInv'
<1> USE DEF rideVars, moneyVars, walletVars
<1>1. TripTypeOK'
  BY ReadRideType DEF TInv, TripTypeOK, RidesTypeOK, TripSteps
<1>2. RequestsServe' /\ ReadCovered'
  BY DEF TInv, TripTypeOK, RidesTypeOK, RequestsServe, ReadCovered, ReadRide
<1>3. /\ Unassigned' /\ ReceiptMeansEarned' /\ CompletedHasReceipt'
      /\ OneActiveRidePerDriver' /\ WalletCovered'
  BY DEF TInv, Unassigned, ReceiptMeansEarned, CompletedHasReceipt,
         OneActiveRidePerDriver, WalletCovered
<1> QED BY <1>1, <1>2, <1>3 DEF TInv

-----------------------------------------------------------------------------
(* One lemma for each action. *)

LEMMA AssignStep ==
    ASSUME TInv, NEW r \in Rides, NEW d \in Drivers, Assign(r, d)
    PROVE  TInv'
<1> USE DEF Assign
<1>1. driver[r] = NoDriver
  BY DEF TInv, Unassigned
<1>2. /\ RidesTypeOK' /\ Unassigned' /\ CompletedHasReceipt'
      /\ ReceiptMeansEarned' /\ OneActiveRidePerDriver'
      /\ \A q \in Rides : driver[q] \in Drivers => driver'[q] = driver[q]
  <2>1. "ASSIGNED" \in Statuses /\ UNCHANGED moneyVars
    BY DEF Statuses, tripVars, moneyVars
  <2> QED BY <1>1, <2>1, RowStep
<1>3. TripTypeOK'
  BY <1>2 DEF TInv, TripTypeOK, tripVars
<1>4. RequestsServe' /\ ReadCovered' /\ WalletCovered'
  BY <1>2, RequestsUndisturbed DEF tripVars, requestVars, walletVars
<1> QED BY <1>2, <1>3, <1>4 DEF TInv

\* Starting and cancelling keep the driver and need no room in the index.
LEMMA KeepDriverStep ==
    ASSUME TInv, NEW r \in Rides, NEW s \in {"IN_PROGRESS", "CANCELLED"},
           s = "IN_PROGRESS" => status[r] \in Active,
           SetRide(r, s, driver[r]), UNCHANGED moneyVars
    PROVE  /\ RidesTypeOK' /\ Unassigned' /\ CompletedHasReceipt'
           /\ ReceiptMeansEarned' /\ OneActiveRidePerDriver'
           /\ \A q \in Rides : driver[q] \in Drivers => driver'[q] = driver[q]
<1>1. s \in Statuses /\ driver[r] \in Drivers \cup {NoDriver}
  BY DEF TInv, TripTypeOK, RidesTypeOK, Statuses
<1>2. UniqueIndex(r, s, driver[r])
  BY <1>1, KeepDriverAccepted DEF TInv, TripTypeOK, Active
<1> QED BY <1>1, <1>2, RowStep

LEMMA StartRideStep ==
    ASSUME TInv, NEW r \in Rides, StartRide(r)
    PROVE  TInv'
<1> USE DEF StartRide
<1>1. /\ RidesTypeOK' /\ Unassigned' /\ CompletedHasReceipt'
      /\ ReceiptMeansEarned' /\ OneActiveRidePerDriver'
      /\ \A q \in Rides : driver[q] \in Drivers => driver'[q] = driver[q]
  BY KeepDriverStep DEF Active, tripVars, moneyVars
<1>2. TripTypeOK'
  BY <1>1 DEF TInv, TripTypeOK, tripVars
<1>3. RequestsServe' /\ ReadCovered' /\ WalletCovered'
  BY <1>1, RequestsUndisturbed DEF tripVars, requestVars, walletVars
<1> QED BY <1>1, <1>2, <1>3 DEF TInv

LEMMA DriverCancelStep ==
    ASSUME TInv, NEW r \in Rides, DriverCancel(r)
    PROVE  TInv'
<1> USE DEF DriverCancel
<1>1. /\ RidesTypeOK' /\ Unassigned' /\ CompletedHasReceipt'
      /\ ReceiptMeansEarned' /\ OneActiveRidePerDriver'
      /\ \A q \in Rides : driver[q] \in Drivers => driver'[q] = driver[q]
  BY KeepDriverStep DEF tripVars, moneyVars
<1>2. TripTypeOK'
  BY <1>1 DEF TInv, TripTypeOK, tripVars
<1>3. RequestsServe' /\ ReadCovered' /\ WalletCovered'
  BY <1>1, RequestsUndisturbed DEF tripVars, requestVars, walletVars
<1> QED BY <1>1, <1>2, <1>3 DEF TInv

LEMMA CompleteRideStep ==
    ASSUME TInv, NEW r \in Rides, CompleteRide(r)
    PROVE  TInv'
<1> USE DEF CompleteRide
<1>1. UniqueIndex(r, "COMPLETED", driver[r])
  BY DEF UniqueIndex, Active
<1>2. RidesTypeOK' /\ OneActiveRidePerDriver'
  BY <1>1, UpdateKeepsOneActive DEF TInv, TripTypeOK, RidesTypeOK, Statuses
<1>3. TripTypeOK'
  BY <1>2 DEF TInv, TripTypeOK, Post, walletVars, requestVars
<1>4. \A q \in Rides : driver'[q] = driver[q]
  BY DEF TInv, TripTypeOK, RidesTypeOK, SetRide
<1>5. RequestsServe' /\ ReadCovered' /\ WalletCovered'
  BY <1>2, <1>4, RequestsUndisturbed
<1>6. Unassigned'
  BY <1>4 DEF TInv, TripTypeOK, RidesTypeOK, SetRide, Unassigned
<1>7. ReceiptMeansEarned'
  BY DEF TInv, TripTypeOK, Post, ReceiptFits, ReceiptMeansEarned
<1>8. CompletedHasReceipt'
  BY DEF TInv, TripTypeOK, RidesTypeOK, SetRide, Post, CompletedHasReceipt
<1> QED BY <1>2, <1>3, <1>5, <1>6, <1>7, <1>8 DEF TInv

LEMMA ArriveCommitStep ==
    ASSUME TInv, NEW q \in Requests, ArriveCommit(q)
    PROVE  TInv'
<1> USE DEF ArriveCommit
<1>1. PICK r \in Rides, s \in Statuses :
        /\ r = read[q].ride
        /\ s = Written(q, "PICKUP")
        /\ s # "PICKUP" => s = status[r]
  BY DEF TInv, TripTypeOK, RidesTypeOK, RequestsServe, Written, Statuses
<1>2. CASE /\ UniqueIndex(r, s, driver[r])
           /\ SetRide(r, s, driver[r])
           /\ arrived' = arrived \cup {r}
  <2>1. /\ RidesTypeOK' /\ Unassigned' /\ CompletedHasReceipt'
        /\ ReceiptMeansEarned' /\ OneActiveRidePerDriver'
        /\ \A p \in Rides : driver[p] \in Drivers => driver'[p] = driver[p]
    <3>1. driver[r] \in Drivers \cup {NoDriver}
      BY DEF TInv, TripTypeOK, RidesTypeOK
    <3>2. s = "COMPLETED" => r \in receipt
      BY <1>1 DEF TInv, CompletedHasReceipt
    <3>3. s = "MATCHING" => driver[r] = NoDriver
      BY <1>1 DEF TInv, Unassigned
    <3> QED BY <1>2, <3>1, <3>2, <3>3, RowStep
  <2>2. TripTypeOK'
    BY <1>2, <2>1, EndType DEF TInv, TripTypeOK, moneyVars, walletVars
  <2>3. RequestsServe' /\ ReadCovered' /\ WalletCovered'
    BY <2>1, RequestEnds
  <2> QED BY <2>1, <2>2, <2>3 DEF TInv
<1>3. CASE UNCHANGED <<rideVars, arrived>>
  <2>1. TripTypeOK'
    BY <1>3, EndType DEF TInv, TripTypeOK, RidesTypeOK, rideVars, moneyVars, walletVars
  <2>2. RequestsServe' /\ ReadCovered' /\ WalletCovered'
    BY <1>3, <2>1, RequestEnds DEF TripTypeOK, rideVars
  <2>3. /\ Unassigned' /\ ReceiptMeansEarned' /\ CompletedHasReceipt'
        /\ OneActiveRidePerDriver'
    BY <1>3 DEF TInv, Unassigned, ReceiptMeansEarned, CompletedHasReceipt,
                OneActiveRidePerDriver, rideVars, moneyVars
  <2> QED BY <2>1, <2>2, <2>3 DEF TInv
<1> QED BY <1>1, <1>2, <1>3

LEMMA CustomerCancelCommitStep ==
    ASSUME TInv, NEW q \in Requests, CustomerCancelCommit(q)
    PROVE  TInv'
<1> USE DEF CustomerCancelCommit
<1>1. PICK r \in Rides : r = read[q].ride
  BY DEF TInv, RequestsServe
<1>2. /\ RidesTypeOK' /\ Unassigned' /\ CompletedHasReceipt'
      /\ ReceiptMeansEarned' /\ OneActiveRidePerDriver'
      /\ \A p \in Rides : driver[p] \in Drivers => driver'[p] = driver[p]
  BY <1>1, KeepDriverStep
<1>3. TripTypeOK'
  BY <1>2, EndType DEF TInv, TripTypeOK, moneyVars, walletVars
<1>4. RequestsServe' /\ ReadCovered' /\ WalletCovered'
  BY <1>2, RequestEnds
<1> QED BY <1>2, <1>3, <1>4 DEF TInv

LEMMA NoShowReadWalletStep ==
    ASSUME TInv, NEW q \in Requests, NoShowReadWallet(q)
    PROVE  TInv'
<1> USE DEF NoShowReadWallet, rideVars, moneyVars, walletVars
<1>1. read[q].ride \in Rides /\ driver[read[q].ride] \in Drivers
  BY DEF TInv, RequestsServe
<1>2. TripTypeOK'
  <2>1. balance[driver[read[q].ride]] \in Nat
    BY <1>1 DEF TInv, TripTypeOK
  <2> QED BY <2>1 DEF TInv, TripTypeOK, RidesTypeOK, TripSteps, Read
<1>3. RequestsServe'
  BY <1>1 DEF TInv, TripTypeOK, RequestsServe, Read
<1>4. ReadCovered'
  BY <1>1 DEF TInv, TripTypeOK, ReadCovered, WalletCovered, Read
<1>5. /\ Unassigned' /\ ReceiptMeansEarned' /\ CompletedHasReceipt'
      /\ OneActiveRidePerDriver' /\ WalletCovered'
  BY DEF TInv, Unassigned, ReceiptMeansEarned, CompletedHasReceipt,
         OneActiveRidePerDriver, WalletCovered
<1> QED BY <1>2, <1>3, <1>4, <1>5 DEF TInv

LEMMA NoShowCommitStep ==
    ASSUME TInv, NEW q \in Requests, NoShowCommit(q)
    PROVE  TInv'
<1> USE DEF NoShowCommit
<1>1. PICK r \in Rides, d \in Drivers :
        /\ r = read[q].ride
        /\ d = driver[r]
        /\ read[q].balance \in Nat
        /\ read[q].balance <= log[d]
  BY DEF TInv, TripTypeOK, RequestsServe, ReadCovered, Read
<1>2. /\ RidesTypeOK' /\ Unassigned' /\ CompletedHasReceipt'
      /\ ReceiptMeansEarned' /\ OneActiveRidePerDriver'
      /\ \A p \in Rides : driver[p] \in Drivers => driver'[p] = driver[p]
  BY <1>1, KeepDriverStep
<1>3. CASE d \in Wallets /\ Credit(q, d)
  <2>1. TripTypeOK'
    BY <1>1, <1>2, <1>3, EndType DEF TInv, TripTypeOK, Credit, moneyVars
  <2>2. RequestsServe'
    BY <1>2 DEF TInv, TripTypeOK, RequestsServe, End, TripSteps
  <2>3. \A e \in Drivers : log[e] <= log'[e]
    BY <1>3 DEF TInv, TripTypeOK, Credit
  <2>4. ReadCovered'
    <3> SUFFICES ASSUME NEW p \in Requests, at'[p] = "noShow"
                 PROVE  read'[p].balance <= log'[driver'[read'[p].ride]]
      BY DEF ReadCovered
    <3>1. p # q /\ at[p] = "noShow" /\ read'[p] = read[p]
      BY DEF TInv, TripTypeOK, End, TripSteps
    <3>2. PICK e \in Drivers :
            /\ e = driver[read[p].ride]
            /\ driver'[read[p].ride] = e
            /\ read[p].balance <= log[e]
      BY <1>2, <3>1 DEF TInv, RequestsServe, ReadCovered
    <3>3. read[p].balance \in Nat /\ log[e] \in Nat /\ log'[e] \in Nat
      BY <2>1 DEF TInv, TripTypeOK, Read
    <3> QED BY <2>3, <3>1, <3>2, <3>3
  <2>5. WalletCovered'
    BY <1>1, <1>3 DEF TInv, TripTypeOK, WalletCovered, Credit
  <2> QED BY <1>2, <2>1, <2>2, <2>4, <2>5 DEF TInv
<1>4. CASE UNCHANGED walletVars
  <2>1. TripTypeOK'
    BY <1>2, <1>4, EndType DEF TInv, TripTypeOK, moneyVars, walletVars
  <2>2. RequestsServe' /\ ReadCovered' /\ WalletCovered'
    BY <1>2, <1>4, RequestEnds
  <2> QED BY <1>2, <2>1, <2>2 DEF TInv
<1> QED BY <1>1, <1>3, <1>4

LEMMA AbortStep ==
    ASSUME TInv, NEW q \in Requests, Abort(q)
    PROVE  TInv'
<1> USE DEF Abort
<1>1. TripTypeOK'
  BY EndType DEF TInv, TripTypeOK, RidesTypeOK, rideVars, moneyVars, walletVars
<1>2. RequestsServe' /\ ReadCovered' /\ WalletCovered'
  BY <1>1, RequestEnds DEF TripTypeOK, rideVars
<1>3. /\ Unassigned' /\ ReceiptMeansEarned' /\ CompletedHasReceipt'
      /\ OneActiveRidePerDriver'
  BY DEF TInv, Unassigned, ReceiptMeansEarned, CompletedHasReceipt,
         OneActiveRidePerDriver, rideVars, moneyVars
<1> QED BY <1>1, <1>2, <1>3 DEF TInv

\* Every step keeps the invariant, a stuttering step included.
LEMMA TripInductive == TInv /\ [TripNext]_allVars => TInv'
<1> SUFFICES ASSUME TInv, [TripNext]_allVars PROVE TInv'
  OBVIOUS
<1>1. ASSUME NEW r \in Rides, Locked(r) PROVE TInv'
  BY <1>1, StartRideStep, CompleteRideStep, DriverCancelStep DEF Locked
<1>2. ASSUME NEW r \in Rides, NEW d \in Drivers, Assign(r, d) PROVE TInv'
  BY <1>2, AssignStep
<1>3. ASSUME NEW q \in Requests, NEW r \in Rides, Request(q, r) PROVE TInv'
  <2>1. CASE ArriveRead(q, r)
    BY <2>1, RequestOpens DEF ArriveRead
  <2>2. CASE CustomerCancelRead(q, r)
    BY <2>2, RequestOpens DEF CustomerCancelRead
  <2>3. CASE NoShowRead(q, r)
    BY <2>3, RequestOpens DEF NoShowRead
  <2> QED BY <1>3, <2>1, <2>2, <2>3 DEF Request
<1>4. ASSUME NEW q \in Requests, Advance(q) PROVE TInv'
  BY <1>4, ArriveCommitStep, CustomerCancelCommitStep, NoShowReadWalletStep,
     NoShowCommitStep, AbortStep DEF Advance
<1>5. CASE UNCHANGED allVars
  BY <1>5 DEF allVars, tripVars, TInv, TripTypeOK, RidesTypeOK, RequestsServe,
              Unassigned, ReceiptMeansEarned, CompletedHasReceipt,
              OneActiveRidePerDriver, WalletCovered, ReadCovered
<1> QED BY <1>1, <1>2, <1>3, <1>4, <1>5 DEF TripNext

LEMMA TripInvariant == TripSpec => []TInv
BY InitTInv, TripInductive, PTL DEF TripSpec

-----------------------------------------------------------------------------
(***************************************************************************)
(* The tables and the requests always hold values of their types.          *)
(***************************************************************************)
THEOREM TripTypeCorrect == TripSpec => []TripTypeOK
<1>1. TInv => TripTypeOK
  BY DEF TInv
<1> QED BY <1>1, TripInvariant, PTL

(***************************************************************************)
(* No ride earns twice, under any repetition and overlap of arrivals,      *)
(* completions and cancellations.                                          *)
(***************************************************************************)
THEOREM NoDoubleEarning == TripSpec => []EarnsOnce
<1>1. TInv => EarnsOnce
  <2> SUFFICES ASSUME TInv, NEW r \in Rides PROVE earned[r] <= 1
    BY DEF EarnsOnce
  <2>1. earned[r] = 0 \/ earned[r] = 1
    BY DEF TInv, ReceiptMeansEarned
  <2> QED BY <2>1
<1> QED BY <1>1, TripInvariant, PTL

(***************************************************************************)
(* A completed ride always has its entry in the earnings ledger.           *)
(***************************************************************************)
THEOREM CompletionEarns == TripSpec => []CompletedRideEarns
<1>1. TInv => CompletedRideEarns
  BY DEF TInv, ReceiptMeansEarned, CompletedHasReceipt, CompletedRideEarns
<1> QED BY <1>1, TripInvariant, PTL

(***************************************************************************)
(* A driver has one active ride at most, although arrival reports reopen   *)
(* rides that were closed.                                                 *)
(***************************************************************************)
THEOREM TripsKeepOneActive == TripSpec => []OneActiveRidePerDriver
<1>1. TInv => OneActiveRidePerDriver
  BY DEF TInv
<1> QED BY <1>1, TripInvariant, PTL

(***************************************************************************)
(* A wallet never holds a compensation that no transaction accounts for.   *)
(***************************************************************************)
THEOREM CompensationsCovered == TripSpec => []WalletCovered
<1>1. TInv => WalletCovered
  BY DEF TInv
<1> QED BY <1>1, TripInvariant, PTL

-----------------------------------------------------------------------------
(* What no step takes back. *)

TripKeeps ==
    \A r \in Rides :
        /\ driver[r] # NoDriver => driver'[r] = driver[r]
        /\ r \in receipt => r \in receipt' /\ earned'[r] = earned[r]

\* A ride's driver and its bill are kept by every handler: only an
\* assignment writes another driver, and finds none.
LEMMA StepKeeps == TInv /\ [TripNext]_allVars => TripKeeps
<1> SUFFICES ASSUME TInv, [TripNext]_allVars PROVE TripKeeps
  OBVIOUS
<1> USE DEF TInv, TripTypeOK, RidesTypeOK, TripKeeps, SetRide
<1>1. ASSUME NEW r \in Rides, Locked(r) PROVE TripKeeps
  <2>1. CASE StartRide(r)
    BY <2>1 DEF StartRide, tripVars, moneyVars
  <2>2. CASE CompleteRide(r)
    BY <2>2 DEF CompleteRide, ReceiptFits, Post
  <2>3. CASE DriverCancel(r)
    BY <2>3 DEF DriverCancel, tripVars, moneyVars
  <2> QED BY <1>1, <2>1, <2>2, <2>3 DEF Locked
<1>2. ASSUME NEW r \in Rides, NEW d \in Drivers, Assign(r, d) PROVE TripKeeps
  BY <1>2 DEF Assign, Unassigned, tripVars, moneyVars
<1>3. ASSUME NEW q \in Requests, NEW r \in Rides, Request(q, r) PROVE TripKeeps
  BY <1>3 DEF Request, ArriveRead, CustomerCancelRead, NoShowRead, rideVars,
              moneyVars
<1>4. ASSUME NEW q \in Requests, Advance(q) PROVE TripKeeps
  <2>1. CASE ArriveCommit(q)
    BY <2>1 DEF ArriveCommit, RequestsServe, rideVars, moneyVars
  <2>2. CASE CustomerCancelCommit(q)
    BY <2>2 DEF CustomerCancelCommit, RequestsServe, moneyVars
  <2>3. CASE NoShowReadWallet(q)
    BY <2>3 DEF NoShowReadWallet, rideVars, moneyVars
  <2>4. CASE NoShowCommit(q)
    BY <2>4 DEF NoShowCommit, RequestsServe, moneyVars
  <2>5. CASE Abort(q)
    BY <2>5 DEF Abort, rideVars, moneyVars
  <2> QED BY <1>4, <2>1, <2>2, <2>3, <2>4, <2>5 DEF Advance
<1>5. CASE UNCHANGED allVars
  BY <1>5 DEF allVars, tripVars, rideVars, moneyVars
<1> QED BY <1>1, <1>2, <1>3, <1>4, <1>5 DEF TripNext

(***************************************************************************)
(* Whoever was assigned a ride stays its driver, and a bill once written   *)
(* is neither removed nor posted again, whatever arrives late or again     *)
(* ("immutable record", DriverEarningLedger).                              *)
(***************************************************************************)
THEOREM DriverAndBillKept == TripSpec => [][TripKeeps]_allVars
BY TripInvariant, StepKeeps, PTL DEF TripSpec
=============================================================================
