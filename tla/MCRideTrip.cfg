\* Two rides, two drivers of whom one has a wallet, three unlocked requests.
CONSTANTS
    Rides = {r1, r2}
    Drivers = {d1, d2}
    Requests = {q1, q2, q3}
    Wallets = {d1}
    NoDriver = NoDriver
    NoRide = NoRide
    MaxPaid = 3
SPECIFICATION TripSpec
SYMMETRY Symmetric
CONSTRAINT FewPayments
INVARIANTS
    TripTypeOK
    OneActiveRidePerDriver
    EarnsOnce
    CompletedRideEarns
    WalletCovered
CHECK_DEADLOCK FALSE
