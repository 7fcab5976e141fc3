------------------------ MODULE DriverPresenceProofs ------------------------
(***************************************************************************)
(* What holds of a driver's availability for any number of connections and *)
(* of goOnline and goOffline calls under way together.                     *)
(***************************************************************************)
EXTENDS DriverPresence, TLAPS

(* Only a network that is reported lost keeps the watchdog armed. *)
ArmedOffNet == watchdog = "armed" => ~reported

PInv == PresenceTypeOK /\ OnlineIsPinging /\ ArmedOffNet

USE PresenceAssumption DEF Presence, States, PresenceTypeOK

-----------------------------------------------------------------------------
(* The pieces of the actions keep their part of the types. *)

LEMMA EmitType ==
  ASSUME PresenceTypeOK, NEW s \in Sockets \cup {NoSocket},
         NEW p \in Presence, Emit(s, p)
  PROVE  buffer' \in [Sockets -> Presence \cup {"empty"}] /\ server' \in Presence
BY DEF Emit

LEMMA EnsureType ==
  ASSUME PresenceTypeOK, ensureConnected
  PROVE  /\ sock' \in [Sockets -> {"none", "trying", "up", "refused"}]
         /\ creating' \in BOOLEAN
BY DEF ensureConnected, SocketInit

(* handleNetworkChange keeps the types, runs the ping of an ONLINE driver and
   arms the watchdog only when the network is gone. *)
LEMMA NetworkChangeType ==
  ASSUME PInv, NEW b \in BOOLEAN, NetworkChange(state, b), state' = state
  PROVE  /\ watchdog' \in {"none", "armed", "fired"}
         /\ reported' \in BOOLEAN /\ ping' \in BOOLEAN
         /\ OnlineIsPinging' /\ ArmedOffNet'
BY DEF NetworkChange, PInv, OnlineIsPinging, ArmedOffNet

LEMMA StepType ==
  ASSUME PresenceTypeOK, NEW t \in Tasks, NEW from,
         NEW to \in {"idle", "eligibility", "announce", "asking", "tripcheck",
                     "stopping"},
         Step(t, from, to)
  PROVE  task' \in [Tasks -> {"idle", "eligibility", "announce",
                              "asking", "tripcheck", "stopping"}]
BY DEF Step

-----------------------------------------------------------------------------
LEMMA InitPInv == Init => PInv
BY DEF Init, PInv, OnlineIsPinging, ArmedOffNet

LEMMA ToggleKeepsPInv ==
  ASSUME PInv, NEW t \in Tasks,
         GoOnline(t) \/ AskOffline(t) \/ Cancel(t) \/ GoOffline(t) \/ TaskStep(t)
  PROVE  PInv'
<1>1. PresenceTypeOK /\ OnlineIsPinging /\ ArmedOffNet
  BY DEF PInv
<1> USE <1>1 DEF PInv, OnlineIsPinging, ArmedOffNet, socketVars, trackVars,
                 appVars, Step
<1>2. CASE GoOnline(t)
  BY <1>2 DEF GoOnline
<1>3. CASE AskOffline(t)
  BY <1>3 DEF AskOffline
<1>4. CASE Cancel(t)
  BY <1>4 DEF Cancel
<1>5. CASE GoOffline(t)
  BY <1>5 DEF GoOffline
<1>6. CASE Blocked(t)
  BY <1>6 DEF Blocked
<1>7. CASE Eligible(t)
  BY <1>7 DEF Eligible
<1>8. CASE TripActive(t)
  BY <1>8 DEF TripActive
<1>9. CASE TripFree(t)
  BY <1>9 DEF TripFree
<1>10. CASE Announce(t)
  <2>1. /\ sock' \in [Sockets -> {"none", "trying", "up", "refused"}]
        /\ creating' \in BOOLEAN
    BY <1>10, EnsureType DEF Announce
  <2>2. buffer' \in [Sockets -> Presence \cup {"empty"}] /\ server' \in Presence
    BY <1>10, EmitType DEF Announce
  <2>3. QED
    BY <1>10, <2>1, <2>2 DEF Announce
<1>11. CASE WentOffline(t)
  <2>1. buffer' \in [Sockets -> Presence \cup {"empty"}] /\ server' \in Presence
    BY <1>11, EmitType DEF WentOffline
  <2>2. QED
    BY <1>11, <2>1 DEF WentOffline
<1>12. QED
  BY <1>2, <1>3, <1>4, <1>10, <1>11, <1>5, <1>6, <1>7, <1>8, <1>9 DEF TaskStep

LEMMA NetworkKeepsPInv ==
  ASSUME PInv, WatchdogFires \/ NetDown \/ NetUp \/ Foreground \/ ScreenOpens
  PROVE  PInv'
<1>1. PresenceTypeOK /\ OnlineIsPinging /\ ArmedOffNet
  BY DEF PInv
<1>2. CASE WatchdogFires
  BY <1>1, <1>2 DEF WatchdogFires, PInv, OnlineIsPinging, ArmedOffNet,
                    socketVars, trackVars
<1>3. CASE NetDown
  BY <1>1, <1>3, NetworkChangeType DEF NetDown, PInv, socketVars, trackVars
<1>4. CASE NetUp
  <2>1. /\ sock' \in [Sockets -> {"none", "trying", "up", "refused"}]
        /\ creating' \in BOOLEAN
    BY <1>1, <1>4, EnsureType DEF NetUp
  <2>2. QED
    BY <1>1, <1>4, <2>1, NetworkChangeType DEF NetUp, PInv, trackVars
<1>5. CASE Foreground
  <2>1. /\ sock' \in [Sockets -> {"none", "trying", "up", "refused"}]
        /\ creating' \in BOOLEAN
    BY <1>1, <1>5, EnsureType DEF Foreground
  <2>2. QED
    BY <1>1, <1>5, <2>1, NetworkChangeType DEF Foreground, PInv, trackVars
<1>6. CASE ScreenOpens
  BY <1>1, <1>6 DEF ScreenOpens, SocketInit, PInv, OnlineIsPinging,
                    ArmedOffNet, appVars, trackVars
<1>7. QED
  BY <1>2, <1>3, <1>4, <1>5, <1>6

LEMMA SocketKeepsPInv ==
  ASSUME PInv, NEW s \in Sockets,
         InitDone(s) \/ SocketUp(s) \/ SocketDown(s) \/ SocketRefused(s)
  PROVE  PInv'
<1>1. PresenceTypeOK /\ OnlineIsPinging /\ ArmedOffNet
  BY DEF PInv
<1>2. CASE SocketUp(s)
  <2>1. server' \in Presence
    BY <1>1, <1>2 DEF SocketUp
  <2>2. QED
    BY <1>1, <1>2, <2>1, NetworkChangeType DEF SocketUp, PInv, trackVars
<1>3. CASE InitDone(s)
  BY <1>1, <1>3 DEF InitDone, PInv, OnlineIsPinging, ArmedOffNet, appVars,
                    trackVars
<1>4. CASE SocketDown(s)
  BY <1>1, <1>4 DEF SocketDown, PInv, OnlineIsPinging, ArmedOffNet, appVars,
                    trackVars
<1>5. CASE SocketRefused(s)
  BY <1>1, <1>5 DEF SocketRefused, PInv, OnlineIsPinging, ArmedOffNet, appVars,
                    trackVars
<1>6. QED
  BY <1>2, <1>3, <1>4, <1>5

LEMMA ServerKeepsPInv ==
  ASSUME PInv, \/ Heartbeat \/ Ping \/ TrackingStarts \/ Tick
               \/ \E p \in Presence : Lands(p) \/ Lost(p)
  PROVE  PInv'
<1>1. PresenceTypeOK /\ OnlineIsPinging /\ ArmedOffNet
  BY DEF PInv
<1> USE <1>1 DEF PInv, OnlineIsPinging, ArmedOffNet, appVars, socketVars,
                 trackVars
<1>2. CASE Heartbeat
  BY <1>2 DEF Heartbeat
<1>3. CASE Ping
  BY <1>3 DEF Ping
<1>4. CASE TrackingStarts
  BY <1>4 DEF TrackingStarts
<1>5. CASE Tick
  <2>1. buffer' \in [Sockets -> Presence \cup {"empty"}] /\ server' \in Presence
    BY <1>5, EmitType DEF Tick
  <2>2. /\ sock' \in [Sockets -> {"none", "trying", "up", "refused"}]
        /\ creating' \in BOOLEAN
    BY <1>5, EnsureType DEF Tick
  <2>3. QED
    BY <1>5, <2>1, <2>2 DEF Tick
<1>6. ASSUME NEW p \in Presence, Lands(p) PROVE PInv'
  BY <1>6 DEF Lands
<1>7. ASSUME NEW p \in Presence, Lost(p) PROVE PInv'
  BY <1>7 DEF Lost
<1>8. QED
  BY <1>2, <1>5, <1>6, <1>3, <1>4, <1>7

LEMMA RestartKeepsPInv ==
  ASSUME PInv, Restart
  PROVE  PInv'
BY DEF Restart, Reset, PInv, OnlineIsPinging, ArmedOffNet

LEMMA NextKeepsPInv == PInv /\ [Next]_vars => PInv'
<1> SUFFICES ASSUME PInv, [Next]_vars PROVE PInv'
  OBVIOUS
<1>1. CASE UNCHANGED vars
  BY <1>1 DEF vars, appVars, socketVars, trackVars, PInv, OnlineIsPinging,
              ArmedOffNet
<1>2. CASE Next
  BY <1>2, ToggleKeepsPInv, NetworkKeepsPInv, SocketKeepsPInv,
     ServerKeepsPInv, RestartKeepsPInv DEF Next
<1>3. QED
  BY <1>1, <1>2

(* The presence of a driver always has its type. *)
THEOREM PresenceTypeCorrect == Spec => []PresenceTypeOK
<1>1. PInv => PresenceTypeOK
  BY DEF PInv
<1>2. QED
  BY <1>1, InitPInv, NextKeepsPInv, PTL DEF Spec

(* A driver shown as ONLINE has a running ping, however many calls of goOnline
   and goOffline overlap. *)
THEOREM OnlinePings == Spec => []OnlineIsPinging
<1>1. PInv => OnlineIsPinging
  BY DEF PInv
<1>2. QED
  BY <1>1, InitPInv, NextKeepsPInv, PTL DEF Spec

(* Only the watchdog makes a driver AUTO_OFFLINE, and only off the network. *)
LEMMA AutoOfflineStep ==
  PInv /\ [Next]_vars
    => [state' = "AUTO_OFFLINE" /\ state # "AUTO_OFFLINE" => ~reported]_vars
<1> SUFFICES ASSUME PInv, Next, state' = "AUTO_OFFLINE",
                    state # "AUTO_OFFLINE"
             PROVE  ~reported
  BY DEF vars
<1>1. CASE WatchdogFires
  BY <1>1 DEF WatchdogFires, PInv, ArmedOffNet
<1>2. CASE \E t \in Tasks : \/ GoOnline(t) \/ AskOffline(t) \/ Cancel(t)
                            \/ GoOffline(t) \/ TaskStep(t)
  BY <1>2 DEF GoOnline, AskOffline, Cancel, GoOffline, TaskStep, Blocked,
              Eligible, Announce, TripActive, TripFree, WentOffline, appVars
<1>3. CASE NetDown \/ NetUp \/ Foreground \/ ScreenOpens
  BY <1>3 DEF NetDown, NetUp, Foreground, ScreenOpens, appVars
<1>4. CASE \E s \in Sockets : \/ InitDone(s) \/ SocketUp(s) \/ SocketDown(s)
                              \/ SocketRefused(s)
  BY <1>4 DEF InitDone, SocketUp, SocketDown, SocketRefused, appVars
<1>5. CASE \/ Heartbeat \/ Ping \/ TrackingStarts \/ Tick
           \/ \E p \in Presence : Lands(p) \/ Lost(p)
  BY <1>5 DEF Heartbeat, Ping, TrackingStarts, Tick, Lands, Lost, appVars
<1>6. CASE Restart
  BY <1>6 DEF Restart
<1>7. QED
  BY <1>1, <1>2, <1>3, <1>4, <1>5, <1>6 DEF Next

(* A network that came back in time never lets the watchdog turn a driver
   off. *)
THEOREM AutoOfflineOffNet == Spec => AutoOfflineOnlyOffNet
BY AutoOfflineStep, InitPInv, NextKeepsPInv, PTL DEF Spec, AutoOfflineOnlyOffNet

-----------------------------------------------------------------------------
(* What the liveness of the toggle rests on: a moving state, in which the
   toggle is disabled, always has a call of goOnline or goOffline that has not
   ended and sets another state when it does; and the alert, which hides the
   toggle as well, is open once at most. *)

MovingHasCall ==
  /\ state = "GOING_ONLINE" =>
       \E t \in Tasks : task[t] \in {"eligibility", "announce"}
  /\ state = "GOING_OFFLINE" => \E t \in Tasks : task[t] = "stopping"

OneAlert ==
  \A t, u \in Tasks : task[t] = "asking" /\ task[u] = "asking" => t = u

MInv == MovingHasCall /\ OneAlert

(* A call goes on, in a state it does not leave to others. *)
LEMMA StepKeepsMInv ==
  ASSUME PresenceTypeOK, MInv, NEW t \in Tasks,
         NEW from \in {"idle", "eligibility", "announce", "asking",
                       "tripcheck", "stopping"},
         NEW to \in {"idle", "eligibility", "announce", "asking",
                     "tripcheck", "stopping"},
         Step(t, from, to),
         \/ state' \notin Moving
         \/ state' = "GOING_ONLINE" /\ to \in {"eligibility", "announce"}
         \/ state' = "GOING_OFFLINE" /\ to = "stopping"
         \/ /\ state' = state
            /\ from \in {"eligibility", "announce"} =>
                 to \in {"eligibility", "announce"}
            /\ from # "stopping",
         to = "asking" => \A u \in Tasks : task[u] # "asking"
  PROVE  MInv'
<1>1. /\ task[t] = from /\ task'[t] = to
      /\ \A u \in Tasks : u # t => task'[u] = task[u]
  BY DEF Step
<1>2. OneAlert'
  BY <1>1 DEF MInv, OneAlert
<1>3. MovingHasCall'
  <2>1. CASE state' \notin Moving
    BY <2>1 DEF Moving, MovingHasCall
  <2>2. CASE \/ state' = "GOING_ONLINE" /\ to \in {"eligibility", "announce"}
             \/ state' = "GOING_OFFLINE" /\ to = "stopping"
    BY <1>1, <2>2 DEF MovingHasCall
  <2>3. CASE /\ state' = state
             /\ from \in {"eligibility", "announce"} =>
                  to \in {"eligibility", "announce"}
             /\ from # "stopping"
    BY <1>1, <2>3 DEF MInv, MovingHasCall
  <2>4. QED
    BY <2>1, <2>2, <2>3
<1>4. QED
  BY <1>2, <1>3 DEF MInv

LEMMA NextKeepsMInv == PInv /\ MInv /\ [Next]_vars => MInv'
<1> SUFFICES ASSUME PInv, MInv, [Next]_vars PROVE MInv'
  OBVIOUS
<1>1. PresenceTypeOK
  BY DEF PInv
<1>2. ASSUME NEW t \in Tasks,
             \/ GoOnline(t) \/ AskOffline(t) \/ Cancel(t)
             \/ GoOffline(t) \/ TaskStep(t)
      PROVE  MInv'
  <2>1. CASE GoOnline(t)
    BY <1>1, <2>1, StepKeepsMInv DEF GoOnline
  <2>2. CASE AskOffline(t)
    BY <1>1, <2>2, StepKeepsMInv DEF AskOffline, ToggleShown, appVars
  <2>3. CASE Cancel(t)
    BY <1>1, <2>3, StepKeepsMInv DEF Cancel, appVars
  <2>4. CASE GoOffline(t)
    BY <1>1, <2>4, StepKeepsMInv DEF GoOffline, appVars
  <2>5. CASE Blocked(t)
    BY <1>1, <2>5, StepKeepsMInv DEF Blocked, Moving
  <2>6. CASE Eligible(t)
    BY <1>1, <2>6, StepKeepsMInv DEF Eligible, appVars
  <2>7. CASE Announce(t)
    BY <1>1, <2>7, StepKeepsMInv DEF Announce, Moving
  <2>8. CASE TripActive(t)
    BY <1>1, <2>8, StepKeepsMInv DEF TripActive, appVars
  <2>9. CASE TripFree(t)
    BY <1>1, <2>9, StepKeepsMInv DEF TripFree
  <2>10. CASE WentOffline(t)
    BY <1>1, <2>10, StepKeepsMInv DEF WentOffline, Moving
  <2>11. QED
    BY <1>2, <2>1, <2>2, <2>3, <2>4, <2>5, <2>6, <2>7, <2>8, <2>9, <2>10
       DEF TaskStep
<1>3. CASE WatchdogFires
  BY <1>3 DEF WatchdogFires, MInv, MovingHasCall, OneAlert
<1>4. CASE Restart
  BY <1>4 DEF Restart, Reset, MInv, MovingHasCall, OneAlert
<1>5. CASE UNCHANGED <<state, task>>
  BY <1>5 DEF MInv, MovingHasCall, OneAlert
<1>6. CASE NetDown \/ NetUp \/ Foreground \/ ScreenOpens
  BY <1>5, <1>6 DEF NetDown, NetUp, Foreground, ScreenOpens, appVars
<1>7. CASE \E s \in Sockets : \/ InitDone(s) \/ SocketUp(s) \/ SocketDown(s)
                              \/ SocketRefused(s)
  BY <1>5, <1>7 DEF InitDone, SocketUp, SocketDown, SocketRefused, appVars
<1>8. CASE \/ Heartbeat \/ Ping \/ TrackingStarts \/ Tick
           \/ \E p \in Presence : Lands(p) \/ Lost(p)
  BY <1>5, <1>8 DEF Heartbeat, Ping, TrackingStarts, Tick, Lands, Lost, appVars
<1>9. CASE UNCHANGED vars
  BY <1>5, <1>9 DEF vars, appVars
<1>10. QED
  BY <1>2, <1>3, <1>4, <1>6, <1>7, <1>8, <1>9 DEF Next

LEMMA SpecMInv == Spec => []MInv
<1>1. Init => MInv
  BY DEF Init, MInv, MovingHasCall, OneAlert
<1>2. QED
  BY <1>1, InitPInv, NextKeepsPInv, NextKeepsMInv, PTL DEF Spec

(* Neither moving state is ever left without a call that will end it, so a
   toggle that stays disabled waits for an answer: of ToggleNeverStuck, which
   adds that calls end, this is what the code must get right (goOnline,
   goOffline and the restart). *)
THEOREM MovingIsCalled == Spec => []MovingHasCall
<1>1. MInv => MovingHasCall
  BY DEF MInv
<1>2. QED
  BY <1>1, SpecMInv, PTL

(* The alert of goOffline is open once at most, however often the toggle was
   shown again while a goOffline was under way. *)
THEOREM AlertOpensOnce == Spec => []OneAlert
<1>1. MInv => OneAlert
  BY DEF MInv
<1>2. QED
  BY <1>1, SpecMInv, PTL
=============================================================================
