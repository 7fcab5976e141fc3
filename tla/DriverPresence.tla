--------------------------- MODULE DriverPresence ---------------------------
(***************************************************************************)
(* Whether a driver is available for rides, as his app and the server each *)
(* see it: AvailabilityService with its toggle, its ping and its watchdog, *)
(* the socket connections of DriverSocketService, the background location  *)
(* task, which outlives the app, and the drivers row every one of them     *)
(* writes.                                                                 *)
(*                                                                         *)
(* notify() stores every new state at once, so the stored state is always  *)
(* the current one; what is modelled of it is what Restart restores.       *)
(***************************************************************************)
EXTENDS Naturals, FiniteSets

CONSTANTS Tasks,       \* calls of goOnline and goOffline under way together
          Sockets,     \* connections that init() may create
          NoSocket

ASSUME PresenceAssumption == NoSocket \notin Sockets

VARIABLES state,       \* AvailabilityService.stateData.state
          ping,        \* its pingInterval is running
          watchdog,    \* its disconnectTimeout: "none", "armed" or "fired"
          reported,    \* stateData.networkStatus is CONNECTED
          task,        \* where each goOnline or goOffline call waits
          net,         \* the phone has a network
          sock,        \* the life of each connection
          buffer,      \* the presence event socket.io holds for each of them
          current,     \* DriverSocketService.socket
          creating,    \* its isConnecting: init() is under way
          connected,   \* its state.connected
          beat,        \* its heartbeatInterval is running
          ref,         \* AvailabilityService.socketRef
          tracking,    \* the background task runs
          starting,    \* startBackgroundTracking has not ended
          rest,        \* requests to /driver/status under way
          server       \* the driver's status in the drivers table

appVars    == <<state, ping, watchdog, reported>>
socketVars == <<sock, buffer, current, creating, connected, beat, ref>>
trackVars  == <<tracking, starting>>
vars == <<appVars, task, net, socketVars, trackVars, rest, server>>

Presence == {"online", "offline"}
States == {"OFFLINE", "GOING_ONLINE", "ONLINE", "GOING_OFFLINE",
           "ONLINE_BLOCKED", "AUTO_OFFLINE"}
Moving == {"GOING_ONLINE", "GOING_OFFLINE"}

(* Every variable has its type. *)
PresenceTypeOK ==
  /\ state \in States
  /\ watchdog \in {"none", "armed", "fired"}
  /\ {ping, reported, net, creating, connected, beat, tracking, starting}
       \subseteq BOOLEAN
  /\ task \in [Tasks -> {"idle", "eligibility", "announce",
                         "asking", "tripcheck", "stopping"}]
  /\ sock \in [Sockets -> {"none", "trying", "up", "refused"}]
  /\ buffer \in [Sockets -> Presence \cup {"empty"}]
  /\ {current, ref} \subseteq Sockets \cup {NoSocket}
  /\ rest \subseteq Presence
  /\ server \in Presence

Init ==                        \* a fresh install, signed in
  /\ state = "OFFLINE" /\ ping = FALSE /\ watchdog = "none"
  /\ reported = TRUE /\ net = TRUE
  /\ task = [t \in Tasks |-> "idle"]
  /\ sock = [s \in Sockets |-> "none"]
  /\ buffer = [s \in Sockets |-> "empty"]
  /\ current = NoSocket /\ creating = FALSE
  /\ connected = FALSE /\ beat = FALSE /\ ref = NoSocket
  /\ tracking = FALSE /\ starting = FALSE
  /\ rest = {} /\ server = "offline"

-----------------------------------------------------------------------------
(* The pieces the actions are made of. *)

(* socket.emit of a presence event: a connected socket sends it, and it may
   be lost with the connection; another one keeps it for its next connect. *)
Emit(s, presence) ==
  CASE s = NoSocket -> UNCHANGED <<buffer, server>>
    [] s # NoSocket /\ sock[s] = "up" ->
         /\ server' \in (IF net THEN {server, presence} ELSE {server})
         /\ UNCHANGED buffer
    [] OTHER -> /\ buffer' = [buffer EXCEPT ![s] = presence]
                /\ UNCHANGED server

(* init(): one call at a time, but a socket that is only reconnecting does
   not stop it from making another. *)
SocketInit ==
  creating' = (creating \/ current = NoSocket \/ sock[current] # "up")

ensureConnected ==
  IF current = NoSocket THEN SocketInit /\ UNCHANGED sock
  ELSE /\ sock' = IF sock[current] = "refused" /\ ~creating
                  THEN [sock EXCEPT ![current] = "trying"] ELSE sock
       /\ UNCHANGED creating

(* A bug: a network that is back leaves the watchdog armed. *)
KeepsWatchdog(s, isConnected) ==
  /\ reported' = isConnected
  /\ watchdog' = IF ~isConnected /\ s = "ONLINE" /\ watchdog = "none"
                 THEN "armed" ELSE watchdog
  /\ ping' = (ping \/ (isConnected /\ s = "ONLINE"))

(* Another: a cleared watchdog is written as a state of its own. *)
NullWatchdog(s, isConnected) ==
  /\ reported' = isConnected
  /\ watchdog' = CASE isConnected -> "null"
                   [] ~isConnected /\ s = "ONLINE" /\ watchdog = "none"
                        -> "armed"
                   [] OTHER -> watchdog
  /\ ping' = (ping \/ (isConnected /\ s = "ONLINE"))

(* handleNetworkChange(isConnected), from state s. *)
NetworkChange(s, isConnected) ==
  /\ reported' = isConnected
  /\ watchdog' = CASE isConnected -> "none"
                   [] ~isConnected /\ s = "ONLINE" /\ watchdog = "none"
                        -> "armed"
                   [] OTHER -> watchdog
  /\ ping' = (ping \/ (isConnected /\ s = "ONLINE"))

Step(t, from, to) == task[t] = from /\ task' = [task EXCEPT ![t] = to]

-----------------------------------------------------------------------------
(* The toggle.  It is disabled in the two moving states; in ONLINE it first
   opens an alert, which hides it. *)

ToggleShown == state \notin Moving /\ \A t \in Tasks : task[t] # "asking"

GoOnline(t) ==
  /\ ToggleShown /\ state # "ONLINE"
  /\ Step(t, "idle", "eligibility")
  /\ state' = "GOING_ONLINE"
  /\ UNCHANGED <<ping, watchdog, reported, net, socketVars, trackVars, rest,
                 server>>

Blocked(t) ==                  \* checkEligibility gave reasons
  /\ Step(t, "eligibility", "idle")
  /\ state' = "ONLINE_BLOCKED"
  /\ UNCHANGED <<ping, watchdog, reported, net, socketVars, trackVars, rest,
                 server>>

Eligible(t) ==                 \* the PATCH to "online" is sent
  /\ Step(t, "eligibility", "announce")
  /\ rest' = rest \cup {"online"}
  /\ UNCHANGED <<appVars, net, socketVars, trackVars, server>>

Announce(t) ==                 \* it was answered, failed or timed out
  /\ Step(t, "announce", "idle")
  /\ starting' = TRUE
  /\ ensureConnected
  /\ Emit(ref, "online")
  /\ state' = "ONLINE" /\ ping' = TRUE
  /\ UNCHANGED <<watchdog, reported, net, current, connected, beat, ref,
                 tracking, rest>>

AskOffline(t) ==
  /\ ToggleShown /\ state = "ONLINE"
  /\ Step(t, "idle", "asking")
  /\ UNCHANGED <<appVars, net, socketVars, trackVars, rest, server>>

Cancel(t) ==                   \* ... or goOffline finds the app offline
  /\ Step(t, "asking", "idle")
  /\ UNCHANGED <<appVars, net, socketVars, trackVars, rest, server>>

GoOffline(t) ==
  /\ state # "OFFLINE"
  /\ Step(t, "asking", "tripcheck")
  /\ UNCHANGED <<appVars, net, socketVars, trackVars, rest, server>>

TripActive(t) ==               \* "You can't go offline while a trip is active"
  /\ Step(t, "tripcheck", "idle")
  /\ UNCHANGED <<appVars, net, socketVars, trackVars, rest, server>>

TripFree(t) ==                 \* also when the trips could not be read
  /\ Step(t, "tripcheck", "stopping")
  /\ state' = "GOING_OFFLINE"
  /\ rest' = rest \cup {"offline"}
  /\ UNCHANGED <<ping, watchdog, reported, net, socketVars, trackVars, server>>

WentOffline(t) ==              \* the PATCH is over and the task is stopped
  /\ Step(t, "stopping", "idle")
  /\ tracking' = FALSE
  /\ Emit(ref, "offline")
  /\ state' = "OFFLINE" /\ ping' = FALSE
  /\ UNCHANGED <<watchdog, reported, net, sock, current, creating, connected,
                 beat, ref, starting, rest>>

WatchdogFires ==               \* triggerAutoOffline, whatever the state
  /\ watchdog = "armed"
  /\ watchdog' = "fired"
  /\ state' = "AUTO_OFFLINE" /\ ping' = FALSE
  /\ UNCHANGED <<reported, task, net, socketVars, trackVars, rest, server>>

-----------------------------------------------------------------------------
(* The network and the connections. *)

NetDown ==
  /\ net /\ net' = FALSE
  /\ NetworkChange(state, FALSE)
  /\ UNCHANGED <<state, task, socketVars, trackVars, rest, server>>

NetUp ==
  /\ ~net /\ net' = TRUE
  /\ NetworkChange(state, TRUE)
  /\ IF state = "ONLINE" THEN ensureConnected ELSE UNCHANGED <<sock, creating>>
  /\ UNCHANGED <<state, task, buffer, current, connected, beat, ref, trackVars,
                 rest, server>>

Foreground ==                  \* handleAppStateChange("active")
  /\ state = "ONLINE"
  /\ ensureConnected
  /\ NetworkChange(state, TRUE)
  /\ UNCHANGED <<state, task, net, buffer, current, connected, beat, ref,
                 trackVars, rest, server>>

(* useDriverSocket, in each screen that uses it.  The bound: no screen opens
   once Sockets holds no connection that was not made yet. *)
ScreenOpens ==
  /\ \E s \in Sockets : sock[s] = "none"
  /\ SocketInit
  /\ UNCHANGED <<appVars, task, net, sock, buffer, current, connected, beat,
                 ref, trackVars, rest, server>>

InitDone(s) ==                 \* the token and the driver's id have been read
  /\ creating /\ creating' = FALSE
  /\ sock[s] = "none"
  /\ sock' = [sock EXCEPT ![s] = "trying"]
  /\ current' = s
  /\ UNCHANGED <<appVars, task, net, buffer, connected, beat, ref, trackVars,
                 rest, server>>

(* The handler of "connect"; the events held back go out before it runs. *)
SocketUp(s) ==
  /\ net /\ sock[s] = "trying"
  /\ sock' = [sock EXCEPT ![s] = "up"]
  /\ buffer' = [buffer EXCEPT ![s] = "empty"]
  /\ connected' = TRUE /\ beat' = TRUE /\ ref' = s
  /\ NetworkChange(state, TRUE)
  /\ server' = CASE state # "OFFLINE"   -> "online"
                 [] state = "OFFLINE" /\ buffer[s] # "empty" -> buffer[s]
                 [] OTHER -> server
  /\ UNCHANGED <<state, task, net, current, creating, trackVars, rest>>

SocketDown(s) ==               \* socket.io keeps trying to reconnect
  /\ sock[s] = "up"
  /\ sock' = [sock EXCEPT ![s] = "trying"]
  /\ connected' = FALSE /\ beat' = FALSE
  /\ UNCHANGED <<appVars, task, net, buffer, current, creating, ref, trackVars,
                 rest, server>>

SocketRefused(s) ==            \* its token has expired: it gives up
  /\ net /\ sock[s] = "trying"
  /\ sock' = [sock EXCEPT ![s] = "refused"]
  /\ connected' = FALSE
  /\ UNCHANGED <<appVars, task, net, buffer, current, creating, beat, ref,
                 trackVars, rest, server>>

-----------------------------------------------------------------------------
(* What tells the server where the driver is. *)

Heard(s) == s # NoSocket /\ sock[s] = "up" /\ net

Heartbeat ==                   \* every 5 s, whatever the availability
  /\ beat /\ Heard(current)
  /\ server' = "online"
  /\ UNCHANGED <<appVars, task, net, socketVars, trackVars, rest>>

Ping ==                        \* every 15 s
  /\ ping /\ state = "ONLINE" /\ Heard(ref)
  /\ server' = "online"
  /\ UNCHANGED <<appVars, task, net, socketVars, trackVars, rest>>

TrackingStarts ==              \* or fails: no permission
  /\ starting /\ starting' = FALSE
  /\ tracking' \in {tracking, TRUE}
  /\ UNCHANGED <<appVars, task, net, socketVars, rest, server>>

(* A bug: with the socket down, the task leaves the server alone. *)
TickBySocket ==
  /\ tracking
  /\ IF connected THEN Emit(current, "online") ELSE UNCHANGED <<buffer, server>>
  /\ UNCHANGED <<appVars, task, net, sock, creating, current, connected, beat,
                 ref, trackVars, rest>>

Tick ==                        \* the background task, every 5 s
  /\ tracking
  /\ ensureConnected
  /\ IF connected
     THEN Emit(current, "online") /\ UNCHANGED rest
     ELSE rest' = rest \cup {"online"} /\ UNCHANGED <<buffer, server>>
  /\ UNCHANGED <<appVars, task, net, current, connected, beat, ref, trackVars>>

Lands(p) ==                    \* update_driver_status
  /\ net /\ p \in rest
  /\ rest' = rest \ {p} /\ server' = p
  /\ UNCHANGED <<appVars, task, net, socketVars, trackVars>>

Lost(p) ==
  /\ p \in rest /\ rest' = rest \ {p}
  /\ UNCHANGED <<appVars, task, net, socketVars, trackVars, server>>

(* The app starts again with nothing but what it stored. *)
Reset ==
  /\ task' = [t \in Tasks |-> "idle"]
  /\ sock' = [s \in Sockets |-> "none"]
  /\ buffer' = [s \in Sockets |-> "empty"]
  /\ current' = NoSocket /\ ref' = NoSocket
  /\ connected' = FALSE /\ beat' = FALSE /\ starting' = FALSE
  /\ watchdog' = "none" /\ reported' = TRUE
  /\ UNCHANGED <<net, tracking, server>>

(* Two bugs: the ping is not started again; the stored state is taken as is. *)
RestoresNoPing ==
  /\ Reset
  /\ state' = IF state = "ONLINE" THEN "ONLINE" ELSE "OFFLINE"
  /\ ping' = FALSE
  /\ creating' = (state = "ONLINE")
  /\ rest' = IF state = "ONLINE" THEN rest \cup {"online"} ELSE rest

RestoresVerbatim ==
  /\ Reset
  /\ state' = state
  /\ ping' = (state = "ONLINE") /\ creating' = (state = "ONLINE")
  /\ rest' = IF state = "ONLINE" THEN rest \cup {"online"} ELSE rest

(* The system kills the app, or the driver does, and it starts again; the
   background task goes on.  Only ONLINE is restored as such. *)
Restart ==
  /\ Reset
  /\ state' = IF state = "ONLINE" THEN "ONLINE" ELSE "OFFLINE"
  /\ ping' = (state = "ONLINE") /\ creating' = (state = "ONLINE")
  /\ rest' = IF state = "ONLINE" THEN rest \cup {"online"} ELSE rest

TaskStep(t) == \/ Blocked(t) \/ Eligible(t) \/ Announce(t)
               \/ TripActive(t) \/ TripFree(t) \/ WentOffline(t)

Next ==
  \/ \E t \in Tasks : \/ GoOnline(t) \/ AskOffline(t) \/ Cancel(t)
                      \/ GoOffline(t) \/ TaskStep(t)
  \/ WatchdogFires \/ NetDown \/ NetUp \/ Foreground \/ ScreenOpens
  \/ \E s \in Sockets : \/ InitDone(s) \/ SocketUp(s) \/ SocketDown(s)
                        \/ SocketRefused(s)
  \/ Heartbeat \/ Ping \/ TrackingStarts \/ Tick
  \/ \E p \in Presence : Lands(p) \/ Lost(p)
  \/ Restart

Spec == Init /\ [][Next]_vars

FairSpec ==
  /\ Spec
  /\ \A t \in Tasks : WF_vars(TaskStep(t))
  /\ \A s \in Sockets : WF_vars(InitDone(s)) /\ SF_vars(SocketUp(s))
  /\ \A p \in Presence : SF_vars(Lands(p))
  /\ WF_vars(Tick) /\ WF_vars(Ping)

-----------------------------------------------------------------------------
(* While the app shows the driver ONLINE his ping timer runs, whatever other
   calls of goOnline and goOffline were under way when he got there. *)
OnlineIsPinging == state = "ONLINE" => ping

(* The watchdog turns a driver off only while the app takes the network to be
   lost: a connection that came back in time calls it off. *)
AutoOfflineOnlyOffNet ==
  [][state' = "AUTO_OFFLINE" /\ state # "AUTO_OFFLINE" => ~reported]_vars

(* Once goOffline is over and none of his requests is still under way, the
   server does not take the driver for available again: "You will stop
   receiving nearby ride requests". *)
OfflineStaysOffline ==
  [][state = "OFFLINE" /\ state' = "OFFLINE" /\ rest = {}
       /\ server = "offline" => server' = "offline"]_vars

(* Neither moving state lasts: every await of goOnline and goOffline ends, and
   every one of their exits leaves a state in which the toggle is enabled. *)
ToggleNeverStuck == state \in Moving ~> state \notin Moving

(* A driver who stays ONLINE on a phone with a network and a running task is
   taken for available again and again, though every request may fail and
   the gateway may refuse his connection. *)
OnlineIsVisible ==
  <>[](state = "ONLINE" /\ net /\ tracking) => []<>(server = "online")
=============================================================================
