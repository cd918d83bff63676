----------------------------- MODULE GatewayClient -----------------------------
(***************************************************************************)
(* The WebSocket client of one tab (lib/gateway.js), with its callers: the *)
(* shell that connects and disconnects (pages/AppShell.jsx), the logout    *)
(* (SettingsPopover.jsx) and the session that dies (lib/api.js).           *)
(*                                                                         *)
(* open() awaits a fresh access token before it makes a socket.  The       *)
(* module keeps one current socket, but a socket that has lost its place   *)
(* keeps its handlers: it is heard until it closes.  Delays are left out:  *)
(* a timer fires at some time.                                             *)
(*                                                                         *)
(* A definition Name_Variant is Name with a bug put in; only the mutation  *)
(* runs use it.                                                            *)
(***************************************************************************)
EXTENDS Integers, FiniteSets

CONSTANTS
    Conn,        \* sockets that may exist at a time (bound)
    None,
    MaxMounts,   \* bound: times the shell is mounted
    MaxFaults    \* bound: tokens not had, sockets closed or gone quiet

ConstantsAssumption == None \notin Conn /\ MaxMounts \in Nat /\ MaxFaults \in Nat

VARIABLES
    mounted,     \* the shell is there: the user is signed in
    stopped, ws, timer,    \* as in the code; timer: a reconnect is scheduled
    opens,       \* open() calls that await a token
    sock,        \* socket -> none, open, hello (identify sent), ready, closing
    quiet,       \* sockets whose connection has died without a word
    beat,        \* the socket of heartbeatTimer
    again,       \* identifiedOnce
    online,      \* wsConnected
    retried,     \* a reconnect was scheduled since connectGateway (history)
    behind,      \* why cached lists may have missed events (history)
    crossed,     \* an open() outlived the connection it was for (history)
    mounts, faults   \* numbers of each so far (bounds)

connVars == <<stopped, ws, timer, opens, sock, quiet, beat>>
storeVars == <<again, online, retried, behind>>
userVars == <<mounted, crossed, mounts>>
vars == <<connVars, storeVars, userVars, faults>>

Cause == {"start", "gap", "death"}
Live(s) == sock[s] \in {"open", "hello", "ready"}

TypeOK ==
    /\ mounted \in BOOLEAN /\ stopped \in BOOLEAN /\ timer \in BOOLEAN
    /\ ws \in Conn \cup {None} /\ beat \in Conn \cup {None}
    /\ opens \in Nat /\ quiet \subseteq Conn
    /\ sock \in [Conn -> {"none", "open", "hello", "ready", "closing"}]
    /\ again \in BOOLEAN /\ online \in BOOLEAN /\ retried \in BOOLEAN
    /\ behind \subseteq Cause /\ crossed \in BOOLEAN
    /\ mounts \in 0 .. MaxMounts /\ faults \in 0 .. MaxFaults

Init ==
    /\ mounted = FALSE /\ stopped = TRUE /\ ws = None /\ timer = FALSE /\ opens = 0
    /\ sock = [s \in Conn |-> "none"] /\ quiet = {} /\ beat = None
    /\ again = FALSE /\ online = FALSE /\ retried = FALSE /\ behind = {}
    /\ crossed = FALSE /\ mounts = 0 /\ faults = 0

-----------------------------------------------------------------------------
(* Connecting and disconnecting.                                           *)

\* connectGateway, when the shell is mounted after a login or a reload.
Connect ==
    /\ ~mounted /\ stopped /\ mounts < MaxMounts
    /\ mounted' = TRUE /\ mounts' = mounts + 1
    /\ stopped' = FALSE /\ again' = FALSE /\ retried' = FALSE
    /\ opens' = opens + 1
    /\ crossed' = (crossed \/ opens > 0)
    /\ UNCHANGED <<ws, timer, sock, quiet, beat, online, behind, faults>>

\* disconnectGateway: only the current socket loses its handlers.
Disconnect ==
    /\ stopped' = TRUE /\ timer' = FALSE /\ beat' = None /\ ws' = None
    /\ sock' = [s \in Conn |-> IF s = ws THEN "none" ELSE sock[s]]
    /\ quiet' = quiet \ {ws}
    /\ online' = FALSE

\* The chat store is reset.
Logout ==
    /\ mounted /\ mounted' = FALSE
    /\ Disconnect
    /\ behind' = {}
    /\ UNCHANGED <<opens, again, retried, crossed, mounts, faults>>

\* A refresh is refused: the session is cleared, the shell is unmounted and
\* the calls that await the refresh return.  The chat store stays.
SessionDies ==
    /\ mounted /\ mounted' = FALSE
    /\ Disconnect
    /\ opens' = 0
    /\ behind' = {"death"}
    /\ UNCHANGED <<again, retried, crossed, mounts, faults>>

ScheduleReconnect ==
    /\ beat' = None /\ online' = FALSE
    /\ timer' = (timer \/ ~stopped)
    /\ retried' = (retried \/ ~stopped)

TimerFires ==
    /\ timer /\ timer' = FALSE
    /\ opens' = opens + 1
    /\ UNCHANGED <<stopped, ws, sock, quiet, beat, storeVars, userVars, faults>>

\* open() has its token.
TokenHad_IgnoresStop ==
    /\ opens > 0 /\ opens' = opens - 1
    /\ \E s \in Conn :
        /\ sock[s] = "none"
        /\ sock' = [sock EXCEPT ![s] = "open"] /\ ws' = s
    /\ UNCHANGED <<stopped, timer, quiet, beat, storeVars, userVars, faults>>

TokenHad ==
    /\ opens > 0 /\ opens' = opens - 1
    /\ IF stopped THEN UNCHANGED <<sock, ws>>
       ELSE \E s \in Conn :
        /\ sock[s] = "none"
        /\ sock' = [sock EXCEPT ![s] = "open"] /\ ws' = s
    /\ UNCHANGED <<stopped, timer, quiet, beat, storeVars, userVars, faults>>

\* It has none: a transient failure, or there is no session any more.
TokenNotHad ==
    /\ opens > 0 /\ opens' = opens - 1
    /\ faults < MaxFaults /\ faults' = faults + 1
    /\ IF mounted
       THEN ScheduleReconnect /\ UNCHANGED stopped
       ELSE stopped' = TRUE /\ UNCHANGED <<beat, online, timer, retried>>
    /\ UNCHANGED <<ws, sock, quiet, again, behind, userVars>>

-----------------------------------------------------------------------------
(* A socket's events; handleFrame does not ask whether it is current.      *)

Hello(s) ==
    /\ sock[s] = "open" /\ s \notin quiet
    /\ sock' = [sock EXCEPT ![s] = "hello"]
    /\ beat' = s
    /\ UNCHANGED <<stopped, ws, timer, opens, quiet, storeVars, userVars, faults>>

\* READY: identifiedOnce tells a reconnect from the first connection.
Ready_NeverResyncs(s) ==
    /\ sock[s] = "hello" /\ s \notin quiet
    /\ sock' = [sock EXCEPT ![s] = "ready"]
    /\ online' = TRUE /\ again' = TRUE
    /\ UNCHANGED <<stopped, ws, timer, opens, quiet, beat, retried, behind, userVars, faults>>

Ready(s) ==
    /\ sock[s] = "hello" /\ s \notin quiet
    /\ sock' = [sock EXCEPT ![s] = "ready"]
    /\ online' = TRUE /\ again' = TRUE
    /\ behind' = IF again THEN {} ELSE behind
    /\ UNCHANGED <<stopped, ws, timer, opens, quiet, beat, retried, userVars, faults>>

\* Events are missed from now on.
Lost(s) == IF sock[s] = "ready" THEN {"gap"} ELSE {}

\* The server or the network closes the socket.
ServerCloses(s) ==
    /\ Live(s) /\ faults < MaxFaults /\ faults' = faults + 1
    /\ sock' = [sock EXCEPT ![s] = "closing"]
    /\ behind' = behind \cup Lost(s)
    /\ UNCHANGED <<stopped, ws, timer, opens, quiet, beat, again, online, retried, userVars>>

\* The connection dies and nobody is told.
GoesQuiet(s) ==
    /\ Live(s) /\ s \notin quiet /\ faults < MaxFaults /\ faults' = faults + 1
    /\ quiet' = quiet \cup {s}
    /\ behind' = behind \cup Lost(s)
    /\ UNCHANGED <<stopped, ws, timer, opens, sock, beat, again, online, retried, userVars>>

\* Three intervals without an ack.
HeartbeatFails(s) ==
    /\ s = beat /\ Live(s) /\ s \in quiet
    /\ sock' = [sock EXCEPT ![s] = "closing"]
    /\ UNCHANGED <<stopped, ws, timer, opens, quiet, beat, storeVars, userVars, faults>>

\* onclose.
Closed_GivesUp(s) ==
    /\ sock[s] = "closing"
    /\ sock' = [sock EXCEPT ![s] = "none"] /\ quiet' = quiet \ {s}
    /\ ws' = IF s = ws THEN None ELSE ws
    /\ beat' = IF s \in {ws, beat} THEN None ELSE beat
    /\ online' = (online /\ s # ws)
    /\ UNCHANGED <<stopped, timer, opens, again, retried, behind, userVars, faults>>

Closed(s) ==
    /\ sock[s] = "closing"
    /\ sock' = [sock EXCEPT ![s] = "none"] /\ quiet' = quiet \ {s}
    /\ IF s = ws
       THEN ws' = None /\ ScheduleReconnect
       ELSE /\ beat' = IF s = beat THEN None ELSE beat
            /\ UNCHANGED <<ws, online, timer, retried>>
    /\ UNCHANGED <<stopped, opens, again, behind, userVars, faults>>

-----------------------------------------------------------------------------
(* Lists that the chat store fetches and keeps.                            *)

Fetch ==
    /\ mounted
    /\ behind' = behind \cup
        (IF ~again THEN {"start"}
         ELSE IF \E s \in Conn \ quiet : sock[s] = "ready" THEN {} ELSE {"gap"})
    /\ UNCHANGED <<connVars, again, online, retried, userVars, faults>>

Next ==
    \/ Connect \/ Logout \/ SessionDies \/ TimerFires \/ TokenHad \/ TokenNotHad \/ Fetch
    \/ \E s \in Conn :
        \/ Hello(s) \/ Ready(s) \/ ServerCloses(s) \/ GoesQuiet(s)
        \/ HeartbeatFails(s) \/ Closed(s)

Fairness ==
    /\ WF_vars(TimerFires) /\ WF_vars(TokenHad \/ TokenNotHad)
    /\ \A s \in Conn :
        WF_vars(Hello(s)) /\ WF_vars(Ready(s)) /\ WF_vars(HeartbeatFails(s)) /\ WF_vars(Closed(s))

Spec == Init /\ [][Next]_vars
FairSpec == Spec /\ Fairness

-----------------------------------------------------------------------------
(* Properties.                                                             *)

Attempts == Cardinality({s \in Conn : sock[s] # "none"}) + opens + (IF timer THEN 1 ELSE 0)

\* A timer, an awaited token or a socket is always there while the shell is,
\* and never two of them side by side, so that no event is handled twice; each
\* socket that has been greeted is watched by the heartbeat, and whoever
\* disconnects is not heard of again.  When an open() of an earlier login is
\* still waiting, only the first of these is sure.
OneAttempt ==
    /\ ~stopped => ws # None \/ timer \/ opens > 0
    /\ ~crossed =>
        /\ ~stopped => Attempts = 1
        /\ stopped => ~timer /\ ~online /\ \A s \in Conn : sock[s] = "none"
        /\ \A s \in Conn : sock[s] \in {"hello", "ready"} => ws = s /\ beat = s
        /\ online => ws # None /\ sock[ws] \in {"ready", "closing"}

\* After READY no list is left that missed events while a socket was gone.
ResyncsEveryGap ==
    online /\ ~crossed /\ sock[ws] = "ready" /\ ws \notin quiet => "gap" \notin behind

\* "Full state re-sync after a gateway reconnect: anything cached may have
\* missed events" (chatStore.js:549-550): also when the connection that was
\* retried had never been ready.
ReconnectIsFresh == online /\ retried => "start" \notin behind

\* A socket that dies before its hello has no heartbeat to find it out.
Unwatched == ws # None /\ ws \in quiet /\ sock[ws] = "open"

\* Whoever stays signed in is connected in the end, whichever sockets close or
\* go quiet and whichever tokens are not had, if that comes to an end.
ComesBack ==
    <>[](mounted /\ ~crossed /\ ~Unwatched)
        => <>[](online /\ ws # None /\ sock[ws] = "ready" /\ ws \notin quiet)

=============================================================================
