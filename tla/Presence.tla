------------------------------ MODULE Presence ------------------------------
(***************************************************************************)
(* Presence of ONE user: the two Redis keys of internal/presence, the      *)
(* three Lua scripts that are the only writers of them, and the sessions   *)
(* (ws/session.go) that run the scripts and then broadcast the outcome.    *)
(*                                                                         *)
(* Users do not share keys, so one user is enough; the user's sockets are  *)
(* spread over several gateways, which fail independently.  Time advances  *)
(* in units of a Tick.  All times are kept relative (ages and remaining    *)
(* times), so the state space is finite without a bound on the clock.      *)
(***************************************************************************)
EXTENDS Integers, Functions

CONSTANTS
    Session,            \* socket ids; an id is reused once Redis forgot it
    Gateway,            \* gateway processes
    Home,               \* the gateway that accepted a socket
    PresenceTTL,        \* EX of presence:{user}                (70 s)
    LivenessWindow,     \* window of presence_conns:{user}     (120 s)
    HeartbeatTimeout,   \* read deadline once identified        (90 s)
    CallTimeout         \* context of identify and of cleanup   (10 s)

ASSUME HomeAssumption == Home \in [Session -> Gateway]

\* The relations between the four durations that the scripts rely on.
ASSUME TimeAssumption ==
    /\ PresenceTTL \in Nat \ {0}
    /\ LivenessWindow \in Nat \ {0}
    /\ HeartbeatTimeout \in Nat \ {0}
    /\ CallTimeout \in Nat \ {0}
    /\ PresenceTTL <= LivenessWindow
    /\ HeartbeatTimeout + 2 * CallTimeout < LivenessWindow

VARIABLES
    conns,      \* presence_conns:{user}, a sorted set: member -> age of its score
    connsTTL,   \* remaining life of that key, 0 when it does not exist
    keyTTL,     \* remaining life of presence:{user}, 0 when it does not exist
    phase,      \* where the session's read goroutine is
    timer,      \* time the session has spent waiting (see Limit)
    missed,     \* its last Redis call failed, so Redis may not know it is alive
    announced,  \* the last transition a script reported (first / last)
    heard,      \* the last PRESENCE_UPDATE published
    gap         \* a transition may have gone unreported (history variable)

redis == <<conns, connsTTL, keyTTL>>
vars == <<conns, connsTTL, keyTTL, phase, timer, missed, announced, heard, gap>>

Status == {"online", "offline"}

(***************************************************************************)
(* idle        no socket, or one that has not identified                   *)
(* identified  s.identified is set, presence.Connect is being called       *)
(* announcing  Connect returned first, the broadcast is not yet published  *)
(* live        reading frames under the heartbeat deadline                 *)
(* leaving     unregistered, presence.Disconnect is being called           *)
(* retracting  Disconnect returned last, broadcast not yet published       *)
(***************************************************************************)
Phase == {"idle", "identified", "announcing", "live", "leaving", "retracting"}

\* How long a session may stay in a phase: the read deadline when live, the
\* context's timeout while it waits for Redis or Scylla.
Limit(p) == IF p = "live" THEN HeartbeatTimeout ELSE CallTimeout

TypeOK ==
    /\ DOMAIN conns \subseteq Session
    /\ conns \in [DOMAIN conns -> 0..(LivenessWindow + 1)]
    /\ connsTTL \in 0..LivenessWindow
    /\ keyTTL \in 0..PresenceTTL
    /\ phase \in [Session -> Phase]
    /\ timer \in [Session -> Nat]
    /\ missed \in [Session -> BOOLEAN]
    /\ announced \in Status
    /\ heard \in Status
    /\ gap \in BOOLEAN

Init ==
    /\ conns = [m \in {} |-> 0]
    /\ connsTTL = 0
    /\ keyTTL = 0
    /\ phase = [s \in Session |-> "idle"]
    /\ timer = [s \in Session |-> 0]
    /\ missed = [s \in Session |-> FALSE]
    /\ announced = "offline"
    /\ heard = "offline"
    /\ gap = FALSE

-----------------------------------------------------------------------------
(* The Lua scripts.                                                        *)

\* ZREMRANGEBYSCORE conns -inf (now - window : an age of exactly the window stays.
\* Fault: the script's window and presence arguments are swapped.
Prune_Swapped(zset) == Restrict(zset, {m \in DOMAIN zset : zset[m] <= PresenceTTL})
Prune(zset) == Restrict(zset, {m \in DOMAIN zset : zset[m] <= LivenessWindow})

\* ZADD conns now s: inserts the member or overwrites its score.
Zadd(zset, s) == [m \in DOMAIN zset \cup {s} |-> IF m = s THEN 0 ELSE zset[m]]

\* ZREM conns s: a no-op when s is not a member.
Zrem(zset, s) == Restrict(zset, DOMAIN zset \ {s})

\* Faults: both keys get the long expiry; EXPIRE only when the set is new; no pruning.
Refresh_LongKey(s) ==
    /\ conns' = Zadd(Prune(conns), s)
    /\ connsTTL' = LivenessWindow
    /\ keyTTL' = LivenessWindow
Refresh_NoPrune(s) ==
    /\ conns' = Zadd(conns, s)
    /\ connsTTL' = LivenessWindow
    /\ keyTTL' = PresenceTTL

\* What connectScript and heartbeatScript both do to the two keys.
Refresh(s) ==
    /\ conns' = Zadd(Prune(conns), s)
    /\ connsTTL' = LivenessWindow
    /\ keyTTL' = PresenceTTL

\* connectScript returns 1 iff nobody was live before the ZADD.
IsFirst == DOMAIN Prune(conns) = {}

\* disconnectScript; its members after ZREM and pruning decide the verdict.
Remaining(s) == Prune(Zrem(conns, s))

\* Fault: the members are counted before ZREM.
IsLast_BeforeZrem(s) == DOMAIN Prune(conns) = {}
IsLast(s) == DOMAIN Remaining(s) = {}

\* Fault: every disconnect deletes the presence key.
Remove_KeyAlways(s) ==
    /\ conns' = Remaining(s)
    /\ connsTTL' = IF IsLast(s) THEN 0 ELSE connsTTL
    /\ keyTTL' = 0

\* disconnectScript's effect: both keys go with the last member.
Remove(s) ==
    /\ conns' = Remaining(s)
    /\ IF IsLast(s)
       THEN connsTTL' = 0 /\ keyTTL' = 0
       ELSE UNCHANGED <<connsTTL, keyTTL>>

\* Tracker.Statuses: MGET sees the key until it expires.
ShownOnline == keyTTL > 0

-----------------------------------------------------------------------------
(* The session.                                                            *)

Goto(s, p) ==
    /\ phase' = [phase EXCEPT ![s] = p]
    /\ timer' = [timer EXCEPT ![s] = 0]

\* The same handler goes on under the same context: the timer keeps running.
Proceed(s, p) ==
    /\ phase' = [phase EXCEPT ![s] = p]
    /\ UNCHANGED timer

\* A script reported a transition: presence is in step with the sessions again,
\* unless one is live that Redis does not know of.
Report(s, status) ==
    /\ announced' = status
    /\ gap' = \E t \in Session \ {s} : phase[t] = "live"

\* handleIdentify accepted the token and set s.identified.
Identify(s) ==
    /\ phase[s] = "idle"
    /\ s \notin DOMAIN conns
    /\ Goto(s, "identified")
    /\ UNCHANGED <<redis, missed, announced, heard, gap>>

\* presence.Connect returned: broadcast when first, else READY and the deadline.
Connect(s) ==
    /\ phase[s] = "identified"
    /\ Refresh(s)
    /\ IF IsFirst
       THEN Proceed(s, "announcing") /\ Report(s, "online")
       ELSE Goto(s, "live") /\ UNCHANGED <<announced, gap>>
    /\ UNCHANGED <<missed, heard>>

\* An error is only logged; the script may have run although its reply was lost.
ConnectFails(s) ==
    /\ phase[s] = "identified"
    /\ Refresh(s) \/ UNCHANGED redis
    /\ Goto(s, "live")
    /\ missed' = [missed EXCEPT ![s] = TRUE]
    /\ gap' = TRUE
    /\ UNCHANGED <<announced, heard>>

\* broadcastPresence(online), then READY and SetReadDeadline.
PublishOnline(s) ==
    /\ phase[s] = "announcing"
    /\ heard' = "online"
    /\ Goto(s, "live")
    /\ UNCHANGED <<redis, missed, announced, gap>>

\* handleHeartbeat: the deadline is reset first, then Redis is called.
Heartbeat(s) ==
    /\ phase[s] = "live"
    /\ Goto(s, "live")
    /\ Refresh(s)
    /\ missed' = [missed EXCEPT ![s] = FALSE]
    /\ UNCHANGED <<announced, heard, gap>>

HeartbeatFails(s) ==
    /\ phase[s] = "live"
    /\ Goto(s, "live")
    /\ Refresh(s) \/ UNCHANGED redis
    /\ missed' = [missed EXCEPT ![s] = TRUE]
    /\ gap' = TRUE
    /\ UNCHANGED <<announced, heard>>

\* The read loop ends: the peer left or the hub closed the session...
Leave(s) ==
    /\ phase[s] = "live"
    /\ Goto(s, "leaving")
    /\ UNCHANGED <<redis, missed, announced, heard, gap>>

\* ... or the read deadline expired (close 4009).
ReadTimeout(s) ==
    /\ timer[s] = HeartbeatTimeout
    /\ Leave(s)

\* cleanup: presence.Disconnect returned.
Disconnect(s) ==
    /\ phase[s] = "leaving"
    /\ Remove(s)
    /\ IF IsLast(s)
       THEN Proceed(s, "retracting") /\ Report(s, "offline")
       ELSE Goto(s, "idle") /\ UNCHANGED <<announced, gap>>
    /\ missed' = [missed EXCEPT ![s] = FALSE]
    /\ UNCHANGED heard

DisconnectFails(s) ==
    /\ phase[s] = "leaving"
    /\ Remove(s) \/ UNCHANGED redis
    /\ Goto(s, "idle")
    /\ missed' = [missed EXCEPT ![s] = FALSE]
    /\ gap' = TRUE
    /\ UNCHANGED <<announced, heard>>

PublishOffline(s) ==
    /\ phase[s] = "retracting"
    /\ heard' = "offline"
    /\ Goto(s, "idle")
    /\ UNCHANGED <<redis, missed, announced, gap>>

\* broadcastPresence gives up: UserGuildIDs or the publish failed.
PublishFails(s) ==
    /\ \/ phase[s] = "announcing" /\ Goto(s, "live")
       \/ phase[s] = "retracting" /\ Goto(s, "idle")
    /\ gap' = TRUE
    /\ UNCHANGED <<redis, missed, announced, heard>>

-----------------------------------------------------------------------------
(* The environment.                                                        *)

\* A gateway process dies: no cleanup of its sessions runs.
Crash(g) ==
    /\ \E s \in Session : Home[s] = g /\ phase[s] # "idle"
    /\ phase' = [s \in Session |-> IF Home[s] = g THEN "idle" ELSE phase[s]]
    /\ timer' = [s \in Session |-> IF Home[s] = g THEN 0 ELSE timer[s]]
    /\ missed' = [s \in Session |-> IF Home[s] = g THEN FALSE ELSE missed[s]]
    /\ gap' = TRUE
    /\ UNCHANGED <<redis, announced, heard>>

CountDown(ttl) == IF ttl = 0 THEN 0 ELSE ttl - 1

\* Time passes.  It does not pass a deadline: a read or call whose time is up returns.
Tick ==
    /\ \A s \in Session : phase[s] # "idle" => timer[s] < Limit(phase[s])
    /\ timer' = [s \in Session |-> IF phase[s] = "idle" THEN 0 ELSE timer[s] + 1]
    /\ connsTTL' = CountDown(connsTTL)
    /\ keyTTL' = CountDown(keyTTL)
    /\ conns' = [m \in IF connsTTL' = 0 THEN {} ELSE DOMAIN conns |->
                   IF conns[m] <= LivenessWindow THEN conns[m] + 1 ELSE conns[m]]
    /\ UNCHANGED <<phase, missed, announced, heard, gap>>

\* The steps a session takes once it has begun: calls return by their timeout.
Progress(s) ==
    \/ Connect(s)
    \/ ConnectFails(s)
    \/ PublishOnline(s)
    \/ ReadTimeout(s)
    \/ Disconnect(s)
    \/ DisconnectFails(s)
    \/ PublishOffline(s)
    \/ PublishFails(s)

Next ==
    \/ \E s \in Session :
          \/ Progress(s)
          \/ Identify(s)
          \/ Heartbeat(s)
          \/ HeartbeatFails(s)
          \/ Leave(s)
    \/ \E g \in Gateway : Crash(g)
    \/ Tick

Spec == Init /\ [][Next]_vars

\* Time passes and calls return; nothing obliges a client to connect or to beat.
FairSpec ==
    /\ Spec
    /\ WF_vars(Tick)
    /\ \A s \in Session : WF_vars(Progress(s))

-----------------------------------------------------------------------------
(* Properties.                                                             *)

Members == DOMAIN conns

\* An identified session whose Redis calls succeed is a member of
\* presence_conns until its own Disconnect: no other session's disconnect, no
\* prune and no expiry evicts it (presence.go: "can never underflow or evict a
\* still-live user"; the window "tolerates a couple of missed beats").
NeverEvicted ==
    \A s \in Session :
        (phase[s] \in {"announcing", "live", "leaving"} /\ ~missed[s])
            => s \in Members /\ conns[s] < LivenessWindow

\* The "online" key and the set of sessions agree although they expire at
\* different times and any session refreshes both: a user shown online has a
\* member on record, and a member seen less than PresenceTTL ago keeps the user
\* shown online, whatever the other sessions do meanwhile (connect, leave, crash).
StatusMatchesMembers ==
    /\ ShownOnline => Members # {}
    /\ \A m \in Members : conns[m] < PresenceTTL => ShownOnline

\* Every 0 -> 1 and 1 -> 0 transition of the live-member count is reported to
\* exactly one session: unless a call, a publish or a gateway failed since the
\* last report, the last report says whether the user has a live session
\* (presence.go: "derived atomically (Lua) from the true live-member count").
ReportsMatchMembers ==
    ~gap => (announced = "online" <=> Members # {})

\* A session that died with its gateway leaves the set without anyone's help,
\* even when the user's other sessions keep refreshing the key (presence.go: "a
\* session whose gateway crashed ages out on its own").
GhostsAgeOut ==
    \A s \in Session :
        (s \in Members /\ phase[s] = "idle") ~> (s \notin Members)

\* DEPLOYMENT.md: "online/offline transitions are correct even with a user's
\* sockets spread across replicas": once nobody is in the middle of connecting
\* or leaving, the guild has last heard what Redis says.
Settled == \A s \in Session : phase[s] \in {"idle", "live"}
TransitionsCorrect ==
    (Settled /\ ~gap) => (heard = "online" <=> Members # {})

=============================================================================
