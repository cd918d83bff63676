---------------------------- MODULE SocketsProofs ----------------------------
(***************************************************************************)
(* Proofs about Presence, GatewayClient and Voice, for any number of       *)
(* sessions, gateways, sockets, calls and channels, and the types of the   *)
(* composition MCSockets.                                                  *)
(*                                                                         *)
(* Presence, for all durations related as TimeAssumption says: one         *)
(* inductive invariant, IInv, has how old a session's score can be in each *)
(* phase, how long the keys outlive the scores, and what holds as long as  *)
(* no transition went unreported.                                          *)
(*                                                                         *)
(* The WebSocket client: until an open() outlives its connection, there is *)
(* one of a timer, an awaited token and a socket, and the socket is the    *)
(* current one.                                                            *)
(*                                                                         *)
(* The voice store: at most one join or leave is under way until a click   *)
(* starts one inside another.  As long as that holds, the room in use is   *)
(* the only wired one, every other linked one is about to be closed, and   *)
(* while something is awaited no room is in use but the one it connects.   *)
(***************************************************************************)
EXTENDS MCSockets, Sequences, FiniteSetTheorems, TLAPS

-----------------------------------------------------------------------------
(* Presence.                                                               *)

\* The phases in which Redis should hold the session as a member.
Active == {"announcing", "live", "leaving"}

\* How much older than its timer the score of an active session can be.
Allowance(p) ==
    CASE p = "announcing" -> 0
      [] p = "live" -> CallTimeout
      [] OTHER -> HeartbeatTimeout + CallTimeout

TimersBounded ==
    \A s \in Session : phase[s] # "idle" => timer[s] <= Limit(phase[s])

ScoresFresh ==
    \A s \in Session :
        (phase[s] \in Active /\ ~missed[s])
            => /\ s \in DOMAIN conns
               /\ conns[s] <= timer[s] + Allowance(phase[s])

KeysOutliveScores ==
    \A m \in DOMAIN conns :
        /\ connsTTL >= LivenessWindow - conns[m]
        /\ keyTTL >= PresenceTTL - conns[m]

SetOutlivesKey ==
    /\ keyTTL <= connsTTL
    /\ connsTTL = 0 <=> DOMAIN conns = {}

MissedIsAGap ==
    \A s \in Session :
        missed[s] => \/ phase[s] = "live" /\ gap
                     \/ phase[s] = "leaving"

Accounted ==
    ~gap => /\ announced = "online" <=> DOMAIN conns # {}
            /\ \A m \in DOMAIN conns : phase[m] \in Active /\ ~missed[m]

IInv ==
    /\ TypeOK
    /\ TimersBounded
    /\ ScoresFresh
    /\ KeysOutliveScores
    /\ SetOutlivesKey
    /\ MissedIsAGap
    /\ Accounted

-----------------------------------------------------------------------------
(* What the operators on the sorted set do.                                *)

\* Pruning keeps exactly the members whose age is within the window.
LEMMA PruneKeeps ==
    ASSUME NEW zset
    PROVE  /\ DOMAIN Prune(zset) = {m \in DOMAIN zset : zset[m] <= LivenessWindow}
           /\ \A m \in DOMAIN Prune(zset) : Prune(zset)[m] = zset[m]
  BY DEF Prune, Restrict

\* The same of presence_conns itself.
LEMMA PruneConns ==
    /\ DOMAIN Prune(conns) = {m \in DOMAIN conns : conns[m] <= LivenessWindow}
    /\ \A m \in DOMAIN Prune(conns) : Prune(conns)[m] = conns[m]
  BY PruneKeeps

\* An active session that Redis answered is never stale, so pruning spares it.
LEMMA ActiveIsFresh ==
    ASSUME IInv, NEW s \in Session, phase[s] \in Active, ~missed[s]
    PROVE  s \in DOMAIN conns /\ conns[s] < LivenessWindow
  <1>1. s \in DOMAIN conns /\ conns[s] <= timer[s] + Allowance(phase[s])
    BY DEF IInv, ScoresFresh
  <1>2. timer[s] <= Limit(phase[s])
    BY DEF IInv, TimersBounded, Active
  <1>3. timer[s] \in Nat /\ conns[s] \in Int
    BY <1>1 DEF IInv, TypeOK
  <1>4. CASE phase[s] = "announcing"
    BY <1>1, <1>2, <1>3, <1>4, TimeAssumption DEF Allowance, Limit
  <1>5. CASE phase[s] = "live"
    BY <1>1, <1>2, <1>3, <1>5, TimeAssumption DEF Allowance, Limit
  <1>6. CASE phase[s] = "leaving"
    BY <1>1, <1>2, <1>3, <1>6, TimeAssumption DEF Allowance, Limit
  <1>7. QED
    BY <1>4, <1>5, <1>6 DEF Active

\* While nothing went unreported, every member is active and none is stale.
LEMMA NobodyStale ==
    ASSUME IInv, ~gap
    PROVE  \A m \in DOMAIN conns : conns[m] < LivenessWindow
  BY ActiveIsFresh DEF IInv, Accounted, TypeOK

\* What either refreshing script leaves behind.
LEMMA RefreshEffect ==
    ASSUME IInv, NEW s \in Session, Refresh(s)
    PROVE  /\ DOMAIN conns' \subseteq Session
           /\ conns' \in [DOMAIN conns' -> 0..(LivenessWindow + 1)]
           /\ connsTTL' = LivenessWindow /\ keyTTL' = PresenceTTL
           /\ DOMAIN conns' = DOMAIN Prune(conns) \cup {s}
           /\ conns'[s] = 0
           /\ \A m \in DOMAIN Prune(conns) \ {s} : conns'[m] = conns[m]
           /\ KeysOutliveScores'
           /\ SetOutlivesKey'
  <1> DEFINE kept == DOMAIN Prune(conns)
  <1>1. /\ kept = {m \in DOMAIN conns : conns[m] <= LivenessWindow}
        /\ \A m \in kept : Prune(conns)[m] = conns[m]
    BY PruneConns
  <1>2. conns' = [m \in kept \cup {s} |-> IF m = s THEN 0 ELSE Prune(conns)[m]]
    BY DEF Refresh, Zadd
  <1>3. DOMAIN conns' = kept \cup {s} /\ conns'[s] = 0
    BY <1>2
  <1>4. \A m \in kept \ {s} : conns'[m] = conns[m]
    BY <1>1, <1>2
  <1>5. connsTTL' = LivenessWindow /\ keyTTL' = PresenceTTL
    BY DEF Refresh
  <1>6. \A m \in DOMAIN conns : conns[m] \in 0..(LivenessWindow + 1)
    BY DEF IInv, TypeOK
  <1>7. \A m \in DOMAIN conns' : conns'[m] \in 0..(LivenessWindow + 1)
    BY <1>1, <1>3, <1>4, <1>6, TimeAssumption
  <1>8. DOMAIN conns' \subseteq Session
    BY <1>1, <1>3 DEF IInv, TypeOK
  <1>9. conns' \in [DOMAIN conns' -> 0..(LivenessWindow + 1)]
    BY <1>2, <1>3, <1>7
  <1>10. KeysOutliveScores'
    BY <1>5, <1>7, TimeAssumption DEF KeysOutliveScores
  <1>11. SetOutlivesKey'
    BY <1>3, <1>5, TimeAssumption DEF SetOutlivesKey
  <1>12. QED
    BY <1>3, <1>4, <1>5, <1>8, <1>9, <1>10, <1>11

\* What the disconnect script leaves behind.
LEMMA RemoveEffect ==
    ASSUME IInv, NEW s \in Session, Remove(s)
    PROVE  /\ DOMAIN conns' \subseteq Session
           /\ conns' \in [DOMAIN conns' -> 0..(LivenessWindow + 1)]
           /\ connsTTL' \in 0..LivenessWindow /\ keyTTL' \in 0..PresenceTTL
           /\ DOMAIN conns' = {m \in DOMAIN conns \ {s} : conns[m] <= LivenessWindow}
           /\ \A m \in DOMAIN conns' : conns'[m] = conns[m]
           /\ IsLast(s) <=> DOMAIN conns' = {}
           /\ KeysOutliveScores'
           /\ SetOutlivesKey'
  <1> DEFINE z == Zrem(conns, s)
  <1>1. DOMAIN z = DOMAIN conns \ {s} /\ \A m \in DOMAIN z : z[m] = conns[m]
    BY DEF Zrem, Restrict
  <1>2. conns' = Prune(z)
    BY DEF Remove, Remaining
  <1>3. /\ DOMAIN conns' = {m \in DOMAIN z : z[m] <= LivenessWindow}
        /\ \A m \in DOMAIN conns' : conns'[m] = z[m]
    BY <1>2, PruneKeeps
  <1>4. /\ DOMAIN conns' = {m \in DOMAIN conns \ {s} : conns[m] <= LivenessWindow}
        /\ \A m \in DOMAIN conns' : conns'[m] = conns[m]
    BY <1>1, <1>3
  <1>5. IsLast(s) <=> DOMAIN conns' = {}
    BY DEF IsLast, Remove
  <1>6. \A m \in DOMAIN conns' : conns'[m] \in 0..(LivenessWindow + 1)
    BY <1>4 DEF IInv, TypeOK
  <1>7. DOMAIN conns' \subseteq Session
    BY <1>4 DEF IInv, TypeOK
  <1>8. conns' \in [DOMAIN conns' -> 0..(LivenessWindow + 1)]
    BY <1>2, <1>6 DEF Prune, Restrict
  <1>9. CASE IsLast(s)
    <2>1. connsTTL' = 0 /\ keyTTL' = 0 /\ DOMAIN conns' = {}
      BY <1>5, <1>9 DEF Remove
    <2>2. KeysOutliveScores' /\ SetOutlivesKey'
      BY <2>1 DEF KeysOutliveScores, SetOutlivesKey
    <2>3. QED
      BY <1>4, <1>5, <1>7, <1>8, <2>1, <2>2, TimeAssumption
  <1>10. CASE ~IsLast(s)
    <2>1. connsTTL' = connsTTL /\ keyTTL' = keyTTL /\ DOMAIN conns' # {}
      BY <1>5, <1>10 DEF Remove
    <2>2. KeysOutliveScores'
      BY <1>4, <2>1 DEF IInv, KeysOutliveScores
    <2>3. SetOutlivesKey'
      BY <1>4, <2>1 DEF IInv, SetOutlivesKey
    <2>4. QED
      BY <1>4, <1>5, <1>7, <1>8, <2>1, <2>2, <2>3 DEF IInv, TypeOK
  <1>11. QED
    BY <1>9, <1>10

-----------------------------------------------------------------------------
(* IInv is inductive: one lemma for each group of actions.                 *)

LEMMA InitInv == Init => IInv
  <1> SUFFICES ASSUME Init PROVE IInv
    OBVIOUS
  <1>1. DOMAIN conns = {}
    BY DEF Init
  <1>2. conns \in [DOMAIN conns -> 0..(LivenessWindow + 1)]
    BY DEF Init
  <1>3. TypeOK
    <2>1. /\ connsTTL = 0 /\ keyTTL = 0 /\ announced = "offline" /\ heard = "offline"
          /\ phase = [s \in Session |-> "idle"] /\ timer = [s \in Session |-> 0]
          /\ missed = [s \in Session |-> FALSE] /\ gap = FALSE
      BY DEF Init
    <2>2. phase \in [Session -> Phase] /\ timer \in [Session -> Nat]
      BY <2>1 DEF Phase
    <2>3. missed \in [Session -> BOOLEAN] /\ gap \in BOOLEAN
      BY <2>1
    <2>4. /\ announced \in Status /\ heard \in Status
          /\ connsTTL \in 0..LivenessWindow /\ keyTTL \in 0..PresenceTTL
      BY <2>1, TimeAssumption DEF Status
    <2>5. QED
      BY <1>1, <1>2, <2>2, <2>3, <2>4 DEF TypeOK
  <1>4. \A s \in Session : phase[s] = "idle" /\ missed[s] = FALSE
    BY DEF Init
  <1>5. TimersBounded /\ ScoresFresh /\ MissedIsAGap
    BY <1>4 DEF TimersBounded, ScoresFresh, Active, MissedIsAGap
  <1>6. KeysOutliveScores /\ SetOutlivesKey /\ Accounted
    BY <1>1 DEF Init, KeysOutliveScores, SetOutlivesKey, Accounted
  <1>7. QED
    BY <1>3, <1>5, <1>6 DEF IInv

\* The parts about Redis do not change with it.
LEMMA RedisUnchanged ==
    ASSUME IInv, UNCHANGED redis
    PROVE  /\ DOMAIN conns' \subseteq Session
           /\ conns' \in [DOMAIN conns' -> 0..(LivenessWindow + 1)]
           /\ connsTTL' \in 0..LivenessWindow /\ keyTTL' \in 0..PresenceTTL
           /\ KeysOutliveScores' /\ SetOutlivesKey'
  BY DEF IInv, TypeOK, redis, KeysOutliveScores, SetOutlivesKey

\* Steps of one session that leave both keys alone.
LEMMA QuietSteps ==
    ASSUME IInv, NEW s \in Session,
           \/ Identify(s) \/ PublishOnline(s) \/ Leave(s) \/ PublishOffline(s) \/ PublishFails(s)
    PROVE  IInv'
  <1> USE DEF Goto
  <1>1. UNCHANGED redis
    BY DEF Identify, PublishOnline, Leave, PublishOffline, PublishFails
  <1>2. /\ conns' = conns /\ announced' = announced /\ missed' = missed
        /\ gap => gap'
        /\ timer' = [timer EXCEPT ![s] = 0]
        /\ \/ phase[s] = "idle" /\ s \notin DOMAIN conns /\ phase' = [phase EXCEPT ![s] = "identified"]
           \/ phase[s] = "announcing" /\ phase' = [phase EXCEPT ![s] = "live"]
           \/ phase[s] = "live" /\ phase' = [phase EXCEPT ![s] = "leaving"]
           \/ phase[s] = "retracting" /\ phase' = [phase EXCEPT ![s] = "idle"]
    BY DEF Identify, PublishOnline, Leave, PublishOffline, PublishFails, redis
  <1>3. TypeOK'
    BY <1>1, <1>2, RedisUnchanged
       DEF IInv, TypeOK, Phase, Status, Identify, PublishOnline, Leave, PublishOffline, PublishFails
  <1>4. TimersBounded'
    BY <1>2, TimeAssumption DEF IInv, TypeOK, TimersBounded, Limit
  <1>5. ScoresFresh'
    <2> SUFFICES ASSUME NEW t \in Session, phase'[t] \in Active, ~missed'[t]
                 PROVE  t \in DOMAIN conns' /\ conns'[t] <= timer'[t] + Allowance(phase'[t])
      BY DEF ScoresFresh
    <2>1. CASE t # s
      BY <1>2, <2>1 DEF IInv, TypeOK, ScoresFresh
    <2>2. CASE t = s
      <3>1. phase[s] \in {"announcing", "live"} /\ timer'[s] = 0 /\ timer[s] \in Nat
        BY <1>2, <2>2 DEF IInv, TypeOK, Active
      <3>2. /\ s \in DOMAIN conns
            /\ conns[s] <= timer[s] + Allowance(phase[s])
            /\ timer[s] <= Limit(phase[s])
            /\ conns[s] \in Int
        BY <1>2, <2>2, <3>1 DEF IInv, TypeOK, ScoresFresh, TimersBounded, Active
      <3>3. CASE phase[s] = "announcing"
        <4>1. phase'[s] = "live"
          BY <1>2, <3>3 DEF IInv, TypeOK
        <4>2. QED
          BY <1>2, <2>2, <3>1, <3>2, <3>3, <4>1, TimeAssumption DEF Allowance, Limit
      <3>4. CASE phase[s] = "live"
        <4>1. phase'[s] = "leaving"
          BY <1>2, <3>4 DEF IInv, TypeOK
        <4>2. QED
          BY <1>2, <2>2, <3>1, <3>2, <3>4, <4>1, TimeAssumption DEF Allowance, Limit
      <3>5. QED
        BY <3>1, <3>3, <3>4
    <2>3. QED
      BY <2>1, <2>2
  <1>6. MissedIsAGap'
    BY <1>2 DEF IInv, TypeOK, MissedIsAGap
  <1>7. Accounted'
    BY <1>2 DEF IInv, TypeOK, Accounted, Active
  <1>8. QED
    BY <1>1, <1>3, <1>4, <1>5, <1>6, <1>7, RedisUnchanged DEF IInv

\* A script that refreshes s: the other members keep their scores unless stale.
LEMMA RefreshFresh ==
    ASSUME IInv, NEW s \in Session, Refresh(s),
           NEW t \in Session, t # s, phase[t] \in Active, ~missed[t]
    PROVE  t \in DOMAIN conns' /\ conns'[t] = conns[t]
  <1>1. t \in DOMAIN conns /\ conns[t] < LivenessWindow
    BY ActiveIsFresh
  <1>2. t \in DOMAIN Prune(conns)
    BY <1>1, PruneConns, TimeAssumption DEF IInv, TypeOK
  <1>3. QED
    BY <1>2, RefreshEffect

\* While nothing went unreported, a script prunes nobody.
LEMMA RefreshExact ==
    ASSUME IInv, ~gap, NEW s \in Session, Refresh(s)
    PROVE  /\ DOMAIN conns' = DOMAIN conns \cup {s}
           /\ DOMAIN Prune(conns) = DOMAIN conns
  <1>1. \A m \in DOMAIN conns : conns[m] \in Int /\ conns[m] < LivenessWindow
    BY NobodyStale DEF IInv, TypeOK
  <1>2. \A m \in DOMAIN conns : conns[m] <= LivenessWindow
    BY <1>1, TimeAssumption
  <1>3. DOMAIN Prune(conns) = DOMAIN conns
    BY <1>2, PruneConns
  <1>4. QED
    BY <1>3, RefreshEffect

LEMMA ConnectStep ==
    ASSUME IInv, NEW s \in Session, Connect(s)
    PROVE  IInv'
  <1>1. phase[s] = "identified" /\ Refresh(s) /\ missed' = missed /\ heard' = heard
    BY DEF Connect
  <1>2. \/ /\ IsFirst
           /\ phase' = [phase EXCEPT ![s] = "announcing"] /\ timer' = timer
           /\ announced' = "online"
           /\ gap' = \E t \in Session \ {s} : phase[t] = "live"
        \/ /\ ~IsFirst
           /\ phase' = [phase EXCEPT ![s] = "live"] /\ timer' = [timer EXCEPT ![s] = 0]
           /\ announced' = announced /\ gap' = gap
    BY DEF Connect, Proceed, Goto, Report
  <1>3. ~missed[s]
    BY <1>1 DEF IInv, MissedIsAGap
  <1>4. TypeOK'
    <2>1. /\ DOMAIN conns' \subseteq Session
          /\ conns' \in [DOMAIN conns' -> 0..(LivenessWindow + 1)]
          /\ connsTTL' = LivenessWindow /\ keyTTL' = PresenceTTL
      BY <1>1, RefreshEffect
    <2>2. phase' \in [Session -> Phase] /\ timer' \in [Session -> Nat]
      <3>1. \/ phase' = [phase EXCEPT ![s] = "announcing"] /\ timer' = timer
            \/ phase' = [phase EXCEPT ![s] = "live"] /\ timer' = [timer EXCEPT ![s] = 0]
        BY <1>2
      <3>2. QED
        BY <3>1 DEF IInv, TypeOK, Phase
    <2>3. gap' \in BOOLEAN
      <3>1. CASE IsFirst
        <4>1. gap' = \E t \in Session \ {s} : phase[t] = "live"
          BY <1>2, <3>1
        <4>2. QED
          BY <4>1
      <3>2. CASE ~IsFirst
        BY <1>2, <3>2 DEF IInv, TypeOK
      <3>3. QED
        BY <3>1, <3>2
    <2>4. missed' \in [Session -> BOOLEAN] /\ announced' \in Status /\ heard' \in Status
      BY <1>1, <1>2 DEF IInv, TypeOK, Status
    <2>5. connsTTL' \in 0..LivenessWindow /\ keyTTL' \in 0..PresenceTTL
      BY <2>1, TimeAssumption
    <2>6. QED
      BY <2>1, <2>2, <2>3, <2>4, <2>5 DEF TypeOK
  <1>5. TimersBounded'
    <2>1. \/ phase' = [phase EXCEPT ![s] = "announcing"] /\ timer' = timer
          \/ phase' = [phase EXCEPT ![s] = "live"] /\ timer' = [timer EXCEPT ![s] = 0]
      BY <1>2
    <2>2. QED
      BY <1>1, <2>1, TimeAssumption DEF IInv, TypeOK, TimersBounded, Limit
  <1>6. ScoresFresh'
    <2> SUFFICES ASSUME NEW t \in Session, phase'[t] \in Active, ~missed'[t]
                 PROVE  t \in DOMAIN conns' /\ conns'[t] <= timer'[t] + Allowance(phase'[t])
      BY DEF ScoresFresh
    <2>1. CASE t = s
      <3>1. s \in DOMAIN conns' /\ conns'[s] = 0
        BY <1>1, RefreshEffect
      <3>2. timer'[s] \in Nat /\ Allowance(phase'[s]) \in Nat
        BY <1>4, TimeAssumption DEF TypeOK, Allowance
      <3>3. QED
        BY <2>1, <3>1, <3>2
    <2>2. CASE t # s
      <3>1. phase'[t] = phase[t] /\ timer'[t] = timer[t] /\ ~missed[t]
        BY <1>1, <1>2, <2>2 DEF IInv, TypeOK
      <3>2. QED
        BY <1>1, <2>2, <3>1, RefreshFresh DEF IInv, ScoresFresh
    <2>3. QED
      BY <2>1, <2>2
  <1>7. MissedIsAGap'
    BY <1>1, <1>2, <1>3 DEF IInv, TypeOK, MissedIsAGap
  <1>8. Accounted'
    <2>1. CASE IsFirst
      <3>1. DOMAIN conns' = {s}
        BY <1>1, <2>1, RefreshEffect DEF IsFirst
      <3>2. phase'[s] \in Active /\ ~missed'[s] /\ announced' = "online"
        BY <1>1, <1>2, <1>3, <2>1 DEF IInv, TypeOK, Active
      <3>3. QED
        BY <3>1, <3>2 DEF Accounted
    <2>2. CASE ~IsFirst
      <3> SUFFICES ASSUME ~gap'
                   PROVE  /\ announced' = "online" <=> DOMAIN conns' # {}
                          /\ \A m \in DOMAIN conns' : phase'[m] \in Active /\ ~missed'[m]
        BY DEF Accounted
      <3>1. gap' = gap /\ announced' = announced /\ phase' = [phase EXCEPT ![s] = "live"]
        BY <1>2, <2>2
      <3>1a. ~gap
        BY <3>1
      <3>2. DOMAIN conns' = DOMAIN conns \cup {s} /\ DOMAIN conns # {}
        BY <1>1, <2>2, <3>1a, RefreshExact DEF IsFirst
      <3>3. \A m \in DOMAIN conns : phase[m] \in Active /\ ~missed[m]
        BY <3>1a DEF IInv, Accounted
      <3>4. announced = "online"
        BY <3>1a, <3>2 DEF IInv, Accounted
      <3>5. QED
        BY <1>1, <1>3, <3>1, <3>2, <3>3, <3>4 DEF IInv, TypeOK, Active
    <2>3. QED
      BY <2>1, <2>2
  <1>9. QED
    BY <1>1, <1>4, <1>5, <1>6, <1>7, <1>8, RefreshEffect DEF IInv

LEMMA HeartbeatStep ==
    ASSUME IInv, NEW s \in Session, Heartbeat(s)
    PROVE  IInv'
  <1>1. /\ phase[s] = "live" /\ Refresh(s) /\ phase' = [phase EXCEPT ![s] = "live"]
        /\ timer' = [timer EXCEPT ![s] = 0] /\ missed' = [missed EXCEPT ![s] = FALSE]
        /\ announced' = announced /\ heard' = heard /\ gap' = gap
    BY DEF Heartbeat, Goto
  <1>2. phase' = phase
    BY <1>1 DEF IInv, TypeOK
  <1>3. TypeOK'
    <2>1. /\ DOMAIN conns' \subseteq Session
          /\ conns' \in [DOMAIN conns' -> 0..(LivenessWindow + 1)]
          /\ connsTTL' = LivenessWindow /\ keyTTL' = PresenceTTL
      BY <1>1, RefreshEffect
    <2>2. connsTTL' \in 0..LivenessWindow /\ keyTTL' \in 0..PresenceTTL
      BY <2>1, TimeAssumption
    <2>3. missed' \in [Session -> BOOLEAN] /\ gap' \in BOOLEAN
      BY <1>1 DEF IInv, TypeOK
    <2>4. /\ phase' \in [Session -> Phase] /\ timer' \in [Session -> Nat]
          /\ announced' \in Status /\ heard' \in Status
      BY <1>1, <1>2 DEF IInv, TypeOK
    <2>5. QED
      BY <2>1, <2>2, <2>3, <2>4 DEF TypeOK
  <1>4. TimersBounded'
    BY <1>1, <1>2, TimeAssumption DEF IInv, TypeOK, TimersBounded, Limit
  <1>5. ScoresFresh'
    <2> SUFFICES ASSUME NEW t \in Session, phase'[t] \in Active, ~missed'[t]
                 PROVE  t \in DOMAIN conns' /\ conns'[t] <= timer'[t] + Allowance(phase'[t])
      BY DEF ScoresFresh
    <2>1. CASE t = s
      <3>1. s \in DOMAIN conns' /\ conns'[s] = 0
        BY <1>1, RefreshEffect
      <3>2. timer'[s] \in Nat /\ Allowance(phase'[s]) \in Nat
        BY <1>3, TimeAssumption DEF TypeOK, Allowance
      <3>3. QED
        BY <2>1, <3>1, <3>2
    <2>2. CASE t # s
      <3>1. phase'[t] = phase[t] /\ timer'[t] = timer[t] /\ ~missed[t]
        BY <1>1, <1>2, <2>2 DEF IInv, TypeOK
      <3>2. QED
        BY <1>1, <2>2, <3>1, RefreshFresh DEF IInv, ScoresFresh
    <2>3. QED
      BY <2>1, <2>2
  <1>6. MissedIsAGap'
    BY <1>1, <1>2 DEF IInv, TypeOK, MissedIsAGap
  <1>7. Accounted'
    <2> SUFFICES ASSUME ~gap
                 PROVE  /\ announced' = "online" <=> DOMAIN conns' # {}
                        /\ \A m \in DOMAIN conns' : phase'[m] \in Active /\ ~missed'[m]
      BY <1>1 DEF Accounted
    <2>1. ~missed[s]
      BY <1>1 DEF IInv, MissedIsAGap
    <2>2. s \in DOMAIN conns
      BY <1>1, <2>1 DEF IInv, ScoresFresh, Active
    <2>3. DOMAIN conns' = DOMAIN conns
      BY <1>1, <2>2, RefreshExact
    <2>4. QED
      BY <1>1, <1>2, <2>3 DEF IInv, TypeOK, Accounted
  <1>8. QED
    BY <1>1, <1>3, <1>4, <1>5, <1>6, <1>7, RefreshEffect DEF IInv

\* A failed call leaves the session live and marks it as unknown to Redis.
LEMMA FailedCallSteps ==
    ASSUME IInv, NEW s \in Session, ConnectFails(s) \/ HeartbeatFails(s)
    PROVE  IInv'
  <1>1. /\ Refresh(s) \/ UNCHANGED redis
        /\ phase' = [phase EXCEPT ![s] = "live"] /\ timer' = [timer EXCEPT ![s] = 0]
        /\ missed' = [missed EXCEPT ![s] = TRUE] /\ gap' = TRUE
        /\ announced' = announced /\ heard' = heard
    BY DEF ConnectFails, HeartbeatFails, Goto
  <1>2. /\ DOMAIN conns' \subseteq Session
        /\ conns' \in [DOMAIN conns' -> 0..(LivenessWindow + 1)]
        /\ connsTTL' \in 0..LivenessWindow /\ keyTTL' \in 0..PresenceTTL
        /\ KeysOutliveScores' /\ SetOutlivesKey'
    <2>1. CASE Refresh(s)
      <3>1. connsTTL' = LivenessWindow /\ keyTTL' = PresenceTTL
        BY <2>1, RefreshEffect
      <3>2. connsTTL' \in 0..LivenessWindow /\ keyTTL' \in 0..PresenceTTL
        BY <3>1, TimeAssumption
      <3>3. QED
        BY <2>1, <3>2, RefreshEffect
    <2>2. CASE UNCHANGED redis
      BY <2>2, RedisUnchanged
    <2>3. QED
      BY <1>1, <2>1, <2>2
  <1>3. TypeOK'
    <2>1. missed' \in [Session -> BOOLEAN] /\ gap' \in BOOLEAN
      BY <1>1 DEF IInv, TypeOK
    <2>2. /\ phase' \in [Session -> Phase] /\ timer' \in [Session -> Nat]
          /\ announced' \in Status /\ heard' \in Status
      BY <1>1 DEF IInv, TypeOK, Phase
    <2>3. QED
      BY <1>2, <2>1, <2>2 DEF TypeOK
  <1>4. TimersBounded'
    BY <1>1, TimeAssumption DEF IInv, TypeOK, TimersBounded, Limit
  <1>5. ScoresFresh'
    <2> SUFFICES ASSUME NEW t \in Session, phase'[t] \in Active, ~missed'[t]
                 PROVE  t \in DOMAIN conns' /\ conns'[t] <= timer'[t] + Allowance(phase'[t])
      BY DEF ScoresFresh
    <2>1. t # s /\ phase'[t] = phase[t] /\ timer'[t] = timer[t] /\ ~missed[t]
      BY <1>1 DEF IInv, TypeOK
    <2>2. t \in DOMAIN conns /\ conns[t] <= timer[t] + Allowance(phase[t])
      BY <2>1 DEF IInv, ScoresFresh
    <2>3. t \in DOMAIN conns' /\ conns'[t] = conns[t]
      BY <1>1, <2>1, <2>2, RefreshFresh DEF redis
    <2>4. QED
      BY <2>1, <2>2, <2>3
  <1>6. MissedIsAGap'
    BY <1>1 DEF IInv, TypeOK, MissedIsAGap
  <1>7. Accounted'
    BY <1>1 DEF Accounted
  <1>8. QED
    BY <1>2, <1>3, <1>4, <1>5, <1>6, <1>7 DEF IInv

\* A disconnect that reached Redis, or not, removes nobody but s and stale members.
LEMMA DisconnectSteps ==
    ASSUME IInv, NEW s \in Session, Disconnect(s) \/ DisconnectFails(s)
    PROVE  IInv'
  <1>1. /\ phase[s] = "leaving"
        /\ Remove(s) \/ UNCHANGED redis
        /\ missed' = [missed EXCEPT ![s] = FALSE] /\ heard' = heard
        /\ \/ phase' = [phase EXCEPT ![s] = "retracting"] /\ timer' = timer
           \/ phase' = [phase EXCEPT ![s] = "idle"] /\ timer' = [timer EXCEPT ![s] = 0]
    BY DEF Disconnect, DisconnectFails, Goto, Proceed
  <1>2. \/ gap' = TRUE /\ announced' = announced
        \/ /\ Remove(s) /\ IsLast(s) /\ announced' = "offline"
           /\ gap' = \E t \in Session \ {s} : phase[t] = "live"
        \/ Remove(s) /\ ~IsLast(s) /\ announced' = announced /\ gap' = gap
    BY DEF Disconnect, DisconnectFails, Report
  <1>3. /\ DOMAIN conns' \subseteq Session
        /\ conns' \in [DOMAIN conns' -> 0..(LivenessWindow + 1)]
        /\ connsTTL' \in 0..LivenessWindow /\ keyTTL' \in 0..PresenceTTL
        /\ KeysOutliveScores' /\ SetOutlivesKey'
    BY <1>1, RemoveEffect, RedisUnchanged
  <1>4. TypeOK'
    <2>1. gap' \in BOOLEAN
      <3>1. CASE gap' = \E t \in Session \ {s} : phase[t] = "live"
        BY <3>1
      <3>2. CASE gap' = TRUE \/ gap' = gap
        BY <3>2 DEF IInv, TypeOK
      <3>3. QED
        BY <1>2, <3>1, <3>2
    <2>2. missed' \in [Session -> BOOLEAN]
      BY <1>1 DEF IInv, TypeOK
    <2>3. phase' \in [Session -> Phase] /\ timer' \in [Session -> Nat] /\ heard' \in Status
      BY <1>1 DEF IInv, TypeOK, Phase
    <2>4. announced' = announced \/ announced' = "offline"
      BY <1>2
    <2>5. announced' \in Status
      BY <2>4 DEF IInv, TypeOK, Status
    <2>6. QED
      BY <1>3, <2>1, <2>2, <2>3, <2>5 DEF TypeOK
  <1>5. TimersBounded'
    BY <1>1, TimeAssumption DEF IInv, TypeOK, TimersBounded, Limit
  <1>6. ScoresFresh'
    <2> SUFFICES ASSUME NEW t \in Session, phase'[t] \in Active, ~missed'[t]
                 PROVE  t \in DOMAIN conns' /\ conns'[t] <= timer'[t] + Allowance(phase'[t])
      BY DEF ScoresFresh
    <2>1. t # s /\ phase'[t] = phase[t] /\ timer'[t] = timer[t] /\ ~missed[t]
      BY <1>1 DEF IInv, TypeOK, Active
    <2>2. t \in DOMAIN conns /\ conns[t] <= timer[t] + Allowance(phase[t])
      BY <2>1 DEF IInv, ScoresFresh
    <2>3. conns[t] <= LivenessWindow
      BY <2>1, ActiveIsFresh, TimeAssumption DEF IInv, TypeOK
    <2>4. t \in DOMAIN conns' /\ conns'[t] = conns[t]
      BY <1>1, <2>1, <2>2, <2>3, RemoveEffect DEF redis
    <2>5. QED
      BY <2>1, <2>2, <2>4
  <1>7. MissedIsAGap'
    <2> SUFFICES ASSUME NEW t \in Session, missed'[t]
                 PROVE  \/ phase'[t] = "live" /\ gap'
                        \/ phase'[t] = "leaving"
      BY DEF MissedIsAGap
    <2>1. t # s /\ missed[t] /\ phase'[t] = phase[t]
      BY <1>1 DEF IInv, TypeOK
    <2>2. (phase[t] = "live" /\ gap) \/ phase[t] = "leaving"
      BY <2>1 DEF IInv, MissedIsAGap
    <2>3. ASSUME phase[t] = "live", gap
          PROVE  gap'
      BY <1>2, <2>1, <2>3
    <2>4. QED
      BY <2>1, <2>2, <2>3
  <1>8. Accounted'
    <2> SUFFICES ASSUME ~gap'
                 PROVE  /\ announced' = "online" <=> DOMAIN conns' # {}
                        /\ \A m \in DOMAIN conns' : phase'[m] \in Active /\ ~missed'[m]
      BY DEF Accounted
    <2>1. CASE Remove(s) /\ IsLast(s) /\ announced' = "offline"
      BY <2>1, RemoveEffect
    <2>2. CASE Remove(s) /\ ~IsLast(s) /\ announced' = announced /\ gap' = gap
      <3>1. /\ ~gap
            /\ announced = "online" <=> DOMAIN conns # {}
            /\ \A m \in DOMAIN conns : phase[m] \in Active /\ ~missed[m]
        BY <2>2 DEF IInv, Accounted
      <3>2. DOMAIN conns' # {} /\ DOMAIN conns' \subseteq DOMAIN conns \ {s}
        BY <2>2, RemoveEffect
      <3>3. \A m \in DOMAIN conns' : m \in Session \ {s}
        BY <1>3, <3>2
      <3>4. \A m \in DOMAIN conns' : phase'[m] = phase[m] /\ (missed'[m] <=> missed[m])
        BY <1>1, <3>3 DEF IInv, TypeOK
      <3>5. QED
        BY <2>2, <3>1, <3>2, <3>4
    <2>3. QED
      BY <1>2, <2>1, <2>2
  <1>9. QED
    BY <1>3, <1>4, <1>5, <1>6, <1>7, <1>8 DEF IInv

LEMMA CrashStep ==
    ASSUME IInv, NEW g \in Gateway, Crash(g)
    PROVE  IInv'
  <1>1. /\ phase' = [s \in Session |-> IF Home[s] = g THEN "idle" ELSE phase[s]]
        /\ timer' = [s \in Session |-> IF Home[s] = g THEN 0 ELSE timer[s]]
        /\ missed' = [s \in Session |-> IF Home[s] = g THEN FALSE ELSE missed[s]]
        /\ gap' = TRUE /\ UNCHANGED <<redis, announced, heard>>
    BY DEF Crash
  <1>2. TypeOK'
    <2>1. phase' \in [Session -> Phase] /\ timer' \in [Session -> Nat]
      BY <1>1 DEF IInv, TypeOK, Phase
    <2>2. missed' \in [Session -> BOOLEAN] /\ gap' \in BOOLEAN
      BY <1>1 DEF IInv, TypeOK
    <2>3. announced' \in Status /\ heard' \in Status
      BY <1>1 DEF IInv, TypeOK
    <2>4. QED
      BY <1>1, <2>1, <2>2, <2>3, RedisUnchanged DEF TypeOK
  <1>3. TimersBounded' /\ ScoresFresh' /\ MissedIsAGap'
    <2>1. \A s \in Session :
             \/ phase'[s] = "idle" /\ ~missed'[s]
             \/ phase'[s] = phase[s] /\ timer'[s] = timer[s] /\ (missed'[s] <=> missed[s])
      BY <1>1
    <2>2. conns' = conns
      BY <1>1 DEF redis
    <2>3. QED
      BY <1>1, <2>1, <2>2 DEF IInv, TimersBounded, ScoresFresh, MissedIsAGap, Active
  <1>4. Accounted'
    BY <1>1 DEF Accounted
  <1>5. QED
    BY <1>1, <1>2, <1>3, <1>4, RedisUnchanged DEF IInv

\* Time ages the scores and the keys together, and stops at the deadlines.
LEMMA TickStep ==
    ASSUME IInv, Tick
    PROVE  IInv'
  <1>1. /\ \A s \in Session : phase[s] # "idle" => timer[s] < Limit(phase[s])
        /\ timer' = [s \in Session |-> IF phase[s] = "idle" THEN 0 ELSE timer[s] + 1]
        /\ phase' = phase /\ missed' = missed /\ announced' = announced
        /\ heard' = heard /\ gap' = gap
    BY DEF Tick
  <1>2. /\ connsTTL' = IF connsTTL = 0 THEN 0 ELSE connsTTL - 1
        /\ keyTTL' = IF keyTTL = 0 THEN 0 ELSE keyTTL - 1
    BY DEF Tick, CountDown
  <1>3. /\ connsTTL \in 0..LivenessWindow /\ keyTTL \in 0..PresenceTTL
        /\ \A m \in DOMAIN conns : conns[m] \in 0..(LivenessWindow + 1)
    BY DEF IInv, TypeOK
  <1>4. connsTTL' \in 0..LivenessWindow /\ keyTTL' \in 0..PresenceTTL
    BY <1>2, <1>3, TimeAssumption
  <1>5. /\ connsTTL' = 0 => DOMAIN conns' = {}
        /\ connsTTL' # 0 => DOMAIN conns' = DOMAIN conns
        /\ \A m \in DOMAIN conns' :
              conns'[m] = IF conns[m] <= LivenessWindow THEN conns[m] + 1 ELSE conns[m]
    BY DEF Tick
  <1>6. /\ DOMAIN conns' \subseteq DOMAIN conns
        /\ \A m \in DOMAIN conns' : conns'[m] \in 0..(LivenessWindow + 1)
    BY <1>3, <1>5, TimeAssumption
  <1>7. conns' \in [DOMAIN conns' -> 0..(LivenessWindow + 1)]
    BY <1>6 DEF Tick
  <1>8. TypeOK'
    <2>1. timer' \in [Session -> Nat]
      BY <1>1 DEF IInv, TypeOK
    <2>2. QED
      BY <1>1, <1>4, <1>6, <1>7, <2>1 DEF IInv, TypeOK
  <1>9. TimersBounded'
    BY <1>1, TimeAssumption DEF IInv, TypeOK, TimersBounded, Limit
  <1>10. KeysOutliveScores'
    BY <1>2, <1>3, <1>5, <1>6, TimeAssumption DEF IInv, KeysOutliveScores
  <1>11. SetOutlivesKey'
    BY <1>2, <1>3, <1>5 DEF IInv, SetOutlivesKey
  <1>12. \A m \in DOMAIN conns : conns[m] < LivenessWindow - 1 => connsTTL' # 0
    BY <1>2, <1>3, TimeAssumption DEF IInv, KeysOutliveScores
  <1>13. ScoresFresh'
    <2> SUFFICES ASSUME NEW s \in Session, phase[s] \in Active, ~missed[s]
                 PROVE  s \in DOMAIN conns' /\ conns'[s] <= timer'[s] + Allowance(phase[s])
      BY <1>1 DEF ScoresFresh
    <2>1. s \in DOMAIN conns /\ conns[s] <= timer[s] + Allowance(phase[s])
      BY DEF IInv, ScoresFresh
    <2>2. timer[s] \in Nat /\ timer[s] < Limit(phase[s]) /\ timer'[s] = timer[s] + 1
      BY <1>1 DEF IInv, TypeOK, Active
    <2>3. Limit(phase[s]) + Allowance(phase[s]) < LivenessWindow
      BY TimeAssumption DEF Limit, Allowance, Active
    <2>4. Limit(phase[s]) \in Nat /\ Allowance(phase[s]) \in Nat
      BY TimeAssumption DEF Limit, Allowance
    <2>5. conns[s] < LivenessWindow - 1
      BY <1>3, <2>1, <2>2, <2>3, <2>4, TimeAssumption
    <2>6. s \in DOMAIN conns' /\ conns'[s] = conns[s] + 1
      BY <1>3, <1>5, <1>12, <2>1, <2>5, TimeAssumption
    <2>7. QED
      BY <1>3, <2>1, <2>2, <2>4, <2>6
  <1>14. MissedIsAGap'
    BY <1>1 DEF IInv, MissedIsAGap
  <1>15. Accounted'
    <2> SUFFICES ASSUME ~gap
                 PROVE  /\ announced = "online" <=> DOMAIN conns' # {}
                        /\ \A m \in DOMAIN conns' : phase[m] \in Active /\ ~missed[m]
      BY <1>1 DEF Accounted
    <2>1. \A m \in DOMAIN conns : m \in DOMAIN conns'
      <3> SUFFICES ASSUME NEW m \in DOMAIN conns PROVE m \in DOMAIN conns'
        OBVIOUS
      <3>1. m \in Session /\ phase[m] \in Active /\ ~missed[m]
        BY DEF IInv, TypeOK, Accounted
      <3>2. QED
        BY <1>1, <1>13, <3>1 DEF ScoresFresh
    <2>2. QED
      BY <1>6, <2>1 DEF IInv, Accounted
  <1>16. QED
    BY <1>8, <1>9, <1>10, <1>11, <1>13, <1>14, <1>15 DEF IInv

-----------------------------------------------------------------------------
LEMMA NextInv == IInv /\ [Next]_vars => IInv'
  <1> SUFFICES ASSUME IInv, [Next]_vars PROVE IInv'
    OBVIOUS
  <1>1. ASSUME NEW s \in Session, Progress(s) PROVE IInv'
    BY <1>1, ConnectStep, FailedCallSteps, QuietSteps, DisconnectSteps
       DEF Progress, ReadTimeout
  <1>2. ASSUME NEW s \in Session, Identify(s) \/ Leave(s) PROVE IInv'
    BY <1>2, QuietSteps
  <1>3. ASSUME NEW s \in Session, Heartbeat(s) \/ HeartbeatFails(s) PROVE IInv'
    BY <1>3, HeartbeatStep, FailedCallSteps
  <1>4. ASSUME NEW g \in Gateway, Crash(g) PROVE IInv'
    BY <1>4, CrashStep
  <1>5. CASE Tick
    BY <1>5, TickStep
  <1>6. CASE UNCHANGED vars
    BY <1>6 DEF vars, IInv, TypeOK, TimersBounded, ScoresFresh, KeysOutliveScores,
       SetOutlivesKey, MissedIsAGap, Accounted
  <1>7. QED
    BY <1>1, <1>2, <1>3, <1>4, <1>5, <1>6 DEF Next

\* The inductive invariant holds of every behaviour.
THEOREM PresenceInvariant == Spec => []IInv
  <1>1. QED
    BY InitInv, NextInv, PTL DEF Spec

\* Every variable keeps its type: the sorted set holds sessions of this user
\* and no age or expiry leaves its range (presence.go's two keys).
THEOREM PresenceTypes == Spec => []TypeOK
  <1>1. IInv => TypeOK
    BY DEF IInv
  <1>2. QED
    BY <1>1, PresenceInvariant, PTL

\* No interleaving of scripts, expiries and crashes evicts a live session.
THEOREM LiveSessionsStay == Spec => []NeverEvicted
  <1>1. IInv => NeverEvicted
    BY ActiveIsFresh DEF NeverEvicted, Members, Active
  <1>2. QED
    BY <1>1, PresenceInvariant, PTL

\* The presence key is backed by a member of the sorted set, and a member seen
\* within PresenceTTL keeps the user shown online.
THEOREM StatusIsRight == Spec => []StatusMatchesMembers
  <1>1. IInv => connsTTL \in Int /\ keyTTL \in Int
    BY DEF IInv, TypeOK
  <1>2. ASSUME IInv, keyTTL > 0 PROVE DOMAIN conns # {}
    <2>1. keyTTL <= connsTTL /\ (DOMAIN conns = {} => connsTTL = 0)
      BY <1>2 DEF IInv, SetOutlivesKey
    <2>2. connsTTL # 0
      BY <1>1, <1>2, <2>1
    <2>3. QED
      BY <2>1, <2>2
  <1>3. ASSUME IInv, NEW m \in DOMAIN conns, conns[m] < PresenceTTL
        PROVE  keyTTL > 0
    <2>1. keyTTL >= PresenceTTL - conns[m]
      BY <1>3 DEF IInv, KeysOutliveScores
    <2>2. conns[m] \in Int /\ keyTTL \in Int
      BY <1>3 DEF IInv, TypeOK
    <2>3. QED
      BY <1>3, <2>1, <2>2, TimeAssumption
  <1>4. IInv => StatusMatchesMembers
    BY <1>2, <1>3 DEF StatusMatchesMembers, ShownOnline, Members
  <1>5. QED
    BY <1>4, PresenceInvariant, PTL

\* Unless something failed since, the last report agrees with the sorted set.
THEOREM ReportsAreRight == Spec => []ReportsMatchMembers
  <1>1. IInv => ReportsMatchMembers
    BY DEF IInv, Accounted, ReportsMatchMembers, Members
  <1>2. QED
    BY <1>1, PresenceInvariant, PTL

-----------------------------------------------------------------------------
(* The WebSocket client.                                                   *)

Silent == \A s \in Conn : sock[s] = "none"

\* What the client is waiting for.
Waiting ==
    \/ retry /\ opens = 0 /\ Silent
    \/ ~retry /\ opens = 1 /\ Silent
    \/ /\ ~retry /\ opens = 0
       /\ ws \in Conn /\ sock[ws] # "none"
       /\ \A s \in Conn \ {ws} : sock[s] = "none"

Connected ==
    /\ IF stopped THEN ~retry /\ ~online /\ Silent ELSE Waiting
    /\ \A s \in Conn : sock[s] \in {"hello", "ready"} => beat = s
    /\ online => ws # None /\ sock[ws] \in {"ready", "closing"}

\* A socket is ready after an identify; no gap is left from before the first.
Resynced ==
    /\ \A s \in Conn : sock[s] = "ready" => again
    /\ ~again \/ ~mounted => "gap" \notin behind
    /\ online /\ sock[ws] = "ready" /\ ws \notin quiet => "gap" \notin behind

ClientInv ==
    /\ Client!TypeOK
    /\ mounted <=> ~stopped
    /\ ~stopped => ws # None \/ retry \/ opens > 0
    /\ ~crossed => Connected /\ Resynced

-----------------------------------------------------------------------------
(* The client's connection.                                                *)

LEMMA ClientInit ==
    Client!Init => ClientInv
  <1> SUFFICES ASSUME Client!Init  PROVE  ClientInv
    OBVIOUS
  <1>1. Client!TypeOK
    <2>1. {mounted, stopped, retry, again, online, retried, crossed} \subseteq BOOLEAN
      BY Zenon DEF Client!Init
    <2>2. opens \in Nat /\ mounts \in 0 .. MaxMounts /\ faults \in 0 .. MaxFaults
      BY ClientAssumption DEF Client!Init, Client!ConstantsAssumption
    <2>3. sock \in [Conn -> {"none", "open", "hello", "ready", "closing"}]
      BY DEF Client!Init
    <2>4. QED
      BY <2>1, <2>2, <2>3 DEF Client!Init, Client!TypeOK
  <1>2. (mounted <=> ~stopped) /\ (~stopped => ws # None \/ retry \/ opens > 0)
    BY DEF Client!Init
  <1>3. Connected /\ Resynced
    BY DEF Client!Init, Connected, Resynced, Silent
  <1>4. QED
    BY <1>1, <1>2, <1>3 DEF ClientInv

LEMMA ClientTypes ==
    ASSUME Client!TypeOK, [Client!Next]_clientVars
    PROVE  Client!TypeOK'
  <1> USE ClientAssumption DEF Client!ConstantsAssumption, Client!TypeOK
  <1>1. CASE Client!Connect
    <2>1. crossed' \in BOOLEAN
      BY <1>1, Zenon DEF Client!Connect
    <2>2. mounts' \in 0 .. MaxMounts /\ opens' \in Nat
      BY <1>1 DEF Client!Connect
    <2>3. QED
      BY <1>1, <2>1, <2>2 DEF Client!Connect
  <1>2. CASE Client!Logout
    BY <1>2 DEF Client!Logout, Client!Disconnect, Client!connVars, Client!storeVars, Client!userVars, Client!Cause
  <1>3. CASE Client!SessionDies
    BY <1>3 DEF Client!SessionDies, Client!Disconnect, Client!connVars, Client!storeVars, Client!userVars, Client!Cause
  <1>4. CASE Client!TimerFires
    <2>1. opens' \in Nat
      BY <1>4 DEF Client!TimerFires
    <2>2. QED
      BY <1>4, <2>1 DEF Client!TimerFires, Client!storeVars, Client!userVars
  <1>5. CASE Client!TokenHad
    BY <1>5 DEF Client!TokenHad, Client!connVars, Client!storeVars, Client!userVars, Client!Cause
  <1>6. CASE Client!TokenNotHad
    <2>1. {stopped', online', retry', retried'} \subseteq BOOLEAN
      BY <1>6, Zenon DEF Client!TokenNotHad, Client!ScheduleReconnect
    <2>2. opens' \in Nat /\ faults' \in 0 .. MaxFaults /\ beat' \in Conn \cup {None}
      BY <1>6 DEF Client!TokenNotHad, Client!ScheduleReconnect
    <2>3. QED
      BY <1>6, <2>1, <2>2 DEF Client!TokenNotHad, Client!userVars
  <1>7. CASE Client!Fetch
    BY <1>7 DEF Client!Fetch, Client!connVars, Client!storeVars, Client!userVars, Client!Cause
  <1>8. ASSUME NEW s \in Conn, Client!Hello(s)  PROVE  Client!TypeOK'
    BY <1>8 DEF Client!Hello, Client!connVars, Client!storeVars, Client!userVars, Client!Cause
  <1>9. ASSUME NEW s \in Conn, Client!Ready(s)  PROVE  Client!TypeOK'
    BY <1>9 DEF Client!Ready, Client!connVars, Client!storeVars, Client!userVars, Client!Cause
  <1>10. ASSUME NEW s \in Conn, Client!ServerCloses(s)  PROVE  Client!TypeOK'
    BY <1>10 DEF Client!ServerCloses, Client!Lost, Client!Live, Client!connVars, Client!storeVars, Client!userVars, Client!Cause
  <1>11. ASSUME NEW s \in Conn, Client!GoesQuiet(s)  PROVE  Client!TypeOK'
    BY <1>11 DEF Client!GoesQuiet, Client!Lost, Client!Live, Client!connVars, Client!storeVars, Client!userVars, Client!Cause
  <1>12. ASSUME NEW s \in Conn, Client!HeartbeatFails(s)  PROVE  Client!TypeOK'
    BY <1>12 DEF Client!HeartbeatFails, Client!Live, Client!connVars, Client!storeVars, Client!userVars, Client!Cause
  <1>13. ASSUME NEW s \in Conn, Client!Closed(s)  PROVE  Client!TypeOK'
    BY <1>13 DEF Client!Closed, Client!ScheduleReconnect, Client!connVars, Client!storeVars, Client!userVars, Client!Cause
  <1>14. CASE UNCHANGED clientVars
    BY <1>14 DEF clientVars
  <1>15. QED
    BY <1>1, <1>2, <1>3, <1>4, <1>5, <1>6, <1>7, <1>8, <1>9, <1>10, <1>11, <1>12, <1>13, <1>14 DEF Client!Next

LEMMA ClientStep ==
    ASSUME ClientInv, [Client!Next]_clientVars
    PROVE  ClientInv'
  <1>1. Client!TypeOK'
    BY ClientTypes DEF ClientInv
  <1> DEFINE Rest == /\ mounted <=> ~stopped
                     /\ ~stopped => ws # None \/ retry \/ opens > 0
                     /\ ~crossed => Connected /\ Resynced
  <1> SUFFICES Rest'
    BY <1>1 DEF ClientInv
  <1> USE ClientAssumption DEF Client!ConstantsAssumption, ClientInv, Client!TypeOK, Connected, Resynced, Waiting, Silent
  <1>2. CASE Client!Connect
    <2>1. ASSUME ~crossed'  PROVE  ~crossed /\ opens = 0
      <3>1. ~crossed /\ ~(opens > 0)
        BY <1>2, <2>1, Zenon DEF Client!Connect
      <3>2. QED
        BY <3>1
    <2>2. QED
      BY <1>2, <2>1 DEF Client!Connect
  <1>3. CASE Client!Logout
    BY <1>3 DEF Client!Logout, Client!Disconnect, Client!connVars, Client!storeVars, Client!userVars
  <1>4. CASE Client!SessionDies
    BY <1>4 DEF Client!SessionDies, Client!Disconnect, Client!connVars, Client!storeVars, Client!userVars
  <1>5. CASE Client!TimerFires
    BY <1>5 DEF Client!TimerFires, Client!connVars, Client!storeVars, Client!userVars
  <1>6. CASE Client!TokenHad
    BY <1>6 DEF Client!TokenHad, Client!connVars, Client!storeVars, Client!userVars
  <1>7. CASE Client!TokenNotHad
    BY <1>7 DEF Client!TokenNotHad, Client!ScheduleReconnect, Client!connVars, Client!storeVars, Client!userVars
  <1>8. CASE Client!Fetch
    BY <1>8 DEF Client!Fetch, Client!connVars, Client!storeVars, Client!userVars
  <1>9. ASSUME NEW s \in Conn, Client!Hello(s)  PROVE  Rest'
    BY <1>9 DEF Client!Hello, Client!connVars, Client!storeVars, Client!userVars
  <1>10. ASSUME NEW s \in Conn, Client!Ready(s)  PROVE  Rest'
    BY <1>10 DEF Client!Ready, Client!connVars, Client!storeVars, Client!userVars
  <1>11. ASSUME NEW s \in Conn, Client!ServerCloses(s)  PROVE  Rest'
    BY <1>11 DEF Client!ServerCloses, Client!Lost, Client!Live, Client!connVars, Client!storeVars, Client!userVars
  <1>12. ASSUME NEW s \in Conn, Client!GoesQuiet(s)  PROVE  Rest'
    BY <1>12 DEF Client!GoesQuiet, Client!Lost, Client!Live, Client!connVars, Client!storeVars, Client!userVars
  <1>13. ASSUME NEW s \in Conn, Client!HeartbeatFails(s)  PROVE  Rest'
    BY <1>13 DEF Client!HeartbeatFails, Client!Live, Client!connVars, Client!storeVars, Client!userVars
  <1>14. ASSUME NEW s \in Conn, Client!Closed(s)  PROVE  Rest'
    BY <1>14 DEF Client!Closed, Client!ScheduleReconnect, Client!connVars, Client!storeVars, Client!userVars
  <1>15. CASE UNCHANGED clientVars
    BY <1>15 DEF clientVars
  <1>16. QED
    BY <1>2, <1>3, <1>4, <1>5, <1>6, <1>7, <1>8, <1>9, <1>10, <1>11, <1>12, <1>13, <1>14, <1>15 DEF Client!Next

LEMMA ClientAlways ==
    PartSpec => []ClientInv
  <1>1. PartInit => ClientInv
    BY ClientInit DEF PartInit
  <1>2. ClientInv /\ [PartNext]_partVars => ClientInv'
    <2>1. [PartNext]_partVars => [Client!Next]_clientVars
      BY DEF PartNext, Present, Connecting, Calling, partVars
    <2>2. QED
      BY <2>1, ClientStep
  <1>3. QED
    BY <1>1, <1>2, PTL DEF PartSpec

\* One of the three is one attempt.
LEMMA WaitingIsOne ==
    ASSUME Client!TypeOK, Waiting
    PROVE  Client!Attempts = 1
  <1> DEFINE Used == {s \in Conn : sock[s] # "none"}
             timers == IF retry THEN 1 ELSE 0
  <1>0. Client!Attempts = Cardinality(Used) + opens + timers
    BY Zenon DEF Client!Attempts, Client!Cardinality, Cardinality
  <1>1. CASE Silent
    <2>1. Cardinality(Used) = 0
      BY <1>1, FS_EmptySet DEF Silent
    <2>2. CASE retry /\ opens = 0
      BY <1>0, <2>1, <2>2
    <2>3. CASE ~retry /\ opens = 1
      BY <1>0, <2>1, <2>3
    <2>4. QED
      BY <1>1, <2>2, <2>3 DEF Waiting, Silent
  <1>2. CASE ~Silent
    <2>1. Used = {ws} /\ ~retry /\ opens = 0
      BY <1>2 DEF Waiting, Silent
    <2>2. Cardinality(Used) = 1
      BY <2>1, FS_Singleton
    <2>3. QED
      BY <1>0, <2>1, <2>2
  <1>3. QED
    BY <1>1, <1>2

\* Whatever sockets, timers, logins and logouts follow each other, the client has
\* one attempt to be connected under way, and none that is not its own, unless an
\* open() of an earlier login still waits; and then it does not give up.
THEOREM ClientMakesOneAttempt ==
    PartSpec => []OneAttempt
  <1>1. ClientInv => OneAttempt
    <2> SUFFICES ASSUME ClientInv  PROVE  Client!OneAttempt
      BY DEF OneAttempt
    <2>1. ASSUME ~crossed
          PROVE  /\ ~stopped => Client!Attempts = 1
                 /\ stopped => ~retry /\ ~online /\ \A s \in Conn : sock[s] = "none"
                 /\ \A s \in Conn : sock[s] \in {"hello", "ready"} => ws = s /\ beat = s
                 /\ online => ws # None /\ sock[ws] \in {"ready", "closing"}
      <3>1. Client!TypeOK /\ Connected
        BY <2>1 DEF ClientInv
      <3>2. ~stopped => Client!Attempts = 1
        BY <3>1, WaitingIsOne DEF Connected
      <3>3. \A s \in Conn : sock[s] \in {"hello", "ready"} => ws = s /\ beat = s
        BY <3>1 DEF Connected, Waiting, Silent
      <3>4. QED
        BY <3>1, <3>2, <3>3 DEF Connected, Silent
    <2>2. QED
      BY <2>1 DEF ClientInv, Client!OneAttempt
  <1>2. QED
    BY <1>1, ClientAlways, PTL

\* After READY no list lacks what a lost socket would have brought: the READY of a
\* reconnect has them fetched again, and the first one finds none.
THEOREM ClientResyncs ==
    PartSpec => []ResyncsEveryGap
  <1>1. ClientInv => ResyncsEveryGap
    BY DEF ClientInv, Resynced, ResyncsEveryGap, Client!ResyncsEveryGap
  <1>2. QED
    BY <1>1, ClientAlways, PTL

-----------------------------------------------------------------------------
(* The calls.                                                              *)

RoomState ==
    [channel : Channel, link : {"new", "up", "closed"}, wired : BOOLEAN,
     own : SUBSET Media, peer : Calls!Published]
Shown ==
    [own : SUBSET Media, there : BOOLEAN, mic : BOOLEAN, tile : {"screen", "cam", "avatar"},
     audio : BOOLEAN]
Bar ==
    [connected : BOOLEAN, connecting : BOOLEAN, channel : Channel \cup {None},
     view : Shown, stage : BOOLEAN]

Giving(n) == [pc : {"leaving"}, r : 1 .. n, then : Channel \cup {None}]
Asking == [pc : {"token"}, ch : Channel]
Linking(n) == [pc : {"connecting", "failing", "bailing"}, r : 1 .. n]
Publishing(n) == [pc : {"media"}, r : 1 .. n, m : Media, on : BOOLEAN, sync : BOOLEAN]
CallState(n) == {Calls!Idle} \cup Giving(n) \cup Asking \cup Linking(n) \cup Publishing(n)

CallsTyped ==
    /\ rooms \in Seq(RoomState) /\ Len(rooms) <= MaxRooms /\ room \in 0 .. Len(rooms)
    /\ ui \in Bar /\ call \in [Caller -> CallState(Len(rooms))]
    /\ changes \in 0 .. MaxChanges /\ overlapping \in BOOLEAN

\* Somebody is at work that will end the connecting: not one who connects a room
\* that was given up meanwhile.
Connects(c) ==
    \/ call[c].pc \in {"leaving", "token", "failing"}
    \/ call[c].pc = "connecting" /\ call[c].r = room
SomebodyConnects ==
    /\ ui.connecting => \E c \in Caller : Connects(c)
    /\ ui.connected => ~ui.connecting

\* One join or leave at a time, and where the bar and the room are in each part of it.
Awaits(c) == call[c].pc \in Calls!Awaiting
OneAtATime ==
    /\ \A c, d \in Caller : Awaits(c) /\ Awaits(d) => c = d
    /\ \A c \in Caller :
        /\ Awaits(c) /\ call[c].pc # "leaving" => ~ui.connected
        /\ Awaits(c) => room = 0 \/ (call[c].pc = "connecting" /\ room = call[c].r)
        /\ call[c].pc = "token" => ui.channel = call[c].ch
        /\ call[c].pc = "connecting" /\ room # 0 => ui.channel = rooms[room].channel

\* Only the room in use is wired, and linked but for one about to be closed.
OneRoom ==
    /\ \A r \in DOMAIN rooms : rooms[r].wired /\ rooms[r].link # "closed" => r = room
    /\ room # 0 => rooms[room].wired
    /\ \A r \in DOMAIN rooms : Calls!Live(r) => r = room /\ ui.connected
    /\ ui.connected /\ room # 0 =>
        rooms[room].channel = ui.channel /\ ui.view = Calls!View(rooms[room])

CallsInv ==
    /\ CallsTyped
    /\ SomebodyConnects
    /\ ~overlapping => OneAtATime /\ OneRoom

LEMMA CallsConstants ==
    /\ Media \subseteq {"mic", "cam", "screen"} /\ "mic" \in Media /\ None \notin Channel
    /\ MaxRooms \in Nat /\ MaxChanges \in Nat
  BY CallsAssumption DEF Calls!ConstantsAssumption

\* What a call holds, by where it is.
LEMMA CallFields ==
    ASSUME NEW n \in Nat, NEW k \in CallState(n)
    PROVE  /\ k.pc \in {"idle", "leaving", "token", "connecting", "failing", "bailing", "media"}
           /\ k.pc \in {"leaving", "connecting", "failing", "bailing", "media"} => k.r \in 1 .. n
           /\ k.pc = "leaving" => k.then \in Channel \cup {None}
           /\ k.pc = "token" => k.ch \in Channel
           /\ k.pc = "media" => k.m \in Media /\ k.on \in BOOLEAN /\ k.sync \in BOOLEAN
           /\ k.pc = "idle" <=> k = Calls!Idle
  <1>1. Calls!Idle = [pc |-> "idle"]
    BY DEF Calls!Idle
  <1>2. CASE k = Calls!Idle
    BY <1>1, <1>2
  <1>3. CASE k \in Giving(n)
    BY <1>1, <1>3 DEF Giving
  <1>4. CASE k \in Asking
    BY <1>1, <1>4 DEF Asking
  <1>5. CASE k \in Linking(n)
    BY <1>1, <1>5 DEF Linking
  <1>6. CASE k \in Publishing(n)
    BY <1>1, <1>6 DEF Publishing
  <1>7. QED
    BY <1>2, <1>3, <1>4, <1>5, <1>6 DEF CallState

\* The states a call goes to.
LEMMA CallStates ==
    ASSUME NEW n \in Nat
    PROVE  /\ Calls!Idle \in CallState(n)
           /\ \A ch \in Channel : [pc |-> "token", ch |-> ch] \in CallState(n)
           /\ \A r \in 1 .. n :
                /\ \A then \in Channel \cup {None} :
                    [pc |-> "leaving", r |-> r, then |-> then] \in CallState(n)
                /\ \A pc \in {"connecting", "failing", "bailing"} : [pc |-> pc, r |-> r] \in CallState(n)
                /\ \A m \in Media, on \in BOOLEAN, sync \in BOOLEAN :
                    [pc |-> "media", r |-> r, m |-> m, on |-> on, sync |-> sync] \in CallState(n)
  BY DEF CallState, Giving, Asking, Linking, Publishing

\* A new room takes none of the calls away.
LEMMA CallStateGrows ==
    ASSUME NEW n \in Nat
    PROVE  CallState(n) \subseteq CallState(n + 1)
  <1>1. 1 .. n \subseteq 1 .. n + 1
    OBVIOUS
  <1>2. QED
    BY <1>1 DEF CallState, Giving, Linking, Publishing

LEMMA Views ==
    /\ Calls!NoView \in Shown
    /\ \A r \in RoomState : Calls!View(r) \in Shown
  <1>1. Calls!NoView \in Shown
    BY DEF Calls!NoView, Shown
  <1>2. ASSUME NEW r \in RoomState  PROVE  Calls!View(r) \in Shown
    <2>1. Calls!Picture(r.peer) \in {"screen", "cam", "avatar"}
      BY DEF Calls!Picture
    <2>2. r.own \in SUBSET Media
      BY DEF RoomState
    <2>3. ("mic" \in r.peer) \in BOOLEAN /\ (r.peer # Calls!Absent) \in BOOLEAN
      OBVIOUS
    <2>4. QED
      BY <2>1, <2>2, <2>3 DEF Calls!View, Shown
  <1>3. QED
    BY <1>1, <1>2

LEMMA CallsInit ==
    Calls!Init => CallsInv
  <1> SUFFICES ASSUME Calls!Init  PROVE  CallsInv
    OBVIOUS
  <1>1. Calls!Reset \in Bar
    BY Views DEF Calls!Reset, Bar
  <1>2. CallsTyped
    <2>1. rooms \in Seq(RoomState) /\ Len(rooms) = 0
      BY DEF Calls!Init
    <2>2. call \in [Caller -> CallState(Len(rooms))]
      BY <2>1, CallStates DEF Calls!Init
    <2>3. overlapping \in BOOLEAN
      BY DEF Calls!Init
    <2>4. changes \in 0 .. MaxChanges /\ room \in 0 .. Len(rooms) /\ Len(rooms) <= MaxRooms
      BY <2>1, CallsConstants DEF Calls!Init
    <2>5. QED
      BY <1>1, <2>1, <2>2, <2>3, <2>4 DEF Calls!Init, CallsTyped
  <1>3. SomebodyConnects
    BY DEF Calls!Init, Calls!Reset, SomebodyConnects
  <1>4. OneAtATime
    BY DEF Calls!Init, Calls!Idle, OneAtATime, Awaits, Calls!Awaiting
  <1>5. OneRoom
    BY DEF Calls!Init, OneRoom
  <1>6. QED
    BY <1>2, <1>3, <1>4, <1>5 DEF CallsInv

\* A record of a room stays one when its fields change.
LEMMA RoomFields ==
    ASSUME NEW x \in RoomState
    PROVE  /\ \A w \in BOOLEAN : [x EXCEPT !.wired = w] \in RoomState
           /\ \A l \in {"new", "up", "closed"} : [x EXCEPT !.link = l] \in RoomState
           /\ \A o \in SUBSET Media : [x EXCEPT !.own = o] \in RoomState
           /\ \A p \in Calls!Published : [x EXCEPT !.peer = p] \in RoomState
  BY DEF RoomState

\* A room is changed in place: its record stays one.
LEMMA RoomChanged ==
    ASSUME CallsTyped, NEW r \in DOMAIN rooms, NEW x \in RoomState, rooms' = [rooms EXCEPT ![r] = x]
    PROVE  /\ rooms' \in Seq(RoomState) /\ Len(rooms') = Len(rooms) /\ DOMAIN rooms' = DOMAIN rooms
           /\ rooms'[r] = x /\ \A k \in DOMAIN rooms : k # r => rooms'[k] = rooms[k]
  BY DEF CallsTyped

\* The calls that change keep their types if the new state has one.
LEMMA CallChanged ==
    ASSUME CallsTyped, NEW c \in Caller, NEW k \in CallState(Len(rooms)), Calls!Goto(c, k)
    PROVE  /\ call' \in [Caller -> CallState(Len(rooms))]
           /\ call'[c] = k /\ \A d \in Caller : d # c => call'[d] = call[d]
  BY DEF CallsTyped, Calls!Goto

LEMMA SyncedBar ==
    ASSUME NEW u \in Bar, NEW rs \in Seq(RoomState), room \in 0 .. Len(rs)
    PROVE  /\ Calls!Synced(u, rs) \in Bar
           /\ Calls!Synced(u, rs) = IF room = 0 THEN u ELSE [u EXCEPT !.view = Calls!View(rs[room])]
  <1>1. Calls!Synced(u, rs) = IF room = 0 THEN u ELSE [u EXCEPT !.view = Calls!View(rs[room])]
    BY DEF Calls!Synced
  <1>2. CASE room = 0
    BY <1>1, <1>2
  <1>3. CASE room # 0
    <2>1. rs[room] \in RoomState
      BY <1>3
    <2>2. Calls!View(rs[room]) \in Shown
      BY <2>1, Views
    <2>3. QED
      BY <1>1, <1>3, <2>2 DEF Bar
  <1>4. QED
    BY <1>1, <1>2, <1>3

LEMMA ResetBar ==
    /\ Calls!Reset \in Bar /\ ~Calls!Reset.connected /\ ~Calls!Reset.connecting
    /\ \A u \in Bar, ch \in Channel :
        /\ Calls!Connecting(u, ch) \in Bar
        /\ Calls!Connecting(u, ch).connecting /\ Calls!Connecting(u, ch).channel = ch
        /\ Calls!Connecting(u, ch).connected = u.connected
        /\ Calls!Connecting(u, ch).view = u.view
    /\ \A u \in Bar, on \in BOOLEAN :
        LET v == [u EXCEPT !.stage = on]
        IN  /\ v \in Bar /\ v.connected = u.connected /\ v.connecting = u.connecting
            /\ v.channel = u.channel /\ v.view = u.view
  <1>1. Calls!Reset \in Bar /\ ~Calls!Reset.connected /\ ~Calls!Reset.connecting
    BY Views DEF Calls!Reset, Bar
  <1>2. ASSUME NEW u \in Bar, NEW ch \in Channel
        PROVE  LET v == Calls!Connecting(u, ch)
               IN  v \in Bar /\ v.connecting /\ v.channel = ch /\ v.connected = u.connected /\ v.view = u.view
    BY DEF Calls!Connecting, Bar
  <1>3. ASSUME NEW u \in Bar, NEW on \in BOOLEAN
        PROVE  LET v == [u EXCEPT !.stage = on]
               IN  /\ v \in Bar /\ v.connected = u.connected /\ v.connecting = u.connecting
                   /\ v.channel = u.channel /\ v.view = u.view
    BY DEF Bar
  <1>4. QED
    BY <1>1, <1>2, <1>3

\* Where each call is, in the terms the invariant uses.
LEMMA CallPlaces ==
    ASSUME CallsTyped, NEW c \in Caller
    PROVE  /\ call[c] \in CallState(Len(rooms)) /\ Len(rooms) \in Nat /\ DOMAIN rooms = 1 .. Len(rooms)
           /\ Awaits(c) <=> call[c].pc \in {"leaving", "token", "connecting", "failing", "bailing"}
           /\ Awaits(c) /\ call[c].pc # "token" => call[c].r \in DOMAIN rooms
  <1>1. call[c] \in CallState(Len(rooms)) /\ Len(rooms) \in Nat /\ DOMAIN rooms = 1 .. Len(rooms)
    BY DEF CallsTyped
  <1>2. QED
    BY <1>1, CallFields DEF Awaits, Calls!Awaiting

\* The room in use is given up, by a call while no other awaits anything.
LEMMA GiveUpKeeps ==
    ASSUME CallsInv, NEW c \in Caller, call[c] = Calls!Idle, room # 0,
           NEW then \in Channel \cup {None}, Calls!GiveUp(c, then),
           ui' \in Bar, ui'.connected = ui.connected, ui'.connecting = ui.connecting,
           UNCHANGED changes, overlapping' \in BOOLEAN,
           ~overlapping' => ~overlapping /\ \A d \in Caller : ~Awaits(d)
    PROVE  CallsInv'
  <1> DEFINE given == [rooms[room] EXCEPT !.wired = FALSE]
             k == [pc |-> "leaving", r |-> room, then |-> then]
  <1>1. CallsTyped /\ room \in DOMAIN rooms /\ Len(rooms) \in Nat /\ DOMAIN rooms = 1 .. Len(rooms)
    BY DEF CallsInv, CallsTyped
  <1>2. given \in RoomState /\ given.link = rooms[room].link /\ given.channel = rooms[room].channel
        /\ given.wired = FALSE
    <2>1. rooms[room] \in RoomState /\ FALSE \in BOOLEAN
      BY <1>1 DEF CallsTyped
    <2>2. given \in RoomState
      BY <2>1, RoomFields
    <2>3. QED
      BY <2>1, <2>2 DEF RoomState
  <1>3. room' = 0 /\ rooms' = [rooms EXCEPT ![room] = given] /\ Calls!Goto(c, k)
    BY DEF Calls!GiveUp
  <1>4. k \in CallState(Len(rooms))
    BY <1>1, CallStates
  <1> HIDE DEF given
  <1>5. /\ rooms' \in Seq(RoomState) /\ Len(rooms') = Len(rooms) /\ DOMAIN rooms' = DOMAIN rooms
        /\ rooms'[room] = given /\ \A r \in DOMAIN rooms : r # room => rooms'[r] = rooms[r]
    BY <1>1, <1>2, <1>3, RoomChanged
  <1>6. /\ call' \in [Caller -> CallState(Len(rooms))]
        /\ call'[c] = k /\ \A d \in Caller : d # c => call'[d] = call[d]
    BY <1>1, <1>3, <1>4, CallChanged
  <1>7. CallsTyped'
    BY <1>1, <1>3, <1>5, <1>6 DEF CallsTyped
  <1>8. SomebodyConnects'
    BY <1>6 DEF CallsInv, SomebodyConnects, Connects
  <1>9. ASSUME ~overlapping'  PROVE  OneAtATime'
    BY <1>3, <1>6, <1>9 DEF OneAtATime, Awaits, Calls!Awaiting
  <1>10. ASSUME ~overlapping'  PROVE  OneRoom'
    <2>1. OneRoom /\ OneAtATime
      BY <1>10 DEF CallsInv
    <2>2. ASSUME NEW r \in DOMAIN rooms  PROVE  ~(rooms'[r].wired /\ rooms'[r].link # "closed")
      BY <1>2, <1>5, <2>1, <2>2 DEF OneRoom
    <2>3. ASSUME NEW r \in DOMAIN rooms  PROVE  ~Calls!Live(r)'
      <3>1. CASE r = room
        BY <1>6, <3>1 DEF Calls!Live
      <3>2. CASE r # room
        <4>1. ~Calls!Live(r)
          BY <2>1, <3>2 DEF OneRoom
        <4>2. call[c].pc = "idle"
          BY DEF Calls!Idle
        <4>3. QED
          BY <1>5, <1>6, <3>2, <4>1, <4>2 DEF Calls!Live
      <3>3. QED
        BY <3>1, <3>2
    <2>4. QED
      BY <1>3, <1>5, <2>2, <2>3 DEF OneRoom
  <1>11. QED
    BY <1>7, <1>8, <1>9, <1>10 DEF CallsInv

\* A room is asked for, by a call while no other awaits anything.
LEMMA AskKeeps ==
    ASSUME CallsInv, NEW c \in Caller, call[c] = Calls!Idle, room = 0, NEW ch \in Channel,
           Calls!Goto(c, [pc |-> "token", ch |-> ch]),
           ui' = Calls!Connecting(IF ui.connected THEN Calls!Reset ELSE ui, ch),
           UNCHANGED <<room, rooms, changes>>, overlapping' \in BOOLEAN,
           ~overlapping' => ~overlapping /\ \A d \in Caller : ~Awaits(d)
    PROVE  CallsInv'
  <1> DEFINE k == [pc |-> "token", ch |-> ch]
  <1>1. CallsTyped /\ Len(rooms) \in Nat
    BY DEF CallsInv, CallsTyped
  <1>2. /\ call' \in [Caller -> CallState(Len(rooms))]
        /\ call'[c] = k /\ \A d \in Caller : d # c => call'[d] = call[d]
    BY <1>1, CallStates, CallChanged
  <1>3. ui' \in Bar /\ ui'.connecting /\ ~ui'.connected /\ ui'.channel = ch
    BY <1>1, ResetBar DEF CallsTyped
  <1>4. CallsTyped'
    BY <1>1, <1>2, <1>3 DEF CallsTyped
  <1>5. SomebodyConnects'
    BY <1>2, <1>3 DEF SomebodyConnects, Connects
  <1>6. ASSUME ~overlapping'  PROVE  OneAtATime'
    BY <1>2, <1>3, <1>6 DEF OneAtATime, Awaits, Calls!Awaiting
  <1>7. ASSUME ~overlapping'  PROVE  OneRoom'
    <2>1. OneRoom
      BY <1>7 DEF CallsInv
    <2>2. ASSUME NEW r \in DOMAIN rooms  PROVE  ~Calls!Live(r)'
      <3>1. ~Calls!Live(r)
        BY <1>1, <2>1 DEF OneRoom, CallsTyped
      <3>2. call[c].pc = "idle"
        BY DEF Calls!Idle
      <3>3. QED
        BY <1>2, <3>1, <3>2 DEF Calls!Live
    <2>3. QED
      BY <2>1, <2>2 DEF OneRoom
  <1>8. QED
    BY <1>4, <1>5, <1>6, <1>7 DEF CallsInv

\* Only the stage changes, or the bar of no room is put away.
LEMMA BarKeeps ==
    ASSUME CallsInv, ui' \in Bar, UNCHANGED <<room, rooms, call, changes, overlapping>>,
           \/ /\ ui'.connected = ui.connected /\ ui'.connecting = ui.connecting
              /\ ui'.channel = ui.channel /\ ui'.view = ui.view
           \/ room = 0 /\ ui' = Calls!Reset /\ ui.connected
    PROVE  CallsInv'
  <1>1. CallsTyped'
    BY DEF CallsInv, CallsTyped
  <1>2. SomebodyConnects'
    BY ResetBar DEF CallsInv, SomebodyConnects, Connects
  <1>3. ASSUME ~overlapping  PROVE  OneAtATime'
    BY <1>3, ResetBar, CallPlaces DEF CallsInv, OneAtATime, Awaits
  <1>4. ASSUME ~overlapping  PROVE  OneRoom'
    BY <1>4, ResetBar DEF CallsInv, OneRoom, Calls!Live, CallsTyped
  <1>5. QED
    BY <1>1, <1>2, <1>3, <1>4 DEF CallsInv

LEMMA JoinKeeps ==
    ASSUME CallsInv, NEW c \in Caller, NEW ch \in Channel, Calls!Join(c, ch)
    PROVE  CallsInv'
  <1>1. CallsTyped /\ ui \in Bar /\ overlapping \in BOOLEAN
    BY DEF CallsInv, CallsTyped
  <1>2. CASE ui.connecting \/ (ui.connected /\ ui.channel = ch)
    <2>1. ui' = [ui EXCEPT !.stage = TRUE] /\ UNCHANGED <<room, rooms, call, changes, overlapping>>
      BY <1>2 DEF Calls!Join
    <2>2. QED
      BY <1>1, <2>1, ResetBar, BarKeeps
  <1>3. CASE ~(ui.connecting \/ (ui.connected /\ ui.channel = ch))
    <2>1. overlapping' = (overlapping \/ \E d \in Caller : call[d].pc \in Calls!Awaiting)
      BY <1>3 DEF Calls!Join
    <2>2. overlapping' \in BOOLEAN
      BY <2>1, Zenon
    <2>3. ~overlapping' => ~overlapping /\ \A d \in Caller : ~Awaits(d)
      BY <2>1, Zenon DEF Awaits
    <2>4. CASE room # 0
      <3>1. Calls!GiveUp(c, ch) /\ ui' = [ui EXCEPT !.stage = TRUE] /\ UNCHANGED changes
            /\ call[c] = Calls!Idle
        BY <1>3, <2>4 DEF Calls!Join
      <3>2. ui' \in Bar /\ ui'.connected = ui.connected /\ ui'.connecting = ui.connecting
        BY <1>1, <3>1, ResetBar
      <3>3. QED
        BY <2>2, <2>3, <2>4, <3>1, <3>2, GiveUpKeeps
    <2>5. CASE room = 0
      <3>1. /\ ui' = Calls!Connecting(IF ui.connected THEN Calls!Reset ELSE ui, ch)
            /\ Calls!Goto(c, [pc |-> "token", ch |-> ch])
            /\ UNCHANGED <<room, rooms, changes>> /\ call[c] = Calls!Idle
        BY <1>3, <2>5 DEF Calls!Join
      <3>2. QED
        BY <2>2, <2>3, <2>5, <3>1, AskKeeps
    <2>6. QED
      BY <2>4, <2>5
  <1>4. QED
    BY <1>2, <1>3

LEMMA HangupKeeps ==
    ASSUME CallsInv, NEW c \in Caller, Calls!Hangup(c)
    PROVE  CallsInv'
  <1>1. CallsTyped /\ ui \in Bar /\ overlapping \in BOOLEAN
    BY DEF CallsInv, CallsTyped
  <1>2. CASE room # 0
    <2>1. Calls!GiveUp(c, None) /\ UNCHANGED <<ui, changes, overlapping>> /\ call[c] = Calls!Idle
          /\ ui.connected
      BY <1>2 DEF Calls!Hangup
    <2>2. ASSUME ~overlapping, NEW d \in Caller  PROVE  ~Awaits(d)
      BY <1>2, <2>1, <2>2, CallPlaces DEF CallsInv, OneAtATime
    <2>3. QED
      BY <1>1, <1>2, <2>1, <2>2, GiveUpKeeps
  <1>3. CASE room = 0
    <2>1. ui' = Calls!Reset /\ UNCHANGED <<room, rooms, call, changes, overlapping>> /\ ui.connected
      BY <1>3 DEF Calls!Hangup
    <2>2. QED
      BY <1>3, <2>1, ResetBar, BarKeeps
  <1>4. QED
    BY <1>2, <1>3

LEMMA ShowStageKeeps ==
    ASSUME CallsInv, NEW on \in BOOLEAN, Calls!ShowStage(on)
    PROVE  CallsInv'
  <1>1. ui' = [ui EXCEPT !.stage = on] /\ UNCHANGED <<room, rooms, call, changes, overlapping>>
        /\ ui \in Bar
    BY DEF Calls!ShowStage, CallsInv, CallsTyped
  <1>2. QED
    BY <1>1, ResetBar, BarKeeps

\* The room that a call gave up is closed, and the call goes on, or ends.  Nobody
\* is in a room then.
LEMMA ClosingKeeps ==
    ASSUME CallsInv, NEW c \in Caller, call[c].pc \in {"leaving", "failing", "bailing"},
           rooms' = [rooms EXCEPT ![call[c].r].link = "closed"],
           \/ ui' = Calls!Reset /\ Calls!Goto(c, Calls!Idle)
           \/ \E ch \in Channel :
                ui' = Calls!Connecting(Calls!Reset, ch) /\ Calls!Goto(c, [pc |-> "token", ch |-> ch])
           \/ ui' = ui /\ call[c].pc = "bailing" /\ Calls!Goto(c, Calls!Idle),
           UNCHANGED <<room, changes, overlapping>>
    PROVE  CallsInv'
  <1> DEFINE r == call[c].r
             x == [rooms[r] EXCEPT !.link = "closed"]
  <1>1. CallsTyped /\ Len(rooms) \in Nat /\ DOMAIN rooms = 1 .. Len(rooms) /\ Awaits(c)
        /\ r \in DOMAIN rooms
    <2>1. CallsTyped
      BY DEF CallsInv
    <2>2. QED
      BY <2>1, CallPlaces
  <1>2. rooms[r] \in RoomState /\ x \in RoomState
    <2>1. rooms[r] \in RoomState
      BY <1>1 DEF CallsTyped
    <2>2. QED
      BY <2>1, RoomFields
  <1>3. x.link = "closed" /\ x.wired = rooms[r].wired /\ x.channel = rooms[r].channel
    BY <1>2 DEF RoomState
  <1>4. rooms' = [rooms EXCEPT ![r] = x]
    BY <1>1
  <1> HIDE DEF x
  <1>5. /\ rooms' \in Seq(RoomState) /\ Len(rooms') = Len(rooms) /\ DOMAIN rooms' = DOMAIN rooms
        /\ rooms'[r] = x /\ \A k \in DOMAIN rooms : k # r => rooms'[k] = rooms[k]
    BY <1>1, <1>2, <1>4, RoomChanged
  <1>6. /\ call' \in [Caller -> CallState(Len(rooms))]
        /\ \A d \in Caller : d # c => call'[d] = call[d]
        /\ \/ call'[c].pc = "idle" /\ (ui' = Calls!Reset \/ (ui' = ui /\ call[c].pc = "bailing"))
           \/ call'[c].pc = "token" /\ \E ch \in Channel :
                    call'[c].ch = ch /\ ui' = Calls!Connecting(Calls!Reset, ch)
    <2>1. CASE ui' = Calls!Reset /\ Calls!Goto(c, Calls!Idle)
      <3>1. Calls!Idle \in CallState(Len(rooms)) /\ Calls!Idle.pc = "idle"
        BY <1>1, CallStates DEF Calls!Idle
      <3>2. QED
        BY <1>1, <2>1, <3>1, CallChanged
    <2>2. CASE ui' = ui /\ call[c].pc = "bailing" /\ Calls!Goto(c, Calls!Idle)
      <3>1. Calls!Idle \in CallState(Len(rooms)) /\ Calls!Idle.pc = "idle"
        BY <1>1, CallStates DEF Calls!Idle
      <3>2. QED
        BY <1>1, <2>2, <3>1, CallChanged
    <2>3. ASSUME NEW ch \in Channel, ui' = Calls!Connecting(Calls!Reset, ch),
                 Calls!Goto(c, [pc |-> "token", ch |-> ch])
          PROVE  /\ call' \in [Caller -> CallState(Len(rooms))]
                 /\ \A d \in Caller : d # c => call'[d] = call[d]
                 /\ call'[c].pc = "token" /\ call'[c].ch = ch
      <3>1. [pc |-> "token", ch |-> ch] \in CallState(Len(rooms))
        BY <1>1, CallStates
      <3>2. /\ call' \in [Caller -> CallState(Len(rooms))]
            /\ call'[c] = [pc |-> "token", ch |-> ch]
            /\ \A d \in Caller : d # c => call'[d] = call[d]
        BY <1>1, <2>3, <3>1, CallChanged
      <3>3. QED
        BY <2>3, <3>2
    <2>4. QED
      BY <2>1, <2>2, <2>3
  <1>7. ui' \in Bar /\ (ui' = ui \/ (~ui'.connected /\ (ui'.connecting => call'[c].pc = "token")))
    BY <1>1, <1>6, ResetBar DEF CallsTyped
  <1>8. CallsTyped'
    BY <1>1, <1>5, <1>6, <1>7 DEF CallsTyped
  <1>9. SomebodyConnects'
    <2>1. CASE ui' = ui /\ call[c].pc = "bailing"
      BY <1>6, <2>1 DEF CallsInv, SomebodyConnects, Connects
    <2>2. CASE ui' # ui \/ call[c].pc # "bailing"
      BY <1>6, <1>7, <2>2, ResetBar DEF CallsInv, SomebodyConnects, Connects
    <2>3. QED
      BY <2>1, <2>2
  <1>10. ASSUME ~overlapping  PROVE  OneAtATime' /\ OneRoom'
    <2>1. OneAtATime /\ OneRoom
      BY <1>10 DEF CallsInv
    <2>2. room = 0 /\ \A d \in Caller : d # c => ~Awaits(d)
      BY <1>1, <2>1 DEF OneAtATime
    <2>3. OneAtATime'
      BY <1>6, <2>1, <2>2, ResetBar DEF OneAtATime, Awaits, Calls!Awaiting
    <2>4. ASSUME NEW k \in DOMAIN rooms  PROVE  ~Calls!Live(k)'
      <3>1. CASE k = r
        BY <1>3, <1>5, <3>1 DEF Calls!Live
      <3>2. CASE k # r
        <4>1. ~Calls!Live(k)
          BY <1>1, <2>1, <2>2 DEF OneRoom
        <4>2. QED
          BY <1>5, <1>6, <3>2, <4>1 DEF Calls!Live
      <3>3. QED
        BY <3>1, <3>2
    <2>5. OneRoom'
      BY <1>3, <1>5, <2>1, <2>2, <2>4 DEF OneRoom
    <2>6. QED
      BY <2>3, <2>5
  <1>11. QED
    BY <1>8, <1>9, <1>10 DEF CallsInv

LEMMA LeftKeeps ==
    ASSUME CallsInv, NEW c \in Caller, Calls!Left(c)
    PROVE  CallsInv'
  <1>1. call[c].then \in Channel \cup {None}
    BY CallPlaces, CallFields DEF CallsInv, Calls!Left
  <1>2. QED
    BY <1>1, ClosingKeeps DEF Calls!Left

LEMMA AbandonedKeeps ==
    ASSUME CallsInv, NEW c \in Caller, Calls!Abandoned(c)
    PROVE  CallsInv'
  BY ClosingKeeps DEF Calls!Abandoned

LEMMA TokenFailsKeeps ==
    ASSUME CallsInv, NEW c \in Caller, Calls!TokenFails(c)
    PROVE  CallsInv'
  <1>1. CallsTyped /\ Len(rooms) \in Nat /\ Awaits(c)
    <2>1. CallsTyped
      BY DEF CallsInv
    <2>2. QED
      BY <2>1, CallPlaces DEF Calls!TokenFails
  <1>2. ui' = Calls!Reset /\ UNCHANGED <<room, rooms, changes, overlapping>> /\ call[c].pc = "token"
    BY DEF Calls!TokenFails
  <1>3. /\ call' \in [Caller -> CallState(Len(rooms))]
        /\ call'[c].pc = "idle" /\ \A d \in Caller : d # c => call'[d] = call[d]
    BY <1>1, CallStates, CallChanged DEF Calls!TokenFails, Calls!Idle
  <1>4. CallsTyped'
    BY <1>1, <1>2, <1>3, ResetBar DEF CallsTyped
  <1>5. SomebodyConnects'
    BY <1>2, ResetBar DEF SomebodyConnects
  <1>6. ASSUME ~overlapping  PROVE  OneAtATime' /\ OneRoom'
    <2>1. OneAtATime /\ OneRoom
      BY <1>6 DEF CallsInv
    <2>2. room = 0 /\ \A d \in Caller : d # c => ~Awaits(d)
      BY <1>1, <1>2, <2>1 DEF OneAtATime
    <2>3. OneAtATime'
      BY <1>3, <2>2 DEF OneAtATime, Awaits, Calls!Awaiting
    <2>4. ASSUME NEW k \in DOMAIN rooms  PROVE  ~Calls!Live(k)'
      <3>1. ~Calls!Live(k)
        BY <1>1, <2>1, <2>2 DEF OneRoom, CallsTyped
      <3>2. QED
        BY <1>2, <1>3, <3>1 DEF Calls!Live
    <2>5. OneRoom'
      BY <1>2, <2>1, <2>2, <2>4 DEF OneRoom
    <2>6. QED
      BY <2>3, <2>5
  <1>7. QED
    BY <1>2, <1>4, <1>5, <1>6 DEF CallsInv

\* The token has come: the call connects a new room, which is the one in use.
LEMMA TokenArrivesKeeps ==
    ASSUME CallsInv, NEW c \in Caller, Calls!TokenArrives(c)
    PROVE  CallsInv'
  <1> DEFINE n == Len(rooms) + 1
             x == [channel |-> call[c].ch, link |-> "new", wired |-> TRUE,
                   own |-> {}, peer |-> Calls!Absent]
             k == [pc |-> "connecting", r |-> n]
  <1>1. /\ CallsTyped /\ Len(rooms) \in Nat /\ DOMAIN rooms = 1 .. Len(rooms) /\ Awaits(c)
        /\ call[c].pc = "token" /\ call[c].ch \in Channel /\ Len(rooms) < MaxRooms
    <2>1. CallsTyped /\ call[c].pc = "token" /\ Len(rooms) < MaxRooms
      BY DEF CallsInv, Calls!TokenArrives
    <2>2. Len(rooms) \in Nat /\ DOMAIN rooms = 1 .. Len(rooms) /\ Awaits(c) /\ call[c] \in CallState(Len(rooms))
      BY <2>1, CallPlaces
    <2>3. QED
      BY <2>1, <2>2, CallFields
  <1>2. /\ rooms' = Append(rooms, x) /\ room' = n /\ Calls!Goto(c, k)
        /\ UNCHANGED <<ui, changes, overlapping>>
    BY DEF Calls!TokenArrives
  <1>3. x \in RoomState /\ x.channel = call[c].ch /\ x.link = "new" /\ x.wired = TRUE
    BY <1>1, CallsConstants DEF RoomState, Calls!Published
  <1> HIDE DEF x
  <1>4. /\ rooms' \in Seq(RoomState) /\ Len(rooms') = n /\ DOMAIN rooms' = 1 .. n
        /\ rooms'[n] = x /\ \A r \in DOMAIN rooms : rooms'[r] = rooms[r]
    BY <1>1, <1>2, <1>3 DEF CallsTyped
  <1>5. n \in Nat /\ CallState(Len(rooms)) \subseteq CallState(n) /\ k \in CallState(n)
    <2>1. n \in Nat /\ n \in 1 .. n
      BY <1>1
    <2>2. k \in CallState(n)
      BY <2>1, CallStates
    <2>3. QED
      BY <1>1, <2>1, <2>2, CallStateGrows
  <1>6. /\ call' \in [Caller -> CallState(n)]
        /\ call'[c] = k /\ \A d \in Caller : d # c => call'[d] = call[d]
    BY <1>1, <1>2, <1>5 DEF CallsTyped, Calls!Goto
  <1>7. CallsTyped'
    BY <1>1, <1>2, <1>4, <1>6, CallsConstants DEF CallsTyped
  <1>8. SomebodyConnects'
    BY <1>2, <1>6 DEF CallsInv, SomebodyConnects, Connects
  <1>9. ASSUME ~overlapping  PROVE  OneAtATime' /\ OneRoom'
    <2>1. OneAtATime /\ OneRoom
      BY <1>9 DEF CallsInv
    <2>2. room = 0 /\ ~ui.connected /\ ui.channel = call[c].ch /\ \A d \in Caller : d # c => ~Awaits(d)
      BY <1>1, <2>1 DEF OneAtATime
    <2>3. OneAtATime'
      <3>1. \A d \in Caller : Awaits(d)' => d = c
        BY <1>6, <2>2 DEF Awaits
      <3>2. k.pc = "connecting" /\ k.r = n
        OBVIOUS
      <3>3. \A d \in Caller : call'[d].pc \in {"token", "connecting"} => d = c
        BY <3>1 DEF Awaits, Calls!Awaiting
      <3>4. QED
        BY <1>2, <1>3, <1>4, <1>6, <2>2, <3>1, <3>2, <3>3 DEF OneAtATime
    <2>4. ASSUME NEW r \in 1 .. n  PROVE  ~Calls!Live(r)'
      <3>1. CASE r = n
        BY <1>3, <1>4, <3>1 DEF Calls!Live
      <3>2. CASE r # n
        <4>1. r \in DOMAIN rooms /\ ~Calls!Live(r)
          BY <1>1, <2>1, <2>2, <3>2 DEF OneRoom
        <4>2. QED
          BY <1>1, <1>4, <1>6, <4>1 DEF Calls!Live
      <3>3. QED
        BY <3>1, <3>2
    <2>5. ASSUME NEW r \in 1 .. n, r # n  PROVE  ~(rooms'[r].wired /\ rooms'[r].link # "closed")
      BY <1>1, <1>4, <2>1, <2>2, <2>5 DEF OneRoom
    <2>6. OneRoom'
      BY <1>2, <1>3, <1>4, <2>2, <2>4, <2>5 DEF OneRoom
    <2>7. QED
      BY <2>3, <2>6
  <1>10. QED
    BY <1>2, <1>7, <1>8, <1>9 DEF CallsInv

\* connect has failed: nobody is in a room, and this call is to close the one it had.
LEMMA ConnectFailsKeeps ==
    ASSUME CallsInv, NEW c \in Caller, Calls!ConnectFails(c)
    PROVE  CallsInv'
  <1> DEFINE r == call[c].r
             x == [rooms[r] EXCEPT !.wired = FALSE]
             k == [pc |-> "failing", r |-> r]
  <1>1. CallsTyped /\ call[c].pc = "connecting"
    BY DEF CallsInv, Calls!ConnectFails
  <1>2. Len(rooms) \in Nat /\ DOMAIN rooms = 1 .. Len(rooms) /\ Awaits(c) /\ r \in DOMAIN rooms
    BY <1>1, CallPlaces
  <1>3. /\ room' = (IF room = r THEN 0 ELSE room) /\ rooms' = [rooms EXCEPT ![r] = x] /\ Calls!Goto(c, k)
        /\ UNCHANGED <<ui, changes, overlapping>>
    BY DEF Calls!ConnectFails
  <1>4. x \in RoomState /\ x.wired = FALSE
    <2>1. rooms[r] \in RoomState
      BY <1>1, <1>2 DEF CallsTyped
    <2>2. x \in RoomState
      BY <2>1, RoomFields
    <2>3. QED
      BY <2>1, <2>2 DEF RoomState
  <1>5. k \in CallState(Len(rooms))
    BY <1>2, CallStates
  <1> HIDE DEF x
  <1>6. /\ rooms' \in Seq(RoomState) /\ Len(rooms') = Len(rooms) /\ DOMAIN rooms' = DOMAIN rooms
        /\ rooms'[r] = x /\ \A s \in DOMAIN rooms : s # r => rooms'[s] = rooms[s]
    BY <1>1, <1>2, <1>3, <1>4, RoomChanged
  <1>7. /\ call' \in [Caller -> CallState(Len(rooms))]
        /\ call'[c] = k /\ \A d \in Caller : d # c => call'[d] = call[d]
    BY <1>1, <1>3, <1>5, CallChanged
  <1>8. CallsTyped'
    BY <1>1, <1>2, <1>3, <1>6, <1>7 DEF CallsTyped
  <1>9. SomebodyConnects'
    BY <1>3, <1>7 DEF CallsInv, SomebodyConnects, Connects
  <1>10. ASSUME ~overlapping  PROVE  OneAtATime' /\ OneRoom'
    <2>1. OneAtATime /\ OneRoom
      BY <1>10 DEF CallsInv
    <2>2. room \in {0, r} /\ room' = 0 /\ ~ui.connected /\ \A d \in Caller : d # c => ~Awaits(d)
      BY <1>1, <1>2, <1>3, <2>1 DEF OneAtATime
    <2>3. OneAtATime'
      BY <1>3, <1>7, <2>2 DEF OneAtATime, Awaits, Calls!Awaiting
    <2>4. ASSUME NEW s \in DOMAIN rooms
          PROVE  ~Calls!Live(s)' /\ ~(rooms'[s].wired /\ rooms'[s].link # "closed")
      <3>1. CASE s = r
        BY <1>4, <1>6, <1>7, <3>1 DEF Calls!Live
      <3>2. CASE s # r
        <4>1. ~Calls!Live(s) /\ ~(rooms[s].wired /\ rooms[s].link # "closed")
          BY <1>2, <2>1, <2>2, <3>2 DEF OneRoom
        <4>2. QED
          BY <1>1, <1>6, <1>7, <3>2, <4>1 DEF Calls!Live
      <3>3. QED
        BY <3>1, <3>2
    <2>5. OneRoom'
      BY <1>6, <2>2, <2>4 DEF OneRoom
    <2>6. QED
      BY <2>3, <2>5
  <1>11. QED
    BY <1>3, <1>8, <1>9, <1>10 DEF CallsInv

\* A device is asked for: no room and no other call is touched.
LEMMA ToggleKeeps ==
    ASSUME CallsInv, NEW c \in Caller, NEW m \in Media, Calls!Toggle(c, m)
    PROVE  CallsInv'
  <1> DEFINE k == [pc |-> "media", r |-> room, m |-> m, on |-> m \notin rooms[room].own, sync |-> TRUE]
  <1>1. /\ CallsTyped /\ room \in 1 .. Len(rooms) /\ Len(rooms) \in Nat
        /\ call[c].pc = "idle" /\ Calls!Goto(c, k) /\ changes' \in 0 .. MaxChanges
        /\ UNCHANGED <<room, rooms, ui, overlapping>>
    BY CallsConstants DEF CallsInv, CallsTyped, Calls!Toggle, Calls!Idle
  <1>2. k \in CallState(Len(rooms)) /\ k.pc = "media"
    <2>1. (m \notin rooms[room].own) \in BOOLEAN
      OBVIOUS
    <2>2. QED
      BY <1>1, <2>1, CallStates
  <1> HIDE DEF k
  <1>3. /\ call' \in [Caller -> CallState(Len(rooms))]
        /\ call'[c] = k /\ \A d \in Caller : d # c => call'[d] = call[d]
    BY <1>1, <1>2, CallChanged
  <1>4. CallsTyped'
    BY <1>1, <1>3 DEF CallsTyped
  <1>5. SomebodyConnects'
    BY <1>1, <1>3 DEF CallsInv, SomebodyConnects, Connects
  <1>6. ASSUME ~overlapping  PROVE  OneAtATime'
    <2>1. \A d \in Caller : Awaits(d)' => Awaits(d) /\ call'[d] = call[d]
      BY <1>2, <1>3 DEF Awaits, Calls!Awaiting
    <2>2. \A d \in Caller : call'[d].pc \in {"token", "connecting"} => call'[d] = call[d]
      BY <1>2, <1>3
    <2>3. QED
      BY <1>1, <1>6, <2>1, <2>2 DEF CallsInv, OneAtATime
  <1>7. ASSUME ~overlapping  PROVE  OneRoom'
    <2>1. ASSUME NEW r \in DOMAIN rooms, Calls!Live(r)'  PROVE  Calls!Live(r)
      BY <1>1, <1>3, <2>1 DEF Calls!Live
    <2>2. QED
      BY <1>1, <1>7, <2>1 DEF CallsInv, OneRoom
  <1>8. QED
    BY <1>1, <1>4, <1>5, <1>6, <1>7 DEF CallsInv

\* A room of which something changes but neither its channel nor that it is wired,
\* with the store showing it if it is the one in use: what there is to see is
\* still shown, and whoever awaits something still does.
LEMMA ShowingKeeps ==
    ASSUME CallsInv, NEW r \in DOMAIN rooms, NEW x \in RoomState, rooms' = [rooms EXCEPT ![r] = x],
           x.channel = rooms[r].channel, x.wired = rooms[r].wired, x.link = rooms[r].link,
           \/ ui' = Calls!Synced(ui, rooms')
           \/ ui' = ui /\ (x = rooms[r] \/ r # room \/ overlapping),
           call' \in [Caller -> CallState(Len(rooms))],
           \A d \in Caller : call'[d] = call[d] \/ (call[d].pc = "media" /\ call'[d].pc = "idle"),
           UNCHANGED <<room, overlapping>>, changes' \in 0 .. MaxChanges
    PROVE  CallsInv'
  <1>1. CallsTyped /\ room \in 0 .. Len(rooms) /\ Len(rooms) \in Nat /\ DOMAIN rooms = 1 .. Len(rooms)
        /\ ui \in Bar
    BY DEF CallsInv, CallsTyped
  <1>2. /\ rooms' \in Seq(RoomState) /\ Len(rooms') = Len(rooms) /\ DOMAIN rooms' = DOMAIN rooms
        /\ rooms'[r] = x /\ \A s \in DOMAIN rooms : s # r => rooms'[s] = rooms[s]
    BY <1>1, RoomChanged
  <1>3. /\ ui' \in Bar /\ ui'.connected = ui.connected /\ ui'.connecting = ui.connecting
        /\ ui'.channel = ui.channel
        /\ ui' = Calls!Synced(ui, rooms') /\ room # 0 => ui'.view = Calls!View(rooms'[room])
    <2>1. CASE ui' = Calls!Synced(ui, rooms')
      <3>1. ui' \in Bar /\ ui' = IF room = 0 THEN ui ELSE [ui EXCEPT !.view = Calls!View(rooms'[room])]
        BY <1>1, <1>2, <2>1, SyncedBar
      <3>2. QED
        BY <1>1, <3>1 DEF Bar
    <2>2. CASE ui' # Calls!Synced(ui, rooms')
      BY <1>1, <2>2
    <2>3. QED
      BY <2>1, <2>2
  <1>4. CallsTyped'
    BY <1>1, <1>2, <1>3 DEF CallsTyped
  <1>5. SomebodyConnects'
    BY <1>3 DEF CallsInv, SomebodyConnects, Connects
  <1>6. \A s \in DOMAIN rooms :
            /\ rooms'[s].channel = rooms[s].channel /\ rooms'[s].wired = rooms[s].wired
            /\ rooms'[s].link = rooms[s].link
    BY <1>2
  <1>7. ASSUME ~overlapping  PROVE  OneAtATime'
    <2>1. OneAtATime
      BY <1>7 DEF CallsInv
    <2>2. ASSUME NEW d \in Caller
          PROVE  /\ Awaits(d)' => Awaits(d) /\ call'[d] = call[d]
                 /\ call'[d].pc \in {"token", "connecting"} => call'[d] = call[d]
      BY DEF Awaits, Calls!Awaiting
    <2>3. room # 0 => rooms'[room].channel = rooms[room].channel
      BY <1>1, <1>6
    <2>4. QED
      BY <1>3, <2>1, <2>2, <2>3 DEF OneAtATime
  <1>8. ASSUME ~overlapping  PROVE  OneRoom'
    <2>1. OneRoom
      BY <1>8 DEF CallsInv
    <2>2. ASSUME NEW s \in DOMAIN rooms, Calls!Live(s)'  PROVE  Calls!Live(s)
      BY <1>6, <2>2 DEF Calls!Live
    <2>3. ASSUME ui.connected, room # 0  PROVE  ui'.view = Calls!View(rooms'[room])
      <3>1. CASE ui' = Calls!Synced(ui, rooms')
        BY <1>3, <2>3, <3>1
      <3>2. CASE ui' = ui /\ rooms'[room] = rooms[room]
        BY <2>1, <2>3, <3>2 DEF OneRoom
      <3>3. QED
        BY <1>1, <1>2, <1>8, <2>3, <3>1, <3>2
    <2>4. QED
      BY <1>1, <1>2, <1>3, <1>6, <2>1, <2>2, <2>3 DEF OneRoom
  <1>9. QED
    BY <1>4, <1>5, <1>7, <1>8 DEF CallsInv

LEMMA MediaAnswerKeeps ==
    ASSUME CallsInv, NEW c \in Caller, Calls!MediaAnswer(c)
    PROVE  CallsInv'
  <1> DEFINE r == call[c].r
             own == IF call[c].on THEN rooms[r].own \cup {call[c].m} ELSE rooms[r].own \ {call[c].m}
             x == IF rooms' = rooms THEN rooms[r] ELSE [rooms[r] EXCEPT !.own = own]
  <1>1. CallsTyped /\ call[c].pc = "media"
    BY DEF CallsInv, Calls!MediaAnswer
  <1>2. Len(rooms) \in Nat /\ DOMAIN rooms = 1 .. Len(rooms) /\ call[c] \in CallState(Len(rooms))
    BY <1>1, CallPlaces
  <1>3. r \in DOMAIN rooms /\ call[c].m \in Media
    BY <1>1, <1>2, CallFields
  <1>4. rooms[r] \in RoomState /\ rooms[r].own \subseteq Media
    <2>1. rooms[r] \in RoomState
      BY <1>1, <1>3 DEF CallsTyped
    <2>2. QED
      BY <2>1 DEF RoomState
  <1>5. x \in RoomState /\ x.channel = rooms[r].channel /\ x.wired = rooms[r].wired /\ x.link = rooms[r].link
    <2>1. own \in SUBSET Media
      BY <1>3, <1>4
    <2>2. [rooms[r] EXCEPT !.own = own] \in RoomState
      BY <1>4, <2>1, RoomFields
    <2>3. QED
      BY <1>4, <2>2 DEF RoomState
  <1>6. rooms' = [rooms EXCEPT ![r] = x]
    <2>1. CASE rooms' = rooms
      BY <1>1, <2>1 DEF CallsTyped
    <2>2. CASE rooms' # rooms
      <3>1. rooms' = [rooms EXCEPT ![r].own =
                          IF call[c].on THEN @ \cup {call[c].m} ELSE @ \ {call[c].m}]
        BY <2>2 DEF Calls!MediaAnswer, Calls!Granted
      <3>2. QED
        BY <2>2, <3>1
    <2>3. QED
      BY <2>1, <2>2
  <1>7. ui' = Calls!Synced(ui, rooms') \/ (ui' = ui /\ r # room)
    BY DEF Calls!MediaAnswer
  <1>8. /\ call' \in [Caller -> CallState(Len(rooms))]
        /\ \A d \in Caller : call'[d] = call[d] \/ (call[d].pc = "media" /\ call'[d].pc = "idle")
    <2>1. Calls!Idle \in CallState(Len(rooms)) /\ Calls!Idle.pc = "idle" /\ Calls!Goto(c, Calls!Idle)
      BY <1>2, CallStates DEF Calls!Idle, Calls!MediaAnswer
    <2>2. QED
      BY <1>1, <2>1, CallChanged
  <1>9. UNCHANGED <<room, overlapping>> /\ changes' \in 0 .. MaxChanges
    BY <1>1 DEF CallsTyped, Calls!MediaAnswer
  <1> HIDE DEF x, own
  <1>10. QED
    BY <1>3, <1>5, <1>6, <1>7, <1>8, <1>9, ShowingKeeps

LEMMA PeerChangesKeeps ==
    ASSUME CallsInv, NEW r \in DOMAIN rooms, NEW media \in Calls!Published, Calls!PeerChanges(r, media)
    PROVE  CallsInv'
  <1> DEFINE x == [rooms[r] EXCEPT !.peer = media]
  <1>1. CallsTyped /\ rooms[r] \in RoomState /\ changes' \in 0 .. MaxChanges
    BY CallsConstants DEF CallsInv, CallsTyped, Calls!PeerChanges
  <1>2. x \in RoomState /\ x.channel = rooms[r].channel /\ x.wired = rooms[r].wired /\ x.link = rooms[r].link
    <2>1. x \in RoomState
      BY <1>1, RoomFields
    <2>2. QED
      BY <1>1, <2>1 DEF RoomState
  <1>3. rooms' = [rooms EXCEPT ![r] = x] /\ UNCHANGED <<room, call, overlapping>>
        /\ ui' = IF rooms[r].wired THEN Calls!Synced(ui, rooms') ELSE ui
    BY DEF Calls!PeerChanges
  <1>4. ui' = Calls!Synced(ui, rooms') \/ (ui' = ui /\ (r # room \/ overlapping))
    <2>1. CASE rooms[r].wired
      BY <1>3, <2>1
    <2>2. CASE ~rooms[r].wired
      <3>1. ~overlapping => r # room
        BY <1>1, <2>2 DEF CallsInv, OneRoom, CallsTyped
      <3>2. QED
        BY <1>1, <1>3, <2>2, <3>1 DEF CallsTyped
    <2>3. QED
      BY <2>1, <2>2
  <1>5. call' \in [Caller -> CallState(Len(rooms))]
    BY <1>1, <1>3 DEF CallsTyped
  <1> HIDE DEF x
  <1>6. QED
    BY <1>1, <1>2, <1>3, <1>4, <1>5, ShowingKeeps

\* connect has resolved: the call goes on in its room, or closes it if it was
\* given up meanwhile.
LEMMA ConnectsKeeps ==
    ASSUME CallsInv, NEW c \in Caller, Calls!Connects(c)
    PROVE  CallsInv'
  <1> DEFINE r == call[c].r
             on == [ui EXCEPT !.connected = TRUE, !.connecting = FALSE]
             going == [pc |-> "media", r |-> r, m |-> "mic", on |-> TRUE, sync |-> FALSE]
             closing == [pc |-> "bailing", r |-> r]
  <1>1. /\ CallsTyped /\ call[c].pc = "connecting" /\ rooms[r].link = "new"
        /\ UNCHANGED <<room, changes, overlapping>> /\ ui \in Bar /\ room \in 0 .. Len(rooms)
    BY DEF CallsInv, CallsTyped, Calls!Connects
  <1>2. Len(rooms) \in Nat /\ DOMAIN rooms = 1 .. Len(rooms) /\ Awaits(c) /\ r \in DOMAIN rooms
    BY <1>1, CallPlaces
  <1>3. PICK x \in RoomState :
            /\ rooms' = [rooms EXCEPT ![r] = x]
            /\ x.link = "up" /\ x.channel = rooms[r].channel /\ (x.wired <=> rooms[r].wired /\ room = r)
    <2>1. PICK peer \in Calls!Published :
              rooms' = [rooms EXCEPT ![r].link = "up", ![r].peer = peer, ![r].wired = @ /\ room = r]
      BY DEF Calls!Connects
    <2> DEFINE x == [rooms[r] EXCEPT !.link = "up", !.peer = peer, !.wired = @ /\ room = r]
    <2>2. rooms[r] \in RoomState
      BY <1>1, <1>2 DEF CallsTyped
    <2>3. x \in RoomState /\ x.link = "up" /\ x.channel = rooms[r].channel
          /\ x.wired = (rooms[r].wired /\ room = r)
      <3>1. (rooms[r].wired /\ room = r) \in BOOLEAN
        OBVIOUS
      <3>2. QED
        BY <2>2, <3>1 DEF RoomState
    <2>4. rooms' = [rooms EXCEPT ![r] = x]
      BY <1>1, <1>2, <2>1 DEF CallsTyped
    <2> HIDE DEF x
    <2>5. QED
      BY <2>3, <2>4
  <1>4. /\ rooms' \in Seq(RoomState) /\ Len(rooms') = Len(rooms) /\ DOMAIN rooms' = DOMAIN rooms
        /\ rooms'[r] = x /\ \A s \in DOMAIN rooms : s # r => rooms'[s] = rooms[s]
    BY <1>1, <1>2, <1>3, RoomChanged
  <1>5. CASE room = r
    <2>1. ui' = Calls!Synced(on, rooms') /\ Calls!Goto(c, going)
      BY <1>5 DEF Calls!Connects
    <2>2. on \in Bar /\ on.connected = TRUE /\ on.connecting = FALSE /\ on.channel = ui.channel
      BY <1>1 DEF Bar
    <2> HIDE DEF on
    <2>3. /\ ui' \in Bar /\ ui'.connected = TRUE /\ ui'.connecting = FALSE /\ ui'.channel = ui.channel
          /\ ui'.view = Calls!View(rooms'[room])
      <3>1. ui' \in Bar /\ ui' = [on EXCEPT !.view = Calls!View(rooms'[room])]
        <4>1. room # 0
          BY <1>2, <1>5
        <4>2. QED
          BY <1>1, <1>4, <2>1, <2>2, <4>1, SyncedBar
      <3>2. QED
        BY <2>2, <3>1 DEF Bar
    <2>4. going \in CallState(Len(rooms))
      BY <1>2, CallsConstants, CallStates
    <2>5. /\ call' \in [Caller -> CallState(Len(rooms))]
          /\ call'[c] = going /\ \A d \in Caller : d # c => call'[d] = call[d]
      BY <1>1, <2>1, <2>4, CallChanged
    <2>6. CallsTyped'
      BY <1>1, <1>4, <2>3, <2>5 DEF CallsTyped
    <2>7. SomebodyConnects'
      BY <2>3 DEF SomebodyConnects
    <2>8. ASSUME ~overlapping  PROVE  OneAtATime' /\ OneRoom'
      <3>1. OneAtATime /\ OneRoom
        BY <2>8 DEF CallsInv
      <3>2. /\ room # 0 /\ ui.channel = rooms[r].channel /\ rooms[r].wired
            /\ \A d \in Caller : d # c => ~Awaits(d)
        BY <1>1, <1>2, <1>5, <3>1 DEF OneAtATime, OneRoom
      <3>3. OneAtATime'
        BY <2>5, <3>2 DEF OneAtATime, Awaits, Calls!Awaiting
      <3>4. ASSUME NEW s \in DOMAIN rooms, s # r
            PROVE  ~Calls!Live(s)' /\ ~(rooms'[s].wired /\ rooms'[s].link # "closed")
        <4>1. ~Calls!Live(s) /\ ~(rooms[s].wired /\ rooms[s].link # "closed")
          BY <1>5, <3>1, <3>4 DEF OneRoom
        <4>2. QED
          BY <1>1, <1>4, <2>5, <3>4, <4>1 DEF Calls!Live
      <3>5. OneRoom'
        BY <1>1, <1>3, <1>4, <1>5, <2>3, <3>2, <3>4 DEF OneRoom
      <3>6. QED
        BY <3>3, <3>5
    <2>9. QED
      BY <1>1, <2>6, <2>7, <2>8 DEF CallsInv
  <1>6. CASE room # r
    <2>1. ui' = ui /\ Calls!Goto(c, closing)
      BY <1>6 DEF Calls!Connects
    <2>2. closing \in CallState(Len(rooms))
      BY <1>2, CallStates
    <2>3. /\ call' \in [Caller -> CallState(Len(rooms))]
          /\ call'[c] = closing /\ \A d \in Caller : d # c => call'[d] = call[d]
      BY <1>1, <2>1, <2>2, CallChanged
    <2>4. CallsTyped'
      BY <1>1, <1>4, <2>1, <2>3 DEF CallsTyped
    <2>5. SomebodyConnects'
      <3>1. ~Connects(c)
        BY <1>1, <1>6 DEF Connects
      <3>2. \A d \in Caller : Connects(d) => Connects(d)'
        BY <1>1, <2>3, <3>1 DEF Connects
      <3>3. QED
        BY <2>1, <3>2 DEF CallsInv, SomebodyConnects
    <2>6. ASSUME ~overlapping  PROVE  OneAtATime' /\ OneRoom'
      <3>1. OneAtATime /\ OneRoom
        BY <2>6 DEF CallsInv
      <3>2. room = 0 /\ ~ui.connected /\ \A d \in Caller : d # c => ~Awaits(d)
        BY <1>1, <1>2, <1>6, <3>1 DEF OneAtATime
      <3>3. OneAtATime'
        BY <1>1, <2>1, <2>3, <3>2 DEF OneAtATime, Awaits, Calls!Awaiting
      <3>4. ASSUME NEW s \in DOMAIN rooms
            PROVE  ~Calls!Live(s)' /\ ~(rooms'[s].wired /\ rooms'[s].link # "closed")
        <4>1. CASE s = r
          BY <1>3, <1>4, <1>6, <2>3, <4>1 DEF Calls!Live
        <4>2. CASE s # r
          <5>1. ~Calls!Live(s) /\ ~(rooms[s].wired /\ rooms[s].link # "closed")
            BY <1>2, <3>1, <3>2 DEF OneRoom
          <5>2. QED
            BY <1>1, <1>4, <2>3, <4>2, <5>1 DEF Calls!Live
        <4>3. QED
          BY <4>1, <4>2
      <3>5. OneRoom'
        BY <1>1, <1>4, <2>1, <3>2, <3>4 DEF OneRoom
      <3>6. QED
        BY <3>3, <3>5
    <2>7. QED
      BY <1>1, <2>4, <2>5, <2>6 DEF CallsInv
  <1>7. QED
    BY <1>5, <1>6

\* The server drops a room: the store forgets the room in use if the listeners
\* of the dropped one are still on.
LEMMA DroppedKeeps ==
    ASSUME CallsInv, NEW r \in DOMAIN rooms, Calls!Dropped(r)
    PROVE  CallsInv'
  <1> DEFINE x == [rooms[r] EXCEPT !.link = "closed", !.own = {}, !.peer = Calls!Absent]
  <1>1. /\ CallsTyped /\ rooms[r].link # "closed" /\ rooms[r] \in RoomState /\ ui \in Bar
        /\ room \in 0 .. Len(rooms) /\ Len(rooms) \in Nat /\ DOMAIN rooms = 1 .. Len(rooms)
        /\ UNCHANGED <<call, changes, overlapping>>
    BY DEF CallsInv, CallsTyped, Calls!Dropped
  <1>2. x \in RoomState /\ x.link = "closed" /\ x.wired = rooms[r].wired /\ x.channel = rooms[r].channel
    BY <1>1 DEF RoomState, Calls!Published
  <1>3. rooms' = [rooms EXCEPT ![r] = x]
    BY <1>1 DEF Calls!Dropped, CallsTyped
  <1> HIDE DEF x
  <1>4. /\ rooms' \in Seq(RoomState) /\ Len(rooms') = Len(rooms) /\ DOMAIN rooms' = DOMAIN rooms
        /\ rooms'[r] = x /\ \A s \in DOMAIN rooms : s # r => rooms'[s] = rooms[s]
    BY <1>1, <1>2, <1>3, RoomChanged
  <1>5. ASSUME NEW s \in DOMAIN rooms
        PROVE  /\ Calls!Live(s)' => s # r /\ Calls!Live(s)
               /\ rooms'[s].wired /\ rooms'[s].link # "closed" =>
                    s # r /\ rooms[s].wired /\ rooms[s].link # "closed"
    <2>1. CASE s = r
      BY <1>2, <1>4, <2>1 DEF Calls!Live
    <2>2. CASE s # r
      BY <1>1, <1>4, <2>2 DEF Calls!Live
    <2>3. QED
      BY <2>1, <2>2
  <1>6. CASE rooms[r].wired /\ room # 0
    <2>1. room' = 0 /\ ui' = Calls!Reset
      BY <1>6 DEF Calls!Dropped
    <2>2. CallsTyped'
      BY <1>1, <1>4, <2>1, ResetBar DEF CallsTyped
    <2>3. SomebodyConnects'
      BY <2>1, ResetBar DEF SomebodyConnects
    <2>4. ASSUME ~overlapping  PROVE  OneAtATime' /\ OneRoom'
      <3>1. OneAtATime /\ OneRoom
        BY <2>4 DEF CallsInv
      <3>2. r = room
        BY <1>1, <1>6, <3>1 DEF OneRoom
      <3>3. OneAtATime'
        <4>1. \A d \in Caller : call[d].pc # "token"
          BY <1>1, <1>6, <3>1, CallPlaces DEF OneAtATime
        <4>2. QED
          BY <1>1, <2>1, <3>1, <4>1, ResetBar DEF OneAtATime, Awaits
      <3>4. OneRoom'
        BY <1>4, <1>5, <2>1, <3>1, <3>2 DEF OneRoom
      <3>5. QED
        BY <3>3, <3>4
    <2>5. QED
      BY <1>1, <2>2, <2>3, <2>4 DEF CallsInv
  <1>7. CASE ~(rooms[r].wired /\ room # 0)
    <2>1. UNCHANGED <<room, ui>>
      BY <1>7 DEF Calls!Dropped
    <2>2. CallsTyped'
      BY <1>1, <1>4, <2>1 DEF CallsTyped
    <2>3. SomebodyConnects'
      BY <1>1, <2>1 DEF CallsInv, SomebodyConnects, Connects
    <2>4. ASSUME ~overlapping  PROVE  OneAtATime' /\ OneRoom'
      <3>1. OneAtATime /\ OneRoom
        BY <2>4 DEF CallsInv
      <3>2. room # 0 => room # r /\ rooms'[room] = rooms[room]
        BY <1>1, <1>4, <1>7, <3>1 DEF OneRoom
      <3>3. OneAtATime'
        BY <1>1, <2>1, <3>1, <3>2 DEF OneAtATime, Awaits
      <3>4. OneRoom'
        BY <1>4, <1>5, <2>1, <3>1, <3>2 DEF OneRoom
      <3>5. QED
        BY <3>3, <3>4
    <2>5. QED
      BY <1>1, <2>2, <2>3, <2>4 DEF CallsInv
  <1>8. QED
    BY <1>6, <1>7

LEMMA CallsStep ==
    ASSUME CallsInv, [Calls!Next]_voiceVars
    PROVE  CallsInv'
  <1>1. ASSUME NEW c \in Caller, Calls!Answer(c)  PROVE  CallsInv'
    BY <1>1, LeftKeeps, TokenFailsKeeps, TokenArrivesKeeps, ConnectFailsKeeps, ConnectsKeeps,
       AbandonedKeeps, MediaAnswerKeeps DEF Calls!Answer
  <1>2. CASE \E c \in Caller : Calls!Answer(c) \/ Calls!Hangup(c)
    BY <1>1, <1>2, HangupKeeps
  <1>3. CASE \E c \in Caller, ch \in Channel : Calls!Join(c, ch)
    BY <1>3, JoinKeeps
  <1>4. CASE \E c \in Caller, m \in Media : Calls!Toggle(c, m)
    BY <1>4, ToggleKeeps
  <1>5. CASE \E r \in DOMAIN rooms : Calls!Dropped(r) \/ \E media \in Calls!Published : Calls!PeerChanges(r, media)
    BY <1>5, DroppedKeeps, PeerChangesKeeps
  <1>6. CASE \E on \in BOOLEAN : Calls!ShowStage(on)
    BY <1>6, ShowStageKeeps
  <1>7. CASE UNCHANGED voiceVars
    <2>1. /\ rooms' = rooms /\ room' = room /\ ui' = ui /\ call' = call /\ changes' = changes
          /\ overlapping' = overlapping
      BY <1>7 DEF voiceVars
    <2>2. CallsTyped' /\ SomebodyConnects'
      BY <2>1 DEF CallsInv, CallsTyped, SomebodyConnects, Connects
    <2>3. OneAtATime' = OneAtATime /\ OneRoom' = OneRoom
      BY <2>1 DEF OneAtATime, OneRoom, Awaits, Calls!Live
    <2>4. QED
      BY <2>1, <2>2, <2>3 DEF CallsInv
  <1>8. QED
    BY <1>2, <1>3, <1>4, <1>5, <1>6, <1>7 DEF Calls!Next

LEMMA CallsAlways ==
    PartSpec => []CallsInv
  <1>1. PartInit => CallsInv
    BY CallsInit DEF PartInit
  <1>2. ASSUME CallsInv, [PartNext]_partVars  PROVE  CallsInv'
    <2>1. [Calls!Next]_voiceVars
      BY <1>2 DEF PartNext, Present, Connecting, Calling, partVars
    <2>2. QED
      BY <1>2, <2>1, CallsStep
  <1>3. QED
    BY <1>1, <1>2, PTL DEF PartSpec

\* However tokens, connects, disconnects, toggles and drops are interleaved, the
\* bar connects only while some call will end it; and if no join began inside
\* another join or leave, we are live in no room but the one shown, under its name
\* and with what is published in it.
THEOREM TheCallIsShown ==
    PartSpec => []ShowsTheCall
  <1>1. ASSUME CallsInv  PROVE  Calls!ShowsTheCall
    <2>1. Calls!ConnectingEnds
      BY <1>1 DEF CallsInv, SomebodyConnects, Connects, Calls!ConnectingEnds, Calls!Awaiting
    <2>2. QED
      BY <1>1, <2>1 DEF CallsInv, OneRoom, Calls!ShowsTheCall
  <1>2. CallsInv => ShowsTheCall
    BY <1>1 DEF ShowsTheCall
  <1>3. QED
    BY <1>2, CallsAlways, PTL

-----------------------------------------------------------------------------
(* The types of all three.                                                 *)

LEMMA PresenceAlways ==
    PartSpec => []IInv
  <1>1. PartInit => IInv
    BY InitInv DEF PartInit
  <1>2. ASSUME IInv, [PartNext]_partVars  PROVE  IInv'
    <2>1. [Next]_vars
      BY <1>2 DEF PartNext, Present, Connecting, Calling, partVars
    <2>2. QED
      BY <1>2, <2>1, NextInv
  <1>3. QED
    BY <1>1, <1>2, PTL DEF PartSpec

\* Every variable of the three keeps its type: among the rest, the room in use is
\* one that was created and no call works with another, and the bar never shows a
\* call both connecting and connected.
THEOREM SocketsTypes ==
    PartSpec => []AllTypesOK
  <1>1. ASSUME CallsInv  PROVE  Calls!TypeOK
    <2>1. CallsTyped
      BY <1>1 DEF CallsInv
    <2>2. ASSUME NEW r \in DOMAIN rooms
          PROVE  /\ rooms[r].channel \in Channel /\ rooms[r].link \in {"new", "up", "closed"}
                 /\ rooms[r].wired \in BOOLEAN /\ rooms[r].own \subseteq Media
                 /\ rooms[r].peer \in Calls!Published
      <3>1. rooms[r] \in RoomState
        BY <2>1 DEF CallsTyped
      <3>2. QED
        BY <3>1 DEF RoomState
    <2>3. ui.channel \in Channel \cup {None} /\ ui.view.own \subseteq Media
      BY <2>1 DEF CallsTyped, Bar, Shown
    <2>4. ASSUME NEW c \in Caller  PROVE  call[c].pc \in Calls!Awaiting \cup {"idle", "media"}
      BY <2>1, CallPlaces, CallFields DEF Calls!Awaiting
    <2>5. ui.connected => ~ui.connecting
      BY <1>1 DEF CallsInv, SomebodyConnects
    <2>6. QED
      BY <2>1, <2>2, <2>3, <2>4, <2>5 DEF CallsTyped, Calls!TypeOK
  <1>2. ClientInv => Client!TypeOK
    BY DEF ClientInv
  <1>3. IInv => TypeOK
    BY DEF IInv
  <1>4. IInv /\ ClientInv /\ CallsInv => AllTypesOK
    BY <1>1, <1>2, <1>3 DEF AllTypesOK
  <1>5. QED
    BY <1>4, PresenceAlways, ClientAlways, CallsAlways, PTL

=============================================================================
