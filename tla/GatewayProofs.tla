---------------------------- MODULE GatewayProofs ----------------------------
(***************************************************************************)
(* Proofs about Gateway, for any number of sessions, users, guilds and     *)
(* events, any buffer and any outages: its types, ExitLeavesNobody and     *)
(* FeedIsWhole.                                                            *)
(*                                                                         *)
(* The events a session has still to get are those in the inbox; the       *)
(* invariant says that nothing else is missing (NothingLost), that the     *)
(* inbox, the event being dispatched and what was sent follow each other   *)
(* in the order of the log (Ordered), and that a session is only sent      *)
(* events of guilds it routes, which it never stops doing (Routed).        *)
(***************************************************************************)
EXTENDS Gateway, TLAPS

Increasing(q) == \A i, j \in DOMAIN q : i < j => q[i] < q[j]

\* Where a session is in its life, and what that says of it.
LifeOf(s) ==
    /\ s \in registry <=> reader[s] \in {"reading", "installing", "greeting"}
    /\ reader[s] \in {"none", "installing"} => ~identified[s]
    /\ reader[s] \in {"cleanup", "done"} /\ Open(s) => ~identified[s]
    /\ ~identified[s] => got[s] = <<>> /\ s \notin targets
    /\ closed[s] = "rejected" => got[s] = <<>>
Lives == \A s \in Session : LifeOf(s)

\* Once Shutdown has its copy of the registry, nobody registers.
Drained ==
    /\ stage # "serving" => registry \subseteq draining
    /\ stage = "exited" => \A s \in draining : At(s, "done")

\* What is in the inbox comes after the event being dispatched, and that after
\* what was sent.
Ordered ==
    /\ Increasing(inbox)
    /\ \A id \in ToSet(inbox) : current < id
    /\ targets # {} => current # 0
    /\ \A s \in Session :
        /\ Increasing(got[s])
        /\ \A id \in ToSet(got[s]) : id <= current /\ (s \in targets => id < current)

\* The session routes the guild of the event, if it is a guild's.
RoutesGuildOf(s, id) == log[id].scope = "guild" => log[id].guild \in guildIDs[s]
Routed ==
    \A s \in Session :
        /\ s \in targets => RoutesGuildOf(s, current)
        /\ \A id \in ToSet(got[s]) : RoutesGuildOf(s, id)

\* A session that owes no resync has all it did not get in the inbox.
Awaits(s) == identified[s] /\ Open(s) /\ ~ResyncPending(s)
NothingLost ==
    stage = "serving" =>
        \A s \in Session : Awaits(s) =>
            \A id \in DOMAIN log : since[s] < id /\ current < id => id \in ToSet(inbox)

FeedInv == TypeOK /\ Lives /\ Ordered /\ Routed /\ NothingLost /\ NoSilentGap

-----------------------------------------------------------------------------
(* Sequences as sets.                                                      *)

LEMMA AppendSet ==
    ASSUME NEW S, NEW q \in Seq(S), NEW x \in S
    PROVE  ToSet(Append(q, x)) = ToSet(q) \cup {x}
  <1>1. DOMAIN q = 1 .. Len(q) /\ Len(q) \in Nat
    OBVIOUS
  <1>2. DOMAIN Append(q, x) = 1 .. Len(q) + 1 /\ Append(q, x)[Len(q) + 1] = x
    OBVIOUS
  <1>3. \A i \in DOMAIN q : Append(q, x)[i] = q[i]
    OBVIOUS
  <1>4. QED
    BY <1>1, <1>2, <1>3 DEF ToSet

LEMMA EmptySet ==
    ToSet(<<>>) = {}
  BY DEF ToSet

LEMMA HeadTailSet ==
    ASSUME NEW S, NEW q \in Seq(S), q # <<>>
    PROVE  ToSet(q) = {Head(q)} \cup ToSet(Tail(q))
  <1>1. Len(q) \in Nat \ {0} /\ DOMAIN q = 1 .. Len(q)
    OBVIOUS
  <1>2. Head(q) = q[1] /\ DOMAIN Tail(q) = 1 .. Len(q) - 1
    BY <1>1
  <1>3. \A i \in 1 .. Len(q) - 1 : Tail(q)[i] = q[i + 1]
    BY <1>1
  <1>4. ASSUME NEW i \in DOMAIN q  PROVE  q[i] \in {Head(q)} \cup ToSet(Tail(q))
    <2>1. CASE i = 1
      BY <2>1, <1>2
    <2>2. CASE i # 1
      <3>1. i - 1 \in DOMAIN Tail(q) /\ q[i] = Tail(q)[i - 1]
        BY <2>2, <1>1, <1>2, <1>3
      <3>2. QED
        BY <3>1 DEF ToSet
    <2>3. QED
      BY <2>1, <2>2
  <1>5. ASSUME NEW i \in DOMAIN Tail(q)  PROVE  Tail(q)[i] \in ToSet(q)
    <2>1. i + 1 \in DOMAIN q /\ Tail(q)[i] = q[i + 1]
      BY <1>1, <1>2, <1>3
    <2>2. QED
      BY <2>1 DEF ToSet
  <1>6. Head(q) \in ToSet(q)
    <2>1. 1 \in DOMAIN q
      BY <1>1
    <2>2. QED
      BY <2>1, <1>2 DEF ToSet
  <1>7. QED
    BY <1>4, <1>5, <1>6 DEF ToSet

\* An increasing sequence starts with its least element, and its tail and an
\* extension by something greater are increasing.
LEMMA IncreasingTail ==
    ASSUME NEW q \in Seq(Nat), q # <<>>, Increasing(q)
    PROVE  Increasing(Tail(q)) /\ \A x \in ToSet(Tail(q)) : Head(q) < x
  <1>1. Len(q) \in Nat \ {0} /\ DOMAIN q = 1 .. Len(q)
    OBVIOUS
  <1>2. Head(q) = q[1] /\ DOMAIN Tail(q) = 1 .. Len(q) - 1
    BY <1>1
  <1>3. \A i \in 1 .. Len(q) - 1 : Tail(q)[i] = q[i + 1]
    BY <1>1
  <1>4. ASSUME NEW i \in DOMAIN Tail(q), NEW j \in DOMAIN Tail(q), i < j
        PROVE  Tail(q)[i] < Tail(q)[j]
    <2>1. i + 1 \in DOMAIN q /\ j + 1 \in DOMAIN q /\ i + 1 < j + 1
      BY <1>1, <1>2, <1>4
    <2>2. QED
      BY <2>1, <1>2, <1>3 DEF Increasing
  <1>5. ASSUME NEW i \in DOMAIN Tail(q)  PROVE  Head(q) < Tail(q)[i]
    <2>1. 1 \in DOMAIN q /\ i + 1 \in DOMAIN q /\ 1 < i + 1
      BY <1>1, <1>2
    <2>2. QED
      BY <2>1, <1>2, <1>3 DEF Increasing
  <1>6. QED
    BY <1>4, <1>5 DEF ToSet, Increasing

LEMMA IncreasingAppend ==
    ASSUME NEW q \in Seq(Nat), NEW x \in Nat, Increasing(q), \A y \in ToSet(q) : y < x
    PROVE  Increasing(Append(q, x))
  <1>1. DOMAIN q = 1 .. Len(q) /\ Len(q) \in Nat
    OBVIOUS
  <1>2. \A i \in DOMAIN q : q[i] < x
    BY DEF ToSet
  <1>3. DOMAIN Append(q, x) = 1 .. Len(q) + 1 /\ Append(q, x)[Len(q) + 1] = x
    OBVIOUS
  <1>4. \A i \in DOMAIN q : Append(q, x)[i] = q[i]
    OBVIOUS
  <1>5. QED
    BY <1>1, <1>2, <1>3, <1>4 DEF Increasing

-----------------------------------------------------------------------------
(* Types.                                                                  *)

\* Sending to a session leaves the types of what it changes.
LEMMA SendTyped ==
    ASSUME TypeOK, NEW s \in Session, Send(s)
    PROVE  /\ closed' \in [Session -> CloseCode \cup {"open"}]
           /\ queued' \in [Session -> 0..BufSize]
  <1>1. queued' \in [Session -> 0..BufSize]
    BY ConstantsAssumption DEF Send, Accepts, TypeOK
  <1>2. closed' \in [Session -> CloseCode \cup {"open"}]
    BY DEF Send, CloseWith, TypeOK, CloseCode
  <1>3. QED
    BY <1>1, <1>2

\* The parts of the type invariant that refer to the log stay right as it grows.
LEMMA PublishTyped ==
    ASSUME TypeOK, NEW event \in GuildEvent \cup UserEvent, Publish(event)
    PROVE  /\ log' \in Seq(GuildEvent \cup UserEvent)
           /\ Len(log) \in Nat /\ Len(log') = Len(log) + 1
           /\ inbox' \in Seq(1..Len(log'))
  <1>1. /\ log' \in Seq(GuildEvent \cup UserEvent)
        /\ Len(log) \in Nat /\ Len(log') = Len(log) + 1
    <2> DEFINE E == GuildEvent \cup UserEvent
    <2>1. log \in Seq(E) /\ event \in E /\ log' = Append(log, event)
      BY DEF Publish, TypeOK
    <2> HIDE DEF E
    <2>2. log' \in Seq(E) /\ Len(log) \in Nat /\ Len(log') = Len(log) + 1
      BY <2>1
    <2>3. QED
      BY <2>2 DEF E
  <1>2. inbox \in Seq(1..Len(log'))
    BY <1>1 DEF TypeOK
  <1>3. inbox' = inbox \/ inbox' = Append(inbox, Len(log) + 1)
    BY DEF Publish
  <1>4. Len(log) + 1 \in 1..Len(log')
    BY <1>1
  <1>5. inbox' \in Seq(1..Len(log'))
    <2> DEFINE M == 1..Len(log')
    <2>1. inbox \in Seq(M) /\ Len(log) + 1 \in M
      BY <1>2, <1>4
    <2> HIDE DEF M
    <2>2. inbox' \in Seq(M)
      BY <2>1, <1>3
    <2>3. QED
      BY <2>2 DEF M
  <1>6. QED
    BY <1>1, <1>5

LEMMA PublishKeepsTypes ==
    ASSUME TypeOK, NEW event \in GuildEvent \cup UserEvent, Publish(event),
           member' = member, joining' \in SUBSET (User \X Guild),
           UNCHANGED <<hubVars, identityVars, reader, writing, closed, queued, sentVars>>
    PROVE  TypeOK'
  <1>1. /\ log' \in Seq(GuildEvent \cup UserEvent)
        /\ Len(log) \in Nat /\ Len(log') = Len(log) + 1
        /\ inbox' \in Seq(1..Len(log'))
    BY PublishTyped
  <1>2. natsUp' \in BOOLEAN /\ resyncDue' \in BOOLEAN
    BY DEF Publish, TypeOK
  <1>3. current' \in 0..Len(log') /\ since' \in [Session -> 0..Len(log')]
    BY <1>1 DEF TypeOK, hubVars, sentVars
  <1>4. got' \in [Session -> Seq(1..Len(log'))]
    <2>1. ASSUME NEW s \in Session  PROVE  got[s] \in Seq(1..Len(log'))
      <3>1. got[s] \in Seq(1..Len(log))
        BY DEF TypeOK
      <3>2. QED
        BY <3>1, <1>1
    <2>2. QED
      BY <2>1 DEF TypeOK, sentVars
  <1>5. QED
    BY <1>1, <1>2, <1>3, <1>4 DEF TypeOK, hubVars, identityVars, CloseCode, Reader

\* The types of the state and of what each action assigns; while there are
\* targets, there is an event they are sent.
LEMMA TypesStep ==
    ASSUME TypeOK, targets # {} => current # 0, [Next]_vars
    PROVE  TypeOK'
  <1> USE ConstantsAssumption
  <1>1. ASSUME NEW s \in Session, ServeWS(s)  PROVE  TypeOK'
    <2>1. /\ reader' \in [Session -> Reader] /\ registry' \in SUBSET Session
          /\ writing' \in [Session -> BOOLEAN]
      <3>1. CASE stage = "draining"
        BY <1>1, <3>1 DEF ServeWS, Goto, TypeOK, Reader
      <3>2. CASE stage # "draining"
        <4>1. /\ reader' = [reader EXCEPT ![s] = "reading"]
              /\ registry' = registry \cup {s}
              /\ writing' = [writing EXCEPT ![s] = TRUE]
          BY <1>1, <3>2 DEF ServeWS, Goto
        <4>2. writing' \in [Session -> BOOLEAN]
          BY <4>1 DEF TypeOK
        <4>3. QED
          BY <4>1, <4>2 DEF TypeOK, Reader
      <3>3. QED
        BY <3>1, <3>2
    <2>2. queued' \in [Session -> 0..BufSize]
      <3>1. 1 \in 0..BufSize
        OBVIOUS
      <3>2. QED
        BY <1>1, <3>1 DEF ServeWS, TypeOK
    <2>3. QED
      BY <1>1, <2>1, <2>2 DEF ServeWS, TypeOK, vars, apiVars, natsVars, hubVars, sentVars, identityVars
  <1>2. ASSUME NEW s \in Session, LoadGuilds(s)  PROVE  TypeOK'
    BY <1>2 DEF LoadGuilds, Goto, TypeOK, Reader, CloseCode, vars, apiVars, natsVars, hubVars, sentVars, identityVars
  <1>3. ASSUME NEW s \in Session, IdentifyFails(s)  PROVE  TypeOK'
    BY <1>3 DEF IdentifyFails, CloseWith, TypeOK, Reader, CloseCode, vars, apiVars, natsVars, hubVars, sentVars, identityVars
  <1>4. ASSUME NEW s \in Session, Install(s)  PROVE  TypeOK'
    BY <1>4 DEF Install, Goto, TypeOK, Reader, CloseCode, vars, apiVars, natsVars, hubVars, sentVars, identityVars
  <1>5. ASSUME NEW s \in Session, Greet(s)  PROVE  TypeOK'
    BY <1>5, SendTyped DEF Greet, Goto, TypeOK, Reader, CloseCode, vars, apiVars, natsVars, hubVars, sentVars, identityVars
  <1>6. ASSUME NEW s \in Session, Cleanup(s)  PROVE  TypeOK'
    BY <1>6 DEF Cleanup, Goto, Forget, TypeOK, Reader, CloseCode, vars, apiVars, natsVars, hubVars, sentVars, identityVars
  <1>7. ASSUME NEW s \in Session, Heartbeat(s)  PROVE  TypeOK'
    BY <1>7, SendTyped DEF Heartbeat, TypeOK, Reader, CloseCode, vars, apiVars, natsVars, hubVars, sentVars, identityVars
  <1>8. ASSUME NEW s \in Session, ReadError(s)  PROVE  TypeOK'
    BY <1>8 DEF ReadError, Goto, CloseWith, TypeOK, Reader, CloseCode, vars, apiVars, natsVars, hubVars, sentVars, identityVars
  <1>9. ASSUME NEW s \in Session, WriteFrame(s)  PROVE  TypeOK'
    BY <1>9 DEF WriteFrame, TypeOK, Reader, CloseCode, vars, apiVars, natsVars, hubVars, sentVars, identityVars
  <1>10. ASSUME NEW s \in Session, WriterStops(s)  PROVE  TypeOK'
    BY <1>10 DEF WriterStops, TypeOK, Reader, CloseCode, vars, apiVars, natsVars, hubVars, sentVars, identityVars
  <1>11. ASSUME NEW s \in Session, DispatchTo(s)  PROVE  TypeOK'
    <2>1. current \in 1..Len(log) /\ log[current] \in GuildEvent \cup UserEvent
      BY <1>11 DEF DispatchTo, TypeOK
    <2>2. guildIDs' \in [Session -> SUBSET Guild]
      <3>1. log[current].scope = "user" => log[current].guild \in Guild
        BY <2>1 DEF GuildEvent, UserEvent
      <3>2. QED
        BY <1>11, <3>1 DEF DispatchTo, TypeOK
    <2>3. got' \in [Session -> Seq(1..Len(log))]
      BY <1>11, <2>1 DEF DispatchTo, TypeOK
    <2>4. QED
      BY <1>11, <2>2, <2>3, SendTyped DEF DispatchTo, TypeOK, vars, apiVars, natsVars, hubVars, sentVars, identityVars
  <1>12. ASSUME NEW s \in Session, DropSession(s)  PROVE  TypeOK'
    BY <1>12 DEF DropSession, CloseWith, TypeOK, Reader, CloseCode, vars, apiVars, natsVars, hubVars, sentVars, identityVars
  <1>13. ASSUME NEW s \in Session, ShutdownSession(s)  PROVE  TypeOK'
    BY <1>13 DEF ShutdownSession, CloseWith, TypeOK, Reader, CloseCode, vars, apiVars, natsVars, hubVars, sentVars, identityVars
  <1>14. ASSUME NEW u \in User, NEW g \in Guild, AddMember(u, g)  PROVE  TypeOK'
    BY <1>14 DEF AddMember, TypeOK, vars, apiVars, natsVars, hubVars, sentVars, identityVars
  <1>15. ASSUME NEW u \in User, NEW g \in Guild, PublishGuildCreate(u, g)  PROVE  TypeOK'
    <2>1. [scope |-> "user", user |-> u, guild |-> g] \in UserEvent
      BY DEF UserEvent
    <2>2. joining' \in SUBSET (User \X Guild)
      BY <1>15 DEF PublishGuildCreate, TypeOK
    <2>3. QED
      BY <1>15, <2>1, <2>2, PublishKeepsTypes DEF PublishGuildCreate
  <1>16. ASSUME NEW g \in Guild, PublishToGuild(g)  PROVE  TypeOK'
    <2>1. [scope |-> "guild", guild |-> g] \in GuildEvent
      BY DEF GuildEvent
    <2>2. joining' \in SUBSET (User \X Guild)
      BY <1>16 DEF PublishToGuild, TypeOK
    <2>3. QED
      BY <1>16, <2>1, <2>2, PublishKeepsTypes DEF PublishToGuild
  <1>17. CASE NatsDown
    BY <1>17 DEF NatsDown, TypeOK, vars, apiVars, natsVars, hubVars, sentVars, identityVars
  <1>18. CASE NatsReconnect
    BY <1>18 DEF NatsReconnect, TypeOK, vars, apiVars, natsVars, hubVars, sentVars, identityVars
  <1>19. CASE TakeEvent
    <2>1. Head(inbox) \in 1..Len(log) /\ Tail(inbox) \in Seq(1..Len(log))
      BY <1>19 DEF TakeEvent, TypeOK
    <2>2. QED
      BY <1>19, <2>1 DEF TakeEvent, TypeOK, vars, apiVars, natsVars, hubVars, sentVars, identityVars
  <1>20. CASE DropAllSessions
    BY <1>20 DEF DropAllSessions, TypeOK, vars, apiVars, natsVars, hubVars, sentVars, identityVars
  <1>21. CASE Shutdown
    BY <1>21 DEF Shutdown, TypeOK, vars, apiVars, natsVars, hubVars, sentVars, identityVars
  <1>22. CASE Exit
    BY <1>22 DEF Exit, TypeOK, vars, apiVars, natsVars, hubVars, sentVars, identityVars
  <1>23. CASE UNCHANGED vars
    BY <1>23 DEF TypeOK, vars, apiVars, natsVars, hubVars, sentVars, identityVars
  <1>24. QED
    BY <1>1, <1>2, <1>3, <1>4, <1>5, <1>6, <1>7, <1>8, <1>9, <1>10, <1>11, <1>12, <1>13,
       <1>14, <1>15, <1>16, <1>17, <1>18, <1>19, <1>20, <1>21, <1>22, <1>23
       DEF Next, SessionStep

LEMMA TypesInit ==
    Init => TypeOK
  <1> SUFFICES ASSUME Init  PROVE  TypeOK
    OBVIOUS
  <1>1. log = <<>> /\ Len(log) = 0 /\ log \in Seq(GuildEvent \cup UserEvent)
    BY DEF Init
  <1>2. inbox \in Seq(1..Len(log)) /\ got \in [Session -> Seq(1..Len(log))]
    BY DEF Init
  <1>3. /\ member \in [User -> SUBSET Guild]
        /\ queued \in [Session -> 0..BufSize]
        /\ since \in [Session -> 0..Len(log)] /\ current \in 0..Len(log)
    BY <1>1, ConstantsAssumption DEF Init
  <1>4. QED
    BY <1>1, <1>2, <1>3 DEF Init, TypeOK, Reader, CloseCode

-----------------------------------------------------------------------------
(* Closing and sending.                                                    *)

\* s.close closes a session, and only that one, and only once.
LEMMA Closing ==
    ASSUME TypeOK, NEW s \in Session, NEW code \in CloseCode, closed' = CloseWith(s, code)
    PROVE  /\ ~Open(s)'
           /\ \A x \in Session : closed'[x] = closed[x] \/ (x = s /\ Open(x) /\ closed'[x] = code)
  BY DEF CloseWith, TypeOK, CloseCode, Open

\* s.send either puts the frame in the buffer or leaves the session closed.
LEMMA Sending ==
    ASSUME TypeOK, NEW s \in Session, Send(s)
    PROVE  /\ ~Accepts(s) => ~Open(s)'
           /\ \A x \in Session : closed'[x] = closed[x] \/ (x = s /\ Open(x) /\ closed'[x] = "ended")
  <1>1. CASE queued[s] = BufSize
    <2>1. closed' = CloseWith(s, "ended")
      BY <1>1 DEF Send
    <2>2. QED
      BY <2>1, Closing DEF CloseCode
  <1>2. CASE queued[s] # BufSize
    <2>1. closed' = closed /\ queued[s] < BufSize
      BY <1>2, ConstantsAssumption DEF Send, TypeOK
    <2>2. QED
      BY <2>1 DEF Accepts, Open
  <1>3. QED
    BY <1>1, <1>2

-----------------------------------------------------------------------------
(* The lives of the sessions and the shutdown.                             *)

LEMMA LivesInit ==
    Init => Lives /\ Drained
  BY DEF Init, Lives, LifeOf, Drained

LEMMA LivesStep ==
    ASSUME TypeOK, Lives, [Next]_vars
    PROVE  Lives'
  <1> SUFFICES ASSUME NEW x \in Session  PROVE  LifeOf(x)'
    BY DEF Lives
  <1>0. LifeOf(x)
    BY DEF Lives
  <1>1. ASSUME NEW s \in Session, ServeWS(s)  PROVE  LifeOf(x)'
    BY <1>0, <1>1 DEF ServeWS, Goto, At, LifeOf, Open, TypeOK, vars, apiVars, natsVars, hubVars, sentVars, identityVars
  <1>2. ASSUME NEW s \in Session, LoadGuilds(s)  PROVE  LifeOf(x)'
    BY <1>0, <1>2 DEF LoadGuilds, Goto, At, LifeOf, Open, TypeOK, vars, apiVars, natsVars, hubVars, sentVars, identityVars
  <1>3. ASSUME NEW s \in Session, IdentifyFails(s)  PROVE  LifeOf(x)'
    <2>1. PICK code \in CloseCode : closed' = CloseWith(s, code) /\ (identified[s] => code = "ended")
      BY <1>3 DEF IdentifyFails, CloseCode, LifeOf, Lives, TypeOK, Open
    <2>2. /\ ~Open(s)'
          /\ closed'[x] = closed[x] \/ (x = s /\ Open(x) /\ closed'[x] = code)
      BY <2>1, Closing
    <2>3. QED
      BY <1>0, <1>3, <2>1, <2>2 DEF IdentifyFails, LifeOf, Open, TypeOK, vars, apiVars, natsVars, hubVars, sentVars, identityVars
  <1>4. ASSUME NEW s \in Session, Install(s)  PROVE  LifeOf(x)'
    BY <1>0, <1>4 DEF Install, Goto, At, LifeOf, Open, TypeOK, vars, apiVars, natsVars, hubVars, sentVars, identityVars
  <1>5. ASSUME NEW s \in Session, Greet(s)  PROVE  LifeOf(x)'
    <2>1. closed'[x] = closed[x] \/ (x = s /\ Open(x) /\ closed'[x] = "ended")
      BY <1>5, Sending DEF Greet
    <2>2. QED
      BY <1>0, <1>5, <2>1 DEF Greet, Goto, At, LifeOf, Open, TypeOK, vars, apiVars, natsVars, hubVars, sentVars, identityVars
  <1>6. ASSUME NEW s \in Session, Cleanup(s)  PROVE  LifeOf(x)'
    BY <1>0, <1>6 DEF Cleanup, Goto, Forget, At, LifeOf, Open, TypeOK, vars, apiVars, natsVars, hubVars, sentVars, identityVars
  <1>7. ASSUME NEW s \in Session, Heartbeat(s)  PROVE  LifeOf(x)'
    <2>1. closed'[x] = closed[x] \/ (x = s /\ Open(x) /\ closed'[x] = "ended")
      BY <1>7, Sending DEF Heartbeat
    <2>2. QED
      BY <1>0, <1>7, <2>1 DEF Heartbeat, LifeOf, Open, TypeOK, vars, apiVars, natsVars, hubVars, sentVars, identityVars
  <1>8. ASSUME NEW s \in Session, ReadError(s)  PROVE  LifeOf(x)'
    <2>1. PICK code \in CloseCode : closed' = CloseWith(s, code) /\ (identified[s] => code = "ended")
      BY <1>8 DEF ReadError, CloseCode
    <2>2. /\ ~Open(s)'
          /\ closed'[x] = closed[x] \/ (x = s /\ Open(x) /\ closed'[x] = code)
      BY <2>1, Closing
    <2>3. QED
      BY <1>0, <1>8, <2>1, <2>2 DEF ReadError, Goto, At, LifeOf, Open, TypeOK, vars, apiVars, natsVars, hubVars, sentVars, identityVars
  <1>9. ASSUME NEW s \in Session, WriteFrame(s)  PROVE  LifeOf(x)'
    BY <1>0, <1>9 DEF WriteFrame, LifeOf, Open, TypeOK, vars, apiVars, natsVars, hubVars, sentVars, identityVars
  <1>10. ASSUME NEW s \in Session, WriterStops(s)  PROVE  LifeOf(x)'
    BY <1>0, <1>10 DEF WriterStops, LifeOf, Open, TypeOK, vars, apiVars, natsVars, hubVars, sentVars, identityVars
  <1>11. ASSUME NEW s \in Session, DispatchTo(s)  PROVE  LifeOf(x)'
    <2>1. closed'[x] = closed[x] \/ (x = s /\ Open(x) /\ closed'[x] = "ended")
      BY <1>11, Sending DEF DispatchTo
    <2>2. QED
      BY <1>0, <1>11, <2>1 DEF DispatchTo, Accepts, LifeOf, Open, TypeOK, vars, apiVars, natsVars, hubVars, sentVars, identityVars
  <1>12. ASSUME NEW s \in Session, DropSession(s)  PROVE  LifeOf(x)'
    <2>1. ~Open(s)' /\ (closed'[x] = closed[x] \/ (x = s /\ Open(x) /\ closed'[x] = "ended"))
      BY <1>12, Closing DEF DropSession, CloseCode
    <2>2. QED
      BY <1>0, <1>12, <2>1 DEF DropSession, LifeOf, Open, TypeOK, vars, apiVars, natsVars, hubVars, sentVars, identityVars
  <1>13. ASSUME NEW s \in Session, ShutdownSession(s)  PROVE  LifeOf(x)'
    <2>1. ~Open(s)' /\ (closed'[x] = closed[x] \/ (x = s /\ Open(x) /\ closed'[x] = "ended"))
      BY <1>13, Closing DEF ShutdownSession, CloseCode
    <2>2. QED
      BY <1>0, <1>13, <2>1 DEF ShutdownSession, LifeOf, Open, TypeOK, vars, apiVars, natsVars, hubVars, sentVars, identityVars
  <1>14. ASSUME NEW u \in User, NEW g \in Guild, AddMember(u, g)  PROVE  LifeOf(x)'
    BY <1>0, <1>14 DEF AddMember, Publish, LifeOf, Open, vars, apiVars, natsVars, hubVars, sentVars, identityVars
  <1>15. ASSUME NEW u \in User, NEW g \in Guild, PublishGuildCreate(u, g)  PROVE  LifeOf(x)'
    BY <1>0, <1>15 DEF PublishGuildCreate, Publish, LifeOf, Open, vars, apiVars, natsVars, hubVars, sentVars, identityVars
  <1>16. ASSUME NEW g \in Guild, PublishToGuild(g)  PROVE  LifeOf(x)'
    BY <1>0, <1>16 DEF PublishToGuild, Publish, LifeOf, Open, vars, apiVars, natsVars, hubVars, sentVars, identityVars
  <1>17. CASE NatsDown
    BY <1>0, <1>17 DEF NatsDown, LifeOf, Open, vars, apiVars, natsVars, hubVars, sentVars, identityVars
  <1>18. CASE NatsReconnect
    BY <1>0, <1>18 DEF NatsReconnect, LifeOf, Open, vars, apiVars, natsVars, hubVars, sentVars, identityVars
  <1>19. CASE TakeEvent
    BY <1>0, <1>19 DEF TakeEvent, Routes, LifeOf, Open, vars, apiVars, natsVars, hubVars, sentVars, identityVars
  <1>20. CASE DropAllSessions
    BY <1>0, <1>20 DEF DropAllSessions, LifeOf, Open, vars, apiVars, natsVars, hubVars, sentVars, identityVars
  <1>21. CASE Shutdown
    BY <1>0, <1>21 DEF Shutdown, LifeOf, Open, vars, apiVars, natsVars, hubVars, sentVars, identityVars
  <1>22. CASE Exit
    BY <1>0, <1>22 DEF Exit, LifeOf, Open, vars, apiVars, natsVars, hubVars, sentVars, identityVars
  <1>23. CASE UNCHANGED vars
    BY <1>0, <1>23 DEF LifeOf, Open, vars, apiVars, natsVars, hubVars, sentVars, identityVars
  <1>24. QED
    BY <1>1, <1>2, <1>3, <1>4, <1>5, <1>6, <1>7, <1>8, <1>9, <1>10, <1>11, <1>12, <1>13,
       <1>14, <1>15, <1>16, <1>17, <1>18, <1>19, <1>20, <1>21, <1>22, <1>23
       DEF Next, SessionStep

\* The registry of a draining hub only shrinks, and Exit waits for the copy.
LEMMA DrainedStep ==
    ASSUME TypeOK, Drained, [Next]_vars
    PROVE  Drained'
  <1>1. ASSUME NEW s \in Session, ServeWS(s), stage # "exited"  PROVE  Drained'
    BY <1>1 DEF ServeWS, Drained, TypeOK
  <1>2. ASSUME NEW s \in Session, ReadError(s), stage # "exited"  PROVE  Drained'
    BY <1>2 DEF ReadError, Drained
  <1>3. CASE Shutdown
    BY <1>3 DEF Shutdown, Drained
  <1>4. CASE Exit
    BY <1>4 DEF Exit, Drained, At
  <1>5. ASSUME UNCHANGED <<registry, stage, draining>>, stage # "exited"  PROVE  Drained'
    BY <1>5 DEF Drained
  <1>6. ASSUME NEW s \in Session, stage # "exited",
               \/ LoadGuilds(s) \/ IdentifyFails(s) \/ SessionStep(s)
               \/ Heartbeat(s) \/ WriteFrame(s) \/ WriterStops(s)
               \/ DispatchTo(s) \/ DropSession(s) \/ ShutdownSession(s)
        PROVE  Drained'
    BY <1>5, <1>6 DEF LoadGuilds, IdentifyFails, SessionStep, Install, Greet, Cleanup, Heartbeat,
        WriteFrame, WriterStops, DispatchTo, DropSession, ShutdownSession, hubVars
  <1>7. ASSUME stage # "exited",
               \/ \E u \in User, g \in Guild : AddMember(u, g) \/ PublishGuildCreate(u, g)
               \/ \E g \in Guild : PublishToGuild(g)
               \/ NatsDown \/ NatsReconnect \/ TakeEvent \/ DropAllSessions
        PROVE  Drained'
    BY <1>5, <1>7 DEF AddMember, PublishGuildCreate, PublishToGuild, NatsDown, NatsReconnect,
        TakeEvent, DropAllSessions, hubVars
  <1>8. CASE UNCHANGED vars
    BY <1>8 DEF vars, hubVars, Drained, At
  <1>9. ASSUME NEW s \in Session, stage # "exited",
               \/ ServeWS(s) \/ LoadGuilds(s) \/ IdentifyFails(s) \/ SessionStep(s)
               \/ Heartbeat(s) \/ ReadError(s) \/ WriteFrame(s) \/ WriterStops(s)
               \/ DispatchTo(s) \/ DropSession(s) \/ ShutdownSession(s)
        PROVE  Drained'
    BY <1>1, <1>2, <1>6, <1>9
  <1>10. CASE Next
    BY <1>3, <1>4, <1>7, <1>9, <1>10 DEF Next
  <1>11. QED
    BY <1>8, <1>10

-----------------------------------------------------------------------------
(* The order of the feed.                                                  *)

LEMMA OrderedInit ==
    Init => Ordered
  BY EmptySet DEF Init, Ordered, Increasing

\* A step that leaves the inbox, the current event and what was sent alone, and
\* adds no target.
LEMMA OrderedKept ==
    ASSUME Ordered, inbox' = inbox, current' = current, targets' \subseteq targets,
           \A s \in Session : got'[s] = got[s] \/ got'[s] = <<>>
    PROVE  Ordered'
  <1>1. ASSUME NEW s \in Session
        PROVE  Increasing(got'[s])
               /\ \A id \in ToSet(got'[s]) : id <= current' /\ (s \in targets' => id < current')
    <2>1. CASE got'[s] = got[s]
      BY <2>1 DEF Ordered
    <2>2. CASE got'[s] = <<>>
      BY <2>2, EmptySet DEF Increasing
    <2>3. QED
      BY <2>1, <2>2
  <1>2. QED
    BY <1>1 DEF Ordered, Increasing, ToSet

\* An event published is the last of the log, so the last of the inbox.
LEMMA OrderedPublish ==
    ASSUME TypeOK, Ordered, NEW event, Publish(event),
           UNCHANGED <<hubVars, sentVars>>
    PROVE  Ordered'
  <1>1. CASE inbox' = inbox
    BY <1>1, OrderedKept DEF hubVars, sentVars
  <1>2. CASE inbox' # inbox
    <2>1. inbox' = Append(inbox, Len(log) + 1)
      BY <1>2 DEF Publish
    <2>2. inbox \in Seq(Nat) /\ Len(log) \in Nat /\ current \in 0..Len(log)
      BY DEF TypeOK
    <2>3. \A id \in ToSet(inbox) : id \in 1..Len(log)
      BY DEF TypeOK, ToSet
    <2>4. Increasing(inbox')
      BY <2>1, <2>2, <2>3, IncreasingAppend DEF Ordered
    <2>5. ToSet(inbox') = ToSet(inbox) \cup {Len(log) + 1}
      BY <2>1, <2>2, AppendSet
    <2>6. \A id \in ToSet(inbox') : current' < id
      BY <2>2, <2>5 DEF Ordered, hubVars
    <2>7. QED
      BY <2>4, <2>6 DEF Ordered, hubVars, sentVars, Increasing, ToSet
  <1>3. QED
    BY <1>1, <1>2

\* The event taken is the least that is left.
LEMMA OrderedTake ==
    ASSUME TypeOK, Ordered, TakeEvent
    PROVE  Ordered'
  <1>1. inbox \in Seq(Nat) /\ inbox # <<>> /\ current' = Head(inbox) /\ inbox' = Tail(inbox)
    BY DEF TypeOK, TakeEvent
  <1>2. ToSet(inbox) = {Head(inbox)} \cup ToSet(Tail(inbox))
    BY <1>1, HeadTailSet
  <1>3. Head(inbox) \in 1..Len(log) /\ current \in 0..Len(log) /\ Len(log) \in Nat
    BY <1>1 DEF TypeOK
  <1>4. current < current'
    BY <1>1, <1>2 DEF Ordered
  <1>5. Increasing(inbox') /\ \A id \in ToSet(inbox') : current' < id
    BY <1>1, IncreasingTail DEF Ordered
  <1>6. ASSUME NEW s \in Session, NEW id \in ToSet(got[s])
        PROVE  id < current'
    <2>1. id \in 1..Len(log) /\ id <= current
      BY DEF TypeOK, ToSet, Ordered
    <2>2. QED
      BY <1>1, <1>3, <1>4, <2>1
  <1>7. got' = got /\ current' # 0
    BY <1>1, <1>3 DEF TakeEvent, sentVars
  <1>8. ASSUME NEW s \in Session, NEW id \in ToSet(got[s])  PROVE id <= current'
    <2>1. id \in 1..Len(log)
      BY DEF TypeOK, ToSet
    <2>2. QED
      BY <1>1, <1>3, <1>6, <2>1
  <1>9. QED
    BY <1>5, <1>6, <1>7, <1>8 DEF Ordered, Increasing, ToSet

\* What is dispatched comes after all that was.
LEMMA OrderedDispatch ==
    ASSUME TypeOK, Ordered, NEW s \in Session, DispatchTo(s)
    PROVE  Ordered'
  <1>1. inbox' = inbox /\ current' = current /\ targets' = targets \ {s} /\ s \in targets
    BY DEF DispatchTo, natsVars
  <1>2. current \in Nat /\ got[s] \in Seq(Nat)
    BY DEF TypeOK
  <1>3. ASSUME NEW x \in Session
        PROVE  Increasing(got'[x])
               /\ \A id \in ToSet(got'[x]) : id <= current /\ (x \in targets' => id < current)
    <2>1. CASE got'[x] = got[x]
      BY <1>1, <2>1 DEF Ordered
    <2>2. CASE got'[x] # got[x]
      <3>1. x = s /\ got'[x] = Append(got[s], current)
        BY <2>2 DEF DispatchTo, TypeOK
      <3>2. \A id \in ToSet(got[s]) : id < current
        BY <1>1 DEF Ordered
      <3>3. Increasing(got'[x]) /\ ToSet(got'[x]) = ToSet(got[s]) \cup {current}
        BY <1>2, <3>1, <3>2, IncreasingAppend, AppendSet DEF Ordered
      <3>4. \A id \in ToSet(got[s]) : id \in Nat
        BY <1>2 DEF ToSet
      <3>5. QED
        BY <1>1, <1>2, <3>1, <3>2, <3>3, <3>4
    <2>3. QED
      BY <2>1, <2>2
  <1>4. QED
    BY <1>1, <1>3 DEF Ordered, Increasing, ToSet

LEMMA OrderedStep ==
    ASSUME TypeOK, Ordered, [Next]_vars
    PROVE  Ordered'
  <1>1. ASSUME NEW s \in Session,
               \/ ServeWS(s) \/ LoadGuilds(s) \/ IdentifyFails(s) \/ Install(s) \/ Greet(s)
               \/ Heartbeat(s) \/ ReadError(s) \/ WriteFrame(s) \/ WriterStops(s)
               \/ DropSession(s) \/ ShutdownSession(s)
        PROVE  Ordered'
    <2>1. UNCHANGED <<inbox, current, targets, got>>
      BY <1>1 DEF ServeWS, LoadGuilds, IdentifyFails, Install, Greet, Heartbeat, ReadError,
          WriteFrame, WriterStops, DropSession, ShutdownSession, natsVars, hubVars, sentVars
    <2>2. QED
      BY <2>1, OrderedKept
  <1>2. ASSUME NEW s \in Session, Cleanup(s)  PROVE  Ordered'
    <2>1. UNCHANGED <<inbox, current, targets>>
          /\ \A x \in Session : got'[x] = got[x] \/ got'[x] = <<>>
      BY <1>2 DEF Cleanup, Forget, natsVars, hubVars, TypeOK
    <2>2. QED
      BY <2>1, OrderedKept
  <1>3. ASSUME NEW s \in Session, DispatchTo(s)  PROVE  Ordered'
    BY <1>3, OrderedDispatch
  <1>4. CASE TakeEvent
    BY <1>4, OrderedTake
  <1>5. ASSUME NEW u \in User, NEW g \in Guild, PublishGuildCreate(u, g)  PROVE  Ordered'
    BY <1>5, OrderedPublish DEF PublishGuildCreate
  <1>6. ASSUME NEW g \in Guild, PublishToGuild(g)  PROVE  Ordered'
    BY <1>6, OrderedPublish DEF PublishToGuild
  <1>7. CASE Shutdown
    <2>1. inbox' = <<>> /\ UNCHANGED <<current, targets, got>>
      BY <1>7 DEF Shutdown, sentVars
    <2>2. Increasing(inbox') /\ ToSet(inbox') = {}
      BY <2>1, EmptySet DEF Increasing
    <2>3. QED
      BY <2>1, <2>2 DEF Ordered, Increasing, ToSet
  <1>8. ASSUME \/ \E u \in User, g \in Guild : AddMember(u, g)
               \/ NatsDown \/ NatsReconnect \/ DropAllSessions \/ Exit \/ UNCHANGED vars
        PROVE  Ordered'
    <2>1. UNCHANGED <<inbox, current, targets, got>>
      BY <1>8 DEF AddMember, NatsDown, NatsReconnect, DropAllSessions, Exit, vars, natsVars, hubVars, sentVars
    <2>2. QED
      BY <2>1, OrderedKept
  <1>9. ASSUME NEW s \in Session,
               \/ ServeWS(s) \/ LoadGuilds(s) \/ IdentifyFails(s) \/ SessionStep(s)
               \/ Heartbeat(s) \/ ReadError(s) \/ WriteFrame(s) \/ WriterStops(s)
               \/ DispatchTo(s) \/ DropSession(s) \/ ShutdownSession(s)
        PROVE  Ordered'
    BY <1>1, <1>2, <1>3, <1>9 DEF SessionStep
  <1>10. QED
    BY <1>4, <1>5, <1>6, <1>7, <1>8, <1>9 DEF Next

-----------------------------------------------------------------------------
(* Which events a session is sent.                                         *)

LEMMA RoutedInit ==
    Init => Routed
  BY EmptySet DEF Init, Routed

\* A step after which the log has the same events and the sessions route all
\* they did, with no new target and nothing new sent.
LEMMA RoutedKept ==
    ASSUME TypeOK, Ordered, Routed, current' = current, targets' \subseteq targets,
           \A id \in 1..Len(log) : log'[id] = log[id],
           \A s \in Session : got'[s] = got[s] \/ got'[s] = <<>>,
           \A s \in Session : s \in targets \/ got[s] # <<>> => guildIDs[s] \subseteq guildIDs'[s]
    PROVE  Routed'
  <1> SUFFICES ASSUME NEW s \in Session
               PROVE  /\ s \in targets' => RoutesGuildOf(s, current)'
                      /\ \A id \in ToSet(got'[s]) : RoutesGuildOf(s, id)'
    BY DEF Routed
  <1>1. ASSUME s \in targets'  PROVE  RoutesGuildOf(s, current)'
    <2>1. current \in 1..Len(log)
      BY <1>1 DEF Ordered, TypeOK
    <2>2. QED
      BY <1>1, <2>1 DEF Routed, RoutesGuildOf
  <1>2. ASSUME NEW id \in ToSet(got'[s])  PROVE  RoutesGuildOf(s, id)'
    <2>1. got'[s] = got[s] /\ got[s] # <<>>
      BY <1>2, EmptySet
    <2>2. id \in ToSet(got[s]) /\ id \in 1..Len(log)
      BY <1>2, <2>1 DEF TypeOK, ToSet
    <2>3. QED
      BY <2>1, <2>2 DEF Routed, RoutesGuildOf
  <1>3. QED
    BY <1>1, <1>2

\* The log has the events it had.
LEMMA LogKept ==
    ASSUME TypeOK, [Next]_vars
    PROVE  \A id \in 1..Len(log) : log'[id] = log[id]
  <1>1. log' = log \/ \E event : log' = Append(log, event)
    BY DEF Next, vars, apiVars, ServeWS, LoadGuilds, IdentifyFails, SessionStep, Install, Greet, Cleanup,
        Heartbeat, ReadError, WriteFrame, WriterStops, DispatchTo, DropSession, ShutdownSession,
        AddMember, PublishGuildCreate, PublishToGuild, Publish, NatsDown, NatsReconnect, TakeEvent,
        DropAllSessions, Shutdown, Exit
  <1>2. QED
    BY <1>1 DEF TypeOK

LEMMA RoutedTake ==
    ASSUME TypeOK, Routed, TakeEvent
    PROVE  Routed'
  <1>1. log' = log /\ got' = got /\ guildIDs' = guildIDs
    BY DEF TakeEvent, apiVars, sentVars, identityVars
  <1>2. ASSUME NEW s \in Session, s \in targets'  PROVE  RoutesGuildOf(s, current)'
    BY <1>1, <1>2 DEF TakeEvent, Routes, RoutesGuildOf
  <1>3. QED
    BY <1>1, <1>2 DEF Routed, RoutesGuildOf

LEMMA RoutedDispatch ==
    ASSUME TypeOK, Routed, NEW s \in Session, DispatchTo(s)
    PROVE  Routed'
  <1>1. log' = log /\ current' = current /\ targets' \subseteq targets /\ s \in targets
    BY DEF DispatchTo, apiVars
  <1>2. \A x \in Session : guildIDs[x] \subseteq guildIDs'[x]
    BY DEF DispatchTo, TypeOK
  <1>3. ASSUME NEW x \in Session, NEW id, RoutesGuildOf(x, id)  PROVE  RoutesGuildOf(x, id)'
    BY <1>1, <1>2, <1>3 DEF RoutesGuildOf
  <1>4. ASSUME NEW x \in Session
        PROVE  \A id \in ToSet(got'[x]) : id \in ToSet(got[x]) \/ (x = s /\ id = current)
    <2>1. CASE got'[x] = got[x]
      BY <2>1
    <2>2. CASE got'[x] # got[x]
      <3>1. x = s /\ got'[x] = Append(got[s], current)
        BY <2>2 DEF DispatchTo, TypeOK
      <3>2. got[s] \in Seq(Nat) /\ current \in Nat
        BY DEF TypeOK
      <3>3. ToSet(got'[x]) = ToSet(got[s]) \cup {current}
        BY <3>1, <3>2, AppendSet
      <3>4. QED
        BY <3>1, <3>3
    <2>3. QED
      BY <2>1, <2>2
  <1>5. QED
    BY <1>1, <1>3, <1>4 DEF Routed

\* Only an identify replaces the set that routes, and nothing was sent before it.
LEMMA RoutedStep ==
    ASSUME TypeOK, Lives, Ordered, Routed, [Next]_vars
    PROVE  Routed'
  <1>1. \A id \in 1..Len(log) : log'[id] = log[id]
    BY LogKept
  <1>2. ASSUME NEW s \in Session, Install(s)  PROVE  Routed'
    <2>1. UNCHANGED <<current, targets, got>>
      BY <1>2 DEF Install, hubVars
    <2>2. s \notin targets /\ got[s] = <<>>
      BY <1>2 DEF Install, At, Lives, LifeOf
    <2>3. \A x \in Session \ {s} : guildIDs'[x] = guildIDs[x]
      BY <1>2 DEF Install, TypeOK
    <2>4. QED
      BY <1>1, <2>1, <2>2, <2>3, RoutedKept
  <1>3. ASSUME NEW s \in Session,
               \/ ServeWS(s) \/ LoadGuilds(s) \/ IdentifyFails(s) \/ Greet(s) \/ Cleanup(s)
               \/ Heartbeat(s) \/ ReadError(s) \/ WriteFrame(s) \/ WriterStops(s)
               \/ DropSession(s) \/ ShutdownSession(s)
        PROVE  Routed'
    <2>1. UNCHANGED <<current, targets, guildIDs>>
          /\ \A x \in Session : got'[x] = got[x] \/ got'[x] = <<>>
      BY <1>3 DEF ServeWS, LoadGuilds, IdentifyFails, Greet, Cleanup, Forget, Heartbeat, ReadError,
          WriteFrame, WriterStops, DropSession, ShutdownSession, identityVars, hubVars, sentVars, TypeOK
    <2>2. QED
      BY <1>1, <2>1, RoutedKept
  <1>4. ASSUME NEW s \in Session, DispatchTo(s)  PROVE  Routed'
    BY <1>4, RoutedDispatch
  <1>5. CASE TakeEvent
    BY <1>5, RoutedTake
  <1>6. ASSUME \/ \E u \in User, g \in Guild : AddMember(u, g) \/ PublishGuildCreate(u, g)
               \/ \E g \in Guild : PublishToGuild(g)
               \/ NatsDown \/ NatsReconnect \/ DropAllSessions \/ Shutdown \/ Exit \/ UNCHANGED vars
        PROVE  Routed'
    <2>1. UNCHANGED <<current, targets, guildIDs, got>>
      BY <1>6 DEF AddMember, PublishGuildCreate, PublishToGuild, NatsDown, NatsReconnect,
          DropAllSessions, Shutdown, Exit, vars, identityVars, hubVars, sentVars
    <2>2. QED
      BY <1>1, <2>1, RoutedKept
  <1>7. ASSUME NEW s \in Session,
               \/ ServeWS(s) \/ LoadGuilds(s) \/ IdentifyFails(s) \/ SessionStep(s)
               \/ Heartbeat(s) \/ ReadError(s) \/ WriteFrame(s) \/ WriterStops(s)
               \/ DispatchTo(s) \/ DropSession(s) \/ ShutdownSession(s)
        PROVE  Routed'
    BY <1>2, <1>3, <1>4, <1>7 DEF SessionStep
  <1>8. QED
    BY <1>5, <1>6, <1>7 DEF Next

-----------------------------------------------------------------------------
(* Nothing is missing that is not in the inbox.                            *)

\* An open session that identified is registered.
LEMMA OpenIsRegistered ==
    ASSUME TypeOK, Lives, NEW s \in Session, Open(s), identified[s]
    PROVE  s \in registry
  BY DEF Lives, LifeOf, TypeOK, Reader

\* A step of nobody who awaits what did not: the log and the inbox are as they were.
LEMMA LostKept ==
    ASSUME NothingLost, UNCHANGED <<log, inbox, current>>,
           stage' = "serving" => stage = "serving",
           \A s \in Session : Awaits(s)' => Awaits(s) /\ since'[s] = since[s]
    PROVE  NothingLost'
  BY DEF NothingLost

\* Losing the connection, getting it back and copying the registry each leave a
\* resync owed to every open session that identified.
LEMMA NobodyAwaits ==
    ASSUME TypeOK, Lives, NatsDown \/ NatsReconnect \/ DropAllSessions, NEW s \in Session
    PROVE  ~Awaits(s)'
  <1>1. CASE NatsDown
    BY <1>1 DEF NatsDown, Awaits, ResyncPending
  <1>2. CASE NatsReconnect
    BY <1>2 DEF NatsReconnect, Awaits, ResyncPending
  <1>3. CASE DropAllSessions
    <2>1. dropping' = registry /\ identified' = identified /\ closed' = closed
      BY <1>3 DEF DropAllSessions, identityVars
    <2>2. QED
      BY <2>1, OpenIsRegistered DEF Awaits, ResyncPending, Open
  <1>4. QED
    BY <1>1, <1>2, <1>3

LEMMA LostPublish ==
    ASSUME TypeOK, NothingLost, NEW event, Publish(event),
           UNCHANGED <<hubVars, identityVars, closed, sentVars>>
    PROVE  NothingLost'
  <1> SUFFICES ASSUME stage = "serving", NEW s \in Session, Awaits(s)',
                      NEW id \in DOMAIN log', since[s] < id, current < id
               PROVE  id \in ToSet(inbox')
    BY DEF NothingLost, hubVars, sentVars
  <1>1. Awaits(s) /\ natsUp
    BY DEF Awaits, ResyncPending, Open, Publish, identityVars, hubVars
  <1>2. inbox' = Append(inbox, Len(log) + 1) /\ log' = Append(log, event)
    BY <1>1 DEF Publish
  <1>3. DOMAIN log' = 1 .. Len(log) + 1 /\ DOMAIN log = 1 .. Len(log) /\ Len(log) \in Nat
    BY <1>2 DEF TypeOK
  <1>4. ToSet(inbox') = ToSet(inbox) \cup {Len(log) + 1}
    <2>1. inbox \in Seq(Nat) /\ Len(log) + 1 \in Nat
      BY <1>3 DEF TypeOK
    <2>2. QED
      BY <1>2, <2>1, AppendSet
  <1>5. id \in DOMAIN log \/ id = Len(log) + 1
    BY <1>3
  <1>6. QED
    BY <1>1, <1>4, <1>5 DEF NothingLost

LEMMA LostTake ==
    ASSUME TypeOK, Ordered, NothingLost, TakeEvent
    PROVE  NothingLost'
  <1>1. inbox \in Seq(Nat) /\ inbox # <<>> /\ current' = Head(inbox) /\ inbox' = Tail(inbox)
    BY DEF TypeOK, TakeEvent
  <1>2. ToSet(inbox) = {current'} \cup ToSet(inbox')
    BY <1>1, HeadTailSet
  <1>3. current < current' /\ current \in Nat /\ current' \in Nat /\ Len(log) \in Nat
    BY <1>1, <1>2 DEF Ordered, TypeOK
  <1>4. ASSUME stage = "serving", NEW s \in Session, Awaits(s),
               NEW id \in DOMAIN log, since[s] < id, current' < id
        PROVE  id \in ToSet(inbox')
    <2>1. id \in Nat /\ current < id /\ id # current'
      BY <1>3, <1>4 DEF TypeOK
    <2>2. id \in ToSet(inbox)
      BY <1>4, <2>1 DEF NothingLost
    <2>3. QED
      BY <1>2, <2>1, <2>2
  <1>5. UNCHANGED <<stage, log, since, identified, closed, natsUp, resyncDue, dropping>>
    BY DEF TakeEvent, apiVars, sentVars, identityVars
  <1>6. QED
    BY <1>4, <1>5 DEF NothingLost, Awaits, Open, ResyncPending

LEMMA LostStep ==
    ASSUME TypeOK, Lives, Ordered, NothingLost, [Next]_vars
    PROVE  NothingLost'
  <1>1. ASSUME NEW s \in Session,
               \/ ServeWS(s) \/ LoadGuilds(s) \/ WriteFrame(s) \/ WriterStops(s)
        PROVE  NothingLost'
    <2>1. UNCHANGED <<log, inbox, current, stage, since, identified, closed, natsUp, resyncDue, dropping>>
      BY <1>1 DEF ServeWS, LoadGuilds, WriteFrame, WriterStops,
          apiVars, natsVars, identityVars, hubVars, sentVars
    <2>2. QED
      BY <2>1, LostKept DEF Awaits, Open, ResyncPending
  <1>2. ASSUME NEW s \in Session,
               \/ IdentifyFails(s) \/ Greet(s) \/ Heartbeat(s) \/ ReadError(s)
               \/ DispatchTo(s) \/ DropSession(s) \/ ShutdownSession(s)
        PROVE  NothingLost'
    <2>1. UNCHANGED <<log, inbox, current, stage, since, identified, natsUp, resyncDue>>
      BY <1>2 DEF IdentifyFails, Greet, Heartbeat, ReadError, DispatchTo, DropSession, ShutdownSession,
          apiVars, natsVars, identityVars, hubVars, sentVars
    <2>2. \A x \in Session : Open(x)' => Open(x)
      <3>1. ASSUME Send(s)  PROVE  \A x \in Session : Open(x)' => Open(x)
        BY <3>1, Sending DEF Open
      <3>2. ASSUME NEW code \in CloseCode, closed' = CloseWith(s, code)
            PROVE  \A x \in Session : Open(x)' => Open(x)
        BY <3>2, Closing DEF Open
      <3>3. QED
        BY <1>2, <3>1, <3>2 DEF IdentifyFails, Greet, Heartbeat, ReadError, DispatchTo, DropSession,
            ShutdownSession, CloseCode
    <2>3. \A x \in Session : Open(x)' => (x \in dropping => x \in dropping')
      <3>1. CASE DropSession(s)
        BY <3>1, Closing DEF DropSession, CloseCode
      <3>2. CASE ~DropSession(s)
        BY <1>2, <3>2 DEF IdentifyFails, Greet, Heartbeat, ReadError, DispatchTo, ShutdownSession, hubVars
      <3>3. QED
        BY <3>1, <3>2
    <2>4. QED
      BY <2>1, <2>2, <2>3, LostKept DEF Awaits, ResyncPending
  <1>3. ASSUME NEW s \in Session, Install(s)  PROVE  NothingLost'
    <2>1. UNCHANGED <<log, inbox, current, stage, closed, natsUp, resyncDue, dropping>>
      BY <1>3 DEF Install, apiVars, natsVars, hubVars
    <2>2. since'[s] = Len(log) /\ DOMAIN log = 1..Len(log) /\ Len(log) \in Nat
      BY <1>3 DEF Install, TypeOK
    <2>3. \A x \in Session \ {s} : since'[x] = since[x] /\ identified'[x] = identified[x]
      BY <1>3 DEF Install, TypeOK
    <2>4. ASSUME NEW x \in Session, NEW id \in DOMAIN log, stage = "serving", Awaits(x)',
                 since'[x] < id, current < id
          PROVE  id \in ToSet(inbox)
      <3>1. CASE x = s
        BY <2>2, <2>4, <3>1
      <3>2. CASE x # s
        BY <2>1, <2>3, <2>4, <3>2 DEF NothingLost, Awaits, Open, ResyncPending
      <3>3. QED
        BY <3>1, <3>2
    <2>5. QED
      BY <2>1, <2>4 DEF NothingLost
  <1>4. ASSUME NEW s \in Session, Cleanup(s)  PROVE  NothingLost'
    <2>1. UNCHANGED <<log, inbox, current, stage, identified, closed, natsUp, resyncDue, dropping>>
      BY <1>4 DEF Cleanup, apiVars, natsVars, hubVars, identityVars
    <2>2. ~Awaits(s)
      BY <1>4 DEF Cleanup, At, Awaits, Lives, LifeOf
    <2>3. \A x \in Session \ {s} : since'[x] = since[x]
      BY <1>4 DEF Cleanup, Forget, TypeOK
    <2>4. QED
      BY <2>1, <2>2, <2>3, LostKept DEF Awaits, Open, ResyncPending
  <1>5. ASSUME NEW u \in User, NEW g \in Guild, PublishGuildCreate(u, g)  PROVE  NothingLost'
    BY <1>5, LostPublish DEF PublishGuildCreate
  <1>6. ASSUME NEW g \in Guild, PublishToGuild(g)  PROVE  NothingLost'
    BY <1>6, LostPublish DEF PublishToGuild
  <1>7. CASE NatsDown \/ NatsReconnect \/ DropAllSessions
    BY <1>7, NobodyAwaits DEF NothingLost
  <1>8. CASE TakeEvent
    BY <1>8, LostTake
  <1>9. CASE Shutdown \/ Exit
    BY <1>9 DEF Shutdown, Exit, NothingLost
  <1>10. ASSUME (\E u \in User, g \in Guild : AddMember(u, g)) \/ UNCHANGED vars
         PROVE  NothingLost'
    <2>1. UNCHANGED <<log, inbox, current, stage, since, identified, closed, natsUp, resyncDue, dropping>>
      BY <1>10 DEF AddMember, vars, apiVars, natsVars, identityVars, hubVars, sentVars
    <2>2. QED
      BY <2>1, LostKept DEF Awaits, Open, ResyncPending
  <1>11. ASSUME NEW s \in Session,
               \/ ServeWS(s) \/ LoadGuilds(s) \/ IdentifyFails(s) \/ SessionStep(s)
               \/ Heartbeat(s) \/ ReadError(s) \/ WriteFrame(s) \/ WriterStops(s)
               \/ DispatchTo(s) \/ DropSession(s) \/ ShutdownSession(s)
        PROVE  NothingLost'
    BY <1>1, <1>2, <1>3, <1>4, <1>11 DEF SessionStep
  <1>12. QED
    BY <1>5, <1>6, <1>7, <1>8, <1>9, <1>10, <1>11 DEF Next

-----------------------------------------------------------------------------
(* No silent gap.                                                          *)

\* An event of a guild that a session was sent an earlier event of.
Follows(s, first, id) ==
    first < id /\ since[s] < id /\ log[first].scope = "guild" /\ log[first] = log[id]

\* No session gets something new, and none loses what was in flight to it.
LEMMA GapKept ==
    ASSUME NoSilentGap, UNCHANGED <<log, inbox, current>>,
           stage' = "serving" => stage = "serving",
           \A s \in Session :
                Open(s)' /\ ~ResyncPending(s)' /\ got'[s] # <<>>
                    => /\ Open(s) /\ ~ResyncPending(s)
                       /\ got'[s] = got[s] /\ since'[s] = since[s]
                       /\ s \in targets => s \in targets'
    PROVE  NoSilentGap'
  <1> SUFFICES ASSUME stage' = "serving", NEW s \in Session, Open(s)', ~ResyncPending(s)',
                      NEW first \in ToSet(got'[s]), NEW id \in DOMAIN log', Follows(s, first, id)'
               PROVE  id \in ToSet(got'[s]) \/ InFlight(s, id)'
    BY DEF NoSilentGap, Follows
  <1>1. got'[s] # <<>>
    BY EmptySet
  <1>2. id \in ToSet(got[s]) \/ InFlight(s, id)
    BY <1>1 DEF NoSilentGap, Follows
  <1>3. QED
    BY <1>1, <1>2 DEF InFlight

\* Whoever was sent something identified.
LEMMA SentIdentified ==
    ASSUME Lives, NEW s \in Session, NEW id \in ToSet(got[s])
    PROVE  identified[s]
  BY EmptySet DEF Lives, LifeOf

LEMMA GapPublish ==
    ASSUME TypeOK, NoSilentGap, NEW event, Publish(event),
           UNCHANGED <<hubVars, identityVars, closed, sentVars>>
    PROVE  NoSilentGap'
  <1> SUFFICES ASSUME stage = "serving", NEW s \in Session, Open(s)', ~ResyncPending(s)',
                      NEW first \in ToSet(got[s]), NEW id \in DOMAIN log', Follows(s, first, id)'
               PROVE  id \in ToSet(got[s]) \/ InFlight(s, id)'
    BY DEF NoSilentGap, Follows, hubVars, sentVars
  <1>1. Open(s) /\ ~ResyncPending(s) /\ natsUp
    BY DEF ResyncPending, Open, Publish, hubVars
  <1>2. inbox' = Append(inbox, Len(log) + 1) /\ log' = Append(log, event)
    BY <1>1 DEF Publish
  <1>3. /\ DOMAIN log' = 1 .. Len(log) + 1 /\ DOMAIN log = 1 .. Len(log) /\ Len(log) \in Nat
        /\ \A i \in DOMAIN log : log'[i] = log[i]
    BY <1>2 DEF TypeOK
  <1>4. ToSet(inbox') = ToSet(inbox) \cup {Len(log) + 1}
    <2>1. inbox \in Seq(Nat) /\ Len(log) + 1 \in Nat
      BY <1>3 DEF TypeOK
    <2>2. QED
      BY <1>2, <2>1, AppendSet
  <1>5. CASE id = Len(log) + 1
    BY <1>4, <1>5 DEF InFlight
  <1>6. CASE id \in DOMAIN log
    <2>1. first \in DOMAIN log
      BY <1>3 DEF TypeOK, ToSet
    <2>2. Follows(s, first, id)
      BY <1>3, <1>6, <2>1 DEF Follows, sentVars
    <2>3. id \in ToSet(got[s]) \/ InFlight(s, id)
      BY <1>1, <1>6, <2>2 DEF NoSilentGap, Follows
    <2>4. QED
      BY <1>4, <2>3 DEF InFlight, hubVars
  <1>7. QED
    BY <1>3, <1>5, <1>6

\* The next event goes to every session that was sent one of the same guild.
LEMMA GapTake ==
    ASSUME TypeOK, Lives, Routed, NoSilentGap, TakeEvent
    PROVE  NoSilentGap'
  <1>1. inbox \in Seq(Nat) /\ inbox # <<>> /\ current' = Head(inbox) /\ inbox' = Tail(inbox)
    BY DEF TypeOK, TakeEvent
  <1>2. ToSet(inbox) = {current'} \cup ToSet(inbox')
    BY <1>1, HeadTailSet
  <1>3. UNCHANGED <<stage, log, got, since, identified, guildIDs, closed, natsUp, resyncDue, dropping>>
    BY DEF TakeEvent, apiVars, sentVars, identityVars
  <1> SUFFICES ASSUME stage = "serving", NEW s \in Session, Open(s), ~ResyncPending(s),
                      NEW first \in ToSet(got[s]), NEW id \in DOMAIN log, Follows(s, first, id)
               PROVE  id \in ToSet(got[s]) \/ InFlight(s, id)'
    BY <1>3 DEF NoSilentGap, Follows, Open, ResyncPending
  <1>4. id \in ToSet(got[s]) \/ id \in ToSet(inbox)
    BY DEF NoSilentGap, Follows, InFlight, TakeEvent
  <1>5. CASE id = current'
    <2>1. identified[s] /\ s \in registry
      BY SentIdentified, OpenIsRegistered
    <2>2. log[id].scope = "guild" /\ log[id].guild \in guildIDs[s]
      BY DEF Follows, Routed, RoutesGuildOf
    <2>3. s \in targets'
      BY <1>1, <1>5, <2>1, <2>2 DEF TakeEvent, Routes
    <2>4. QED
      BY <1>5, <2>3 DEF InFlight
  <1>6. CASE id # current'
    BY <1>2, <1>4, <1>6 DEF InFlight
  <1>7. QED
    BY <1>5, <1>6

\* Once a session is sent an event, what it lacks of the later ones is in the inbox.
LEMMA GapDispatch ==
    ASSUME TypeOK, Lives, NothingLost, NoSilentGap, NEW s \in Session, DispatchTo(s)
    PROVE  NoSilentGap'
  <1>1. /\ UNCHANGED <<stage, log, inbox, current, since, identified, natsUp, resyncDue, dropping>>
        /\ targets' = targets \ {s} /\ s \in targets
    BY DEF DispatchTo, apiVars, natsVars
  <1>2. \A x \in Session : Open(x)' => Open(x)
    BY Sending DEF DispatchTo, Open
  <1>3. \A x \in Session \ {s} : got'[x] = got[x]
    BY DEF DispatchTo, TypeOK
  <1> SUFFICES ASSUME stage = "serving", NEW x \in Session, Open(x)', ~ResyncPending(x),
                      NEW first \in ToSet(got'[x]), NEW id \in DOMAIN log, Follows(x, first, id)
               PROVE  id \in ToSet(got'[x]) \/ InFlight(x, id)'
    BY <1>1 DEF NoSilentGap, Follows, ResyncPending
  <1>4. CASE x # s
    BY <1>1, <1>2, <1>3, <1>4 DEF NoSilentGap, Follows, InFlight
  <1>5. CASE x = s
    <2>1. Accepts(s)
      BY <1>5, Sending DEF DispatchTo
    <2>2. got'[s] = Append(got[s], current)
      BY <2>1 DEF DispatchTo, TypeOK
    <2>3. ToSet(got'[s]) = ToSet(got[s]) \cup {current}
      <3>1. got[s] \in Seq(Nat) /\ current \in Nat
        BY DEF TypeOK
      <3>2. QED
        BY <2>2, <3>1, AppendSet
    <2>4. CASE first \in ToSet(got[s])
      <3>1. id \in ToSet(got[s]) \/ InFlight(s, id)
        BY <1>2, <1>5, <2>4 DEF NoSilentGap, Follows
      <3>2. QED
        BY <1>1, <1>5, <2>3, <3>1 DEF InFlight
    <2>5. CASE first = current
      <3>1. Awaits(s)
        BY <1>1, <1>2, <1>5 DEF Awaits, Lives, LifeOf
      <3>2. id \in ToSet(inbox)
        BY <1>5, <2>5, <3>1 DEF NothingLost, Follows
      <3>3. QED
        BY <1>1, <3>2 DEF InFlight
    <2>6. QED
      BY <1>5, <2>3, <2>4, <2>5
  <1>6. QED
    BY <1>4, <1>5

LEMMA GapStep ==
    ASSUME TypeOK, Lives, Routed, NothingLost, NoSilentGap, [Next]_vars
    PROVE  NoSilentGap'
  <1>1. ASSUME NEW s \in Session,
               \/ ServeWS(s) \/ LoadGuilds(s) \/ WriteFrame(s) \/ WriterStops(s)
        PROVE  NoSilentGap'
    <2>1. UNCHANGED <<log, inbox, current, stage, got, since, targets, closed, natsUp, resyncDue, dropping>>
      BY <1>1 DEF ServeWS, LoadGuilds, WriteFrame, WriterStops,
          apiVars, natsVars, hubVars, sentVars
    <2>2. QED
      BY <2>1, GapKept DEF Open, ResyncPending
  <1>2. ASSUME NEW s \in Session,
               \/ IdentifyFails(s) \/ Greet(s) \/ Heartbeat(s) \/ ReadError(s)
               \/ DropSession(s) \/ ShutdownSession(s)
        PROVE  NoSilentGap'
    <2>1. UNCHANGED <<log, inbox, current, stage, got, since, targets, natsUp, resyncDue>>
      BY <1>2 DEF IdentifyFails, Greet, Heartbeat, ReadError, DropSession, ShutdownSession,
          apiVars, natsVars, hubVars, sentVars
    <2>2. \A x \in Session : Open(x)' => Open(x)
      <3>1. ASSUME Send(s)  PROVE  \A x \in Session : Open(x)' => Open(x)
        BY <3>1, Sending DEF Open
      <3>2. ASSUME NEW code \in CloseCode, closed' = CloseWith(s, code)
            PROVE  \A x \in Session : Open(x)' => Open(x)
        BY <3>2, Closing DEF Open
      <3>3. QED
        BY <1>2, <3>1, <3>2 DEF IdentifyFails, Greet, Heartbeat, ReadError, DropSession,
            ShutdownSession, CloseCode
    <2>3. \A x \in Session : Open(x)' => (x \in dropping => x \in dropping')
      <3>1. CASE DropSession(s)
        BY <3>1, Closing DEF DropSession, CloseCode
      <3>2. CASE ~DropSession(s)
        BY <1>2, <3>2 DEF IdentifyFails, Greet, Heartbeat, ReadError, ShutdownSession, hubVars
      <3>3. QED
        BY <3>1, <3>2
    <2>4. QED
      BY <2>1, <2>2, <2>3, GapKept DEF ResyncPending
  <1>3. ASSUME NEW s \in Session, Install(s)  PROVE  NoSilentGap'
    <2>1. UNCHANGED <<log, inbox, current, stage, got, targets, closed, natsUp, resyncDue, dropping>>
      BY <1>3 DEF Install, apiVars, natsVars, hubVars
    <2>2. got[s] = <<>>
      BY <1>3 DEF Install, At, Lives, LifeOf
    <2>3. \A x \in Session \ {s} : since'[x] = since[x]
      BY <1>3 DEF Install, TypeOK
    <2>4. QED
      BY <2>1, <2>2, <2>3, GapKept DEF Open, ResyncPending
  <1>4. ASSUME NEW s \in Session, Cleanup(s)  PROVE  NoSilentGap'
    <2>1. UNCHANGED <<log, inbox, current, stage, targets, closed, natsUp, resyncDue, dropping>>
      BY <1>4 DEF Cleanup, apiVars, natsVars, hubVars
    <2>2. got'[s] = <<>> /\ \A x \in Session \ {s} : got'[x] = got[x] /\ since'[x] = since[x]
      BY <1>4 DEF Cleanup, Forget, TypeOK
    <2>3. QED
      BY <2>1, <2>2, GapKept DEF Open, ResyncPending
  <1>5. ASSUME NEW s \in Session, DispatchTo(s)  PROVE  NoSilentGap'
    BY <1>5, GapDispatch
  <1>6. ASSUME NEW u \in User, NEW g \in Guild, PublishGuildCreate(u, g)  PROVE  NoSilentGap'
    BY <1>6, GapPublish DEF PublishGuildCreate
  <1>7. ASSUME NEW g \in Guild, PublishToGuild(g)  PROVE  NoSilentGap'
    BY <1>7, GapPublish DEF PublishToGuild
  <1>8. CASE NatsDown \/ NatsReconnect \/ DropAllSessions
    <2>1. UNCHANGED <<identified, got>>
      BY <1>8 DEF NatsDown, NatsReconnect, DropAllSessions, identityVars, sentVars
    <2>2. ASSUME NEW s \in Session, NEW first \in ToSet(got[s])  PROVE  ~(Open(s) /\ ~ResyncPending(s))'
      BY <1>8, <2>1, NobodyAwaits, SentIdentified DEF Awaits
    <2>3. QED
      BY <2>1, <2>2 DEF NoSilentGap
  <1>9. CASE TakeEvent
    BY <1>9, GapTake
  <1>10. CASE Shutdown \/ Exit
    BY <1>10 DEF Shutdown, Exit, NoSilentGap
  <1>11. ASSUME (\E u \in User, g \in Guild : AddMember(u, g)) \/ UNCHANGED vars
         PROVE  NoSilentGap'
    <2>1. UNCHANGED <<log, inbox, current, stage, got, since, targets, closed, natsUp, resyncDue, dropping>>
      BY <1>11 DEF AddMember, vars, apiVars, natsVars, hubVars, sentVars
    <2>2. QED
      BY <2>1, GapKept DEF Open, ResyncPending
  <1>12. ASSUME NEW s \in Session,
               \/ ServeWS(s) \/ LoadGuilds(s) \/ IdentifyFails(s) \/ SessionStep(s)
               \/ Heartbeat(s) \/ ReadError(s) \/ WriteFrame(s) \/ WriterStops(s)
               \/ DispatchTo(s) \/ DropSession(s) \/ ShutdownSession(s)
         PROVE  NoSilentGap'
    BY <1>1, <1>2, <1>3, <1>4, <1>5, <1>12 DEF SessionStep
  <1>13. QED
    BY <1>6, <1>7, <1>8, <1>9, <1>10, <1>11, <1>12 DEF Next

-----------------------------------------------------------------------------
(* The theorems.                                                           *)

LEMMA FeedInit ==
    Init => FeedInv /\ Drained
  <1>1. Init => NothingLost /\ NoSilentGap
    BY EmptySet DEF Init, NothingLost, NoSilentGap
  <1>2. QED
    BY <1>1, TypesInit, LivesInit, OrderedInit, RoutedInit DEF FeedInv

LEMMA FeedStep ==
    ASSUME FeedInv, Drained, [Next]_vars
    PROVE  FeedInv' /\ Drained'
  <1>1. TypeOK /\ Lives /\ Ordered /\ Routed /\ NothingLost /\ NoSilentGap
    BY DEF FeedInv
  <1>2. TypeOK' /\ Lives' /\ Drained'
    BY <1>1, TypesStep, LivesStep, DrainedStep DEF Ordered
  <1>3. Ordered' /\ Routed'
    BY <1>1, OrderedStep, RoutedStep
  <1>4. NothingLost' /\ NoSilentGap'
    BY <1>1, LostStep, GapStep
  <1>5. QED
    BY <1>2, <1>3, <1>4 DEF FeedInv

\* The inductive invariant of the module: what a session was sent, what waits in
\* the inbox and what the session routes fit together, wherever it is in its life.
THEOREM GatewayInvariant ==
    Spec => [](FeedInv /\ Drained)
  <1>1. FeedInv /\ Drained /\ [Next]_vars => (FeedInv /\ Drained)'
    BY FeedStep
  <1>2. QED
    BY <1>1, FeedInit, PTL DEF Spec

\* Every variable of the gateway keeps its type.
THEOREM GatewayTypes ==
    Spec => []TypeOK
  <1>1. FeedInv => TypeOK
    BY DEF FeedInv
  <1>2. QED
    BY <1>1, GatewayInvariant, PTL

\* Whatever sessions connect, identify or fail while the process shuts down, it
\* exits only when none is registered and every one it waited for is done.
THEOREM ShutdownLeavesNobody ==
    Spec => []ExitLeavesNobody
  <1>1. FeedInv /\ Drained => ExitLeavesNobody
    <2> SUFFICES ASSUME FeedInv, Drained, stage = "exited"
                 PROVE  registry = {} /\ \A s \in draining : At(s, "done")
      BY DEF ExitLeavesNobody
    <2>1. \A s \in registry : s \in Session /\ At(s, "done") /\ ~At(s, "done")
      BY DEF FeedInv, Lives, LifeOf, Drained, At, TypeOK
    <2>2. QED
      BY <2>1 DEF Drained
  <1>2. QED
    BY <1>1, GatewayInvariant, PTL

\* Events reach every session in order, none twice, none to a rejected one, and
\* an open session misses none of a guild without a resync owed to it, whatever
\* is lost in NATS or does not fit a buffer.
THEOREM FeedStaysWhole ==
    Spec => []FeedIsWhole
  <1>1. FeedInv => FeedIsWhole
    BY DEF FeedInv, FeedIsWhole, Ordered, Increasing, InOrder, Lives, LifeOf, RejectedGetsNothing
  <1>2. QED
    BY <1>1, GatewayInvariant, PTL

=============================================================================
