------------------------------- MODULE Gateway -------------------------------
(***************************************************************************)
(* One gateway process: the hub's registry and dispatch goroutine          *)
(* (ws/hub.go), the goroutines of its WebSocket sessions (ws/session.go),  *)
(* the NATS subscription that feeds it and its shutdown                    *)
(* (cmd/gateway/main.go).  The api service appears as the writer of        *)
(* user_guilds and the publisher of events.                                *)
(*                                                                         *)
(* Calls to presence are a step of the session that makes them; what they  *)
(* do is module Presence.                                                  *)
(*                                                                         *)
(* A definition Name_Variant is Name with a bug put in; only the mutation  *)
(* runs use it.                                                            *)
(***************************************************************************)
EXTENDS Integers, Sequences, SequencesExt

CONSTANTS
    Session,      \* WebSocket connections, each used once
    User,
    Guild,
    Holder,       \* the user whose token the socket's client holds
    Founders,     \* user_guilds when the process starts
    BufSize,      \* capacity of sendCh (256)
    MaxEvents,    \* bound on the events published during a behaviour
    Outages       \* bound: whether the NATS connection may be lost

ASSUME ConstantsAssumption ==
    /\ Holder \in [Session -> User]
    /\ Founders \in [User -> SUBSET Guild]
    /\ BufSize \in Nat \ {0}
    /\ MaxEvents \in Nat
    /\ Outages \in BOOLEAN

VARIABLES
    \* the api service and NATS
    member,     \* user_guilds: the guilds of each user
    joining,    \* memberships written whose GUILD_CREATE is not yet published
    log,        \* every event published, in NATS order; an event's id is its place
    natsUp,     \* this process is connected to NATS
    inbox,      \* ids received and not yet handled by the subscription's goroutine
    resyncDue,  \* the reconnect callback has not yet run
    \* the hub
    registry,   \* h.sessions
    current,    \* id of the event handleNATS works on, 0 before the first
    targets,    \* sessions it has still to send the event to
    dropping,   \* sessions DropAllSessions has still to close
    stage,      \* of main: serving, draining (hub.closing), exited
    draining,   \* the sessions Shutdown waits for
    \* the sessions
    reader,     \* program counter of the read goroutine
    writing,    \* the write goroutine runs; when it returns it closes the socket
    closed,     \* why s.closed was closed, "open" until then
    loaded,     \* what UserGuildIDs returned to handleIdentify
    identified, \* s.identified; s.userID is then Holder[s]
    guildIDs,   \* s.guildIDs, the routing set
    queued,     \* frames in sendCh
    got,        \* ids of the events put on sendCh (history variable)
    since       \* how many events were published before Install (history variable)

natsVars == <<natsUp, inbox, resyncDue>>
apiVars == <<member, joining, log>>
hubVars == <<registry, current, targets, dropping, stage, draining>>
sentVars == <<got, since>>
identityVars == <<loaded, identified, guildIDs>>
vars == <<apiVars, natsVars, hubVars, identityVars, reader, writing, closed, queued, sentVars>>

(***************************************************************************)
(* none        no socket yet                                               *)
(* reading     blocked in ReadMessage                                      *)
(* installing  UserGuildIDs returned, s.mu not yet taken                   *)
(* greeting    identified; presence.Connect, then READY                    *)
(* cleanup     the read loop returned and the session is unregistered;     *)
(*             presence.Disconnect is called                               *)
(* done        s.done is closed                                            *)
(***************************************************************************)
Reader == {"none", "reading", "installing", "greeting", "cleanup", "done"}

\* Close code 4001 (bad token, unknown user, no identify in time), or any other.
CloseCode == {"rejected", "ended"}

GuildEvent == [scope : {"guild"}, guild : Guild]
UserEvent == [scope : {"user"}, user : User, guild : Guild]     \* GUILD_CREATE

TypeOK ==
    /\ member \in [User -> SUBSET Guild]
    /\ joining \in SUBSET (User \X Guild)
    /\ log \in Seq(GuildEvent \cup UserEvent)
    /\ natsUp \in BOOLEAN /\ resyncDue \in BOOLEAN
    /\ inbox \in Seq(1..Len(log))
    /\ registry \in SUBSET Session
    /\ current \in 0..Len(log)
    /\ targets \in SUBSET Session
    /\ dropping \in SUBSET Session
    /\ stage \in {"serving", "draining", "exited"}
    /\ draining \in SUBSET Session
    /\ reader \in [Session -> Reader]
    /\ writing \in [Session -> BOOLEAN]
    /\ closed \in [Session -> CloseCode \cup {"open"}]
    /\ identified \in [Session -> BOOLEAN]
    /\ loaded \in [Session -> SUBSET Guild]
    /\ guildIDs \in [Session -> SUBSET Guild]
    /\ queued \in [Session -> 0..BufSize]
    /\ got \in [Session -> Seq(1..Len(log))]
    /\ since \in [Session -> 0..Len(log)]

Init ==
    /\ member = Founders
    /\ joining = {}
    /\ log = <<>>
    /\ natsUp = TRUE /\ inbox = <<>> /\ resyncDue = FALSE
    /\ registry = {} /\ current = 0 /\ targets = {} /\ dropping = {}
    /\ stage = "serving" /\ draining = {}
    /\ reader = [s \in Session |-> "none"]
    /\ writing = [s \in Session |-> FALSE]
    /\ closed = [s \in Session |-> "open"]
    /\ identified = [s \in Session |-> FALSE]
    /\ loaded = [s \in Session |-> {}]
    /\ guildIDs = [s \in Session |-> {}]
    /\ queued = [s \in Session |-> 0]
    /\ got = [s \in Session |-> <<>>]
    /\ since = [s \in Session |-> 0]

-----------------------------------------------------------------------------
(* The api service and NATS.                                               *)

\* Core NATS is at-most-once: a subscriber that is not connected never sees it.
Publish(event) ==
    /\ Len(log) < MaxEvents
    /\ log' = Append(log, event)
    /\ inbox' = IF natsUp /\ stage = "serving" THEN Append(inbox, Len(log) + 1) ELSE inbox
    /\ UNCHANGED <<natsUp, resyncDue>>

\* Guilds.AddMember, by a create-guild or join request.
AddMember(u, g) ==
    /\ g \notin member[u]
    /\ member' = [member EXCEPT ![u] = @ \cup {g}]
    /\ joining' = joining \cup {<<u, g>>}
    /\ UNCHANGED <<log, natsVars, hubVars, identityVars, reader, writing, closed, queued, sentVars>>

\* Publisher.ToUser(GUILD_CREATE), the last step of the same request.
PublishGuildCreate(u, g) ==
    /\ <<u, g>> \in joining
    /\ joining' = joining \ {<<u, g>>}
    /\ Publish([scope |-> "user", user |-> u, guild |-> g])
    /\ UNCHANGED <<member, hubVars, identityVars, reader, writing, closed, queued, sentVars>>

\* Publisher.ToGuild: any guild-scoped event (a message, a presence update...).
PublishToGuild(g) ==
    /\ Publish([scope |-> "guild", guild |-> g])
    /\ UNCHANGED <<member, joining, hubVars, identityVars, reader, writing, closed, queued, sentVars>>

NatsDown ==
    /\ Outages
    /\ natsUp
    /\ natsUp' = FALSE
    /\ UNCHANGED <<inbox, resyncDue, apiVars, hubVars, identityVars,
                   reader, writing, closed, queued, sentVars>>

\* nats.go resubscribes and schedules the ReconnectHandler.
NatsReconnect ==
    /\ ~natsUp
    /\ natsUp' = TRUE
    /\ resyncDue' = TRUE
    /\ UNCHANGED <<inbox, apiVars, hubVars, identityVars,
                   reader, writing, closed, queued, sentVars>>

-----------------------------------------------------------------------------
(* Closing and sending.                                                    *)

\* s.close: closeOnce keeps the first code.
CloseWith(s, code) == IF closed[s] = "open" THEN [closed EXCEPT ![s] = code] ELSE closed

\* s.send: refused when closed, a full buffer closes the session.
Accepts_NoLimit(s) == closed[s] = "open"
Accepts(s) == closed[s] = "open" /\ queued[s] < BufSize
Send_DropsFrame(s) ==
    /\ queued' = IF Accepts(s) THEN [queued EXCEPT ![s] = @ + 1] ELSE queued
    /\ UNCHANGED closed
Send(s) ==
    /\ queued' = IF Accepts(s) THEN [queued EXCEPT ![s] = @ + 1] ELSE queued
    /\ closed' = IF queued[s] = BufSize THEN CloseWith(s, "ended") ELSE closed

-----------------------------------------------------------------------------
(* The session.                                                            *)

At(s, pc) == reader[s] = pc
Goto(s, pc) == reader' = [reader EXCEPT ![s] = pc]

ServeWS_WhileDraining(s) ==
    /\ At(s, "none")
    /\ Goto(s, "reading")
    /\ registry' = registry \cup {s}
    /\ writing' = [writing EXCEPT ![s] = TRUE]
    /\ queued' = [queued EXCEPT ![s] = 1]
    /\ UNCHANGED <<apiVars, natsVars, current, targets, dropping, stage, draining,
                   identityVars, closed, sentVars>>

\* ServeWS: registers (unless the hub is closing), starts the writer, sends HELLO.
ServeWS(s) ==
    /\ At(s, "none")
    /\ IF stage = "draining"
       THEN /\ Goto(s, "done")
            /\ UNCHANGED <<registry, writing, queued>>
       ELSE /\ Goto(s, "reading")
            /\ registry' = registry \cup {s}
            /\ writing' = [writing EXCEPT ![s] = TRUE]
            /\ queued' = [queued EXCEPT ![s] = 1]
    /\ UNCHANGED <<apiVars, natsVars, current, targets, dropping, stage, draining,
                   identityVars, closed, sentVars>>

\* handleIdentify, ignored once identified: the token is valid, the user exists
\* and user_guilds is read.  A session already closed goes on reading the frames
\* that have arrived, so it can still identify.
LoadGuilds(s) ==
    /\ At(s, "reading")
    /\ ~identified[s]
    /\ loaded' = [loaded EXCEPT ![s] = member[Holder[s]]]
    /\ Goto(s, "installing")
    /\ UNCHANGED <<apiVars, natsVars, hubVars, identified, guildIDs,
                   writing, closed, queued, sentVars>>

\* Bad token or unknown user (4001), or a failed read of users or user_guilds.
IdentifyFails(s) ==
    /\ At(s, "reading")
    /\ ~identified[s]
    /\ closed[s] = "open"
    /\ \E code \in CloseCode : closed' = CloseWith(s, code)
    /\ UNCHANGED <<apiVars, natsVars, hubVars, identityVars, reader, writing, queued, sentVars>>

\* Under s.mu: from here on the hub routes events to the session.
Install(s) ==
    /\ At(s, "installing")
    /\ identified' = [identified EXCEPT ![s] = TRUE]
    /\ guildIDs' = [guildIDs EXCEPT ![s] = loaded[s]]
    /\ since' = [since EXCEPT ![s] = Len(log)]
    /\ loaded' = [loaded EXCEPT ![s] = {}]
    /\ Goto(s, "greeting")
    /\ UNCHANGED <<apiVars, natsVars, hubVars, writing, closed, queued, got>>

\* presence.Connect and its broadcast, READY, the heartbeat deadline.
Greet(s) ==
    /\ At(s, "greeting")
    /\ Send(s)
    /\ Goto(s, "reading")
    /\ UNCHANGED <<apiVars, natsVars, hubVars, identityVars, writing, sentVars>>

\* handleHeartbeat: the ack; the presence call changes nothing here.
Heartbeat(s) ==
    /\ At(s, "reading")
    /\ closed[s] = "open"
    /\ Send(s)
    /\ UNCHANGED <<apiVars, natsVars, hubVars, identityVars, reader, writing, sentVars>>

\* ReadMessage fails: the deadline passed, the peer left or the writer closed the
\* socket.  The loop returns and cleanup unregisters the session.
ReadError(s) ==
    /\ At(s, "reading")
    /\ \E code \in IF identified[s] THEN {"ended"} ELSE CloseCode :
          closed' = CloseWith(s, code)
    /\ registry' = registry \ {s}
    /\ Goto(s, "cleanup")
    /\ UNCHANGED <<apiVars, natsVars, current, targets, dropping, stage, draining,
                   identityVars, writing, queued, sentVars>>

\* Nothing refers to the session any more.
Forget(s) ==
    /\ queued' = [queued EXCEPT ![s] = 0]
    /\ got' = [got EXCEPT ![s] = <<>>]
    /\ since' = [since EXCEPT ![s] = 0]

Cleanup_DoneOnlyIfNotIdentified(s) ==
    /\ At(s, "cleanup")
    /\ ~identified[s]
    /\ Goto(s, "done")
    /\ Forget(s)
    /\ UNCHANGED <<apiVars, natsVars, hubVars, identityVars, writing, closed>>

\* presence.Disconnect when identified, then close(s.done).
Cleanup(s) ==
    /\ At(s, "cleanup")
    /\ Goto(s, "done")
    /\ Forget(s)
    /\ UNCHANGED <<apiVars, natsVars, hubVars, identityVars, writing, closed>>

\* writeLoop: one frame written, ...
WriteFrame(s) ==
    /\ writing[s]
    /\ queued[s] > 0
    /\ queued' = [queued EXCEPT ![s] = @ - 1]
    /\ UNCHANGED <<apiVars, natsVars, hubVars, identityVars, reader, writing, closed, sentVars>>

\* ... or a write failed, or the close frame went out: the socket is closed.
WriterStops(s) ==
    /\ writing[s]
    /\ writing' = [writing EXCEPT ![s] = FALSE]
    /\ UNCHANGED <<apiVars, natsVars, hubVars, identityVars, reader, closed, queued, sentVars>>

-----------------------------------------------------------------------------
(* The hub.                                                                *)

\* s.inGuild and s.userIDString, read under h.mu.
Routes(s, event) ==
    /\ identified[s]
    /\ IF event.scope = "guild"
       THEN event.guild \in guildIDs[s]
       ELSE event.user = Holder[s]

\* handleNATS takes the next event and collects its targets under h.mu.
TakeEvent ==
    /\ inbox # <<>>
    /\ targets = {}
    /\ current' = Head(inbox)
    /\ inbox' = Tail(inbox)
    /\ targets' = {s \in registry : Routes(s, log[Head(inbox)])}
    /\ UNCHANGED <<natsUp, resyncDue, apiVars, registry, dropping, stage, draining,
                   identityVars, reader, writing, closed, queued, sentVars>>

\* One target of the loop: addGuild for a GUILD_CREATE, then send.
DispatchTo(s) ==
    /\ s \in targets
    /\ targets' = targets \ {s}
    /\ guildIDs' = IF log[current].scope = "user"
                   THEN [guildIDs EXCEPT ![s] = @ \cup {log[current].guild}]
                   ELSE guildIDs
    /\ Send(s)
    /\ got' = IF Accepts(s) THEN [got EXCEPT ![s] = Append(@, current)] ELSE got
    /\ UNCHANGED <<apiVars, natsVars, registry, current, dropping, stage, draining,
                   loaded, identified, reader, writing, since>>

\* The reconnect callback: DropAllSessions copies the registry ...
DropAllSessions ==
    /\ resyncDue
    /\ dropping = {}
    /\ resyncDue' = FALSE
    /\ dropping' = registry
    /\ UNCHANGED <<natsUp, inbox, apiVars, registry, current, targets, stage, draining,
                   identityVars, reader, writing, closed, queued, sentVars>>

\* ... and closes the copies one after the other.
DropSession(s) ==
    /\ s \in dropping
    /\ dropping' = dropping \ {s}
    /\ closed' = CloseWith(s, "ended")
    /\ UNCHANGED <<apiVars, natsVars, registry, current, targets, stage, draining,
                   identityVars, reader, writing, queued, sentVars>>

\* main, on SIGTERM: sub.Unsubscribe discards what is not yet handled, then
\* hub.Shutdown sets closing and copies the registry under h.mu.
Shutdown ==
    /\ stage = "serving"
    /\ stage' = "draining"
    /\ inbox' = <<>>
    /\ draining' = registry
    /\ UNCHANGED <<natsUp, resyncDue, apiVars, registry, current, targets, dropping,
                   identityVars, reader, writing, closed, queued, sentVars>>

ShutdownSession_IdentifiedOnly(s) ==
    /\ stage = "draining"
    /\ s \in draining
    /\ identified[s]
    /\ closed[s] = "open"
    /\ closed' = CloseWith(s, "ended")
    /\ UNCHANGED <<apiVars, natsVars, hubVars, identityVars, reader, writing, queued, sentVars>>

ShutdownSession(s) ==
    /\ stage = "draining"
    /\ s \in draining
    /\ closed[s] = "open"
    /\ closed' = CloseWith(s, "ended")
    /\ UNCHANGED <<apiVars, natsVars, hubVars, identityVars, reader, writing, queued, sentVars>>

\* wg.Wait returns; main returns and the process is gone.
Exit ==
    /\ stage = "draining"
    /\ \A s \in draining : closed[s] # "open" /\ At(s, "done")
    /\ stage' = "exited"
    /\ UNCHANGED <<apiVars, natsVars, registry, current, targets, dropping, draining,
                   identityVars, reader, writing, closed, queued, sentVars>>

-----------------------------------------------------------------------------
SessionStep(s) == Install(s) \/ Greet(s) \/ Cleanup(s)

Next ==
    /\ stage # "exited"
    /\ \/ \E s \in Session :
             \/ ServeWS(s) \/ LoadGuilds(s) \/ IdentifyFails(s) \/ SessionStep(s)
             \/ Heartbeat(s) \/ ReadError(s) \/ WriteFrame(s) \/ WriterStops(s)
             \/ DispatchTo(s) \/ DropSession(s) \/ ShutdownSession(s)
       \/ \E u \in User, g \in Guild : AddMember(u, g) \/ PublishGuildCreate(u, g)
       \/ \E g \in Guild : PublishToGuild(g)
       \/ NatsDown \/ NatsReconnect
       \/ TakeEvent \/ DropAllSessions
       \/ Shutdown \/ Exit

Spec == Init /\ [][Next]_vars

\* Goroutines run and calls return by their timeouts: a session's handler and
\* cleanup finish, a closed session's writer stops (it writes under a deadline),
\* a reader whose socket is closed fails once it has used up the frames it had
\* buffered (strong fairness: they are finite), and the loops of the hub go on.
\* Nothing obliges clients, the api service, NATS or an operator to act.
FairSpec ==
    /\ Spec
    /\ \A s \in Session :
          /\ WF_vars(SessionStep(s))
          /\ WF_vars(closed[s] # "open" /\ WriterStops(s))
          /\ SF_vars(~writing[s] /\ ReadError(s))
          /\ WF_vars(DispatchTo(s))
          /\ WF_vars(DropSession(s))
          /\ WF_vars(ShutdownSession(s))
    /\ WF_vars(TakeEvent)
    /\ WF_vars(DropAllSessions)
    /\ WF_vars(Exit)

-----------------------------------------------------------------------------
(* Properties.                                                             *)

Open(s) == closed[s] = "open"

\* A session that this process still owes a forced resync.
ResyncPending(s) == ~natsUp \/ resyncDue \/ s \in dropping

\* Event id is still on its way to the session.
InFlight(s, id) == id \in ToSet(inbox) \/ (id = current /\ s \in targets)

\* No silent gap: once an open session has been sent an event of a guild, it is
\* sent every later event of that guild; if one is lost in NATS or does not fit
\* the buffer, the session is closed or about to be, so that its client resyncs
\* (hub.go DropAllSessions: "a forced resync is the simplest way to close that
\* gap"; session.go send: "a full buffer means a dead/slow client").
NoSilentGap ==
    stage = "serving" =>
        \A s \in Session : Open(s) /\ ~ResyncPending(s) =>
            \A first \in ToSet(got[s]), id \in DOMAIN log :
                (/\ first < id
                 /\ since[s] < id
                 /\ log[first].scope = "guild"
                 /\ log[first] = log[id])
                    => id \in ToSet(got[s]) \/ InFlight(s, id)

\* Events reach a session in the order NATS delivered them, none of them twice.
InOrder ==
    \A s \in Session : \A i, j \in DOMAIN got[s] : i < j => got[s][i] < got[s][j]

\* A session closed with 4001 was never sent an event, even when a later
\* identify of the same connection succeeds before the socket is closed.
RejectedGetsNothing ==
    \A s \in Session : closed[s] = "rejected" => got[s] = <<>>

\* What a session is sent is a stretch of the log without holes, in order, for
\* as long as its connection is not ended, and nothing at all if it was rejected.
FeedIsWhole == InOrder /\ NoSilentGap /\ RejectedGetsNothing

\* Shutdown leaves nobody registered: no session registers behind its copy of
\* the registry (hub.go: "closes every session gracefully and stops accepting
\* new ones").
ExitLeavesNobody ==
    stage = "exited" => registry = {} /\ \A s \in draining : At(s, "done")

\* Every closed session is cleaned up, whatever its goroutines were doing when
\* it was closed, unless the process exits first.
ClosedSessionsEnd ==
    \A s \in Session :
        (~Open(s) /\ ~At(s, "none")) ~> (At(s, "done") \/ stage = "exited")

\* Shutdown terminates: it waits for no session that cannot finish.
ShutdownCompletes == stage = "draining" ~> stage = "exited"

\* DEPLOYMENT.md: "A user can therefore connect to any gateway replica and still
\* receive all their events": when nothing is in flight, an identified session
\* routes every guild of its user.
Quiet == inbox = <<>> /\ targets = {} /\ joining = {} /\ stage = "serving"
HearsEveryGuild ==
    Quiet => \A s \in Session :
        (Open(s) /\ At(s, "reading") /\ identified[s] /\ ~ResyncPending(s))
            => member[Holder[s]] \subseteq guildIDs[s]

=============================================================================
