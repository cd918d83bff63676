-------------------------------- MODULE Guilds --------------------------------
(***************************************************************************)
(* Guilds, memberships, channels and invites: the handlers that write them *)
(* (httpapi/guild_handlers.go) over the tables guilds, guild_members,      *)
(* user_guilds, channels and channels_by_id (store/guilds.go,              *)
(* store/channels.go) and invites (store/invites.go).                      *)
(*                                                                         *)
(* Membership and channels are each written to two tables, one statement   *)
(* after the other, and nothing is ever rolled back.  Each statement is a  *)
(* step; it may fail, and a failed write may have been applied all the     *)
(* same.  An api crash is a request that takes no further step.  Ids are   *)
(* random: no two requests draw the same one.  No row is ever deleted, so  *)
(* what a handler has checked stays true.                                  *)
(*                                                                         *)
(* A definition Name_Variant is Name with a bug put in; only the mutation  *)
(* runs use it.                                                            *)
(***************************************************************************)
EXTENDS Naturals, Sequences

CONSTANTS
    User, Code,
    Guild, Channel,   \* ids, numbered as they are drawn
    MaxRequests,      \* requests of a behaviour (bound)
    None              \* no id

VARIABLES
    table,      \* the five tables written by plain inserts: table -> its rows
    invites,    \* code -> guild_id
    request,    \* what each request is doing, and how it ended
    published   \* the events sent to NATS (history)

vars == <<table, invites, request, published>>

\* Requests are numbered as they arrive.
Request == 1 .. MaxRequests

Member == Guild \X User
Place == Guild \X Channel
Rows ==
    [guilds : SUBSET Member, guild_members : SUBSET Member, user_guilds : SUBSET Member,
     channels : SUBSET Place, channels_by_id : SUBSET Place]

Steps_MemberBackwards(job) ==
    CASE job = "create" ->
            <<"guilds", "guild_members", "user_guilds", "channels", "channels_by_id", "GUILD_CREATE">>
      [] job = "join" ->
            <<"user_guilds", "guild_members", "user", "GUILD_MEMBER_ADD", "GUILD_CREATE">>
      [] job = "channel" -> <<"channels", "channels_by_id", "CHANNEL_CREATE">>
      [] OTHER -> <<>>

\* What the handler of a job does in turn, after its checks: the tables it
\* inserts into, the user it reads, the events it publishes.
Steps(job) ==
    CASE job = "create" ->
            <<"guilds", "guild_members", "user_guilds", "channels", "channels_by_id", "GUILD_CREATE">>
      [] job = "join" ->
            <<"guild_members", "user_guilds", "user", "GUILD_MEMBER_ADD", "GUILD_CREATE">>
      [] job = "channel" -> <<"channels", "channels_by_id", "CHANNEL_CREATE">>
      [] OTHER -> <<>>

Job == {"create", "join", "channel", "invite"}
Event == {"GUILD_CREATE", "GUILD_MEMBER_ADD", "CHANNEL_CREATE"}
State == {"checking", "running", "ok", "failed"}

Begun ==
    [job : Job, state : State, at : 1 .. 7, user : User, guild : Guild, channel : Channel \cup {None},
     code : Code \cup {None}]
Unsent == [state |-> "unsent"]

Sent(r) == request[r] # Unsent
Row_UserFirst(r, t) ==
    IF t \in {"channels", "channels_by_id", "CHANNEL_CREATE"}
    THEN <<request[r].channel, request[r].guild>>
    ELSE <<request[r].user, request[r].guild>>

Row(r, t) ==
    IF t \in {"channels", "channels_by_id", "CHANNEL_CREATE"}
    THEN <<request[r].guild, request[r].channel>>
    ELSE <<request[r].guild, request[r].user>>

TypeOK ==
    /\ table \in Rows
    /\ invites \in UNION {[D -> Guild] : D \in SUBSET Code}
    /\ request \in [Request -> Begun \cup {Unsent}]
    /\ published \subseteq Event \X (Member \cup Place)

Init ==
    /\ table = [t \in {"guilds", "guild_members", "user_guilds", "channels", "channels_by_id"} |-> {}]
    /\ invites = <<>>
    /\ request = [r \in Request |-> Unsent]
    /\ published = {}

-----------------------------------------------------------------------------
(* A request arrives and its handler makes its checks.                     *)

Begin(r, job, state, u, g, c) ==
    /\ ~Sent(r) /\ \A q \in 1 .. r - 1 : Sent(q)
    /\ request' = [request EXCEPT ![r] =
            [job |-> job, state |-> state, at |-> 1, user |-> u, guild |-> g, channel |-> c, code |-> None]]
    /\ UNCHANGED <<table, invites, published>>

DrawnGuilds == {request[r].guild : r \in {q \in Request : Sent(q) /\ request[q].job = "create"}}
DrawnChannels == {request[r].channel : r \in {q \in Request : Sent(q)}}

\* A random id is a new one.
Draws(id, Ids, drawn) == id \notin drawn /\ \A i \in Ids : i < id => i \in drawn

\* handleCreateGuild draws the ids of the guild and of #general.
CreateGuild(r, u, g, c) ==
    /\ Draws(g, Guild, DrawnGuilds) /\ Draws(c, Channel, DrawnChannels)
    /\ Begin(r, "create", "running", u, g, c)

\* handleCreateChannel: only the owner.
CreateChannel(r, u, g, c) ==
    /\ <<g, u>> \in table["guilds"] /\ Draws(c, Channel, DrawnChannels)
    /\ Begin(r, "channel", "running", u, g, c)

RequireMember(g, u) ==
    /\ \E owner \in User : <<g, owner>> \in table["guilds"]
    /\ <<g, u>> \in table["guild_members"]

CreateInvite(r, u, g) ==
    /\ RequireMember(g, u)
    /\ Begin(r, "invite", "running", u, g, None)

\* handleJoinInvite finds the invite and the guild.
JoinInvite(r, u, code) ==
    /\ code \in DOMAIN invites
    /\ \E owner \in User : <<invites[code], owner>> \in table["guilds"]
    /\ Begin(r, "join", "checking", u, invites[code], None)

\* ... and whether the user is a member already: an idempotent join.
CheckMember(r) ==
    /\ Sent(r) /\ request[r].state = "checking"
    /\ LET u == request[r].user
           g == request[r].guild
       IN request' = [request EXCEPT ![r].state =
                          IF <<g, u>> \in table["guild_members"] THEN "ok" ELSE "running"]
    /\ UNCHANGED <<table, invites, published>>

-----------------------------------------------------------------------------
(* Its statements, one by one.                                             *)

Running(r) == Sent(r) /\ request[r].state = "running" /\ request[r].job # "invite"
Now(r) == Steps(request[r].job)[request[r].at]
Advance(r) ==
    request' = [request EXCEPT
        ![r].at = @ + 1,
        ![r].state = IF request[r].at = Len(Steps(request[r].job)) THEN "ok" ELSE @]
Fail(r) == request' = [request EXCEPT ![r].state = "failed"]

\* INSERT INTO a table.
Insert(r) ==
    /\ Running(r) /\ Now(r) \in DOMAIN table
    /\ table' = [table EXCEPT ![Now(r)] = @ \cup {Row(r, Now(r))}]
    /\ Advance(r)
    /\ UNCHANGED <<invites, published>>

\* users.GetByID, for the payload of GUILD_MEMBER_ADD.
ReadUser(r) ==
    /\ Running(r) /\ Now(r) = "user"
    /\ Advance(r)
    /\ UNCHANGED <<table, invites, published>>

\* publishEvent: an error is logged, and the request goes on.
Publish(r) ==
    /\ Running(r) /\ Now(r) \in Event
    /\ \/ published' = published \cup {<<Now(r), Row(r, Now(r))>>}
       \/ UNCHANGED published
    /\ Advance(r)
    /\ UNCHANGED <<table, invites>>

\* A statement fails: 500, with no rollback of those before it.
StatementFails(r) ==
    /\ \/ Running(r) /\ Now(r) \in DOMAIN table \cup {"user"}
       \/ Sent(r) /\ request[r].state = "checking"
    /\ \/ UNCHANGED table
       \/ /\ Running(r) /\ Now(r) \in DOMAIN table
          /\ table' = [table EXCEPT ![Now(r)] = @ \cup {Row(r, Now(r))}]
    /\ Fail(r)
    /\ UNCHANGED <<invites, published>>

\* The codes that handleCreateInvite tries at most.
Tries == 3

Inviting(r) == Sent(r) /\ request[r].state = "running" /\ request[r].job = "invite"
Written(code, g) == [x \in DOMAIN invites \cup {code} |-> IF x = code THEN g ELSE invites[x]]

Allocate_Overwrites(r, code) ==
    /\ Inviting(r)
    /\ invites' = Written(code, request[r].guild)
    /\ request' = [request EXCEPT ![r].state = "ok", ![r].code = code]
    /\ UNCHANGED <<table, published>>

\* INSERT INTO invites ... IF NOT EXISTS, tried with up to Tries codes.
Allocate(r, code) ==
    /\ Inviting(r)
    /\ IF code \notin DOMAIN invites
       THEN /\ invites' = Written(code, request[r].guild)
            /\ request' = [request EXCEPT ![r].state = "ok", ![r].code = code]
       ELSE /\ IF request[r].at = Tries THEN Fail(r) ELSE request' = [request EXCEPT ![r].at = @ + 1]
            /\ UNCHANGED invites
    /\ UNCHANGED <<table, published>>

AllocateFails(r, code) ==
    /\ Inviting(r)
    /\ \/ UNCHANGED invites
       \/ code \notin DOMAIN invites /\ invites' = Written(code, request[r].guild)
    /\ Fail(r)
    /\ UNCHANGED <<table, published>>

Next ==
    \E r \in Request :
        \/ \E u \in User, g \in Guild :
              \/ \E c \in Channel : CreateGuild(r, u, g, c) \/ CreateChannel(r, u, g, c)
              \/ CreateInvite(r, u, g)
        \/ \E u \in User, code \in Code : JoinInvite(r, u, code)
        \/ CheckMember(r)
        \/ Insert(r) \/ ReadUser(r) \/ Publish(r) \/ StatementFails(r)
        \/ \E code \in Code : Allocate(r, code) \/ AllocateFails(r, code)

Spec == Init /\ [][Next]_vars

-----------------------------------------------------------------------------
(* Properties.                                                             *)

\* A request that may have written row to only one of its two tables: it is
\* under way, or it failed.
Halfway(t, row) ==
    \E r \in Request :
        /\ Sent(r) /\ request[r].state \in {"running", "failed"}
        /\ \E k \in DOMAIN Steps(request[r].job) : Steps(request[r].job)[k] = t
        /\ Row(r, t) = row

\* The two tables of a pair agree but for the rows of requests that are
\* under way or have failed, and those err on one side: a guild in
\* somebody's list can be opened by them, a channel that can be posted to
\* is listed, and nothing is about a guild that does not exist.
RowsAgree ==
    /\ table["user_guilds"] \subseteq table["guild_members"]
    /\ table["channels_by_id"] \subseteq table["channels"]
    /\ \A m \in table["guild_members"] \ table["user_guilds"] : Halfway("user_guilds", m)
    /\ \A p \in table["channels"] \ table["channels_by_id"] : Halfway("channels_by_id", p)
    /\ LET exist == {m[1] : m \in table["guilds"]}
       IN \A t \in DOMAIN table : \A row \in table[t] : row[1] \in exist

JoinedBoth(m) == m \in table["guild_members"] /\ m \in table["user_guilds"]
ListedBoth(p) == p \in table["channels"] /\ p \in table["channels_by_id"]

\* What a success was answered for is in the tables.
AnswerHolds(r) ==
    LET m == <<request[r].guild, request[r].user>>
        p == <<request[r].guild, request[r].channel>>
    IN CASE request[r].job = "create" -> m \in table["guilds"] /\ JoinedBoth(m) /\ ListedBoth(p)
         [] request[r].job = "channel" -> ListedBoth(p)
         [] request[r].job = "join" ->
                m \in table["guild_members"] /\ (m \in table["user_guilds"] \/ Halfway("user_guilds", m))
         [] OTHER ->
                /\ request[r].code \in DOMAIN invites
                /\ invites[request[r].code] = request[r].guild

EventHolds(type, row) ==
    CASE type = "CHANNEL_CREATE" -> ListedBoth(row)
      [] OTHER -> JoinedBoth(row)

\* Whatever an answer or an event says is in all of its tables, for good:
\* whoever is told can fetch it, on any replica.  One exception the code
\* makes: a join that finds half of a membership answers that all is well,
\* and leaves the half as it is.
ToldIsStored ==
    /\ \A r \in Request : Sent(r) /\ request[r].state = "ok" => AnswerHolds(r)
    /\ \A e \in published : EventHolds(e[1], e[2])

=============================================================================
