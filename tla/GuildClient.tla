------------------------------ MODULE GuildClient ------------------------------
(***************************************************************************)
(* The web client's guilds, their channels and members, and what it has    *)
(* selected (store/chatStore.js).  Every function that waits for an answer *)
(* is a task: it reads and writes the store before and after each await,   *)
(* and tasks, events and clicks interleave at the awaits.                  *)
(*                                                                         *)
(* The server only ever gains facts: a guild of the user's, a channel or a *)
(* member of a guild.  An event tells of each, except of the #general that *)
(* comes with a new guild.  Events are dispatched in any order, or lost.   *)
(* A fetch is answered from the tables at one moment and arrives at a      *)
(* later one.                                                              *)
(*                                                                         *)
(* A definition Name_Variant is Name with a bug put in; only the mutation  *)
(* runs use it.                                                            *)
(***************************************************************************)
EXTENDS Naturals, Sequences, SequencesExt

CONSTANTS
    Guild, Text, Voice, Person,   \* ids: numbers, in the order the tables list them
    Home,     \* the guild of each channel, and the one each other person may join
    Start,    \* facts there are from the start (bound)
    Task,     \* functions under way at once (bound)
    MaxCalls, \* functions called in a behaviour (bound)
    None      \* null

IdsAssumption ==
    /\ Guild \cup Text \cup Voice \cup Person \subseteq Nat
    /\ IsFiniteSet(Guild) /\ IsFiniteSet(Text) /\ IsFiniteSet(Voice) /\ IsFiniteSet(Person)
    /\ Home \in [Text \cup Voice \cup Person -> Guild]
    /\ None \notin Nat /\ None \notin Seq(Nat)

VARIABLES
    world,      \* the tables: facts <<kind, guild, id>>
    events,     \* facts whose event is yet to be dispatched
    guilds,     \* the list of guilds; None until guildsLoaded
    cache,      \* channelsByGuild and membersByGuild: kind -> guild -> its list, or None
    selGuild, selChannel,   \* selectedGuildId, selectedChannelId
    last,       \* lastChannelByGuild
    task,       \* what each task waits for
    calls,      \* the functions called so far
    unsure,     \* facts that the lists may lack until they are fetched again (history)
    astray      \* the selection may not fit until a channel is selected (history)

tables == <<world, events>>
selection == <<selGuild, selChannel, last, astray>>
vars == <<world, events, guilds, cache, selection, task, calls, unsure>>

ChannelId == Text \cup Voice
Kind == {"channels", "members"}
Fact ==
    {<<"guild", g, g>> : g \in Guild}
        \cup {<<"channels", Home[c], c>> : c \in ChannelId}
        \cup {<<"members", Home[p], p>> : p \in Person}

Idle == [pc |-> "idle"]
Asked(kind, g) == [pc |-> "list", kind |-> kind, guild |-> g]
Is(t, pc) == task[t].pc = pc

\* The ids of a set, the smallest first.
InOrder(S) == [k \in 1 .. Cardinality(S) |-> CHOOSE x \in S : Cardinality({y \in S : y < x}) = k - 1]

TypeOK ==
    /\ events \subseteq world /\ world \subseteq Fact /\ unsure \subseteq Fact
    /\ guilds = None \/ ToSet(guilds) \subseteq Guild
    /\ \A g \in Guild :
        /\ cache["channels"][g] = None \/ ToSet(cache["channels"][g]) \subseteq ChannelId
        /\ cache["members"][g] = None \/ ToSet(cache["members"][g]) \subseteq Person
    /\ selGuild \in Guild \cup {None} /\ selChannel \in ChannelId \cup {None}
    /\ last \in [Guild -> ChannelId \cup {None}]
    /\ \A t \in Task : task[t].pc \in
        {"idle", "guilds", "guildsRead", "list", "listRead", "lists", "posting", "founded", "answered"}
    /\ astray \in BOOLEAN

Listed(kind, g) == {f[3] : f \in {e \in world : e[1] = kind /\ e[2] = g}}
Table(kind, g) == InOrder(Listed(kind, g))
Mine == {f[2] : f \in {e \in world : e[1] = "guild"}}

\* The client starts with nothing; guilds have channels and members already.
Init ==
    /\ world \in SUBSET Fact /\ Start \subseteq world
    /\ events = {}
    /\ guilds = None
    /\ cache = [k \in Kind |-> [g \in Guild |-> None]]
    /\ selGuild = None /\ selChannel = None /\ last = [g \in Guild |-> None]
    /\ task = [t \in Task |-> Idle] /\ calls = 0
    /\ unsure = {} /\ astray = FALSE

Call(t) == Is(t, "idle") /\ calls < MaxCalls /\ calls' = calls + 1

Await(t, what) == task' = [task EXCEPT ![t] = what]

-----------------------------------------------------------------------------
(* The lists: what events and answers add, what fetches replace.           *)

\* applyGuildCreate, applyChannelCreate, applyMemberAdd on a list they find.
Added(list, x) == IF x \in ToSet(list) THEN list ELSE Append(list, x)

ApplyTo_Creates(kind, g, x) ==
    cache' = [cache EXCEPT ![kind][g] = IF @ = None THEN <<x>> ELSE Added(@, x)]

\* A list that has not been fetched stays so.
ApplyTo(kind, g, x) ==
    cache' = [cache EXCEPT ![kind][g] = IF @ = None THEN None ELSE Added(@, x)]

\* applyGuildCreate sets guildsLoaded, whether or not the list was fetched.
ApplyGuild(g) ==
    /\ guilds' = IF guilds = None THEN <<g>> ELSE Added(guilds, g)
    /\ unsure' = IF guilds = None THEN unsure \cup {f \in world : f[1] = "guild"} ELSE unsure

\* What a list read earlier lacks, if no event tells of it any more.
Lacks(kind, g, list) ==
    {f \in world : f[1] = kind /\ f[2] = g /\ f[3] \notin ToSet(list)} \ events
LacksGuilds(list) == UNION {Lacks("guild", g, list) : g \in Guild}
Others(kind, g) == {f \in unsure : ~(f[1] = kind /\ f[2] = g)}

\* Only a list that is there can lack something.
IsThere(f) == IF f[1] = "guild" THEN guilds # None ELSE cache[f[1]][f[2]] # None
Doubt(f) == unsure' = IF IsThere(f) THEN unsure \cup {f} ELSE unsure

-----------------------------------------------------------------------------
(* Selecting.                                                              *)

\* selectChannel.
SelectChannel(g, c) ==
    /\ selChannel' = c
    /\ last' = IF c = None \/ g = None THEN last ELSE [last EXCEPT ![g] = c]

\* The channel remembered, else the first text channel.
Target(g, channels) ==
    LET first == SelectInSeq(channels, LAMBDA c : c \in Text)
    IN CASE last[g] \in Text \cap ToSet(channels) -> last[g]
         [] last[g] \notin Text \cap ToSet(channels) /\ first > 0 -> channels[first]
         [] OTHER -> None

\* The rest of selectGuild, once the channels of g are there.
Enter(t, g, channels, listed) ==
    /\ SelectChannel(g, Target(g, channels))
    /\ astray' = (astray /\ g \notin listed)
    /\ Await(t, IF cache["members"][g] = None THEN Asked("members", g) ELSE Idle)

\* selectGuild.
SelectGuild(t, g, listed) ==
    /\ selGuild' = g
    /\ IF cache["channels"][g] = None
       THEN /\ Await(t, Asked("channels", g))
            /\ UNCHANGED <<selChannel, last, astray>>
       ELSE Enter(t, g, cache["channels"][g], listed)

Deselect ==
    /\ selGuild' = None /\ selChannel' = None /\ astray' = FALSE
    /\ UNCHANGED last

Shown == IF guilds = None THEN {} ELSE ToSet(guilds)

ClickGuild(t, g) ==
    /\ Call(t) /\ g \in Shown
    /\ SelectGuild(t, g, Shown)
    /\ UNCHANGED <<tables, guilds, cache, unsure>>

\* The sidebar shows the text channels of the selected guild.
ClickChannel(c) ==
    /\ selGuild \in Shown /\ cache["channels"][selGuild] # None
    /\ c \in Text \cap ToSet(cache["channels"][selGuild])
    /\ SelectChannel(selGuild, c)
    /\ astray' = FALSE
    /\ UNCHANGED <<tables, guilds, cache, selGuild, task, calls, unsure>>

-----------------------------------------------------------------------------
(* Fetching.                                                               *)

\* loadGuilds, called when the shell is mounted; resync, after a reconnect.
FetchGuilds(t, job) ==
    /\ Call(t)
    /\ job = "load" => guilds = None /\ \A o \in Task : Is(o, "guilds") => task[o].job # "load"
    /\ Await(t, [pc |-> "guilds", job |-> job])
    /\ UNCHANGED <<tables, guilds, cache, selection, unsure>>

\* handleMyGuilds, handleListChannels and handleListMembers answer.
Read(t) ==
    /\ \/ /\ Is(t, "guilds")
          /\ Await(t, [pc |-> "guildsRead", job |-> task[t].job, list |-> InOrder(Mine)])
       \/ /\ Is(t, "list")
          /\ Await(t, [pc |-> "listRead", kind |-> task[t].kind, guild |-> task[t].guild,
                       list |-> Table(task[t].kind, task[t].guild)])
       \/ \E k \in Kind :
          /\ Is(t, "lists") /\ task[t].read[k] = None
          /\ task' = [task EXCEPT ![t].read[k] = Table(k, task[t].guild)]
    /\ UNCHANGED <<tables, guilds, cache, selection, calls, unsure>>

\* The rest of loadGuilds.
LoadArrives(t) ==
    LET list == task[t].list IN
    /\ Is(t, "guildsRead") /\ task[t].job = "load"
    /\ guilds' = list
    /\ unsure' = {f \in unsure : f[1] # "guild"} \cup LacksGuilds(list)
    /\ CASE selGuild = None /\ list # <<>> -> SelectGuild(t, list[1], ToSet(list))
         [] selGuild # None /\ selGuild \notin ToSet(list) -> Deselect /\ Await(t, Idle)
         [] OTHER -> Await(t, Idle) /\ UNCHANGED selection
    /\ UNCHANGED <<tables, calls, cache>>

ListArrives_NoRecheck(t) ==
    LET k == task[t].kind
        g == task[t].guild
        list == task[t].list
    IN
    /\ Is(t, "listRead")
    /\ cache' = [cache EXCEPT ![k][g] = list]
    /\ unsure' = Others(k, g) \cup Lacks(k, g, list)
    /\ IF k = "channels"
       THEN Enter(t, g, list, Shown) /\ UNCHANGED selGuild
       ELSE Await(t, Idle) /\ UNCHANGED selection
    /\ UNCHANGED <<tables, calls, guilds>>

\* The rest of selectGuild, unless the user has navigated away, and of loadMembers.
ListArrives(t) ==
    LET k == task[t].kind
        g == task[t].guild
        list == task[t].list
    IN
    /\ Is(t, "listRead")
    /\ cache' = [cache EXCEPT ![k][g] = list]
    /\ unsure' = Others(k, g) \cup Lacks(k, g, list)
    /\ IF k = "channels" /\ selGuild = g
       THEN Enter(t, g, list, Shown) /\ UNCHANGED selGuild
       ELSE Await(t, Idle) /\ UNCHANGED selection
    /\ UNCHANGED <<tables, calls, guilds>>

\* resync has the guilds: it goes on with what is selected now.
ResyncArrives(t) ==
    LET list == task[t].list IN
    /\ Is(t, "guildsRead") /\ task[t].job = "resync"
    /\ IF selGuild \in ToSet(list)
       THEN /\ Await(t, [pc |-> "lists", guild |-> selGuild, channel |-> selChannel, guilds |-> list,
                         read |-> [k \in Kind |-> None]])
            /\ UNCHANGED <<guilds, cache, selection, unsure>>
       ELSE /\ guilds' = list
            /\ cache' = [k \in Kind |-> [g \in Guild |-> None]]
            /\ unsure' = LacksGuilds(list)
            /\ Deselect
            /\ Await(t, Idle)
    /\ UNCHANGED <<tables, calls>>

\* ... and replaces everything once it has their lists and the messages.
ResyncLands(t) ==
    LET r == task[t]
        channels == r.read["channels"]
        found == r.channel \in ToSet(channels)
        first == IF channels = <<>> THEN None ELSE channels[1]
    IN
    /\ Is(t, "lists") /\ \A k \in Kind : r.read[k] # None
    /\ guilds' = r.guilds
    /\ cache' = [k \in Kind |-> [g \in Guild |-> IF g = r.guild THEN r.read[k] ELSE None]]
    /\ unsure' = LacksGuilds(r.guilds) \cup UNION {Lacks(k, r.guild, r.read[k]) : k \in Kind}
    /\ selChannel' = IF found THEN selChannel ELSE first
    /\ astray' =
            \/ selGuild # r.guild \/ selChannel # r.channel
            \/ IF found THEN astray ELSE first \in Voice
    /\ Await(t, Idle)
    /\ UNCHANGED <<tables, calls, selGuild, last>>

FetchFails(t) ==
    /\ task[t].pc \in {"guilds", "guildsRead", "list", "listRead", "lists"}
    /\ astray' = (astray \/ /\ task[t].pc \in {"list", "listRead"} /\ task[t].kind = "channels"
                            /\ task[t].guild = selGuild /\ cache["channels"][selGuild] = None)
    /\ Await(t, Idle)
    /\ UNCHANGED <<tables, guilds, cache, selGuild, selChannel, last, calls, unsure>>

-----------------------------------------------------------------------------
(* Creating and joining.                                                   *)

\* createGuild, joinGuild: no guild yet; createChannel: in the one selected.
Post(t, g) ==
    /\ Call(t)
    /\ g \in {None, selGuild} /\ (g # None => g \in Shown)
    /\ Await(t, [pc |-> "posting", guild |-> g])
    /\ UNCHANGED <<tables, guilds, cache, selection, unsure>>

\* handleCreateGuild or handleJoinInvite has written user_guilds.
Found(t, g) ==
    /\ Is(t, "posting") /\ task[t].guild = None
    /\ g \notin Mine
    /\ world' = world \cup {<<"guild", g, g>>}
    /\ events' = events \cup {<<"guild", g, g>>}
    /\ Await(t, [pc |-> "founded", guild |-> g])
    /\ UNCHANGED <<guilds, cache, selection, calls, unsure>>

\* handleJoinInvite finds that the user is a member: no event (bound: a guild that
\* a list lacks; of one that is listed, the answer does what ClickGuild does).
JoinedAlready(t, g) ==
    /\ Is(t, "posting") /\ task[t].guild = None
    /\ guilds # None /\ g \in Mine \ Shown
    /\ Await(t, [pc |-> "answered", guild |-> g, channel |-> None])
    /\ UNCHANGED <<tables, guilds, cache, selection, calls, unsure>>

New(c, g) == Home[c] = g /\ <<"channels", g, c>> \notin world

\* #general, if the guild is new; then the event and the answer.
Furnish(t) ==
    LET g == task[t].guild IN
    /\ Is(t, "founded")
    /\ \/ UNCHANGED <<world, unsure>>
       \/ \E c \in Text :
            /\ New(c, g) /\ Listed("channels", g) = {}
            /\ world' = world \cup {<<"channels", g, c>>}
            /\ Doubt(<<"channels", g, c>>)
    /\ Await(t, [pc |-> "answered", guild |-> g, channel |-> None])
    /\ UNCHANGED <<events, guilds, cache, selection, calls>>

\* handleCreateChannel.
CreateChannel(t, c) ==
    /\ Is(t, "posting") /\ task[t].guild # None
    /\ New(c, task[t].guild)
    /\ world' = world \cup {<<"channels", task[t].guild, c>>}
    /\ events' = events \cup {<<"channels", task[t].guild, c>>}
    /\ Await(t, [pc |-> "answered", guild |-> task[t].guild, channel |-> c])
    /\ UNCHANGED <<guilds, cache, selection, calls, unsure>>

\* The rest of createGuild and joinGuild.
GuildAnswered(t) ==
    LET g == task[t].guild IN
    /\ Is(t, "answered") /\ task[t].channel = None
    /\ ApplyGuild(g)
    /\ SelectGuild(t, g, Shown \cup {g})
    /\ UNCHANGED <<tables, calls, cache>>

\* The rest of createChannel.
ChannelAnswered(t) ==
    LET g == task[t].guild
        c == task[t].channel
    IN
    /\ Is(t, "answered") /\ c # None
    /\ ApplyTo("channels", g, c)
    /\ IF selGuild = g /\ c \in Text THEN SelectChannel(g, c) ELSE UNCHANGED <<selChannel, last>>
    /\ Await(t, Idle)
    /\ UNCHANGED <<tables, guilds, selGuild, astray, calls, unsure>>

\* The request fails; the server may have carried it out, wholly or in part.
PostFails(t) ==
    /\ task[t].pc \in {"posting", "founded", "answered"}
    /\ IF Is(t, "founded")
       THEN LET f == <<"guild", task[t].guild, task[t].guild>>
            IN events' = events \ {f} /\ Doubt(f)
       ELSE UNCHANGED <<events, unsure>>
    /\ Await(t, Idle)
    /\ UNCHANGED <<world, guilds, cache, selection, calls>>

\* Others create channels in the user's guilds and join them (bound: when no
\* event is on its way).
Elsewhere(kind, g, x) ==
    /\ g \in Mine /\ events = {}
    /\ <<kind, g, x>> \in Fact \ world
    /\ world' = world \cup {<<kind, g, x>>}
    /\ events' = events \cup {<<kind, g, x>>}
    /\ UNCHANGED <<guilds, cache, selection, task, calls, unsure>>

-----------------------------------------------------------------------------
(* Events.                                                                 *)

BeingFounded(f) == f[1] = "guild" /\ \E t \in Task : Is(t, "founded") /\ task[t].guild = f[2]

\* handleGatewayEvent: GUILD_CREATE, CHANNEL_CREATE, GUILD_MEMBER_ADD.
Dispatch(f) ==
    /\ ~BeingFounded(f)
    /\ events' = events \ {f}
    /\ IF f[1] = "guild"
       THEN ApplyGuild(f[2]) /\ UNCHANGED cache
       ELSE ApplyTo(f[1], f[2], f[3]) /\ UNCHANGED <<guilds, unsure>>
    /\ UNCHANGED <<world, selection, task, calls>>

\* Its publication fails, or meets no socket.
Lose(f) ==
    /\ events' = events \ {f}
    /\ Doubt(f)
    /\ UNCHANGED <<world, guilds, cache, selection, task, calls>>

Next ==
    \/ \E t \in Task :
        \/ \E g \in Guild : ClickGuild(t, g) \/ Found(t, g) \/ JoinedAlready(t, g)
        \/ \E g \in Guild \cup {None} : Post(t, g)
        \/ \E c \in ChannelId : CreateChannel(t, c)
        \/ \E job \in {"load", "resync"} : FetchGuilds(t, job)
        \/ Read(t) \/ LoadArrives(t) \/ ListArrives(t) \/ ResyncArrives(t) \/ ResyncLands(t)
        \/ FetchFails(t) \/ Furnish(t) \/ GuildAnswered(t) \/ ChannelAnswered(t) \/ PostFails(t)
    \/ \E c \in Text : ClickChannel(c)
    \/ \E kind \in Kind, g \in Guild, x \in ChannelId \cup Person : Elsewhere(kind, g, x)
    \/ \E f \in events : Dispatch(f) \/ Lose(f)

Spec == Init /\ [][Next]_vars

-----------------------------------------------------------------------------
(* Properties.                                                             *)

\* A list shows nothing twice and nothing false, and it lacks nothing but
\* what an event is still to tell of, or what is in doubt.
IsRight(list, kind, g) ==
    /\ IsInjective(list)
    /\ \A k \in DOMAIN list : <<kind, g, list[k]>> \in world
    /\ \A x \in Listed(kind, g) \ ToSet(list) : <<kind, g, x>> \in events \cup unsure

\* Guilds, channels and members are shown once each, and none is missing
\* unless its event was lost, was dispatched while a list read without it
\* was under way, or was never to be sent, however answers, events and
\* reconnects were interleaved.
ListsAreRight ==
    /\ \A kind \in Kind, g \in Guild : cache[kind][g] # None => IsRight(cache[kind][g], kind, g)
    /\ guilds # None =>
        /\ IsInjective(guilds) /\ ToSet(guilds) \subseteq Mine
        /\ \A g \in Mine \ ToSet(guilds) : <<"guild", g, g>> \in events \cup unsure

\* The channels of the selected guild are under way, and so is the choice of one.
Choosing ==
    \E t \in Task :
        /\ task[t].pc \in {"list", "listRead"}
        /\ task[t].kind = "channels" /\ task[t].guild = selGuild

\* The message pane and the sidebar belong together: the selected channel
\* is a text channel in the list of the selected guild, and that guild is in
\* the list of guilds, unless the choice is under way, its fetch failed, or
\* a resync landed on a selection that it did not know or on a voice channel.
SelectionFits ==
    \/ astray \/ Choosing
    \/ selGuild = None /\ selChannel = None
    \/ /\ selGuild \in Shown
       /\ selChannel # None =>
            /\ selChannel \in Text
            /\ cache["channels"][selGuild] # None
            /\ selChannel \in ToSet(cache["channels"][selGuild])

=============================================================================
