------------------------------- MODULE MCGuilds -------------------------------
(* Three views of the guilds, checked in one run: the handlers that write   *)
(* them, the gateway that routes their events to a member, or the client    *)
(* that shows them moves.                                                   *)
EXTENDS Guilds, TLC

CONSTANTS Text, Voice, Person, Home, Start, Task, MaxCalls, s1, bob, lounge

VARIABLES
    part,       \* which of the three moves
    \* GuildClient
    world, events, guilds, cache, selGuild, selChannel, last, task, calls, unsure, astray,
    \* Gateway
    member, joining, log, natsUp, inbox, resyncDue, registry, current, targets, dropping,
    stage, draining, reader, writing, closed, loaded, identified, guildIDs, queued, got, since

clientVars ==
    <<world, events, guilds, cache, selGuild, selChannel, last, task, calls, unsure, astray>>
feedVars ==
    <<member, joining, log, natsUp, inbox, resyncDue, registry, current, targets, dropping,
      stage, draining, reader, writing, closed, loaded, identified, guildIDs, queued, got, since>>

Client == INSTANCE GuildClient

ASSUME ClientAssumption == Client!IdsAssumption

\* One socket of bob, who may join one guild.
Feed == INSTANCE Gateway WITH
    Session <- {s1}, User <- {bob}, Guild <- {lounge}, Holder <- [s \in {s1} |-> bob],
    Founders <- [u \in {bob} |-> {}], BufSize <- 2, MaxEvents <- 3, Outages <- TRUE

Homes == [x \in Text \cup Voice \cup Person |-> IF x = 3 THEN 2 ELSE 1]
Given == {<<"guild", 1, 1>>, <<"channels", 1, 1>>, <<"channels", 1, 2>>, <<"members", 1, 4>>}

Symmetry == Permutations(Task) \cup Permutations(User)

PartInit ==
    /\ Init /\ Client!Init /\ Feed!Init
    /\ part \in {"handlers", "client", "feed"}
    /\ part # "client" => world = Given

PartNext ==
    /\ \/ part = "handlers" /\ Next /\ UNCHANGED <<clientVars, feedVars>>
       \/ part = "client" /\ Client!Next /\ UNCHANGED <<vars, feedVars>>
       \/ part = "feed" /\ Feed!Next /\ UNCHANGED <<vars, clientVars>>
    /\ UNCHANGED part

PartSpec == PartInit /\ [][PartNext]_<<part, vars, clientVars, feedVars>>

AllTypesOK ==
    /\ part = "handlers" => TypeOK
    /\ part = "client" => Client!TypeOK
    /\ part = "feed" => Feed!TypeOK
ListsAreRight == part = "client" => Client!ListsAreRight
SelectionFits == part = "client" => Client!SelectionFits
FeedIsWhole == part = "feed" => Feed!FeedIsWhole

=============================================================================
