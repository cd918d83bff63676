------------------------------- MODULE MCChannel -------------------------------
(* What goes on in a channel, in one run: one of the message table (three    *)
(* messages and one request, or all requests and fewer messages), the        *)
(* client's list (without sends of its own, or with them and fewer writes),  *)
(* the pill of a reaction, and the line of who is typing moves.              *)
EXTENDS MessageStore, Sequences, TLC

CONSTANTS
    Only, FewRows,          \* MessageStore: the only request, and the fewer messages
    Temp, Text, Other, PageSize, MaxPosts, MaxWrites, FewWrites,    \* ChatClient
    Me, Reader, MaxReactions, MaxClicks, MaxPages,      \* Reactions
    \* Typing: a tick of the run is half a second
    TYPING_THROTTLE, TYPING_TTL, Sweep, MaxDelay, MaxLines

VARIABLES
    part,                   \* which of them moves
    \* ChatClient
    db, sender, about, events, replies, conv, fetch, send, floor, heard, unsure,
    \* Reactions
    reactions, due, echoes, asked, page, pill, blind, doubt, writes, toggles, loads,
    \* Typing
    empty, since, typed, flight, sent, loaded, entry, left, bar, swept, quietFor, sure, seen,
    excused

listVars == <<db, sender, about, events, replies, conv, fetch, send, floor, heard, unsure>>
pillVars == <<reactions, due, echoes, asked, page, pill, blind, doubt, writes, toggles, loads>>
typingVars ==
    <<empty, since, typed, flight, sent, loaded, entry, left, bar, swept, quietFor, sure, seen,
      excused>>

List == INSTANCE ChatClient WITH MaxMessages <- MaxPosts
Pill == INSTANCE Reactions WITH
    rows <- reactions, events <- echoes, fetch <- page,
    Other <- Reader, MaxWrites <- MaxReactions, MaxToggles <- MaxClicks, MaxLoads <- MaxPages
Line == INSTANCE Typing WITH asked <- quietFor, MaxMessages <- MaxLines

ASSUME ListAssumption == List!ClientAssumption
ASSUME PillAssumption == Pill!MeAssumption
ASSUME LineAssumption == Line!TimesAssumption

\* The sends say the same.
SameText == [t \in Temp |-> "hi"]

Symmetry == Permutations(Temp)

PartInit ==
    /\ part \in {"table", "races", "list", "sends", "pill", "line"}
    /\ Init /\ List!Init /\ Pill!Init /\ Line!Init
    /\ part # "line" => ~loaded

PartNext ==
    /\ \/ part = "table" /\ Next /\ (\A r \in Request \ {Only} : request'[r] = NoRequest)
            /\ UNCHANGED <<listVars, pillVars, typingVars>>
       \/ part = "races" /\ Next /\ Cardinality(used') <= FewRows
            /\ UNCHANGED <<listVars, pillVars, typingVars>>
       \/ part = "list" /\ List!Next /\ UNCHANGED <<send, vars, pillVars, typingVars>>
       \/ part = "sends" /\ List!Next /\ List!Clock' <= FewWrites
            /\ UNCHANGED <<vars, pillVars, typingVars>>
       \/ part = "pill" /\ Pill!Next /\ UNCHANGED <<vars, listVars, typingVars>>
       \/ part = "line" /\ Line!Next /\ UNCHANGED <<vars, listVars, pillVars>>
    /\ UNCHANGED part

PartSpec == PartInit /\ [][PartNext]_<<part, vars, listVars, pillVars, typingVars>>

AllTypesOK ==
    /\ part \in {"table", "races"} => TypeOK
    /\ part \in {"list", "sends"} => List!TypeOK
    /\ part = "pill" => Pill!TypeOK
    /\ part = "line" => Line!TypeOK
ListIsRight == part \in {"list", "sends"} => List!ListIsRight
SendsSettle == part = "sends" => List!SendsSettle
ShownStays == List!ShownStays
ReactionsRight == part = "pill" => Pill!ReactionsRight
TypingRight == part = "line" => Line!TypingRight

=============================================================================
