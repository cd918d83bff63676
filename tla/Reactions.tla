------------------------------- MODULE Reactions -------------------------------
(***************************************************************************)
(* One emoji under one message: the rows of the reactions table            *)
(* (store/reactions.go), the handlers that write a row and then publish    *)
(* (httpapi/message_handlers.go), and the pill a client shows of them      *)
(* (store/chatStore.js, components/MessageItem.jsx).                       *)
(*                                                                         *)
(* A page brings only a count and whether I reacted; who reacted the       *)
(* client learns from events.  blind are the others that a page counted,   *)
(* which the client cannot know.  The causes for which a pill may differ   *)
(* from the rows once everything has arrived are collected in doubt; a     *)
(* page clears those that it makes good.                                   *)
(*                                                                         *)
(* A definition Name_Variant is Name with a bug put in; only the mutation  *)
(* runs use it.                                                            *)
(***************************************************************************)
EXTENDS Integers, Sequences, FiniteSets

CONSTANTS
    Me,          \* the user of the client
    Other,       \* the other members
    MaxWrites, MaxToggles, MaxLoads   \* bounds

MeAssumption == Me \notin Other

VARIABLES
    rows,        \* who reacted, by the table
    due,         \* handlers that have written and will publish, in the order of their writes
    events,      \* published, on its way to the client, in order
    asked,       \* own PUT and DELETE requests under way
    fetch,       \* a page under way: its rows, and whether an event passed it
    pill,        \* what the client shows
    blind,       \* (history)
    doubt,       \* (history)
    writes, toggles, loads   \* numbers of each so far (bounds)

bounds == <<writes, toggles, loads>>
serverVars == <<rows, due, events, writes>>
clientVars == <<pill, blind, doubt>>
vars == <<serverVars, clientVars, asked, fetch, toggles, loads>>

Member == {Me} \cup Other
Event == [who : Member, add : BOOLEAN]
NoPage == [pc |-> "none"]
Cause == {"lost", "overtaken", "failed", "misread", "edited"}

\* An event reached the client, or was lost, after the page was read.
Passed == IF fetch.pc = "read" THEN [fetch EXCEPT !.passed = TRUE] ELSE fetch

\* No pill is a pill that counts nothing.
NoPill == [count |-> 0, me |-> FALSE, users |-> {}]
Entered(items) == {items[k] : k \in DOMAIN items}
Drop(items, k) == SubSeq(items, 1, k - 1) \o SubSeq(items, k + 1, Len(items))

TypeOK ==
    /\ rows \subseteq Member /\ Entered(due) \cup Entered(events) \subseteq Event
    /\ \A r \in asked : r.add \in BOOLEAN /\ r.pc \in {"sent", "done"}
    /\ fetch.pc \in {"none", "asked", "read"}
    /\ pill.count \in Nat /\ pill.me \in BOOLEAN /\ pill.users \subseteq Member
    /\ blind \subseteq Other /\ doubt \subseteq Cause

Init ==
    /\ rows = {} /\ due = <<>> /\ events = <<>> /\ asked = {} /\ fetch = NoPage
    /\ pill = NoPill /\ blind = {} /\ doubt = {}
    /\ writes = 0 /\ toggles = 0 /\ loads = 0

-----------------------------------------------------------------------------
(* The server.                                                             *)

\* Reactions.Add and Remove: idempotent, and published whether or not they
\* changed anything.
Written(who, add) ==
    /\ writes < MaxWrites /\ writes' = writes + 1
    /\ rows' = IF add THEN rows \cup {who} ELSE rows \ {who}
    /\ due' = Append(due, [who |-> who, add |-> add])

\* Another member, in any of their tabs.
OtherReacts(u, add) ==
    /\ Written(u, add)
    /\ UNCHANGED <<events, asked, fetch, toggles, loads, clientVars>>

\* One of our requests is carried out, in any order.
Carried(r) ==
    /\ r.pc = "sent"
    /\ Written(Me, r.add)
    /\ asked' = (asked \ {r}) \cup {[r EXCEPT !.pc = "done"]}
    /\ UNCHANGED <<events, fetch, toggles, loads, clientVars>>

\* An older write of the same user will be dispatched after this one, or without it.
Overtakes(k, older) ==
    IF \E j \in DOMAIN older : older[j].who = due[k].who THEN {"overtaken"} ELSE {}

\* Handlers publish in any order.
Publish(k) ==
    /\ due' = Drop(due, k)
    /\ events' = Append(events, due[k])
    /\ doubt' = doubt \cup Overtakes(k, SubSeq(due, 1, k - 1))
    /\ UNCHANGED <<rows, writes, asked, fetch, toggles, loads, pill, blind>>

PublishFails(k) ==
    /\ due' = Drop(due, k)
    /\ doubt' = doubt \cup {"lost"} \cup Overtakes(k, events \o SubSeq(due, 1, k - 1))
    /\ fetch' = Passed
    /\ UNCHANGED <<rows, writes, events, asked, toggles, loads, pill, blind>>

-----------------------------------------------------------------------------
(* The pill.                                                               *)

\* applyReactionAdd.
Added_CountsEcho(p, who) ==
    IF p.count = 0 THEN [count |-> 1, me |-> who = Me, users |-> {who}]
    ELSE [count |-> p.count + 1, me |-> p.me \/ who = Me, users |-> p.users \cup {who}]

Added(p, who) ==
    IF p.count = 0 THEN [count |-> 1, me |-> who = Me, users |-> {who}]
    ELSE IF IF who = Me THEN p.me ELSE who \in p.users THEN p
    ELSE [count |-> p.count + 1, me |-> p.me \/ who = Me, users |-> p.users \cup {who}]

\* applyReactionRemove: of another user, unless somebody is known and it is not them.
Removed(p, who) ==
    IF p.count = 0 \/ (IF who = Me THEN ~p.me ELSE p.users # {} /\ who \notin p.users) THEN p
    ELSE IF p.count = 1 THEN NoPill
    ELSE [count |-> p.count - 1, me |-> p.me /\ who # Me, users |-> p.users \ {who}]

Applied(p, e) == IF e.add THEN Added(p, e.who) ELSE Removed(p, e.who)

\* What the client cannot tell about those a page counted: that one of them
\* adds again, that one of them leaves while somebody else is known, and that
\* somebody else who leaves was not among them.  Whom it knows it never misreads.
Misread(e) ==
    /\ e.who # Me /\ pill.count > 0 /\ e.who \notin pill.users
    /\ IF e.add THEN e.who \in blind ELSE (e.who \in blind) = (pill.users # {})

\* handleGatewayEvent.
Dispatch ==
    /\ events # <<>>
    /\ LET e == Head(events) IN
        /\ pill' = Applied(pill, e)
        /\ doubt' = IF Misread(e) THEN doubt \cup {"misread"} ELSE doubt
        /\ blind' = IF pill'.count = 0 THEN {} ELSE blind \ {e.who}
    /\ events' = Tail(events)
    /\ fetch' = Passed
    /\ UNCHANGED <<rows, due, writes, asked, toggles, loads>>

\* Clicks that overtake each other, or one on a pill that does not show my row.
Stale == asked # {} \/ pill.me # (Me \in rows)

\* toggleReaction: shown at once, then asked for.
Toggle ==
    /\ toggles < MaxToggles /\ toggles' = toggles + 1
    /\ LET add == ~pill.me IN
        /\ pill' = Applied(pill, [who |-> Me, add |-> add])
        /\ asked' = {[r EXCEPT !.stale = TRUE] : r \in asked}
                    \cup {[add |-> add, pc |-> "sent", n |-> toggles, stale |-> Stale]}
    /\ blind' = IF pill'.count = 0 THEN {} ELSE blind
    /\ UNCHANGED <<serverVars, fetch, loads, doubt>>

Answered(r) ==
    /\ r.pc = "done"
    /\ asked' = asked \ {r}
    /\ UNCHANGED <<serverVars, fetch, toggles, loads, clientVars>>

\* Taking back this one change need not restore the rows.
Untimely(r) == r.pc = "done" \/ r.stale \/ asked # {r}

\* The request fails, or its answer is lost: the change is taken back,
\* whatever has become of the pill in the meantime.
Fails(r) ==
    /\ asked' = asked \ {r}
    /\ pill' = Applied(pill, [who |-> Me, add |-> ~r.add])
    /\ blind' = IF pill'.count = 0 THEN {} ELSE blind
    /\ doubt' = IF Untimely(r) THEN doubt \cup {"failed"} ELSE doubt
    /\ UNCHANGED <<serverVars, fetch, toggles, loads>>

-----------------------------------------------------------------------------
(* Pages and edits.                                                        *)

\* loadMessages and resync.
Load ==
    /\ fetch = NoPage /\ loads < MaxLoads /\ loads' = loads + 1
    /\ fetch' = [pc |-> "asked"]
    /\ UNCHANGED <<serverVars, asked, toggles, clientVars>>

\* hydrateMessages.
Read ==
    /\ fetch.pc = "asked"
    /\ fetch' = [pc |-> "read", rows |-> rows, passed |-> FALSE]
    /\ UNCHANGED <<serverVars, asked, toggles, loads, clientVars>>

\* aggregateReactions.
Aggregate(of) == [count |-> Cardinality(of), me |-> Me \in of, users |-> {}]

\* A page replaces the list; what was dispatched while it was under way is undone.
PageArrives ==
    /\ fetch.pc = "read"
    /\ pill' = Aggregate(fetch.rows)
    /\ blind' = fetch.rows \ {Me}
    /\ doubt' = (doubt \cap (IF asked = {} THEN {"overtaken"} ELSE {"overtaken", "failed"}))
                    \cup (IF fetch.passed THEN {"lost"} ELSE {})
    /\ fetch' = NoPage
    /\ UNCHANGED <<serverVars, asked, toggles, loads>>

\* MESSAGE_UPDATE and the answer to an own edit replace the message by one
\* without reactions: handleEditMessage does not read them.
Edit ==
    /\ loads < MaxLoads /\ loads' = loads + 1
    /\ pill' = NoPill /\ blind' = {}
    /\ doubt' = IF pill # NoPill THEN doubt \cup {"edited"} ELSE doubt
    /\ UNCHANGED <<serverVars, asked, fetch, toggles>>

Next ==
    \/ \E u \in Other, add \in BOOLEAN : OtherReacts(u, add)
    \/ \E k \in DOMAIN due : Publish(k) \/ PublishFails(k)
    \/ \E r \in asked : Carried(r) \/ Answered(r) \/ Fails(r)
    \/ Dispatch \/ Toggle \/ Load \/ Read \/ PageArrives \/ Edit

Spec == Init /\ [][Next]_vars

-----------------------------------------------------------------------------
(* Properties.                                                             *)

Quiet == due = <<>> /\ events = <<>> /\ asked = {}

\* The tooltip: those the client can name, and how many more.
Label == [named |-> pill.users,
          more |-> IF pill.count > Cardinality(pill.users)
                   THEN pill.count - Cardinality(pill.users) ELSE 0]

PillMatches ==
    /\ pill.count = Cardinality(rows) /\ pill.me = (Me \in rows)
    /\ Label.named \subseteq rows /\ Cardinality(Label.named) + Label.more = Cardinality(rows)

\* Once all events and answers have arrived, the pill shows the rows: own
\* clicks counted once whether the event or the answer comes first and
\* however fast they follow each other, failed ones taken back, repeated
\* requests of others counted once.
ReactionsRight == Quiet /\ doubt = {} => PillMatches

\* "Reactions hydration: when returning messages (list/create/edit ...), fetch
\* each message's reactions" (docs/FEATURES-v2.md:43-45): whoever edits a message
\* gets it back with its reactions, and their pill stays.
EditKeepsReactions == Quiet /\ doubt \subseteq {"edited"} => PillMatches

=============================================================================
