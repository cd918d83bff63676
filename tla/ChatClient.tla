------------------------------ MODULE ChatClient ------------------------------
(***************************************************************************)
(* The web client's list of one channel (store/chatStore.js), kept up by   *)
(* three sources at once: pages fetched over REST, events dispatched on    *)
(* the socket (lib/gateway.js), and the client's own optimistic entries    *)
(* and the answers to its requests.  The server is the channel's messages  *)
(* with the handlers that write them and then publish                      *)
(* (httpapi/message_handlers.go).                                          *)
(*                                                                         *)
(* A handler publishes some time after its write, and handlers of several  *)
(* replicas do so in any order: events is the set of what is still to      *)
(* reach the client.  A publication may fail, and is lost while the socket *)
(* is down.  A fetch is answered from the table at one moment and arrives  *)
(* at a later one.                                                         *)
(*                                                                         *)
(* Writes are numbered; a message's content is the number of the write     *)
(* that set it.  Ids grow in the order of the writes (clock skew is in     *)
(* MessageStore).                                                          *)
(*                                                                         *)
(* A definition Name_Variant is Name with a bug put in; only the mutation  *)
(* runs use it.                                                            *)
(***************************************************************************)
EXTENDS Integers, Sequences, FiniteSets

CONSTANTS
    Temp,         \* the client's own sends, by temporary id
    Text,         \* what each of them says
    Other,        \* stands for the sender of everyone else's messages
    PageSize,     \* PAGE_SIZE
    MaxMessages, MaxWrites   \* bounds

ClientAssumption ==
    /\ Other \notin Temp /\ PageSize \in Nat \ {0}
    /\ MaxMessages \in Nat \ {0} /\ MaxWrites \in Nat

VARIABLES
    db,        \* the table: message -> write that set its content, 0 when there is none
    sender,    \* message -> the send that created it, or Other
    about,     \* write -> the message it is about
    events,    \* published or about to be, not yet dispatched to the client
    replies,   \* answers to the client's edits and deletions, on their way
    conv,      \* messagesByChannel[channel]
    fetch,     \* the list requests under way
    send,      \* the state of each own send
    floor,     \* the oldest message that the list accounts for (history)
    heard,     \* writes of the create events dispatched while the list is loading (history)
    unsure     \* writes that the list may show wrongly until it is fetched again (history)

serverVars == <<db, sender, about>>
clientVars == <<conv, floor, heard, unsure>>
vars == <<db, sender, about, events, replies, conv, fetch, send, floor, heard, unsure>>

Message == 1 .. MaxMessages
Clock == Len(about)
Born == Cardinality({i \in Message : \E v \in 1 .. Clock : about[v] = i})
Stored == {i \in Message : db[i] > 0}

Entry(i, v) == [id |-> i, ver |-> v, temp |-> Other, failed |-> FALSE]
Optimistic(t) == [id |-> 0, ver |-> 0, temp |-> t, failed |-> FALSE]
IsOptimistic(m) == m.temp # Other

Ids(items) == {items[k].id : k \in DOMAIN items}
Versions(set) == {e.ver : e \in set}

Absent == [pc |-> "absent"]
Loading(pending, items) == [pc |-> "loading", items |-> items, pending |-> pending]
Loaded(items, more) ==
    [pc |-> "loaded", items |-> items, hasMore |-> more, loadingOlder |-> FALSE]

Idle == [pc |-> "idle"]
Asked(before) == [pc |-> "asked", before |-> before]
Kind == {"load", "older", "resync"}

Item ==
    [id : Message, ver : 1 .. MaxWrites, temp : {Other}, failed : {FALSE}]
        \cup [id : {0}, ver : {0}, temp : Temp, failed : BOOLEAN]
Notice == [kind : {"create", "update", "delete"}, id : Message, ver : 1 .. MaxWrites]

TypeOK ==
    /\ db \in [Message -> 0 .. MaxWrites] /\ sender \in [Message -> Temp \cup {Other}]
    /\ Clock <= MaxWrites /\ \A v \in 1 .. Clock : about[v] \in Message
    /\ events \subseteq Notice /\ replies \subseteq Notice
    /\ conv.pc # "absent" => \A k \in DOMAIN conv.items : conv.items[k] \in Item
    /\ \A k \in Kind : fetch[k].pc \in {"idle", "asked", "read"}
    /\ \A k \in Kind : fetch[k].pc = "read" => Len(fetch[k].page) <= PageSize
    /\ conv.pc = "loading" => fetch["load"].pc # "idle"
    /\ \A t \in Temp : send[t].pc \in {"unsent", "posting", "stored", "over"}
    /\ floor \in 1 .. MaxMessages /\ heard \cup unsure \subseteq 1 .. Clock

Init ==
    /\ db = [i \in Message |-> 0] /\ sender = [i \in Message |-> Other]
    /\ about = <<>> /\ events = {} /\ replies = {}
    /\ conv = Absent /\ fetch = [k \in Kind |-> Idle]
    /\ send = [t \in Temp |-> [pc |-> "unsent"]]
    /\ floor = 1 /\ heard = {} /\ unsure = {}

-----------------------------------------------------------------------------
(* The server.                                                             *)

\* One write to message i: its row, and the event that will be published.
Written(i, kind, content) ==
    /\ Clock < MaxWrites
    /\ about' = Append(about, i)
    /\ db' = [db EXCEPT ![i] = content]
    /\ events' = events \cup {[kind |-> kind, id |-> i, ver |-> Clock + 1]}

\* Somebody else posts.
Create ==
    /\ Born < MaxMessages
    /\ Written(Born + 1, "create", Clock + 1)
    /\ UNCHANGED <<sender, replies, fetch, send, clientVars>>

\* Somebody edits or deletes; the client itself only what it shows, and gets
\* an answer (bound: one edit or deletion of its own at a time).
Change(i, kind, own) ==
    /\ i \in Stored
    /\ Written(i, kind, IF kind = "update" THEN Clock + 1 ELSE 0)
    /\ own => replies = {} /\ conv.pc = "loaded" /\ i \in Ids(conv.items)
    /\ replies' = IF own THEN replies \cup {[kind |-> kind, id |-> i, ver |-> Clock + 1]} ELSE replies
    /\ UNCHANGED <<sender, fetch, send, clientVars>>

\* The POST of a send is carried out.
Store(t) ==
    /\ send[t].pc = "posting"
    /\ Born < MaxMessages
    /\ Written(Born + 1, "create", Clock + 1)
    /\ sender' = [sender EXCEPT ![Born + 1] = t]
    /\ send' = [send EXCEPT ![t] = [pc |-> "stored", id |-> Born + 1, ver |-> Clock + 1]]
    /\ UNCHANGED <<replies, fetch, clientVars>>

Room == PageSize

\* The k-th number of a set, in their order.
Nth(S, k) == CHOOSE i \in S : Cardinality({j \in S : j <= i}) = k

\* The newest messages before a given one (0: of all), oldest first.
Newest(before) ==
    LET ids == {i \in Stored : before = 0 \/ i < before}
        taken == {i \in ids : Cardinality({j \in ids : i < j}) < Room}
    IN [k \in 1 .. Cardinality(taken) |-> LET i == Nth(taken, k) IN Entry(i, db[i])]

\* handleListMessages answers one of the client's fetches.
Read(k) ==
    /\ fetch[k].pc = "asked"
    /\ fetch' = [fetch EXCEPT ![k] = [pc |-> "read", page |-> Newest(fetch[k].before), at |-> Clock,
                                      before |-> fetch[k].before]]
    /\ UNCHANGED <<serverVars, events, replies, send, clientVars>>

-----------------------------------------------------------------------------
(* The client's list.                                                      *)

\* The places of a message, and of a send.
Places(items, i) == {k \in DOMAIN items : items[k].id = i}
Waiting(items, t) == {k \in DOMAIN items : items[k].temp = t}

Without(items, places) ==
    LET kept == DOMAIN items \ places
    IN [k \in 1 .. Cardinality(kept) |-> items[Nth(kept, k)]]
Substitute(items, places, new) == [k \in DOMAIN items |-> IF k \in places THEN new ELSE items[k]]

\* The first optimistic entry that says the same as an own message.
Matches(m, i) ==
    sender[i] # Other /\ IsOptimistic(m) /\ ~m.failed /\ Text[m.temp] = Text[sender[i]]
FirstMatch(items, i) ==
    {k \in DOMAIN items : Matches(items[k], i) /\ \A j \in 1 .. k - 1 : ~Matches(items[j], i)}

\* applyMessageCreate on a loaded list.
Shown(items, i, v) ==
    IF i \in Ids(items) THEN Substitute(items, Places(items, i), Entry(i, v))
    ELSE IF FirstMatch(items, i) # {} THEN Substitute(items, FirstMatch(items, i), Entry(i, v))
    ELSE Append(items, Entry(i, v))

ApplyCreate_Unbuffered(c, i, v) ==
    IF c.pc = "loaded" THEN [c EXCEPT !.items = Shown(@, i, v)] ELSE c

ApplyCreate(c, i, v) ==
    CASE c.pc = "loaded" -> [c EXCEPT !.items = Shown(@, i, v)]
      [] c.pc = "loading" /\ i \notin Ids(c.pending) ->
            [c EXCEPT !.pending = Append(@, Entry(i, v))]
      [] OTHER -> c

Apply(c, e) ==
    IF c.pc = "absent" THEN c
    ELSE CASE e.kind = "create" -> ApplyCreate(c, e.id, e.ver)
           [] e.kind = "update" ->
                [c EXCEPT !.items = Substitute(@, Places(@, e.id), Entry(e.id, e.ver))]
           [] e.kind = "delete" -> [c EXCEPT !.items = Without(@, Places(@, e.id))]

\* Writes about the same message, newer than v, that will not be dispatched any more.
Overtaken(i, v, coming) == {w \in v + 1 .. Clock : about[w] = i /\ w \notin Versions(coming)}

\* Only a loaded list is in doubt: the next one fetched starts afresh.
Doubt(writes) == unsure' = IF conv.pc = "loaded" THEN unsure \cup writes ELSE {}

\* handleGatewayEvent.
Dispatch(e) ==
    /\ events' = events \ {e}
    /\ conv' = Apply(conv, e)
    /\ Doubt(Overtaken(e.id, e.ver, events \ {e}))
    /\ heard' = IF conv.pc = "loading" /\ e.kind = "create" THEN heard \cup {e.ver} ELSE heard
    /\ UNCHANGED <<serverVars, replies, fetch, send, floor>>

\* A publication fails, or meets no socket.
Lose(e) ==
    /\ events' = events \ {e}
    /\ Doubt({e.ver})
    /\ UNCHANGED <<serverVars, replies, conv, fetch, send, floor, heard>>

\* editMessage and deleteMessage apply their answer; a failed request applies nothing.
Reply(r) ==
    /\ replies' = replies \ {r}
    /\ \/ conv' = Apply(conv, r) /\ Doubt(Overtaken(r.id, r.ver, events))
       \/ UNCHANGED <<conv, unsure>>
    /\ UNCHANGED <<serverVars, events, fetch, send, floor, heard>>

-----------------------------------------------------------------------------
(* Fetching the list.                                                      *)

Full(page) == Len(page) >= PageSize
Floor(page) == IF Full(page) THEN page[1].id ELSE 1

\* Writes that a page read earlier does not know and that will not come as events.
Unseen(at) == {v \in at + 1 .. Clock : v \notin Versions(events)}

\* loadMessages.
Load ==
    /\ conv = Absent
    /\ conv' = Loading(<<>>, <<>>)
    /\ fetch' = [fetch EXCEPT !["load"] = Asked(0)]
    /\ UNCHANGED <<serverVars, events, replies, send, floor, heard, unsure>>

\* The messages that arrived while the page was fetched and are not on it.
Buffered(page, pending) == Without(pending, UNION {Places(pending, i) : i \in Ids(page)})

LoadArrives ==
    LET f == fetch["load"]
        extra == IF conv.pc = "loading" THEN Buffered(f.page, conv.pending) ELSE <<>>
    IN
    /\ f.pc = "read"
    /\ conv' = Loaded(f.page \o extra, Full(f.page))
    /\ floor' = Floor(f.page) /\ heard' = {}
    /\ unsure' = (Unseen(f.at) \ heard)
                     \cup UNION {Overtaken(about[v], v, events) : v \in heard}
    /\ fetch' = [fetch EXCEPT !["load"] = Idle]
    /\ UNCHANGED <<serverVars, events, replies, send>>

\* loadOlder: before the first entry that is not optimistic.
LoadOlder ==
    /\ conv.pc = "loaded" /\ conv.hasMore /\ ~conv.loadingOlder
    /\ fetch["older"] = Idle
    /\ \E k \in DOMAIN conv.items :
        /\ ~IsOptimistic(conv.items[k]) /\ \A j \in 1 .. k - 1 : IsOptimistic(conv.items[j])
        /\ fetch' = [fetch EXCEPT !["older"] = Asked(conv.items[k].id)]
    /\ conv' = [conv EXCEPT !.loadingOlder = TRUE]
    /\ UNCHANGED <<serverVars, events, replies, send, floor, heard, unsure>>

Prepended_Alone(page, items) == page

Prepended(page, items) == page \o items

OlderArrives ==
    LET f == fetch["older"]
        known == IF conv.pc = "loaded" THEN Ids(f.page) \cap Ids(conv.items) ELSE {}
        Doubtful(i) == i \in known \/ (f.before <= i /\ i < floor)
    IN
    /\ f.pc = "read"
    /\ fetch' = [fetch EXCEPT !["older"] = Idle]
    /\ IF conv.pc = "loaded"
       THEN /\ conv' = [conv EXCEPT !.items = Prepended(f.page, @), !.hasMore = Full(f.page),
                                    !.loadingOlder = FALSE]
            /\ floor' = Floor(f.page)
            /\ Doubt({v \in Unseen(f.at) : about[v] < f.before}
                         \cup {v \in 1 .. Clock : Doubtful(about[v])})
            /\ UNCHANGED heard
       ELSE UNCHANGED clientVars
    /\ UNCHANGED <<serverVars, events, replies, send>>

\* resync after a reconnect.
ResyncArrives ==
    LET f == fetch["resync"] IN
    /\ f.pc = "read"
    /\ conv' = Loaded(f.page, Full(f.page))
    /\ floor' = Floor(f.page) /\ heard' = {}
    /\ unsure' = Unseen(f.at)
    /\ fetch' = [fetch EXCEPT !["resync"] = Idle]
    /\ UNCHANGED <<serverVars, events, replies, send>>

FetchFails(k) ==
    /\ fetch[k].pc # "idle"
    /\ fetch' = [fetch EXCEPT ![k] = Idle]
    /\ conv' = CASE k = "load" -> Absent
                 [] k = "older" /\ conv.pc = "loaded" -> [conv EXCEPT !.loadingOlder = FALSE]
                 [] OTHER -> conv
    /\ IF k = "load" THEN floor' = 1 /\ heard' = {} /\ unsure' = {}
       ELSE UNCHANGED <<floor, heard, unsure>>
    /\ UNCHANGED <<serverVars, events, replies, send>>

-----------------------------------------------------------------------------
(* The client's own sends, and its socket.                                 *)

\* sendMessage shows an entry at once and posts.
Send(t) ==
    /\ send[t].pc = "unsent" /\ conv.pc # "absent"
    /\ conv' = [conv EXCEPT !.items = Append(@, Optimistic(t))]
    /\ send' = [send EXCEPT ![t] = [pc |-> "posting"]]
    /\ UNCHANGED <<serverVars, events, replies, fetch, floor, heard, unsure>>

Resolved_Kept(items, t, i, v) ==
    IF i \in Ids(items) THEN items ELSE Substitute(items, Waiting(items, t), Entry(i, v))

\* resolveOptimistic.
Resolved(items, t, i, v) ==
    IF i \in Ids(items)
    THEN Without(items, Waiting(items, t))
    ELSE Substitute(items, Waiting(items, t), Entry(i, v))

Answer(t) ==
    /\ send[t].pc = "stored"
    /\ send' = [send EXCEPT ![t] = [pc |-> "over"]]
    /\ conv' = IF conv.pc = "absent" THEN conv
               ELSE [conv EXCEPT !.items = Resolved(@, t, send[t].id, send[t].ver)]
    /\ Doubt(Overtaken(send[t].id, send[t].ver, events))
    /\ UNCHANGED <<serverVars, events, replies, fetch, floor, heard>>

\* The upload or the POST fails, or its answer is lost.
SendFails(t) ==
    /\ send[t].pc \in {"posting", "stored"}
    /\ send' = [send EXCEPT ![t] = [pc |-> "over"]]
    /\ conv' = IF conv.pc = "absent" THEN conv
               ELSE [conv EXCEPT !.items =
                        Substitute(@, Waiting(@, t), [Optimistic(t) EXCEPT !.failed = TRUE])]
    /\ UNCHANGED <<serverVars, events, replies, fetch, floor, heard, unsure>>

\* dismissLocal of a failed entry.
Dismiss(t) ==
    /\ conv.pc # "absent"
    /\ \E k \in DOMAIN conv.items : conv.items[k].temp = t /\ conv.items[k].failed
    /\ conv' = [conv EXCEPT !.items = Without(@, Waiting(@, t))]
    /\ UNCHANGED <<serverVars, events, replies, fetch, send, floor, heard, unsure>>

\* The socket was lost and is identified again: READY starts a resync.  What
\* was published in between is lost (Lose), what is published later comes.
Reconnect ==
    /\ fetch["resync"] = Idle
    /\ fetch' = [fetch EXCEPT !["resync"] = Asked(0)]
    /\ UNCHANGED <<serverVars, events, replies, send, clientVars>>

Next ==
    \/ Create \/ \E i \in Message, kind \in {"update", "delete"}, own \in BOOLEAN : Change(i, kind, own)
    \/ \E t \in Temp : Send(t) \/ Store(t) \/ Answer(t) \/ SendFails(t) \/ Dismiss(t)
    \/ \E k \in Kind : Read(k) \/ FetchFails(k)
    \/ \E e \in events : Dispatch(e) \/ Lose(e)
    \/ \E r \in replies : Reply(r)
    \/ Load \/ LoadArrives \/ LoadOlder \/ OlderArrives \/ ResyncArrives
    \/ Reconnect

Spec == Init /\ [][Next]_vars

-----------------------------------------------------------------------------
(* Properties.                                                             *)

\* What the list shows of a message: its versions, by place.
Showing(i) == Places(conv.items, i)

\* Messages with a write that is still to be dispatched, or that was lost,
\* overtaken, or met by a fetch that did not know it.
Disturbed(i) == \E v \in 1 .. Clock : about[v] = i /\ v \in unsure \cup Versions(events)

\* The list agrees with the server on every other message it accounts for:
\* shown once and as it is stored, or not at all once it is deleted,
\* however events, pages, answers and reconnects were interleaved.
ListIsRight ==
    conv.pc = "loaded" =>
        \A i \in Message : floor <= i /\ ~Disturbed(i) =>
            IF i \in Stored
            THEN \E k \in DOMAIN conv.items :
                    Showing(i) = {k} /\ conv.items[k].ver = db[i]
            ELSE Showing(i) = {}

\* A send leaves one entry behind, whether the answer or the event came
\* first: no entry stays pending once its request is over, and none is
\* shown twice.
SendsSettle ==
    conv.pc # "absent" =>
        \A t \in Temp :
            LET places == Waiting(conv.items, t)
            IN /\ Cardinality(places) <= 1
               /\ send[t].pc = "over" => \A k \in places : conv.items[k].failed

\* A list that was fetched again takes the place of the one shown.
Refetched == \E k \in {"load", "resync"} : fetch[k].pc = "read" /\ fetch'[k].pc = "idle"

\* Until another list replaces it, or it is deleted, a message that is shown
\* stays: no answer, event or older page takes it away.
ShownStays ==
    [][conv.pc = "loaded" /\ conv'.pc = "loaded" /\ ~Refetched =>
        \A i \in Ids(conv.items) \ {0} : db'[i] > 0 => i \in Ids(conv'.items)]_vars

=============================================================================
