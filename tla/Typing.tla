--------------------------------- MODULE Typing ---------------------------------
(***************************************************************************)
(* Who is typing: the composer of one member (components/MessageInput.jsx),*)
(* the request it sends every eight seconds at most (handleTyping of       *)
(* httpapi/message_handlers.go), and the line another member sees          *)
(* (store/chatStore.js, components/TypingIndicator.jsx).                   *)
(*                                                                         *)
(* Time goes by in ticks; whoever types steadily presses a key in every    *)
(* tick.  A request and the event it becomes arrive within MaxDelay ticks  *)
(* or not at all, in any order: the handlers run side by side.             *)
(*                                                                         *)
(* A definition Name_Variant is Name with a bug put in; only the mutation  *)
(* runs use it.                                                            *)
(***************************************************************************)
EXTENDS Integers, FiniteSets

CONSTANTS
    TYPING_THROTTLE, TYPING_TTL, Sweep, MaxDelay,   \* in ticks
    MaxMessages   \* bound

TimesAssumption ==
    /\ {TYPING_THROTTLE, TYPING_TTL, Sweep, MaxDelay, MaxMessages} \subseteq Nat
    /\ TYPING_THROTTLE + 1 + MaxDelay < TYPING_TTL

VARIABLES
    empty,      \* the composer is
    since,      \* ticks since the last request, if it still counts
    typed,      \* a key was pressed in this tick
    flight,     \* requests and events under way
    sent,       \* messages sent
    loaded,     \* the viewer has the channel's messages
    entry, left,   \* the viewer's entry of the typist, and the ticks it is good for
    bar,        \* the line names the typist
    swept,      \* ticks since the interval was set up, or fired
    asked,      \* ticks since the last request (history)
    sure,       \* the typist is shown and has gone on typing (history)
    seen,       \* messages the viewer has got (history)
    excused     \* why the typist may be shown after a message (history)

typist == <<empty, since, typed, sent, asked>>
viewer == <<loaded, entry, left, bar, swept, sure, seen, excused>>
vars == <<typist, flight, viewer>>

Capped(n, cap) == IF n < cap THEN n ELSE cap
LongAgo == TYPING_THROTTLE + 1
Longest == TYPING_TTL + MaxDelay + Sweep

TypeOK ==
    /\ since \in 0 .. LongAgo /\ left \in 0 .. TYPING_TTL /\ swept \in 0 .. Sweep
    /\ asked \in 0 .. Longest + 1 /\ {sent, seen} \subseteq 0 .. MaxMessages
    /\ {empty, typed, loaded, entry, bar, sure, excused} \subseteq BOOLEAN
    /\ \A f \in flight : f.age \in 0 .. MaxDelay /\ f.n \in 0 .. MaxMessages

Init ==
    /\ empty = TRUE /\ since = LongAgo /\ typed = FALSE /\ sent = 0 /\ asked = Longest + 1
    /\ flight = {} /\ loaded \in BOOLEAN
    /\ entry = FALSE /\ left = 0 /\ bar = FALSE /\ swept = 0
    /\ sure = FALSE /\ seen = 0 /\ excused = FALSE

\* What has been promised no longer holds for those under way.
Broken(items) == {[f EXCEPT !.kept = FALSE] : f \in items}

-----------------------------------------------------------------------------
(* The composer.                                                           *)

\* onChange.
Key ==
    /\ ~typed /\ typed' = TRUE
    /\ empty' = FALSE
    /\ IF since > TYPING_THROTTLE
       THEN /\ since' = 0 /\ asked' = 0
            /\ flight' = flight \cup {[kind |-> "typing", age |-> 0, kept |-> TRUE, n |-> sent]}
       ELSE UNCHANGED <<since, asked, flight>>
    /\ UNCHANGED <<sent, viewer>>

\* send: the next key asks again at once.
Send ==
    /\ ~empty /\ empty' = TRUE
    /\ sent < MaxMessages /\ sent' = sent + 1
    /\ since' = LongAgo
    /\ flight' = Broken(flight) \cup {[kind |-> "message", age |-> 0, kept |-> FALSE, n |-> sent']}
    /\ sure' = FALSE
    /\ UNCHANGED <<typed, asked, loaded, entry, left, bar, swept, seen, excused>>

-----------------------------------------------------------------------------
(* Arrival.                                                                *)

\* applyTypingStart.
TypingStart(f) ==
    /\ entry' = TRUE /\ left' = TYPING_TTL /\ bar' = TRUE /\ swept' = 0
    /\ sure' = (sure \/ f.kept)
    /\ excused' = (excused \/ f.n < seen)
    /\ UNCHANGED <<loaded, seen>>

Message_KeepsTypist(f) ==
    /\ sure' = FALSE /\ seen' = f.n
    /\ UNCHANGED <<loaded, entry, left, bar, swept, excused>>

\* applyMessageCreate: only where the messages are loaded.
Message(f) ==
    /\ sure' = FALSE /\ seen' = IF f.n > seen THEN f.n ELSE seen
    /\ IF loaded
       THEN entry' = FALSE /\ left' = 0 /\ bar' = FALSE /\ swept' = 0 /\ UNCHANGED excused
       ELSE excused' = TRUE /\ UNCHANGED <<entry, left, bar, swept>>
    /\ UNCHANGED loaded

Arrive(f) ==
    /\ flight' = flight \ {f}
    /\ IF f.kind = "typing" THEN TypingStart(f) ELSE Message(f)
    /\ UNCHANGED typist

\* A request that fails is not repeated.
Fail(f) ==
    /\ flight' = Broken(flight \ {f})
    /\ sure' = FALSE
    /\ excused' = (excused \/ f.kind = "message")
    /\ UNCHANGED <<typist, loaded, entry, left, bar, swept, seen>>

-----------------------------------------------------------------------------
(* The viewer.                                                             *)

\* The interval: the line is drawn anew when pruneTyping has removed somebody.
Prune ==
    /\ entry /\ swept = Sweep /\ swept' = 0
    /\ entry' = (left > 0) /\ bar' = (bar /\ left > 0)
    /\ UNCHANGED <<typist, flight, loaded, left, sure, seen, excused>>

LoadMessages ==
    /\ ~loaded /\ loaded' = TRUE
    /\ UNCHANGED <<typist, flight, entry, left, bar, swept, sure, seen, excused>>

\* A tick without a key, and the typist no longer types steadily.
Tick ==
    /\ \A f \in flight : f.age < MaxDelay
    /\ entry => swept < Sweep
    /\ typed' = FALSE
    /\ since' = Capped(since + 1, LongAgo) /\ asked' = Capped(asked + 1, Longest + 1)
    /\ LET later == {[f EXCEPT !.age = @ + 1] : f \in flight}
       IN flight' = IF typed THEN later ELSE Broken(later)
    /\ left' = IF left > 0 THEN left - 1 ELSE 0
    /\ swept' = IF entry THEN swept + 1 ELSE 0
    /\ sure' = (sure /\ typed)
    /\ UNCHANGED <<empty, sent, loaded, entry, bar, seen, excused>>

Next ==
    \/ Key \/ Send \/ Prune \/ LoadMessages \/ Tick
    \/ \E f \in flight : Arrive(f) \/ Fail(f)

Spec == Init /\ [][Next]_vars

-----------------------------------------------------------------------------
(* Properties.                                                             *)

\* Whoever keeps typing stays on the line from one request to the next, nobody
\* stays there longer than a request is good for, and a message takes its
\* author off it, unless a request from before comes after it.
TypingRight ==
    /\ sure => bar /\ left > 0
    /\ bar => asked <= Longest
    /\ bar /\ empty /\ flight = {} => excused \/ sent = 0

=============================================================================
