-------------------------------- MODULE RateLimit --------------------------------
(***************************************************************************)
(* The fixed-window limiter (ratelimit/ratelimit.go) for one scope and one *)
(* id: the global limit of a user or address (httpapi/middleware.go), or   *)
(* that of messages or effects in a channel.                               *)
(*                                                                         *)
(* The api replica that serves a request names the window by its own       *)
(* clock; Redis counts in a key per window and lets the key expire by its  *)
(* own.  INCR and EXPIRE are sent together but carried out one by one, and *)
(* the call may fail at any point, which admits the request.               *)
(*                                                                         *)
(* A definition Name_Variant is Name with a bug put in; only the mutation  *)
(* runs use it.                                                            *)
(***************************************************************************)
EXTENDS Integers, FiniteSets

CONSTANTS
    Request,
    Limit, Window,
    Delay,       \* a call to Redis takes no longer
    Skew,        \* how far a replica's clock may be off
    MaxTime      \* bound

LimiterAssumption ==
    /\ {Limit, Window, Delay, Skew} \subseteq Nat /\ Limit > 0
    /\ Delay + 2 * Skew < Window
    /\ MaxTime \in Nat /\ Window <= MaxTime

VARIABLES
    now,         \* true time
    keys,        \* rl:{scope}:{id}:{window}, by window: the count, the time it has left
                 \* and when it was made (history)
    req          \* requests: when they came, their window, the count they got and
                 \* when the key that counted them was made (history)

vars == <<now, keys, req>>

Forever == Window + 1     \* no TTL
Absent == [n |-> 0, left |-> 0, born |-> 0]
Windows == 0 .. (MaxTime + Skew) \div Window

\* admitted and refused by their count, or let in because of an error.
Verdict == {"admitted", "refused", "open"}

TypeOK ==
    /\ now \in Window .. MaxTime
    /\ keys \in [Windows -> [n : 0 .. Cardinality(Request), left : 0 .. Forever,
                          born : 0 .. MaxTime]]
    /\ \A r \in Request : req[r].pc \in {"idle", "asked", "counted"} \cup Verdict

Init ==
    /\ now = Window
    /\ keys = [w \in Windows |-> Absent]
    /\ req = [r \in Request |-> [pc |-> "idle", at |-> 0, w |-> 0, n |-> 0, born |-> 0]]

Move(r, pc) == req' = [req EXCEPT ![r].pc = pc]

\* The window, by the replica's clock.
Allow(r) ==
    /\ req[r].pc = "idle"
    /\ \E clock \in now - Skew .. now + Skew :
        req' = [req EXCEPT ![r] = [pc |-> "asked", at |-> now, w |-> clock \div Window,
                                   n |-> 0, born |-> 0]]
    /\ UNCHANGED <<now, keys>>

\* A key that INCR makes has no TTL.
Incr(r) ==
    LET key == keys[req[r].w]
        born == IF key.n = 0 THEN now ELSE key.born
    IN  /\ req[r].pc = "asked"
        /\ keys' = [keys EXCEPT ![req[r].w] =
                       [n |-> key.n + 1, born |-> born,
                        left |-> IF key.n = 0 THEN Forever ELSE key.left]]
        /\ req' = [req EXCEPT ![r].pc = "counted", ![r].n = key.n + 1, ![r].born = born]
        /\ UNCHANGED now

Judge(r) == IF req[r].n <= Limit THEN "admitted" ELSE "refused"

Expire_Short(r) ==
    /\ req[r].pc = "counted"
    /\ keys' = [keys EXCEPT ![req[r].w].left = IF keys[req[r].w].n = 0 THEN 0 ELSE Window \div 4]
    /\ \E verdict \in {Judge(r), "open"} : Move(r, verdict)
    /\ UNCHANGED now

\* The answer of both, or its loss.
Expire(r) ==
    /\ req[r].pc = "counted"
    /\ keys' = [keys EXCEPT ![req[r].w].left = IF keys[req[r].w].n = 0 THEN 0 ELSE Window]
    /\ \E verdict \in {Judge(r), "open"} : Move(r, verdict)
    /\ UNCHANGED now

Fails(r) ==
    /\ req[r].pc \in {"asked", "counted"}
    /\ Move(r, "open")
    /\ UNCHANGED <<now, keys>>

Ending(key) == key.left \in {0, 1}
Tick ==
    /\ now < MaxTime /\ now' = now + 1
    /\ \A r \in Request : req[r].pc \in {"asked", "counted"} => now < req[r].at + Delay
    /\ keys' = [w \in Windows |->
                   IF Ending(keys[w]) THEN Absent
                   ELSE IF keys[w].left = Forever THEN keys[w]
                   ELSE [keys[w] EXCEPT !.left = @ - 1]]
    /\ UNCHANGED req

Next == Tick \/ \E r \in Request : Allow(r) \/ Incr(r) \/ Expire(r) \/ Fails(r)

Spec == Init /\ [][Next]_vars

-----------------------------------------------------------------------------
(* Properties.                                                             *)

\* A time in which requests meet two windows at most, and no key is made twice.
Stretch == Window - Delay - 2 * Skew

CameIn(t) == {r \in Request : req[r].at \in t .. t + Stretch - 1}

\* A limit of so many requests in a window (docs/ARCHITECTURE.md:221-223) does not
\* hold for every stretch of time as long as one.  Wherever a little less than a
\* window begins, however late calls are and whatever the clocks of the replicas
\* say, it lets through less than three times as many, errors aside: the two
\* windows of the stretch may have their full number each, and the key of the
\* first, if it was made at its very beginning, may expire and be made again in
\* its last moments.  And nobody is turned away but for as many others in their
\* window, and a key stays for good only when EXPIRE was lost.
LimitHolds ==
    /\ \A t \in Window .. MaxTime :
        Cardinality({r \in CameIn(t) : req[r].pc = "admitted"}) < 3 * Limit
    /\ \A r \in Request : req[r].pc = "refused" =>
        Cardinality({q \in Request : req[q].n > 0 /\ req[q].w = req[r].w}) > Limit
    /\ \A w \in Windows : keys[w].left = Forever =>
        \E r \in Request : req[r].w = w /\ req[r].pc \in {"counted", "open"}

=============================================================================
