----------------------------- MODULE GuildsProofs -----------------------------
(***************************************************************************)
(* Proofs about the guilds, for all users, ids and codes and any number of *)
(* requests, tasks and calls: of the handlers, that the two tables of each *)
(* membership and channel agree (RowsAgree) and that what is told is       *)
(* stored; of the client, that its lists are right and its selection fits; *)
(* of the gateway in between, that a member's feed is whole.               *)
(*                                                                         *)
(* The handlers' invariant says how far each request has come: the rows of *)
(* the statements behind it are there (Progress), half a pair of rows      *)
(* belongs to a request that has not ended well (RowsAgree itself), and    *)
(* what has been published is stored (EventsHold).  Tables only grow, so   *)
(* what is said of a request survives the steps of all others.             *)
(*                                                                         *)
(* The client's says that what each task has read is true (TasksTrue),     *)
(* which stays so for the same reason, that each list is true and lacks    *)
(* only what is outstanding (ListsTrue, ListsComplete), and what holds of  *)
(* a selection that is not astray (Selected).                              *)
(***************************************************************************)
EXTENDS MCGuilds, FiniteSetTheorems, TLAPS

Exists(g) == \E owner \in User : <<g, owner>> \in table["guilds"]

MemberOf(r) == <<request[r].guild, request[r].user>>
PlaceOf(r) == <<request[r].guild, request[r].channel>>

Created(r) ==
    LET at == request[r].at IN
    /\ request[r].channel \in Channel
    /\ at > 1 => MemberOf(r) \in table["guilds"]
    /\ at > 2 => MemberOf(r) \in table["guild_members"]
    /\ at > 3 => MemberOf(r) \in table["user_guilds"]
    /\ at > 4 => PlaceOf(r) \in table["channels"]
    /\ at > 5 => PlaceOf(r) \in table["channels_by_id"]
    /\ request[r].state = "running" => at \in 1 .. 6
    /\ request[r].state = "ok" => at = 7
    /\ request[r].state # "checking"

Joined(r) ==
    LET at == request[r].at IN
    /\ Exists(request[r].guild)
    /\ at > 1 => MemberOf(r) \in table["guild_members"]
    /\ at > 2 => MemberOf(r) \in table["user_guilds"]
    /\ request[r].state = "running" => at \in 1 .. 5
    /\ request[r].state = "checking" => at = 1
    /\ request[r].state = "ok" =>
        /\ MemberOf(r) \in table["guild_members"]
        /\ MemberOf(r) \in table["user_guilds"] \/ Halfway("user_guilds", MemberOf(r))

Opened(r) ==
    LET at == request[r].at IN
    /\ request[r].channel \in Channel
    /\ Exists(request[r].guild)
    /\ at > 1 => PlaceOf(r) \in table["channels"]
    /\ at > 2 => PlaceOf(r) \in table["channels_by_id"]
    /\ request[r].state = "running" => at \in 1 .. 3
    /\ request[r].state = "ok" => at = 4
    /\ request[r].state # "checking"

Invited(r) ==
    /\ request[r].at \in 1 .. Tries
    /\ request[r].state # "checking"
    /\ request[r].state = "ok" =>
        /\ request[r].code \in DOMAIN invites
        /\ invites[request[r].code] = request[r].guild

Progress(r) ==
    Sent(r) =>
        /\ request[r].job = "create" => Created(r)
        /\ request[r].job = "join" => Joined(r)
        /\ request[r].job = "channel" => Opened(r)
        /\ request[r].job = "invite" => Invited(r)

EventsHold == \A e \in published : EventHolds(e[1], e[2])

IInv ==
    /\ TypeOK
    /\ \A r \in Request : Progress(r)
    /\ RowsAgree
    /\ EventsHold

-----------------------------------------------------------------------------
(* What a handler does next.                                               *)

LEMMA BegunIsSent == ASSUME NEW b \in Begun PROVE b # Unsent
BY DEF Begun, Unsent, State

LEMMA SentIsBegun ==
    ASSUME TypeOK, NEW r \in Request, Sent(r)
    PROVE  request[r] \in Begun
BY DEF TypeOK, Sent

\* The statement a running request is at, and whether it is the last.
IsAt(r, job, at, now, final) ==
    /\ request[r].job = job /\ request[r].at = at
    /\ Now(r) = now
    /\ (at = Len(Steps(job))) <=> final

LEMMA NowIs ==
    ASSUME TypeOK, NEW r \in Request, Running(r), Progress(r)
    PROVE  \/ IsAt(r, "create", 1, "guilds", FALSE)
           \/ IsAt(r, "create", 2, "guild_members", FALSE)
           \/ IsAt(r, "create", 3, "user_guilds", FALSE)
           \/ IsAt(r, "create", 4, "channels", FALSE)
           \/ IsAt(r, "create", 5, "channels_by_id", FALSE)
           \/ IsAt(r, "create", 6, "GUILD_CREATE", TRUE)
           \/ IsAt(r, "join", 1, "guild_members", FALSE)
           \/ IsAt(r, "join", 2, "user_guilds", FALSE)
           \/ IsAt(r, "join", 3, "user", FALSE)
           \/ IsAt(r, "join", 4, "GUILD_MEMBER_ADD", FALSE)
           \/ IsAt(r, "join", 5, "GUILD_CREATE", TRUE)
           \/ IsAt(r, "channel", 1, "channels", FALSE)
           \/ IsAt(r, "channel", 2, "channels_by_id", FALSE)
           \/ IsAt(r, "channel", 3, "CHANNEL_CREATE", TRUE)
<1>1. Sent(r) /\ request[r].state = "running" /\ request[r].job # "invite"
  BY DEF Running
<1>2. request[r].job \in {"create", "join", "channel"}
  BY <1>1, SentIsBegun DEF Begun, Job
<1>3. CASE request[r].job = "create"
  <2>1. request[r].at \in 1 .. 6
    BY <1>1, <1>3 DEF Progress, Created
  <2> QED
    BY <1>3, <2>1 DEF IsAt, Now, Steps
<1>4. CASE request[r].job = "join"
  <2>1. request[r].at \in 1 .. 5
    BY <1>1, <1>4 DEF Progress, Joined
  <2> QED
    BY <1>4, <2>1 DEF IsAt, Now, Steps
<1>5. CASE request[r].job = "channel"
  <2>1. request[r].at \in 1 .. 3
    BY <1>1, <1>5 DEF Progress, Opened
  <2> QED
    BY <1>5, <2>1 DEF IsAt, Now, Steps
<1> QED
  BY <1>2, <1>3, <1>4, <1>5

\* A row is half written only by a request whose job writes its second half.
MemberHalf(m) ==
    \E r \in Request :
        /\ Sent(r) /\ request[r].state \in {"running", "failed"}
        /\ request[r].job \in {"create", "join"} /\ MemberOf(r) = m

PlaceHalf(p) ==
    \E r \in Request :
        /\ Sent(r) /\ request[r].state \in {"running", "failed"}
        /\ request[r].job \in {"create", "channel"} /\ PlaceOf(r) = p

LEMMA WhichJobs ==
    \A job \in Job :
        /\ (\E k \in DOMAIN Steps(job) : Steps(job)[k] = "user_guilds")
               <=> job \in {"create", "join"}
        /\ (\E k \in DOMAIN Steps(job) : Steps(job)[k] = "channels_by_id")
               <=> job \in {"create", "channel"}
<1>1. ASSUME NEW job \in Job, job = "create"
      PROVE  /\ 3 \in DOMAIN Steps(job) /\ Steps(job)[3] = "user_guilds"
             /\ 5 \in DOMAIN Steps(job) /\ Steps(job)[5] = "channels_by_id"
  BY <1>1 DEF Steps
<1>2. ASSUME NEW job \in Job, job = "join"
      PROVE  /\ 2 \in DOMAIN Steps(job) /\ Steps(job)[2] = "user_guilds"
             /\ \A k \in DOMAIN Steps(job) : Steps(job)[k] # "channels_by_id"
  BY <1>2 DEF Steps
<1>3. ASSUME NEW job \in Job, job = "channel"
      PROVE  /\ 2 \in DOMAIN Steps(job) /\ Steps(job)[2] = "channels_by_id"
             /\ \A k \in DOMAIN Steps(job) : Steps(job)[k] # "user_guilds"
  BY <1>3 DEF Steps
<1>4. ASSUME NEW job \in Job, job = "invite"
      PROVE  DOMAIN Steps(job) = {}
  BY <1>4 DEF Steps
<1> QED
  BY <1>1, <1>2, <1>3, <1>4 DEF Job

LEMMA HalfwayIs ==
    /\ TypeOK => \A m : Halfway("user_guilds", m) <=> MemberHalf(m)
    /\ TypeOK => \A p : Halfway("channels_by_id", p) <=> PlaceHalf(p)
    /\ TypeOK' => \A m : Halfway("user_guilds", m)' <=> MemberHalf(m)'
    /\ TypeOK' => \A p : Halfway("channels_by_id", p)' <=> PlaceHalf(p)'
<1>1. ASSUME TypeOK
      PROVE  \A r \in Request : Sent(r) => request[r].job \in Job
  BY <1>1, SentIsBegun DEF Begun
<1>2. ASSUME TypeOK'
      PROVE  \A r \in Request : Sent(r)' => request'[r].job \in Job
  BY <1>2 DEF TypeOK, Sent, Begun
<1>3. \A r : /\ Row(r, "user_guilds") = MemberOf(r)
             /\ Row(r, "channels_by_id") = PlaceOf(r)
             /\ Row(r, "user_guilds")' = MemberOf(r)'
             /\ Row(r, "channels_by_id")' = PlaceOf(r)'
  BY DEF Row, MemberOf, PlaceOf
<1> QED
  BY <1>1, <1>2, <1>3, WhichJobs DEF Halfway, MemberHalf, PlaceHalf

-----------------------------------------------------------------------------
(* A step is of one request, tables only grow, and a request that has a    *)
(* row half written either has it still or has written the other half.     *)

Settles(r) ==
    Sent(r) /\ request[r].state \in {"running", "failed"} =>
        /\ Sent(r)'
        /\ request'[r].job = request[r].job
        /\ MemberOf(r)' = MemberOf(r) /\ PlaceOf(r)' = PlaceOf(r)
        /\ \/ request'[r].state \in {"running", "failed"}
           \/ /\ request[r].job \in {"create", "join"} => MemberOf(r) \in table'["user_guilds"]
              /\ request[r].job \in {"create", "channel"} => PlaceOf(r) \in table'["channels_by_id"]

StepOf(r) ==
    /\ \A t \in DOMAIN table : table[t] \subseteq table'[t]
    /\ \A code \in DOMAIN invites : code \in DOMAIN invites' /\ invites'[code] = invites[code]
    /\ \A q \in Request \ {r} : request'[q] = request[q]
    /\ Settles(r)

LEMMA HalfwayKept ==
    ASSUME TypeOK, TypeOK', NEW r \in Request, StepOf(r)
    PROVE  /\ \A m : Halfway("user_guilds", m) =>
                  Halfway("user_guilds", m)' \/ m \in table'["user_guilds"]
           /\ \A p : Halfway("channels_by_id", p) =>
                  Halfway("channels_by_id", p)' \/ p \in table'["channels_by_id"]
<1>1. ASSUME NEW q \in Request, q # r, Sent(q)
      PROVE  /\ Sent(q)' /\ request'[q] = request[q]
             /\ MemberOf(q)' = MemberOf(q) /\ PlaceOf(q)' = PlaceOf(q)
  BY <1>1 DEF StepOf, Sent, MemberOf, PlaceOf
<1>2. ASSUME NEW m, MemberHalf(m)
      PROVE  MemberHalf(m)' \/ m \in table'["user_guilds"]
  BY <1>1, <1>2 DEF MemberHalf, StepOf, Settles
<1>3. ASSUME NEW p, PlaceHalf(p)
      PROVE  PlaceHalf(p)' \/ p \in table'["channels_by_id"]
  BY <1>1, <1>3 DEF PlaceHalf, StepOf, Settles
<1> QED
  BY <1>2, <1>3, HalfwayIs

\* What is known of the other requests and of the events survives the step.
LEMMA Kept ==
    ASSUME IInv, TypeOK', NEW r \in Request, StepOf(r)
    PROVE  /\ \A q \in Request \ {r} : Progress(q)'
           /\ \A e \in published : EventHolds(e[1], e[2])'
           /\ \A g \in Guild : Exists(g) => Exists(g)'
<1>1. DOMAIN table = {"guilds", "guild_members", "user_guilds", "channels", "channels_by_id"}
  BY DEF IInv, TypeOK, Rows
<1>2. \A g : Exists(g) => Exists(g)'
  BY <1>1 DEF Exists, StepOf
<1>3. ASSUME NEW q \in Request \ {r}
      PROVE  Progress(q)'
  <2>1. request'[q] = request[q]
    BY DEF StepOf
  <2>2. /\ Sent(q)' <=> Sent(q)
        /\ MemberOf(q)' = MemberOf(q) /\ PlaceOf(q)' = PlaceOf(q)
    BY <2>1 DEF Sent, MemberOf, PlaceOf
  <2>3. Progress(q)
    BY DEF IInv
  <2>4. /\ table["guilds"] \subseteq table'["guilds"]
        /\ table["guild_members"] \subseteq table'["guild_members"]
        /\ table["user_guilds"] \subseteq table'["user_guilds"]
        /\ table["channels"] \subseteq table'["channels"]
        /\ table["channels_by_id"] \subseteq table'["channels_by_id"]
    BY <1>1 DEF StepOf
  <2>5. Created(q) => Created(q)'
    BY <2>1, <2>2, <2>4 DEF Created
  <2>6. Joined(q) => Joined(q)'
    <3>1. Halfway("user_guilds", MemberOf(q)) =>
             Halfway("user_guilds", MemberOf(q))' \/ MemberOf(q) \in table'["user_guilds"]
      BY <2>2, HalfwayKept DEF IInv
    <3> QED
      BY <1>2, <2>1, <2>2, <2>4, <3>1 DEF Joined
  <2>7. Opened(q) => Opened(q)'
    BY <1>2, <2>1, <2>2, <2>4 DEF Opened
  <2>8. Invited(q) => Invited(q)'
    BY <2>1 DEF Invited, StepOf
  <2> QED
    BY <2>1, <2>2, <2>3, <2>5, <2>6, <2>7, <2>8 DEF Progress
<1>4. \A e \in published : EventHolds(e[1], e[2])'
  BY <1>1 DEF IInv, EventsHold, EventHolds, JoinedBoth, ListedBoth, StepOf
<1> QED
  BY <1>2, <1>3, <1>4

-----------------------------------------------------------------------------
(* The rows after a step that writes none, and after one that writes one.  *)

LEMMA RowsStay ==
    ASSUME IInv, TypeOK', NEW r \in Request, StepOf(r), UNCHANGED table
    PROVE  RowsAgree'
<1>1. \A m \in table["guild_members"] \ table["user_guilds"] : Halfway("user_guilds", m)'
  BY HalfwayKept DEF IInv, RowsAgree
<1>2. \A p \in table["channels"] \ table["channels_by_id"] : Halfway("channels_by_id", p)'
  BY HalfwayKept DEF IInv, RowsAgree
<1> QED
  BY <1>1, <1>2 DEF IInv, RowsAgree

Writes(r) ==
    /\ Running(r) /\ Now(r) \in DOMAIN table
    /\ table' = [table EXCEPT ![Now(r)] = @ \cup {Row(r, Now(r))}]
    /\ Sent(r)' /\ request'[r].state \in {"running", "failed"}
    /\ request'[r].job = request[r].job
    /\ MemberOf(r)' = MemberOf(r) /\ PlaceOf(r)' = PlaceOf(r)

LEMMA RowWritten ==
    ASSUME IInv, TypeOK', NEW r \in Request, StepOf(r), Writes(r)
    PROVE  RowsAgree'
<1> DEFINE m == MemberOf(r)
           p == PlaceOf(r)
<1>1. /\ DOMAIN table = {"guilds", "guild_members", "user_guilds", "channels", "channels_by_id"}
      /\ table["guilds"] \subseteq Member
      /\ table \in Rows /\ table' \in Rows
  BY DEF IInv, TypeOK, Rows
<1>2. /\ table["guilds"] \subseteq table'["guilds"]
      /\ \A t \in DOMAIN table : t # Now(r) => table'[t] = table[t]
      /\ table'[Now(r)] = table[Now(r)] \cup {Row(r, Now(r))}
      /\ DOMAIN table' = DOMAIN table
  BY <1>1 DEF Writes, Rows
<1>3. Sent(r) /\ Progress(r) /\ request[r].user \in User /\ request[r].guild \in Guild
  BY SentIsBegun DEF Writes, Running, Begun, IInv
<1>4. \/ /\ Now(r) = "guilds" /\ Row(r, Now(r)) = m
      \/ /\ Now(r) = "guild_members" /\ Row(r, Now(r)) = m
         /\ request[r].job \in {"create", "join"} /\ Exists(request[r].guild)
      \/ /\ Now(r) = "user_guilds" /\ Row(r, Now(r)) = m
         /\ m \in table["guild_members"] /\ Exists(request[r].guild)
      \/ /\ Now(r) = "channels" /\ Row(r, Now(r)) = p
         /\ request[r].job \in {"create", "channel"} /\ Exists(request[r].guild)
      \/ /\ Now(r) = "channels_by_id" /\ Row(r, Now(r)) = p
         /\ p \in table["channels"] /\ Exists(request[r].guild)
  <2>1. Running(r) /\ Now(r) \in DOMAIN table
    BY DEF Writes
  <2>2. /\ request[r].job = "create" => Created(r)
        /\ request[r].job = "join" => Joined(r)
        /\ request[r].job = "channel" => Opened(r)
    BY <1>3 DEF Progress
  <2>3. m \in table["guilds"] => Exists(request[r].guild)
    BY <1>3 DEF Exists, MemberOf
  <2>4. Row(r, Now(r)) = IF Now(r) \in {"channels", "channels_by_id", "CHANNEL_CREATE"} THEN p ELSE m
    BY DEF Row, MemberOf, PlaceOf
  <2>5. TypeOK
    BY DEF IInv
  <2> HIDE DEF m, p
  <2>6. m = MemberOf(r) /\ p = PlaceOf(r)
    BY DEF m, p
  <2> QED
    BY <1>1, <1>3, <2>1, <2>2, <2>3, <2>4, <2>5, <2>6, NowIs DEF IsAt, Created, Joined, Opened
<1>5. m[1] = request[r].guild /\ p[1] = request[r].guild
  BY DEF MemberOf, PlaceOf
<1>6. \A t \in DOMAIN table' : \A row \in table'[t] : row[1] \in {x[1] : x \in table'["guilds"]}
  <2>1. \A t \in DOMAIN table : \A row \in table[t] : row[1] \in {x[1] : x \in table["guilds"]}
    BY DEF IInv, RowsAgree
  <2>2. \A g : Exists(g) => g \in {x[1] : x \in table["guilds"]}
    BY DEF Exists
  <2>3. {x[1] : x \in table["guilds"]} \subseteq {x[1] : x \in table'["guilds"]}
    BY <1>2
  <2>4. Row(r, Now(r))[1] \in {x[1] : x \in table'["guilds"]}
    <3>1. CASE Now(r) = "guilds"
      BY <1>2, <3>1
    <3>2. CASE Now(r) # "guilds"
      BY <1>4, <1>5, <2>2, <2>3, <3>2
    <3> QED
      BY <3>1, <3>2
  <2> HIDE DEF m, p
  <2> QED
    BY <1>2, <2>1, <2>3, <2>4
<1>7. /\ \A x : Halfway("user_guilds", x) => Halfway("user_guilds", x)' \/ x \in table'["user_guilds"]
      /\ \A x : Halfway("channels_by_id", x) =>
             Halfway("channels_by_id", x)' \/ x \in table'["channels_by_id"]
  BY HalfwayKept DEF IInv
<1>8. /\ request[r].job \in {"create", "join"} => \A x : x = m => Halfway("user_guilds", x)'
      /\ request[r].job \in {"create", "channel"} => \A x : x = p => Halfway("channels_by_id", x)'
  BY HalfwayIs DEF Writes, MemberHalf, PlaceHalf
<1>9. /\ table["user_guilds"] \subseteq table["guild_members"]
      /\ table["channels_by_id"] \subseteq table["channels"]
      /\ \A x \in table["guild_members"] \ table["user_guilds"] : Halfway("user_guilds", x)
      /\ \A x \in table["channels"] \ table["channels_by_id"] : Halfway("channels_by_id", x)
  BY DEF IInv, RowsAgree
<1> HIDE DEF m, p
<1>10. /\ table'["user_guilds"] \subseteq table'["guild_members"]
       /\ table'["channels_by_id"] \subseteq table'["channels"]
  BY <1>1, <1>2, <1>4, <1>9
<1>11. ASSUME NEW x \in table'["guild_members"] \ table'["user_guilds"]
      PROVE  Halfway("user_guilds", x)'
  <2>1. x \notin table["user_guilds"]
    BY <1>1, <1>2
  <2>2. x \in table["guild_members"] \/ (Now(r) = "guild_members" /\ x = m)
    BY <1>1, <1>2, <1>4
  <2>3. CASE x \in table["guild_members"]
    BY <1>7, <1>9, <2>1, <2>3
  <2>4. CASE Now(r) = "guild_members" /\ x = m
    BY <1>4, <1>8, <2>4
  <2> QED
    BY <2>2, <2>3, <2>4
<1>12. ASSUME NEW x \in table'["channels"] \ table'["channels_by_id"]
      PROVE  Halfway("channels_by_id", x)'
  <2>1. x \notin table["channels_by_id"]
    BY <1>1, <1>2
  <2>2. x \in table["channels"] \/ (Now(r) = "channels" /\ x = p)
    BY <1>1, <1>2, <1>4
  <2>3. CASE x \in table["channels"]
    BY <1>7, <1>9, <2>1, <2>3
  <2>4. CASE Now(r) = "channels" /\ x = p
    BY <1>4, <1>8, <2>4
  <2> QED
    BY <2>2, <2>3, <2>4
<1> QED
  BY <1>6, <1>10, <1>11, <1>12 DEF RowsAgree

-----------------------------------------------------------------------------
(* The invariant after a step, from what the step does for its own request. *)

LEMMA StepKeeps ==
    ASSUME IInv, TypeOK', NEW r \in Request, StepOf(r), Progress(r)',
           UNCHANGED table \/ Writes(r),
           \A e \in published' : e \in published \/ EventHolds(e[1], e[2])'
    PROVE  IInv'
<1>1. \A q \in Request : Progress(q)'
  BY Kept
<1>2. RowsAgree'
  BY RowsStay, RowWritten
<1>3. EventsHold'
  BY Kept DEF EventsHold
<1> QED
  BY <1>1, <1>2, <1>3 DEF IInv

\* A request arrives.
LEMMA BeginKeeps ==
    ASSUME IInv, NEW r \in Request, NEW job \in Job, NEW state \in State,
           NEW u \in User, NEW g \in Guild, NEW c \in Channel \cup {None},
           Begin(r, job, state, u, g, c),
           IF job = "join" THEN state = "checking" ELSE state = "running",
           job \in {"create", "channel"} => c \in Channel,
           job \in {"join", "channel"} => Exists(g)
    PROVE  IInv'
<1> DEFINE new == [job |-> job, state |-> state, at |-> 1, user |-> u, guild |-> g,
                   channel |-> c, code |-> None]
<1>1. /\ ~Sent(r)
      /\ request' = [request EXCEPT ![r] = new]
      /\ UNCHANGED <<table, invites, published>>
  BY DEF Begin
<1>2. TypeOK
  BY DEF IInv
<1>3. new \in Begun
  BY DEF Begun
<1>4. TypeOK'
  BY <1>1, <1>2, <1>3 DEF TypeOK
<1>5. request'[r] = new
  BY <1>1, <1>2 DEF TypeOK
<1>6. StepOf(r)
  BY <1>1, <1>2 DEF StepOf, Settles, TypeOK
<1>7. Exists(g) => Exists(g)'
  BY <1>1 DEF Exists
<1>8. Progress(r)'
  BY <1>5, <1>7 DEF Progress, Created, Joined, Opened, Invited, Tries
<1> QED
  BY <1>1, <1>4, <1>6, <1>8, StepKeeps

\* The membership check of a join.
LEMMA CheckMemberKeeps ==
    ASSUME IInv, NEW r \in Request, CheckMember(r)
    PROVE  IInv'
<1>1. TypeOK /\ Sent(r) /\ request[r].state = "checking" /\ Progress(r)
  BY DEF IInv, CheckMember
<1>2. request[r] \in Begun
  BY <1>1, SentIsBegun
<1>3. PICK s \in {"ok", "running"} :
          /\ request' = [request EXCEPT ![r].state = s]
          /\ s = "ok" => MemberOf(r) \in table["guild_members"]
  BY DEF CheckMember, MemberOf
<1>4. UNCHANGED <<table, invites, published>>
  BY DEF CheckMember
<1>5. /\ request'[r] = [request[r] EXCEPT !.state = s]
      /\ \A q \in Request \ {r} : request'[q] = request[q]
  BY <1>1, <1>3 DEF TypeOK
<1>6. request'[r] \in Begun
  BY <1>2, <1>5 DEF Begun, State
<1>7. TypeOK'
  BY <1>1, <1>3, <1>4, <1>5, <1>6 DEF TypeOK
<1>8. StepOf(r)
  BY <1>1, <1>4, <1>5 DEF StepOf, Settles
<1>9. /\ MemberOf(r)' = MemberOf(r) /\ request'[r].at = request[r].at
      /\ request'[r].state = s /\ request'[r].job = request[r].job
      /\ request'[r].guild = request[r].guild
  BY <1>2, <1>5 DEF Begun, MemberOf
<1>10. s = "ok" => MemberOf(r) \in table'["user_guilds"] \/ Halfway("user_guilds", MemberOf(r))'
  <2>1. s = "ok" => MemberOf(r) \in table["user_guilds"] \/ Halfway("user_guilds", MemberOf(r))
    BY <1>3 DEF IInv, RowsAgree
  <2>2. \A x : Halfway("user_guilds", x) => Halfway("user_guilds", x)' \/ x \in table'["user_guilds"]
    BY <1>1, <1>7, <1>8, HalfwayKept
  <2>3. \A x : x = MemberOf(r) => (Halfway("user_guilds", x)' <=> Halfway("user_guilds", MemberOf(r))')
    BY <1>9
  <2> QED
    BY <1>4, <2>1, <2>2, <2>3
<1>11. request[r].job = "join" /\ Joined(r)
  BY <1>1, <1>2 DEF Progress, Created, Opened, Invited, Begun, Job
<1>12. Exists(request[r].guild) => Exists(request[r].guild)'
  BY <1>4, <1>9 DEF Exists
<1>13. Progress(r)'
  BY <1>1, <1>3, <1>4, <1>9, <1>10, <1>11, <1>12 DEF Progress, Joined
<1> QED
  BY <1>4, <1>7, <1>8, <1>13, StepKeeps

-----------------------------------------------------------------------------
(* The statements of a request.                                            *)

LEMMA AdvanceIs ==
    ASSUME IInv, NEW r \in Request, Running(r), Advance(r)
    PROVE  /\ request[r].at \in 1 .. 6
           /\ request' \in [Request -> Begun \cup {Unsent}]
           /\ \A q \in Request \ {r} : request'[q] = request[q]
           /\ Sent(r)'
           /\ request'[r].at = request[r].at + 1
           /\ request'[r].state =
                  IF request[r].at = Len(Steps(request[r].job)) THEN "ok" ELSE "running"
           /\ request'[r].job = request[r].job /\ request'[r].guild = request[r].guild
           /\ request'[r].channel = request[r].channel
           /\ MemberOf(r)' = MemberOf(r) /\ PlaceOf(r)' = PlaceOf(r)
<1>1. TypeOK /\ Sent(r) /\ Progress(r) /\ request[r].state = "running"
  BY DEF IInv, Running
<1>2. request[r] \in Begun
  BY <1>1, SentIsBegun
<1>3. request[r].at \in 1 .. 6
  BY <1>1, NowIs DEF IsAt
<1> DEFINE s == IF request[r].at = Len(Steps(request[r].job)) THEN "ok" ELSE request[r].state
           new == [request[r] EXCEPT !.at = @ + 1, !.state = s]
<1>4. request' = [request EXCEPT ![r] = new]
  BY <1>1, <1>2 DEF Advance, TypeOK, Begun
<1>5. new \in Begun
  <2>1. s \in State
    BY <1>1 DEF State
  <2>2. request[r].at + 1 \in 1 .. 7
    BY <1>3
  <2> HIDE DEF s
  <2> QED
    BY <1>2, <2>1, <2>2 DEF Begun
<1>6. request'[r] = new /\ \A q \in Request \ {r} : request'[q] = request[q]
  BY <1>1, <1>4 DEF TypeOK
<1>7. request' \in [Request -> Begun \cup {Unsent}]
  BY <1>1, <1>4, <1>5 DEF TypeOK
<1>8. Sent(r)'
  BY <1>5, <1>6, BegunIsSent DEF Sent
<1>9. /\ new.at = request[r].at + 1 /\ new.state = s
      /\ new.job = request[r].job /\ new.guild = request[r].guild
      /\ new.channel = request[r].channel /\ new.user = request[r].user
  BY <1>2 DEF Begun
<1> QED
  BY <1>1, <1>3, <1>6, <1>7, <1>8, <1>9 DEF MemberOf, PlaceOf

LEMMA RowIs ==
    ASSUME TypeOK, NEW r \in Request, Sent(r)
    PROVE  /\ MemberOf(r) \in Member
           /\ request[r].channel \in Channel => PlaceOf(r) \in Place
           /\ \A t : Row(r, t) = IF t \in {"channels", "channels_by_id", "CHANNEL_CREATE"}
                                 THEN PlaceOf(r) ELSE MemberOf(r)
BY SentIsBegun DEF MemberOf, PlaceOf, Member, Place, Begun, Row

\* The row a request writes fits its table.
LEMMA RowFits ==
    ASSUME IInv, NEW r \in Request, Running(r), Now(r) \in DOMAIN table
    PROVE  [table EXCEPT ![Now(r)] = @ \cup {Row(r, Now(r))}] \in Rows
<1>1. TypeOK /\ Sent(r) /\ Progress(r)
  BY DEF IInv, Running
<1>2. /\ request[r].job = "create" => request[r].channel \in Channel
      /\ request[r].job = "channel" => request[r].channel \in Channel
  BY <1>1 DEF Progress, Created, Opened
<1>3. /\ Now(r) \in {"guilds", "guild_members", "user_guilds"} => Row(r, Now(r)) \in Member
      /\ Now(r) \in {"channels", "channels_by_id"} => Row(r, Now(r)) \in Place
  BY <1>1, <1>2, NowIs, RowIs DEF IsAt
<1>4. table \in Rows
  BY <1>1 DEF TypeOK
<1> QED
  BY <1>3, <1>4 DEF Rows

LEMMA InsertKeeps ==
    ASSUME IInv, NEW r \in Request, Insert(r)
    PROVE  IInv'
<1>1. /\ TypeOK /\ Sent(r) /\ Progress(r) /\ request[r].state = "running"
      /\ Running(r) /\ Advance(r) /\ Now(r) \in DOMAIN table
      /\ table' = [table EXCEPT ![Now(r)] = @ \cup {Row(r, Now(r))}]
      /\ UNCHANGED <<invites, published>>
  BY DEF IInv, Insert, Running
<1>2. DOMAIN table = {"guilds", "guild_members", "user_guilds", "channels", "channels_by_id"}
  BY <1>1 DEF TypeOK, Rows
<1>3. TypeOK'
  BY <1>1, AdvanceIs, RowFits DEF TypeOK
<1>4. request'[r].state = "running"
  BY <1>1, <1>2, AdvanceIs, NowIs DEF IsAt
<1>5. Writes(r)
  BY <1>1, <1>4, AdvanceIs DEF Writes
<1>6. \A t \in DOMAIN table : table[t] \subseteq table'[t]
  BY <1>1, <1>2 DEF TypeOK, Rows
<1>7. StepOf(r)
  BY <1>1, <1>4, <1>6, AdvanceIs DEF StepOf, Settles
<1>8. Row(r, Now(r)) \in table'[Now(r)]
  BY <1>1, <1>2 DEF TypeOK, Rows
<1>9. /\ table["guilds"] \subseteq table'["guilds"]
      /\ table["guild_members"] \subseteq table'["guild_members"]
      /\ table["user_guilds"] \subseteq table'["user_guilds"]
      /\ table["channels"] \subseteq table'["channels"]
      /\ table["channels_by_id"] \subseteq table'["channels_by_id"]
  BY <1>2, <1>6
<1>10. Exists(request[r].guild) => Exists(request[r].guild)'
  BY <1>9, <1>1, AdvanceIs DEF Exists
<1>11. ASSUME request[r].job = "create"
       PROVE  Created(r)'
  <2>1. Created(r)
    BY <1>1, <1>11 DEF Progress
  <2> QED
    BY <1>1, <1>2, <1>4, <1>8, <1>9, <1>11, <2>1, AdvanceIs, NowIs, RowIs DEF Created, IsAt
<1>12. ASSUME request[r].job = "join"
       PROVE  Joined(r)'
  <2>1. Joined(r)
    BY <1>1, <1>12 DEF Progress
  <2> QED
    BY <1>1, <1>2, <1>4, <1>8, <1>9, <1>10, <1>12, <2>1, AdvanceIs, NowIs, RowIs DEF Joined, IsAt
<1>13. ASSUME request[r].job = "channel"
       PROVE  Opened(r)'
  <2>1. Opened(r)
    BY <1>1, <1>13 DEF Progress
  <2> QED
    BY <1>1, <1>2, <1>4, <1>8, <1>9, <1>10, <1>13, <2>1, AdvanceIs, NowIs, RowIs DEF Opened, IsAt
<1>14. Progress(r)'
  BY <1>1, <1>11, <1>12, <1>13, AdvanceIs DEF Progress, Running
<1> QED
  BY <1>1, <1>3, <1>5, <1>7, <1>14, StepKeeps

LEMMA ReadUserKeeps ==
    ASSUME IInv, NEW r \in Request, ReadUser(r)
    PROVE  IInv'
<1>1. /\ TypeOK /\ Sent(r) /\ Progress(r) /\ request[r].state = "running"
      /\ Running(r) /\ Advance(r) /\ Now(r) = "user"
      /\ UNCHANGED <<table, invites, published>>
  BY DEF IInv, ReadUser, Running
<1>2. request[r].job = "join" /\ request[r].at = 3 /\ 3 # Len(Steps(request[r].job))
  BY <1>1, NowIs DEF IsAt
<1>3. TypeOK'
  BY <1>1, AdvanceIs DEF TypeOK
<1>4. StepOf(r)
  BY <1>1, <1>2, AdvanceIs DEF StepOf, Settles
<1>5. Exists(request[r].guild) => Exists(request[r].guild)'
  BY <1>1, AdvanceIs DEF Exists
<1>6. Joined(r)
  BY <1>1, <1>2 DEF Progress
<1>7. Progress(r)'
  BY <1>1, <1>2, <1>5, <1>6, AdvanceIs DEF Progress, Joined
<1> QED
  BY <1>1, <1>3, <1>4, <1>7, StepKeeps

LEMMA PublishKeeps ==
    ASSUME IInv, NEW r \in Request, Publish(r)
    PROVE  IInv'
<1>1. /\ TypeOK /\ Sent(r) /\ Progress(r) /\ request[r].state = "running"
      /\ Running(r) /\ Advance(r) /\ Now(r) \in Event
      /\ UNCHANGED <<table, invites>>
      /\ published \subseteq published'
      /\ published' \subseteq published \cup {<<Now(r), Row(r, Now(r))>>}
  BY DEF IInv, Publish, Running
<1> DEFINE final == request[r].at = Len(Steps(request[r].job))
<1>2. \/ request[r].job = "create" /\ request[r].at = 6 /\ Now(r) = "GUILD_CREATE" /\ final
      \/ request[r].job = "join" /\ request[r].at = 4 /\ Now(r) = "GUILD_MEMBER_ADD" /\ ~final
      \/ request[r].job = "join" /\ request[r].at = 5 /\ Now(r) = "GUILD_CREATE" /\ final
      \/ request[r].job = "channel" /\ request[r].at = 3 /\ Now(r) = "CHANNEL_CREATE" /\ final
  BY <1>1, NowIs DEF IsAt, Event
<1>3. /\ request[r].job = "create" => Created(r)
      /\ request[r].job = "join" => Joined(r)
      /\ request[r].job = "channel" => Opened(r)
  BY <1>1 DEF Progress
<1>4. /\ request[r].job \in {"create", "join"} => JoinedBoth(MemberOf(r))
      /\ request[r].job \in {"create", "channel"} =>
             ListedBoth(PlaceOf(r)) /\ request[r].channel \in Channel
  BY <1>2, <1>3 DEF Created, Joined, Opened, JoinedBoth, ListedBoth
<1>5. <<Now(r), Row(r, Now(r))>> \in Event \X (Member \cup Place)
  BY <1>1, <1>2, <1>4, RowIs DEF Event
<1>6. TypeOK'
  BY <1>1, <1>5, AdvanceIs DEF TypeOK
<1>7. StepOf(r)
  BY <1>1, <1>2, <1>4, AdvanceIs DEF StepOf, Settles, JoinedBoth, ListedBoth
<1>8. EventHolds(Now(r), Row(r, Now(r)))
  BY <1>1, <1>2, <1>4, RowIs DEF EventHolds
<1>9. \A type, row : EventHolds(type, row) => EventHolds(type, row)'
  BY <1>1 DEF EventHolds, JoinedBoth, ListedBoth
<1>10. \A e \in published' : e \in published \/ EventHolds(e[1], e[2])'
  BY <1>1, <1>8, <1>9
<1>11. Exists(request[r].guild) => Exists(request[r].guild)'
  BY <1>1, AdvanceIs DEF Exists
<1>12. request[r].job = "create" => Created(r)'
  BY <1>1, <1>2, <1>3, AdvanceIs DEF Created
<1>13. request[r].job = "join" => Joined(r)'
  BY <1>1, <1>2, <1>3, <1>11, AdvanceIs DEF Joined
<1>14. request[r].job = "channel" => Opened(r)'
  BY <1>1, <1>2, <1>3, <1>11, AdvanceIs DEF Opened
<1>15. Progress(r)'
  BY <1>1, <1>2, <1>12, <1>13, <1>14, AdvanceIs DEF Progress
<1> QED
  BY <1>1, <1>6, <1>7, <1>10, <1>15, StepKeeps

LEMMA FailIs ==
    ASSUME TypeOK, NEW r \in Request, Sent(r), Fail(r)
    PROVE  /\ request' \in [Request -> Begun \cup {Unsent}]
           /\ \A q \in Request \ {r} : request'[q] = request[q]
           /\ Sent(r)'
           /\ request'[r].state = "failed" /\ request'[r].at = request[r].at
           /\ request'[r].job = request[r].job /\ request'[r].guild = request[r].guild
           /\ request'[r].channel = request[r].channel
           /\ MemberOf(r)' = MemberOf(r) /\ PlaceOf(r)' = PlaceOf(r)
<1> DEFINE new == [request[r] EXCEPT !.state = "failed"]
<1>1. request[r] \in Begun
  BY SentIsBegun
<1>2. new \in Begun
  BY <1>1 DEF Begun, State
<1>3. request' = [request EXCEPT ![r] = new]
  BY <1>1 DEF Fail, TypeOK, Begun
<1>4. /\ request'[r] = new /\ \A q \in Request \ {r} : request'[q] = request[q]
      /\ request' \in [Request -> Begun \cup {Unsent}]
  BY <1>2, <1>3 DEF TypeOK
<1>5. Sent(r)'
  BY <1>2, <1>4, BegunIsSent DEF Sent
<1>6. /\ new.state = "failed" /\ new.at = request[r].at
      /\ new.job = request[r].job /\ new.guild = request[r].guild
      /\ new.channel = request[r].channel /\ new.user = request[r].user
  BY <1>1 DEF Begun
<1> QED
  BY <1>4, <1>5, <1>6 DEF MemberOf, PlaceOf

LEMMA StatementFailsKeeps ==
    ASSUME IInv, NEW r \in Request, StatementFails(r)
    PROVE  IInv'
<1>1. /\ TypeOK /\ Sent(r) /\ Progress(r) /\ Fail(r)
      /\ UNCHANGED <<invites, published>>
      /\ \/ UNCHANGED table
         \/ /\ Running(r) /\ Now(r) \in DOMAIN table
            /\ table' = [table EXCEPT ![Now(r)] = @ \cup {Row(r, Now(r))}]
      /\ request[r].job # "invite"
  <2>1. request[r].state = "checking" => request[r].job # "invite"
    BY DEF IInv, Progress, Invited, StatementFails, Running
  <2> QED
    BY <2>1 DEF IInv, StatementFails, Running
<1>2. TypeOK'
  BY <1>1, FailIs, RowFits DEF TypeOK
<1>3. UNCHANGED table \/ Writes(r)
  BY <1>1, FailIs DEF Writes
<1>4. /\ table["guilds"] \subseteq table'["guilds"]
      /\ table["guild_members"] \subseteq table'["guild_members"]
      /\ table["user_guilds"] \subseteq table'["user_guilds"]
      /\ table["channels"] \subseteq table'["channels"]
      /\ table["channels_by_id"] \subseteq table'["channels_by_id"]
      /\ \A t \in DOMAIN table : table[t] \subseteq table'[t]
  BY <1>1 DEF TypeOK, Rows
<1>5. StepOf(r)
  BY <1>1, <1>4, FailIs DEF StepOf, Settles
<1>6. Exists(request[r].guild) => Exists(request[r].guild)'
  BY <1>1, <1>4, FailIs DEF Exists
<1>7. /\ request[r].job = "create" => Created(r)'
      /\ request[r].job = "join" => Joined(r)'
      /\ request[r].job = "channel" => Opened(r)'
  BY <1>1, <1>4, <1>6, FailIs DEF Progress, Created, Joined, Opened
<1>8. Progress(r)'
  BY <1>1, <1>7, FailIs DEF Progress
<1> QED
  BY <1>1, <1>2, <1>3, <1>5, <1>8, StepKeeps

\* The codes of invites.
LEMMA WrittenIs ==
    ASSUME TypeOK, NEW code \in Code \ DOMAIN invites, NEW g \in Guild, invites' = Written(code, g)
    PROVE  /\ invites' \in UNION {[D -> Guild] : D \in SUBSET Code}
           /\ \A x \in DOMAIN invites : x \in DOMAIN invites' /\ invites'[x] = invites[x]
           /\ code \in DOMAIN invites' /\ invites'[code] = g
<1>1. PICK D \in SUBSET Code : invites \in [D -> Guild]
  BY DEF TypeOK
<1>2. Written(code, g) \in [D \cup {code} -> Guild]
  BY <1>1 DEF Written
<1>3. D \cup {code} \in SUBSET Code
  BY <1>1
<1> QED
  BY <1>1, <1>2, <1>3 DEF Written

LEMMA AllocateKeeps ==
    ASSUME IInv, NEW r \in Request, NEW code \in Code, Allocate(r, code)
    PROVE  IInv'
<1>1. /\ TypeOK /\ Sent(r) /\ Progress(r) /\ request[r].state = "running"
      /\ request[r].job = "invite" /\ UNCHANGED <<table, published>>
  BY DEF IInv, Allocate, Inviting
<1>2. request[r] \in Begun
  BY <1>1, SentIsBegun
<1>3. Invited(r)
  BY <1>1 DEF Progress
<1>4. ASSUME StepOf(r), TypeOK', Progress(r)'
      PROVE  IInv'
  BY <1>1, <1>4, StepKeeps
<1>5. CASE code \notin DOMAIN invites
  <2> DEFINE new == [request[r] EXCEPT !.state = "ok", !.code = code]
  <2>1. /\ invites' = Written(code, request[r].guild)
        /\ request' = [request EXCEPT ![r] = new]
    BY <1>1, <1>2, <1>5 DEF Allocate, TypeOK, Begun
  <2>2. new \in Begun
    BY <1>2 DEF Begun, State
  <2>3. /\ request'[r] = new /\ \A q \in Request \ {r} : request'[q] = request[q]
        /\ request' \in [Request -> Begun \cup {Unsent}]
    BY <1>1, <2>1, <2>2 DEF TypeOK
  <2>4. /\ new.state = "ok" /\ new.code = code /\ new.at = request[r].at
        /\ new.job = "invite" /\ new.guild = request[r].guild
    BY <1>1, <1>2 DEF Begun
  <2>5. /\ invites' \in UNION {[D -> Guild] : D \in SUBSET Code}
        /\ \A x \in DOMAIN invites : x \in DOMAIN invites' /\ invites'[x] = invites[x]
        /\ code \in DOMAIN invites' /\ invites'[code] = request[r].guild
    BY <1>1, <1>2, <1>5, <2>1, WrittenIs DEF Begun
  <2>6. TypeOK'
    BY <1>1, <2>3, <2>5 DEF TypeOK
  <2>7. Sent(r)' /\ MemberOf(r)' = MemberOf(r) /\ PlaceOf(r)' = PlaceOf(r)
    BY <1>2, <2>2, <2>3, BegunIsSent DEF Sent, MemberOf, PlaceOf, Begun
  <2>8. StepOf(r)
    BY <1>1, <2>3, <2>4, <2>5, <2>7 DEF StepOf, Settles
  <2>9. Progress(r)'
    BY <1>3, <2>3, <2>4, <2>5 DEF Progress, Invited
  <2> QED
    BY <1>4, <2>6, <2>8, <2>9
<1>6. CASE code \in DOMAIN invites /\ request[r].at = Tries
  <2>1. Fail(r) /\ UNCHANGED invites
    BY <1>6 DEF Allocate
  <2>2. TypeOK'
    BY <1>1, <2>1, FailIs DEF TypeOK
  <2>3. StepOf(r)
    BY <1>1, <2>1, FailIs DEF StepOf, Settles
  <2>4. Progress(r)'
    BY <1>1, <1>3, <2>1, FailIs DEF Progress, Invited
  <2> QED
    BY <1>4, <2>2, <2>3, <2>4
<1>7. CASE code \in DOMAIN invites /\ request[r].at # Tries
  <2> DEFINE new == [request[r] EXCEPT !.at = @ + 1]
  <2>1. UNCHANGED invites /\ request' = [request EXCEPT ![r] = new]
    BY <1>1, <1>2, <1>7 DEF Allocate, TypeOK, Begun
  <2>2. request[r].at + 1 \in 1 .. Tries
    BY <1>3, <1>7 DEF Invited, Tries
  <2>3. new \in Begun
    BY <1>2, <2>2 DEF Begun, Tries
  <2>4. /\ request'[r] = new /\ \A q \in Request \ {r} : request'[q] = request[q]
        /\ request' \in [Request -> Begun \cup {Unsent}]
    BY <1>1, <2>1, <2>3 DEF TypeOK
  <2>5. /\ new.state = "running" /\ new.at = request[r].at + 1
        /\ new.job = "invite" /\ new.guild = request[r].guild
    BY <1>1, <1>2 DEF Begun
  <2>6. TypeOK'
    BY <1>1, <2>1, <2>4 DEF TypeOK
  <2>7. Sent(r)' /\ MemberOf(r)' = MemberOf(r) /\ PlaceOf(r)' = PlaceOf(r)
    BY <1>2, <2>3, <2>4, BegunIsSent DEF Sent, MemberOf, PlaceOf, Begun
  <2>8. StepOf(r)
    BY <1>1, <2>1, <2>4, <2>5, <2>7 DEF StepOf, Settles
  <2>9. Progress(r)'
    BY <2>2, <2>4, <2>5 DEF Progress, Invited
  <2> QED
    BY <1>4, <2>6, <2>8, <2>9
<1> QED
  BY <1>5, <1>6, <1>7

LEMMA AllocateFailsKeeps ==
    ASSUME IInv, NEW r \in Request, NEW code \in Code, AllocateFails(r, code)
    PROVE  IInv'
<1>1. /\ TypeOK /\ Sent(r) /\ Progress(r) /\ request[r].state = "running"
      /\ request[r].job = "invite" /\ Fail(r) /\ UNCHANGED <<table, published>>
  BY DEF IInv, AllocateFails, Inviting
<1>2. /\ invites' \in UNION {[D -> Guild] : D \in SUBSET Code}
      /\ \A x \in DOMAIN invites : x \in DOMAIN invites' /\ invites'[x] = invites[x]
  <2>1. CASE UNCHANGED invites
    BY <1>1, <2>1 DEF TypeOK
  <2>2. CASE code \notin DOMAIN invites /\ invites' = Written(code, request[r].guild)
    BY <1>1, <2>2, WrittenIs, SentIsBegun DEF Begun
  <2> QED
    BY <2>1, <2>2 DEF AllocateFails
<1>3. TypeOK'
  BY <1>1, <1>2, FailIs DEF TypeOK
<1>4. StepOf(r)
  BY <1>1, <1>2, FailIs DEF StepOf, Settles
<1>5. Progress(r)'
  BY <1>1, FailIs DEF Progress, Invited
<1> QED
  BY <1>1, <1>3, <1>4, <1>5, StepKeeps

-----------------------------------------------------------------------------
(* The theorems.                                                           *)

\* Every reachable state of the handlers satisfies the invariant.
THEOREM GuildsInvariant == Spec => []IInv
<1>1. Init => IInv
  <2> SUFFICES ASSUME Init PROVE IInv
    OBVIOUS
  <2>1. \A r \in Request : ~Sent(r)
    BY DEF Init, Sent
  <2>2. invites \in [{} -> Guild]
    BY DEF Init
  <2>3. TypeOK
    BY <2>2 DEF Init, TypeOK, Rows
  <2> QED
    BY <2>1, <2>3 DEF Init, IInv, Progress, RowsAgree, EventsHold
<1>2. IInv /\ [Next]_vars => IInv'
  <2> SUFFICES ASSUME IInv, [Next]_vars PROVE IInv'
    OBVIOUS
  <2>1. CASE UNCHANGED vars
    <3>1. UNCHANGED <<table, invites, request, published>>
      BY <2>1 DEF vars
    <3>2. \A t, x : Halfway(t, x)' <=> Halfway(t, x)
      BY <3>1 DEF Halfway, Sent, Row
    <3>3. TypeOK'
      BY <3>1 DEF IInv, TypeOK
    <3>4. RowsAgree'
      BY <3>1, <3>2 DEF IInv, RowsAgree
    <3>5. EventsHold'
      BY <3>1 DEF IInv, EventsHold, EventHolds, JoinedBoth, ListedBoth
    <3>6. ASSUME NEW r \in Request PROVE Progress(r)'
      <4>1. /\ Sent(r)' <=> Sent(r)
            /\ MemberOf(r)' = MemberOf(r) /\ PlaceOf(r)' = PlaceOf(r)
            /\ Exists(request[r].guild)' <=> Exists(request[r].guild)
        BY <3>1 DEF Sent, MemberOf, PlaceOf, Exists
      <4>2. Progress(r)
        BY DEF IInv
      <4>3. /\ (Created(r) => Created(r)') /\ (Opened(r) => Opened(r)')
            /\ (Invited(r) => Invited(r)')
        BY <3>1, <4>1 DEF Created, Opened, Invited
      <4>4. Joined(r) => Joined(r)'
        BY <3>1, <3>2, <4>1 DEF Joined
      <4> QED
        BY <3>1, <4>1, <4>2, <4>3, <4>4 DEF Progress
    <3> QED
      BY <3>3, <3>4, <3>5, <3>6 DEF IInv
  <2>2. ASSUME NEW r \in Request, NEW u \in User, NEW g \in Guild, NEW c \in Channel,
               CreateGuild(r, u, g, c)
        PROVE  IInv'
    BY <2>2, BeginKeeps DEF CreateGuild, Job, State
  <2>3. ASSUME NEW r \in Request, NEW u \in User, NEW g \in Guild, NEW c \in Channel,
               CreateChannel(r, u, g, c)
        PROVE  IInv'
    BY <2>3, BeginKeeps DEF CreateChannel, Job, State, Exists
  <2>4. ASSUME NEW r \in Request, NEW u \in User, NEW g \in Guild, CreateInvite(r, u, g)
        PROVE  IInv'
    BY <2>4, BeginKeeps DEF CreateInvite, Job, State
  <2>5. ASSUME NEW r \in Request, NEW u \in User, NEW code \in Code, JoinInvite(r, u, code)
        PROVE  IInv'
    <3>1. invites[code] \in Guild
      BY <2>5 DEF JoinInvite, IInv, TypeOK
    <3>2. Exists(invites[code])
      BY <2>5 DEF JoinInvite, Exists
    <3> QED
      BY <2>5, <3>1, <3>2, BeginKeeps DEF JoinInvite, Job, State
  <2>6. ASSUME NEW r \in Request, CheckMember(r) PROVE IInv'
    BY <2>6, CheckMemberKeeps
  <2>7. ASSUME NEW r \in Request, Insert(r) PROVE IInv'
    BY <2>7, InsertKeeps
  <2>8. ASSUME NEW r \in Request, ReadUser(r) PROVE IInv'
    BY <2>8, ReadUserKeeps
  <2>9. ASSUME NEW r \in Request, Publish(r) PROVE IInv'
    BY <2>9, PublishKeeps
  <2>10. ASSUME NEW r \in Request, StatementFails(r) PROVE IInv'
    BY <2>10, StatementFailsKeeps
  <2>11. ASSUME NEW r \in Request, NEW code \in Code, Allocate(r, code) PROVE IInv'
    BY <2>11, AllocateKeeps
  <2>12. ASSUME NEW r \in Request, NEW code \in Code, AllocateFails(r, code) PROVE IInv'
    BY <2>12, AllocateFailsKeeps
  <2> QED
    BY <2>1, <2>2, <2>3, <2>4, <2>5, <2>6, <2>7, <2>8, <2>9, <2>10, <2>11, <2>12 DEF Next
<1> QED
  BY <1>1, <1>2, PTL DEF Spec

\* The tables, invites, requests and events have their types.
THEOREM GuildsTypeOK == Spec => []TypeOK
<1>1. IInv => TypeOK
  BY DEF IInv
<1> QED
  BY <1>1, GuildsInvariant, PTL

\* However the statements of the handlers interleave, fail or stop, the two
\* tables of a membership and of a channel agree but for the rows of requests
\* that are under way or have failed, and err on one side.
THEOREM GuildsRowsAgree == Spec => []RowsAgree
<1>1. IInv => RowsAgree
  BY DEF IInv
<1> QED
  BY <1>1, GuildsInvariant, PTL

\* What a success was answered for, and what an event says, is in all of its
\* tables, but for a join that found half a membership.
THEOREM GuildsToldIsStored == Spec => []ToldIsStored
<1>1. ASSUME IInv PROVE ToldIsStored
  <2>1. ASSUME NEW r \in Request, Sent(r), request[r].state = "ok"
        PROVE  AnswerHolds(r)
    <3>1. Progress(r) /\ request[r].job \in Job
      BY <1>1, <2>1, SentIsBegun DEF IInv, Begun
    <3>2. CASE request[r].job = "create"
      BY <2>1, <3>1, <3>2 DEF Progress, Created, AnswerHolds, JoinedBoth, ListedBoth, MemberOf, PlaceOf
    <3>3. CASE request[r].job = "join"
      BY <2>1, <3>1, <3>3 DEF Progress, Joined, AnswerHolds, MemberOf
    <3>4. CASE request[r].job = "channel"
      BY <2>1, <3>1, <3>4 DEF Progress, Opened, AnswerHolds, ListedBoth, PlaceOf
    <3>5. CASE request[r].job = "invite"
      BY <2>1, <3>1, <3>5 DEF Progress, Invited, AnswerHolds
    <3> QED
      BY <3>1, <3>2, <3>3, <3>4, <3>5 DEF Job
  <2> QED
    BY <1>1, <2>1 DEF ToldIsStored, IInv, EventsHold
<1> QED
  BY <1>1, GuildsInvariant, PTL

-----------------------------------------------------------------------------
(* The feed of a member.                                                   *)

FeedProofs == INSTANCE GatewayProofs WITH
    Session <- {s1}, User <- {bob}, Guild <- {lounge}, Holder <- [s \in {s1} |-> bob],
    Founders <- [u \in {bob} |-> {}], BufSize <- 2, MaxEvents <- 3, Outages <- TRUE

LEMMA FeedIsTheGateway ==
    PartSpec => FeedProofs!Spec
  <1>1. PartInit => FeedProofs!Init
    BY DEF PartInit, Feed!Init, FeedProofs!Init
  <1>2. [PartNext]_<<part, vars, clientVars, feedVars>> => [FeedProofs!Next]_FeedProofs!vars
    <2>1. Feed!Next => FeedProofs!Next
      BY DEF Feed!Next, Feed!SessionStep, Feed!ServeWS, Feed!LoadGuilds, Feed!IdentifyFails,
          Feed!Install, Feed!Greet, Feed!Cleanup, Feed!Heartbeat, Feed!ReadError, Feed!WriteFrame,
          Feed!WriterStops, Feed!DispatchTo, Feed!DropSession, Feed!ShutdownSession, Feed!AddMember,
          Feed!PublishGuildCreate, Feed!PublishToGuild, Feed!Publish, Feed!NatsDown,
          Feed!NatsReconnect, Feed!TakeEvent, Feed!DropAllSessions, Feed!Shutdown, Feed!Exit,
          Feed!At, Feed!Goto, Feed!Forget, Feed!CloseWith, Feed!Accepts, Feed!Send, Feed!Routes,
          Feed!CloseCode, Feed!apiVars, Feed!natsVars, Feed!hubVars, Feed!sentVars,
          Feed!identityVars, FeedProofs!Next, FeedProofs!SessionStep, FeedProofs!ServeWS,
          FeedProofs!LoadGuilds, FeedProofs!IdentifyFails, FeedProofs!Install, FeedProofs!Greet,
          FeedProofs!Cleanup, FeedProofs!Heartbeat, FeedProofs!ReadError, FeedProofs!WriteFrame,
          FeedProofs!WriterStops, FeedProofs!DispatchTo, FeedProofs!DropSession,
          FeedProofs!ShutdownSession, FeedProofs!AddMember, FeedProofs!PublishGuildCreate,
          FeedProofs!PublishToGuild, FeedProofs!Publish, FeedProofs!NatsDown,
          FeedProofs!NatsReconnect, FeedProofs!TakeEvent, FeedProofs!DropAllSessions,
          FeedProofs!Shutdown, FeedProofs!Exit, FeedProofs!At, FeedProofs!Goto, FeedProofs!Forget,
          FeedProofs!CloseWith, FeedProofs!Accepts, FeedProofs!Send, FeedProofs!Routes,
          FeedProofs!CloseCode, FeedProofs!apiVars, FeedProofs!natsVars, FeedProofs!hubVars,
          FeedProofs!sentVars, FeedProofs!identityVars
    <2>2. UNCHANGED feedVars => UNCHANGED FeedProofs!vars
      BY DEF feedVars, FeedProofs!vars, FeedProofs!apiVars, FeedProofs!natsVars, FeedProofs!hubVars,
             FeedProofs!identityVars, FeedProofs!sentVars
    <2>3. QED
      BY <2>1, <2>2 DEF PartNext
  <1>3. QED
    BY <1>1, <1>2, PTL DEF PartSpec, FeedProofs!Spec

\* What the gateway routes to the socket of a member who joins guilds as it goes
\* is whole, as GatewayProofs shows of any gateway.
THEOREM MemberFeedIsWhole ==
    PartSpec => []FeedIsWhole
  <1>1. FeedProofs!ConstantsAssumption
    BY DEF FeedProofs!ConstantsAssumption
  <1>2. FeedProofs!Spec => []FeedProofs!FeedIsWhole
    BY <1>1, FeedProofs!FeedStaysWhole
  <1>3. FeedProofs!FeedIsWhole => FeedIsWhole
    BY DEF FeedIsWhole, Feed!FeedIsWhole, Feed!InOrder, Feed!NoSilentGap, Feed!RejectedGetsNothing,
        Feed!Open, Feed!ResyncPending, Feed!InFlight, Feed!ToSet, FeedProofs!FeedIsWhole,
        FeedProofs!InOrder, FeedProofs!NoSilentGap, FeedProofs!RejectedGetsNothing, FeedProofs!Open,
        FeedProofs!ResyncPending, FeedProofs!InFlight, FeedProofs!ToSet
  <1>4. QED
    BY <1>2, <1>3, FeedIsTheGateway, PTL

LEMMA FeedTypes ==
    PartSpec => []Feed!TypeOK
  <1>1. FeedProofs!ConstantsAssumption
    BY DEF FeedProofs!ConstantsAssumption
  <1>2. FeedProofs!Spec => []FeedProofs!TypeOK
    BY <1>1, FeedProofs!GatewayTypes
  <1>3. FeedProofs!TypeOK => Feed!TypeOK
    BY DEF FeedProofs!TypeOK, FeedProofs!GuildEvent, FeedProofs!UserEvent, FeedProofs!Reader,
        FeedProofs!CloseCode, Feed!TypeOK, Feed!GuildEvent, Feed!UserEvent, Feed!Reader, Feed!CloseCode
  <1>4. QED
    BY <1>2, <1>3, FeedIsTheGateway, PTL

-----------------------------------------------------------------------------
(* The client's lists.                                                     *)

LEMMA ClientOperators ==
  /\ \A S : Client!Cardinality(S) = Cardinality(S)
  /\ \A S : Client!IsFiniteSet(S) <=> IsFiniteSet(S)
  /\ \A f : Client!IsInjective(f) <=> IsInjective(f)
  /\ \A s : Client!ToSet(s) = {s[i] : i \in DOMAIN s}
  <1>1. \A S : Client!Cardinality(S) = Cardinality(S)
    BY DEF Client!Cardinality, Cardinality
  <1>2. \A S : Client!IsFiniteSet(S) <=> IsFiniteSet(S)
    BY DEF Client!IsFiniteSet, IsFiniteSet
  <1>3. \A f : Client!IsInjective(f) <=> IsInjective(f)
    BY DEF Client!IsInjective, IsInjective
  <1>4. \A s : Client!ToSet(s) = {s[i] : i \in DOMAIN s}
    BY DEF Client!ToSet
  <1>5. QED
    BY <1>1, <1>2, <1>3, <1>4

\* A finite set of numbers in order is a sequence of its members, each once.
LEMMA OrderIs ==
  ASSUME NEW S, S \subseteq Nat, IsFiniteSet(S)
  PROVE  /\ Client!InOrder(S) \in Seq(Nat)
         /\ IsInjective(Client!InOrder(S))
         /\ \A x : x \in S <=> \E k \in DOMAIN Client!InOrder(S) : Client!InOrder(S)[k] = x
  <1> DEFINE n == Cardinality(S)
             Below(x) == {y \in S : y < x}
             rank == [x \in S |-> Cardinality(Below(x)) + 1]
             list == Client!InOrder(S)
  <1>1. n \in Nat
    BY FS_CardinalityType
  <1>2. ASSUME NEW x \in S
        PROVE  IsFiniteSet(Below(x)) /\ Cardinality(Below(x)) \in Nat /\ rank[x] \in 1 .. n
    <2>1. IsFiniteSet(S \ {x}) /\ Cardinality(S \ {x}) = n - 1
      BY FS_RemoveElement
    <2>2. Below(x) \subseteq S \ {x}
      OBVIOUS
    <2>3. IsFiniteSet(Below(x)) /\ Cardinality(Below(x)) <= n - 1
      BY <2>1, <2>2, FS_Subset
    <2>4. Cardinality(Below(x)) \in Nat
      BY <2>3, FS_CardinalityType
    <2>5. QED
      BY <1>1, <2>3, <2>4
  <1>3. ASSUME NEW x \in S, NEW y \in S, x < y
        PROVE  rank[x] < rank[y]
    <2>1. Below(x) \cup {x} \subseteq Below(y)
      <3>1. x \in Nat /\ y \in Nat /\ \A z \in S : z \in Nat
        OBVIOUS
      <3>2. \A z \in S : z < x => z < y
        BY <1>3, <3>1
      <3>3. QED
        BY <1>3, <3>2
    <2>2. IsFiniteSet(Below(x)) /\ IsFiniteSet(Below(y))
      BY <1>2
    <2>3. Cardinality(Below(x) \cup {x}) = Cardinality(Below(x)) + 1
      <3>1. x \notin Below(x)
        OBVIOUS
      <3> HIDE DEF Below
      <3>2. QED
        BY <2>2, <3>1, FS_AddElement
    <2>4. Cardinality(Below(x) \cup {x}) <= Cardinality(Below(y))
      BY <2>1, <2>2, FS_Subset
    <2>5. Cardinality(Below(x)) \in Nat /\ Cardinality(Below(y)) \in Nat
      BY <1>2
    <2>6. QED
      BY <2>3, <2>4, <2>5
  <1>4. ASSUME NEW x \in S, NEW y \in S, rank[x] = rank[y]
        PROVE  x = y
    <2>1. rank[x] \in Nat
      BY <1>1, <1>2
    <2>2. ~(x < y) /\ ~(y < x)
      BY <1>3, <1>4, <2>1
    <2>3. QED
      BY <2>2
  <1> HIDE DEF rank
  <1>5. rank \in Injection(S, 1 .. n)
    <2>1. rank \in [S -> 1 .. n]
      BY <1>2 DEF rank
    <2>2. QED
      BY <1>4, <2>1 DEF Injection, IsInjective
  <1>6. rank \in Surjection(S, 1 .. n)
    <2>1. IsFiniteSet(1 .. n) /\ Cardinality(1 .. n) = n
      BY <1>1, FS_Interval
    <2>2. QED
      BY <1>5, <2>1, FS_Injection
  <1> DEFINE nth(k) == CHOOSE x \in S : Client!Cardinality(Below(x)) = k - 1
  <1>7. ASSUME NEW k \in 1 .. n
        PROVE  nth(k) \in S /\ rank[nth(k)] = k
    <2>1. \E x \in S : rank[x] = k
      BY <1>6 DEF Surjection
    <2>2. \A x \in S : rank[x] = k <=> Cardinality(Below(x)) = k - 1
      <3>1. SUFFICES ASSUME NEW x \in S  PROVE rank[x] = k <=> Cardinality(Below(x)) = k - 1
        OBVIOUS
      <3>2. rank[x] = Cardinality(Below(x)) + 1 /\ Cardinality(Below(x)) \in Nat
        BY <1>2 DEF rank
      <3>3. QED
        BY <1>1, <3>2
    <2>3. \E x \in S : Client!Cardinality(Below(x)) = k - 1
      BY <2>1, <2>2, ClientOperators
    <2>4. nth(k) \in S /\ Client!Cardinality(Below(nth(k))) = k - 1
      BY <2>3
    <2>5. QED
      BY <2>2, <2>4, ClientOperators
  <1>8. list = [k \in 1 .. n |-> nth(k)]
    <2>1. Client!Cardinality(S) = n
      BY ClientOperators
    <2>2. QED
      BY <2>1 DEF Client!InOrder
  <1> HIDE DEF nth, list, n
  <1>9. DOMAIN list = 1 .. n /\ \A k \in 1 .. n : list[k] \in S /\ rank[list[k]] = k
    BY <1>7, <1>8
  <1>10. list \in Seq(Nat)
    <2>1. list \in [1 .. n -> Nat]
      BY <1>8, <1>9
    <2>2. QED
      BY <1>1, <2>1
  <1>11. IsInjective(list)
    BY <1>9 DEF IsInjective
  <1>12. ASSUME NEW x
         PROVE  x \in S <=> \E k \in DOMAIN list : list[k] = x
    <2>1. ASSUME x \in S  PROVE \E k \in DOMAIN list : list[k] = x
      <3>1. rank[x] \in 1 .. n
        BY <1>2, <2>1 DEF n, rank
      <3>2. list[rank[x]] \in S /\ rank[list[rank[x]]] = rank[x]
        BY <1>9, <3>1
      <3>3. QED
        BY <1>4, <1>9, <2>1, <3>1, <3>2 DEF rank
    <2>2. QED
      BY <1>9, <2>1
  <1>13. QED
    BY <1>10, <1>11, <1>12 DEF list

-----------------------------------------------------------------------------
(* The invariant of the client: what its tasks have read is true, what it  *)
(* shows is true and complete but for what is outstanding, and what is     *)
(* selected belongs together.                                              *)

ChannelIds == Text \cup Voice
Lists == Seq(Nat) \cup {None}
Jobs == {"load", "resync"}

In(list, x) == \E k \in DOMAIN list : list[k] = x

Waiting ==
    {Client!Idle}
        \cup [pc : {"guilds"}, job : Jobs]
        \cup [pc : {"guildsRead"}, job : Jobs, list : Seq(Nat)]
        \cup [pc : {"list"}, kind : Client!Kind, guild : Guild]
        \cup [pc : {"listRead"}, kind : Client!Kind, guild : Guild, list : Seq(Nat)]
        \cup [pc : {"lists"}, guild : Guild, channel : ChannelIds \cup {None}, guilds : Seq(Nat),
              read : [Client!Kind -> Lists]]
        \cup [pc : {"posting"}, guild : Guild \cup {None}]
        \cup [pc : {"founded"}, guild : Guild]
        \cup [pc : {"answered"}, guild : Guild, channel : ChannelIds \cup {None}]

ClientTyped ==
    /\ events \subseteq world /\ world \subseteq Client!Fact /\ unsure \subseteq Client!Fact
    /\ guilds \in Lists
    /\ cache \in [Client!Kind -> [Guild -> Lists]]
    /\ selGuild \in Guild \cup {None} /\ selChannel \in ChannelIds \cup {None}
    /\ last \in [Guild -> ChannelIds \cup {None}]
    /\ task \in [Task -> Waiting]
    /\ astray \in BOOLEAN

OfUser(list) == IsInjective(list) /\ \A k \in DOMAIN list : <<"guild", list[k], list[k]>> \in world
OfGuild(list, kind, g) == IsInjective(list) /\ \A k \in DOMAIN list : <<kind, g, list[k]>> \in world

TaskTrue(w) ==
    /\ w.pc = "guildsRead" => OfUser(w.list)
    /\ w.pc = "listRead" => OfGuild(w.list, w.kind, w.guild)
    /\ w.pc = "lists" =>
        /\ OfUser(w.guilds) /\ In(w.guilds, w.guild)
        /\ \A k \in Client!Kind : w.read[k] # None => OfGuild(w.read[k], k, w.guild)
    /\ w.pc = "founded" => <<"guild", w.guild, w.guild>> \in world
    /\ w.pc = "answered" =>
        IF w.channel = None THEN <<"guild", w.guild, w.guild>> \in world
        ELSE <<"channels", w.guild, w.channel>> \in world
TasksTrue == \A t \in Task : TaskTrue(task[t])

ListsTrue ==
    /\ guilds # None => OfUser(guilds)
    /\ \A k \in Client!Kind, g \in Guild : cache[k][g] # None => OfGuild(cache[k][g], k, g)

Has(f) == IF f[1] = "guild" THEN In(guilds, f[2]) ELSE In(cache[f[1]][f[2]], f[3])
ListsComplete == \A f \in world : Client!IsThere(f) /\ ~Has(f) => f \in events \cup unsure

ShowsGuild(g) == guilds # None /\ In(guilds, g)
Chooses(w, g) == w.pc \in {"list", "listRead"} /\ w.kind = "channels" /\ w.guild = g

Selected ==
    \/ astray
    \/ selGuild = None /\ selChannel = None
    \/ /\ selGuild # None /\ ShowsGuild(selGuild)
       /\ selChannel \in Text \cup {None}
       /\ IF cache["channels"][selGuild] = None
          THEN \E t \in Task : Chooses(task[t], selGuild)
          ELSE selChannel # None => In(cache["channels"][selGuild], selChannel)

ClientInv == ClientTyped /\ TasksTrue /\ ListsTrue /\ ListsComplete /\ Selected

-----------------------------------------------------------------------------
(* Facts, lists and what is not one.                                       *)

LEMMA NoneIsNoId ==
  /\ None \notin Nat /\ None \notin Seq(Nat) /\ None \notin Guild /\ None \notin ChannelIds
  /\ Guild \subseteq Nat /\ ChannelIds \subseteq Nat /\ Person \subseteq Nat
  /\ Home \in [ChannelIds \cup Person -> Guild]
  BY ClientAssumption DEF Client!IdsAssumption, ChannelIds

LEMMA FactIs ==
  /\ \A f \in Client!Fact :
        /\ f = <<f[1], f[2], f[3]>> /\ f[2] \in Guild /\ f[3] \in Nat
        /\ \/ f[1] = "guild" /\ f[3] = f[2]
           \/ f[1] = "channels" /\ f[3] \in ChannelIds /\ Home[f[3]] = f[2]
           \/ f[1] = "members" /\ f[3] \in Person /\ Home[f[3]] = f[2]
  /\ \A g \in Guild : <<"guild", g, g>> \in Client!Fact
  /\ \A c \in ChannelIds : <<"channels", Home[c], c>> \in Client!Fact
  /\ \A p \in Person : <<"members", Home[p], p>> \in Client!Fact
  BY NoneIsNoId DEF Client!Fact, Client!ChannelId, ChannelIds

LEMMA KindIs == \A k \in Client!Kind : k = "channels" \/ k = "members"
  BY DEF Client!Kind

LEMMA ToSetIs == \A list, x : x \in Client!ToSet(list) <=> In(list, x)
  BY DEF Client!ToSet, In

LEMMA ShownIs ==
  /\ \A g : g \in Client!Shown <=> ShowsGuild(g)
  /\ \A g : (g \in Client!Shown)' <=> ShowsGuild(g)'
  BY ToSetIs DEF Client!Shown, ShowsGuild

\* What a list of facts says of ids.
LEMMA OfUserIs ==
  ASSUME ClientTyped, NEW list, OfUser(list)
  PROVE  \A g : In(list, g) => g \in Guild /\ <<"guild", g, g>> \in world
  <1>1. SUFFICES ASSUME NEW g, In(list, g)  PROVE g \in Guild /\ <<"guild", g, g>> \in world
    OBVIOUS
  <1>2. <<"guild", g, g>> \in world /\ world \subseteq Client!Fact
    BY <1>1 DEF In, OfUser, ClientTyped
  <1>3. QED
    BY <1>2, FactIs

LEMMA OfGuildIs ==
  ASSUME ClientTyped, NEW list, NEW k, NEW g, OfGuild(list, k, g)
  PROVE  \A x : In(list, x) =>
            /\ <<k, g, x>> \in world
            /\ k = "channels" => x \in ChannelIds
            /\ k = "members" => x \in Person
  <1>1. SUFFICES ASSUME NEW x, In(list, x)
                 PROVE  /\ <<k, g, x>> \in world
                        /\ k = "channels" => x \in ChannelIds
                        /\ k = "members" => x \in Person
    OBVIOUS
  <1>2. <<k, g, x>> \in world /\ world \subseteq Client!Fact
    BY <1>1 DEF In, OfGuild, ClientTyped
  <1>3. QED
    BY <1>2, FactIs

\* What a list gains and does not lose when an id is added.
LEMMA AddedIs ==
  ASSUME NEW list \in Seq(Nat), NEW x \in Nat
  PROVE  /\ Client!Added(list, x) \in Seq(Nat) /\ <<x>> \in Seq(Nat)
         /\ \A y : In(Client!Added(list, x), y) <=> In(list, y) \/ y = x
         /\ IsInjective(list) => IsInjective(Client!Added(list, x))
         /\ IsInjective(<<x>>) /\ \A y : In(<<x>>, y) <=> y = x
  <1>1. <<x>> \in Seq(Nat) /\ IsInjective(<<x>>) /\ \A y : In(<<x>>, y) <=> y = x
    BY DEF In, IsInjective
  <1>2. CASE In(list, x)
    BY <1>1, <1>2, ToSetIs DEF Client!Added
  <1>3. CASE ~In(list, x)
    <2>1. Client!Added(list, x) = Append(list, x)
      BY <1>3, ToSetIs DEF Client!Added
    <2>2. /\ Len(list) \in Nat
          /\ DOMAIN list = 1 .. Len(list) /\ DOMAIN Append(list, x) = 1 .. Len(list) + 1
          /\ Append(list, x)[Len(list) + 1] = x
          /\ \A k \in 1 .. Len(list) : Append(list, x)[k] = list[k]
      OBVIOUS
    <2>3. \A y : In(Append(list, x), y) <=> In(list, y) \/ y = x
      BY <2>2 DEF In
    <2>4. IsInjective(list) => IsInjective(Append(list, x))
      BY <1>3, <2>2 DEF In, IsInjective
    <2>5. QED
      BY <1>1, <2>1, <2>3, <2>4
  <1>4. QED
    BY <1>2, <1>3

LEMMA Smallest ==
  ASSUME NEW S \in SUBSET Nat, S # {}
  PROVE  \E n \in S : \A m \in S : n <= m
  <1> DEFINE R == {p \in Nat \X Nat : p[1] < p[2]}
  <1>1. IsWellFoundedOn(R, Nat)
    BY Zenon, NatLessThanWellFounded DEF OpToRel
  <1>2. \A m, n \in Nat : m < n => <<m, n>> \in R
    OBVIOUS
  <1> HIDE DEF R
  <1>3. PICK n \in S : \A m \in S : ~(<<m, n>> \in R)
    BY <1>1, WFMin
  <1>4. \A m \in S : ~(m < n)
    BY <1>2, <1>3
  <1>5. QED
    BY <1>4

\* The channel that selectGuild chooses is a text channel of the list, or none.
LEMMA TargetIs ==
  ASSUME ClientTyped, NEW g \in Guild, NEW list \in Seq(Nat)
  PROVE  /\ Client!Target(g, list) \in Text \cup {None}
         /\ Client!Target(g, list) # None => In(list, Client!Target(g, list))
  <1> DEFINE I == {k \in 1 .. Len(list) : list[k] \in Text}
             first == Client!SelectInSeq(list, LAMBDA c : c \in Text)
  <1>1. first = IF I # {} THEN Client!Min(I) ELSE 0
    BY DEF Client!SelectInSeq
  <1>2. I \in SUBSET Nat /\ \A k \in I : list[k] \in Text /\ In(list, list[k])
    BY DEF In
  <1>3. first > 0 => first \in I
    <2>1. SUFFICES ASSUME I # {}  PROVE Client!Min(I) \in I
      BY <1>1
    <2> HIDE DEF I
    <2>2. \E n \in I : \A m \in I : n <= m
      BY <1>2, <2>1, Smallest
    <2>3. QED
      BY <2>2 DEF Client!Min
  <1> HIDE DEF I
  <1>4. /\ Client!Target(g, list) =
             CASE last[g] \in Text \cap Client!ToSet(list) -> last[g]
               [] last[g] \notin Text \cap Client!ToSet(list) /\ first > 0 -> list[first]
               [] OTHER -> None
    BY DEF Client!Target
  <1> HIDE DEF first
  <1>5. QED
    BY <1>2, <1>3, <1>4, ToSetIs

-----------------------------------------------------------------------------
(* What a step leaves alone.                                               *)

\* One task awaits something else; the others go on as they were.
LEMMA AwaitIs ==
  ASSUME ClientTyped, NEW t \in Task, NEW w \in Waiting, Client!Await(t, w)
  PROVE  /\ task' \in [Task -> Waiting] /\ task'[t] = w
         /\ \A o \in Task \ {t} : task'[o] = task[o]
  BY DEF ClientTyped, Client!Await

\* What has been read stays true, since the server only gains facts.
LEMMA TruthStays ==
  ASSUME NEW w, TaskTrue(w), world \subseteq world'
  PROVE  TaskTrue(w)'
  BY DEF TaskTrue, OfUser, OfGuild

LEMMA TasksGoOn ==
  ASSUME TasksTrue, world \subseteq world'
  PROVE  /\ UNCHANGED task => TasksTrue'
         /\ \A t \in Task :
              (\A o \in Task \ {t} : task'[o] = task[o]) =>
                 \A w : (task'[t] = w /\ TaskTrue(w)') => TasksTrue'
  <1>1. ASSUME NEW o \in Task, task'[o] = task[o]
        PROVE  TaskTrue(task[o])'
    <2>1. TaskTrue(task[o])
      BY DEF TasksTrue
    <2> DEFINE w == task[o]
    <2>2. \A v : v = w => TaskTrue(v)'
      BY <2>1, TruthStays
    <2>3. QED
      BY <1>1, <2>2 DEF TaskTrue, OfUser, OfGuild
  <1>2. UNCHANGED task => TasksTrue'
    BY <1>1 DEF TasksTrue
  <1>3. ASSUME NEW t \in Task, \A o \in Task \ {t} : task'[o] = task[o],
               NEW w, task'[t] = w, TaskTrue(w)'
        PROVE  TasksTrue'
    <2>1. TaskTrue(task[t])'
      BY <1>3 DEF TaskTrue, OfUser, OfGuild
    <2>2. QED
      BY <1>1, <1>3, <2>1 DEF TasksTrue
  <1>4. QED
    BY <1>2, <1>3

\* The lists are as they were, and what is new is outstanding.
LEMMA ListsGoOn ==
  ASSUME ListsTrue, ListsComplete, world \subseteq world', UNCHANGED <<guilds, cache>>,
         \A f \in world' :
            Client!IsThere(f) /\ (f \in events \cup unsure \/ f \notin world) => f \in events' \cup unsure'
  PROVE  ListsTrue' /\ ListsComplete'
  <1>1. ListsTrue'
    BY DEF ListsTrue, OfUser, OfGuild
  <1>2. ASSUME NEW f \in world', Client!IsThere(f)', ~Has(f)'
        PROVE  f \in events' \cup unsure'
    <2>1. Client!IsThere(f) /\ ~Has(f)
      BY <1>2 DEF Client!IsThere, Has, In
    <2>2. QED
      BY <2>1 DEF ListsComplete
  <1>3. QED
    BY <1>1, <1>2 DEF ListsComplete

\* The selection is as it was, and the lists it is from lose nothing.
LEMMA SelectionGoesOn ==
  ASSUME ClientTyped, Selected, UNCHANGED <<selGuild, selChannel, astray>>,
         ShowsGuild(selGuild) => ShowsGuild(selGuild)',
         selGuild \in Guild =>
            /\ cache'["channels"][selGuild] = None <=> cache["channels"][selGuild] = None
            /\ \A x : In(cache["channels"][selGuild], x) => In(cache'["channels"][selGuild], x),
         \A t \in Task : Chooses(task[t], selGuild) => Chooses(task'[t], selGuild)
  PROVE  Selected'
  BY DEF Selected, ClientTyped, ShowsGuild, Chooses, In

\* A task that awaits what it awaits is not choosing a channel, or has chosen.
LEMMA OthersChoose ==
  ASSUME NEW t \in Task, \A o \in Task \ {t} : task'[o] = task[o], ~Chooses(task[t], selGuild)
  PROVE  \A o \in Task : Chooses(task[o], selGuild) => Chooses(task'[o], selGuild)
  BY DEF Chooses

-----------------------------------------------------------------------------
(* Selecting.                                                              *)

\* A task that knows nothing yet.
LEMMA UnknowingIsTrue ==
  ASSUME NEW w, w.pc \in {"idle", "guilds", "list", "posting"}
  PROVE  TaskTrue(w)'
  BY DEF TaskTrue

LEMMA AskedIs ==
  /\ Client!Idle \in Waiting /\ Client!Idle.pc = "idle"
  /\ \A k \in Client!Kind, g \in Guild :
        /\ Client!Asked(k, g) \in Waiting /\ Client!Asked(k, g).pc = "list"
        /\ Client!Asked(k, g).kind = k /\ Client!Asked(k, g).guild = g
  BY DEF Client!Idle, Client!Asked, Waiting

LEMMA SelectChannelIs ==
  ASSUME ClientTyped, NEW g \in Guild, NEW c \in ChannelIds \cup {None}, Client!SelectChannel(g, c)
  PROVE  selChannel' = c /\ last' \in [Guild -> ChannelIds \cup {None}]
  BY DEF ClientTyped, Client!SelectChannel

LEMMA EnterIs ==
  ASSUME ClientTyped, NEW t \in Task, NEW g \in Guild, NEW list \in Seq(Nat), NEW listed,
         Client!Enter(t, g, list, listed)
  PROVE  /\ selChannel' \in Text \cup {None} /\ (selChannel' # None => In(list, selChannel'))
         /\ last' \in [Guild -> ChannelIds \cup {None}]
         /\ astray' \in BOOLEAN /\ (astray' <=> astray /\ g \notin listed)
         /\ \E w \in Waiting : Client!Await(t, w) /\ TaskTrue(w)'
  <1>1. /\ Client!Target(g, list) \in Text \cup {None}
        /\ Client!Target(g, list) # None => In(list, Client!Target(g, list))
    BY TargetIs
  <1>2. Client!SelectChannel(g, Client!Target(g, list))
    BY DEF Client!Enter
  <1>3. selChannel' = Client!Target(g, list) /\ last' \in [Guild -> ChannelIds \cup {None}]
    BY <1>1, <1>2, SelectChannelIs DEF ChannelIds
  <1>4. astray' \in BOOLEAN /\ (astray' <=> astray /\ g \notin listed)
    <2>1. (astray /\ g \notin listed) \in BOOLEAN
      OBVIOUS
    <2>2. astray' = (astray /\ g \notin listed)
      BY Zenon DEF Client!Enter
    <2>3. QED
      BY <2>1, <2>2, Zenon
  <1>5. \E w \in Waiting : Client!Await(t, w) /\ TaskTrue(w)'
    <2>1. PICK w : w = IF cache["members"][g] = None THEN Client!Asked("members", g) ELSE Client!Idle
      OBVIOUS
    <2>2. Client!Await(t, w)
      BY <2>1 DEF Client!Enter
    <2>3. w \in Waiting /\ w.pc \in {"idle", "list"}
      BY <2>1, AskedIs DEF Client!Kind
    <2>4. TaskTrue(w)'
      BY <2>3, UnknowingIsTrue
    <2>5. QED
      BY <2>2, <2>3, <2>4
  <1>6. QED
    BY <1>1, <1>3, <1>4, <1>5

\* A guild that is shown is selected: its channels are asked for, or one is chosen.
LEMMA SelectGuildIs ==
  ASSUME ClientTyped, Selected, NEW t \in Task, NEW g \in Guild, NEW listed, g \in listed,
         Client!SelectGuild(t, g, listed), UNCHANGED cache, ShowsGuild(g)'
  PROVE  /\ Selected'
         /\ selGuild' \in Guild \cup {None} /\ selChannel' \in ChannelIds \cup {None}
         /\ last' \in [Guild -> ChannelIds \cup {None}] /\ astray' \in BOOLEAN
         /\ \E w \in Waiting : Client!Await(t, w) /\ TaskTrue(w)'
  <1>1. selGuild' = g /\ selGuild' # None
    BY NoneIsNoId DEF Client!SelectGuild
  <1>2. CASE cache["channels"][g] = None
    <2>1. Client!Await(t, Client!Asked("channels", g)) /\ UNCHANGED <<selChannel, last, astray>>
      BY <1>2 DEF Client!SelectGuild
    <2>2. /\ Client!Asked("channels", g) \in Waiting
          /\ Chooses(Client!Asked("channels", g), g) /\ TaskTrue(Client!Asked("channels", g))'
      BY AskedIs DEF Chooses, Client!Kind, Client!Asked, TaskTrue
    <2>3. task'[t] = Client!Asked("channels", g)
      BY <2>1, <2>2, AwaitIs
    <2>4. selChannel \in Text \cup {None} \/ astray
      BY DEF Selected
    <2>5. Selected'
      BY <1>1, <1>2, <2>1, <2>2, <2>3, <2>4 DEF Selected, ShowsGuild, Chooses
    <2>6. QED
      BY <1>1, <2>1, <2>2, <2>5 DEF ClientTyped
  <1>3. CASE cache["channels"][g] # None
    <2>1. cache["channels"][g] \in Seq(Nat)
      BY <1>3 DEF ClientTyped, Client!Kind, Lists
    <2>2. Client!Enter(t, g, cache["channels"][g], listed)
      BY <1>3 DEF Client!SelectGuild
    <2>3. /\ selChannel' \in Text \cup {None}
          /\ selChannel' # None => In(cache["channels"][g], selChannel')
          /\ last' \in [Guild -> ChannelIds \cup {None}]
          /\ astray' \in BOOLEAN
          /\ \E w \in Waiting : Client!Await(t, w) /\ TaskTrue(w)'
      BY <2>1, <2>2, EnterIs
    <2>4. Selected'
      BY <1>1, <1>3, <2>3 DEF Selected, ShowsGuild, In
    <2>5. QED
      BY <1>1, <2>3, <2>4 DEF ChannelIds
  <1>4. QED
    BY <1>2, <1>3

LEMMA DeselectIs ==
  ASSUME Client!Deselect, ClientTyped
  PROVE  /\ Selected' /\ selGuild' = None /\ selChannel' = None
         /\ last' \in [Guild -> ChannelIds \cup {None}] /\ astray' \in BOOLEAN
  BY DEF Client!Deselect, Selected, ClientTyped

-----------------------------------------------------------------------------
(* The steps that change no list and no selection.                         *)

\* The tables grow, and events come and go, but what is new or still missing
\* is outstanding.
TablesGrow ==
    /\ world \subseteq world' /\ world' \subseteq Client!Fact
    /\ events' \subseteq world' /\ unsure' \subseteq Client!Fact
    /\ \A f \in world' :
        Client!IsThere(f) /\ (f \in events \cup unsure \/ f \notin world) => f \in events' \cup unsure'

LEMMA TablesStay ==
  ASSUME ClientTyped, UNCHANGED <<world, events, unsure>>
  PROVE  TablesGrow
  BY DEF TablesGrow, ClientTyped

\* A task goes on.
LEMMA TaskMoves ==
  ASSUME ClientInv, NEW t \in Task, NEW w \in Waiting, Client!Await(t, w), TaskTrue(w)', TablesGrow,
         Chooses(task[t], selGuild) => Chooses(w, selGuild),
         UNCHANGED <<guilds, cache, selGuild, selChannel, last, astray>>
  PROVE  ClientInv'
  <1>1. ClientTyped /\ TasksTrue /\ ListsTrue /\ ListsComplete /\ Selected
    BY DEF ClientInv
  <1>2. /\ task' \in [Task -> Waiting] /\ task'[t] = w
        /\ \A o \in Task \ {t} : task'[o] = task[o]
    BY <1>1, AwaitIs
  <1>3. ClientTyped'
    BY <1>1, <1>2 DEF ClientTyped, TablesGrow
  <1>4. TasksTrue'
    BY <1>1, <1>2, TasksGoOn DEF TablesGrow
  <1>5. ListsTrue' /\ ListsComplete'
    BY <1>1, ListsGoOn DEF TablesGrow
  <1>6. \A o \in Task : Chooses(task[o], selGuild) => Chooses(task'[o], selGuild)
    BY <1>2 DEF Chooses
  <1>7. Selected'
    BY <1>1, <1>6, SelectionGoesOn DEF ShowsGuild
  <1>8. QED
    BY <1>3, <1>4, <1>5, <1>7 DEF ClientInv

LEMMA NoTaskMoves ==
  ASSUME ClientInv, TablesGrow, UNCHANGED <<task, guilds, cache, selGuild, selChannel, last, astray>>
  PROVE  ClientInv'
  <1>1. ClientTyped /\ TasksTrue /\ ListsTrue /\ ListsComplete /\ Selected
    BY DEF ClientInv
  <1>2. ClientTyped'
    BY <1>1 DEF ClientTyped, TablesGrow
  <1>3. TasksTrue'
    BY <1>1, TasksGoOn DEF TablesGrow
  <1>4. ListsTrue' /\ ListsComplete'
    BY <1>1, ListsGoOn DEF TablesGrow
  <1>5. Selected'
    BY <1>1, SelectionGoesOn DEF ShowsGuild
  <1>6. QED
    BY <1>2, <1>3, <1>4, <1>5 DEF ClientInv

LEMMA FetchGuildsKeeps ==
  ASSUME ClientInv, NEW t \in Task, NEW job \in Jobs, Client!FetchGuilds(t, job)
  PROVE  ClientInv'
  <1>1. PICK w : w = [pc |-> "guilds", job |-> job]
    OBVIOUS
  <1>2. w \in Waiting /\ w.pc = "guilds" /\ TaskTrue(w)'
    BY <1>1, UnknowingIsTrue DEF Waiting
  <1>3. /\ Client!Await(t, w) /\ task[t].pc = "idle"
        /\ UNCHANGED <<world, events, guilds, cache, selGuild, selChannel, last, astray, unsure>>
    BY <1>1 DEF Client!FetchGuilds, Client!Call, Client!Is, Client!tables, Client!selection
  <1>4. QED
    BY <1>2, <1>3, TablesStay, TaskMoves DEF Chooses, ClientInv

LEMMA PostKeeps ==
  ASSUME ClientInv, NEW t \in Task, NEW g \in Guild \cup {None}, Client!Post(t, g)
  PROVE  ClientInv'
  <1>1. PICK w : w = [pc |-> "posting", guild |-> g]
    OBVIOUS
  <1>2. w \in Waiting /\ w.pc = "posting" /\ TaskTrue(w)'
    BY <1>1, UnknowingIsTrue DEF Waiting
  <1>3. /\ Client!Await(t, w) /\ task[t].pc = "idle"
        /\ UNCHANGED <<world, events, guilds, cache, selGuild, selChannel, last, astray, unsure>>
    BY <1>1 DEF Client!Post, Client!Call, Client!Is, Client!tables, Client!selection
  <1>4. QED
    BY <1>2, <1>3, TablesStay, TaskMoves DEF Chooses, ClientInv

\* What the tables list is true.
LEMMA ListedIs ==
  ASSUME ClientTyped
  PROVE  /\ Client!InOrder(Client!Mine) \in Seq(Nat) /\ OfUser(Client!InOrder(Client!Mine))
         /\ \A k \in Client!Kind, g \in Guild :
              /\ Client!Table(k, g) \in Seq(Nat) /\ OfGuild(Client!Table(k, g), k, g)
         /\ \A g : g \in Client!Mine <=> <<"guild", g, g>> \in world
         /\ \A k, g, x : x \in Client!Listed(k, g) <=> <<k, g, x>> \in world
  <1>1. /\ world \subseteq Client!Fact
        /\ \A f \in world : f = <<f[1], f[2], f[3]>> /\ f[2] \in Guild /\ f[3] \in Nat
        /\ \A f \in world : f[1] = "guild" => f[3] = f[2]
    BY FactIs DEF ClientTyped
  <1>2. \A g : g \in Client!Mine <=> <<"guild", g, g>> \in world
    BY <1>1 DEF Client!Mine
  <1>3. \A k, g, x : x \in Client!Listed(k, g) <=> <<k, g, x>> \in world
    BY <1>1 DEF Client!Listed
  <1>4. IsFiniteSet(Guild) /\ IsFiniteSet(ChannelIds) /\ IsFiniteSet(Person)
    BY ClientAssumption, ClientOperators, FS_Union DEF Client!IdsAssumption, ChannelIds
  <1>5. Client!Mine \subseteq Nat /\ IsFiniteSet(Client!Mine)
    <2>1. Client!Mine \subseteq Guild
      BY <1>1 DEF Client!Mine
    <2>2. QED
      BY <1>4, <2>1, NoneIsNoId, FS_Subset
  <1>6. ASSUME NEW k \in Client!Kind, NEW g \in Guild
        PROVE  Client!Listed(k, g) \subseteq Nat /\ IsFiniteSet(Client!Listed(k, g))
    <2>1. Client!Listed(k, g) \subseteq ChannelIds \/ Client!Listed(k, g) \subseteq Person
      <3>1. \A x \in Client!Listed(k, g) : <<k, g, x>> \in Client!Fact
        BY <1>1, <1>3
      <3>2. \A x \in Client!Listed(k, g) :
                (k = "channels" => x \in ChannelIds) /\ (k = "members" => x \in Person)
        BY <3>1, FactIs
      <3>3. QED
        BY <3>2, KindIs
    <2>2. QED
      BY <1>4, <2>1, NoneIsNoId, FS_Subset
  <1>7. OfUser(Client!InOrder(Client!Mine)) /\ Client!InOrder(Client!Mine) \in Seq(Nat)
    BY <1>2, <1>5, OrderIs DEF OfUser
  <1>8. ASSUME NEW k \in Client!Kind, NEW g \in Guild
        PROVE  Client!Table(k, g) \in Seq(Nat) /\ OfGuild(Client!Table(k, g), k, g)
    BY <1>3, <1>6, OrderIs DEF OfGuild, Client!Table
  <1>9. QED
    BY <1>2, <1>3, <1>7, <1>8

LEMMA ReadKeeps ==
  ASSUME ClientInv, NEW t \in Task, Client!Read(t)
  PROVE  ClientInv'
  <1>1. UNCHANGED <<world, events, guilds, cache, selGuild, selChannel, last, astray, unsure>>
    BY DEF Client!Read, Client!tables, Client!selection
  <1>2. ClientTyped /\ TasksTrue /\ TaskTrue(task[t]) /\ task[t] \in Waiting /\ TablesGrow
    BY <1>1, TablesStay DEF ClientInv, TasksTrue, ClientTyped
  <1>3. SUFFICES ASSUME NEW w \in Waiting, Client!Await(t, w), TaskTrue(w),
                        Chooses(task[t], selGuild) => Chooses(w, selGuild)
                 PROVE  ClientInv'
    <2>1. CASE /\ Client!Is(t, "guilds")
               /\ Client!Await(t, [pc |-> "guildsRead", job |-> task[t].job,
                                   list |-> Client!InOrder(Client!Mine)])
      <3>1. PICK w : w = [pc |-> "guildsRead", job |-> task[t].job, list |-> Client!InOrder(Client!Mine)]
        OBVIOUS
      <3>2. task[t].job \in Jobs
        BY <1>2, <2>1 DEF Waiting, Client!Is, Client!Idle
      <3>3. w \in Waiting /\ TaskTrue(w) /\ ~Chooses(task[t], selGuild)
        BY <1>2, <2>1, <3>1, <3>2, ListedIs DEF Waiting, TaskTrue, Chooses, Client!Is
      <3>4. QED
        BY <1>3, <2>1, <3>1, <3>3
    <2>2. CASE /\ Client!Is(t, "list")
               /\ Client!Await(t, [pc |-> "listRead", kind |-> task[t].kind, guild |-> task[t].guild,
                                   list |-> Client!Table(task[t].kind, task[t].guild)])
      <3>1. PICK w : w = [pc |-> "listRead", kind |-> task[t].kind, guild |-> task[t].guild,
                          list |-> Client!Table(task[t].kind, task[t].guild)]
        OBVIOUS
      <3>2. task[t].kind \in Client!Kind /\ task[t].guild \in Guild
        BY <1>2, <2>2 DEF Waiting, Client!Is, Client!Idle
      <3>3. w \in Waiting /\ TaskTrue(w) /\ (Chooses(task[t], selGuild) => Chooses(w, selGuild))
        BY <1>2, <3>1, <3>2, ListedIs DEF Waiting, TaskTrue, Chooses
      <3>4. QED
        BY <1>3, <2>2, <3>1, <3>3
    <2>3. ASSUME NEW k \in Client!Kind, Client!Is(t, "lists"),
                 task' = [task EXCEPT ![t].read[k] = Client!Table(k, task[t].guild)]
          PROVE  ClientInv'
      <3>1. /\ task[t] \in [pc : {"lists"}, guild : Guild, channel : ChannelIds \cup {None},
                            guilds : Seq(Nat), read : [Client!Kind -> Lists]]
        BY <1>2, <2>3 DEF Waiting, Client!Is, Client!Idle
      <3>2. PICK list : list = Client!Table(k, task[t].guild)
        OBVIOUS
      <3>3. list \in Seq(Nat) /\ OfGuild(list, k, task[t].guild)
        BY <1>2, <2>3, <3>1, <3>2, ListedIs
      <3>4. PICK w : w = [task[t] EXCEPT !.read[k] = list]
        OBVIOUS
      <3>5. /\ w \in Waiting /\ w.pc = "lists" /\ w.guilds = task[t].guilds /\ w.guild = task[t].guild
            /\ w.read[k] = list /\ \A o \in Client!Kind \ {k} : w.read[o] = task[t].read[o]
        BY <2>3, <3>1, <3>3, <3>4 DEF Waiting, Lists
      <3>6. TaskTrue(w)
        BY <1>2, <3>1, <3>3, <3>5 DEF TaskTrue
      <3>7. Client!Await(t, w)
        BY <1>2, <2>3, <3>2, <3>4 DEF Client!Await, ClientTyped
      <3>8. ~Chooses(task[t], selGuild)
        BY <3>1 DEF Chooses
      <3>9. QED
        BY <1>3, <3>5, <3>6, <3>7, <3>8
    <2>4. QED
      BY <2>1, <2>2, <2>3 DEF Client!Read
  <1>4. TaskTrue(w)'
    BY <1>1, <1>3, TruthStays
  <1>5. QED
    BY <1>1, <1>2, <1>3, <1>4, TaskMoves

LEMMA JoinedAlreadyKeeps ==
  ASSUME ClientInv, NEW t \in Task, NEW g \in Guild, Client!JoinedAlready(t, g)
  PROVE  ClientInv'
  <1>1. PICK w : w = [pc |-> "answered", guild |-> g, channel |-> None]
    OBVIOUS
  <1>2. /\ Client!Await(t, w) /\ task[t].pc = "posting" /\ g \in Client!Mine
        /\ UNCHANGED <<world, events, guilds, cache, selGuild, selChannel, last, astray, unsure>>
    BY <1>1 DEF Client!JoinedAlready, Client!Is, Client!tables, Client!selection
  <1>3. ClientTyped /\ TablesGrow
    BY <1>2, TablesStay DEF ClientInv
  <1>4. w \in Waiting /\ TaskTrue(w) /\ world \subseteq world'
    BY <1>1, <1>2, <1>3, ListedIs DEF Waiting, TaskTrue, TablesGrow
  <1>5. TaskTrue(w)'
    BY <1>4, TruthStays
  <1>6. QED
    BY <1>2, <1>3, <1>4, <1>5, TaskMoves DEF Chooses

LEMMA FoundKeeps ==
  ASSUME ClientInv, NEW t \in Task, NEW g \in Guild, Client!Found(t, g)
  PROVE  ClientInv'
  <1>1. PICK w : w = [pc |-> "founded", guild |-> g]
    OBVIOUS
  <1>2. /\ Client!Await(t, w) /\ task[t].pc = "posting"
        /\ world' = world \cup {<<"guild", g, g>>} /\ events' = events \cup {<<"guild", g, g>>}
        /\ UNCHANGED <<guilds, cache, selGuild, selChannel, last, astray, unsure>>
    BY <1>1 DEF Client!Found, Client!Is, Client!selection
  <1>3. TablesGrow
    BY <1>2, FactIs DEF TablesGrow, ClientInv, ClientTyped
  <1>4. w \in Waiting /\ TaskTrue(w)'
    BY <1>1, <1>2 DEF Waiting, TaskTrue
  <1>5. QED
    BY <1>2, <1>3, <1>4, TaskMoves DEF Chooses

LEMMA CreateChannelKeeps ==
  ASSUME ClientInv, NEW t \in Task, NEW c \in ChannelIds, Client!CreateChannel(t, c)
  PROVE  ClientInv'
  <1>1. PICK g : g = task[t].guild
    OBVIOUS
  <1>2. PICK w : w = [pc |-> "answered", guild |-> g, channel |-> c]
    OBVIOUS
  <1>3. /\ Client!Await(t, w) /\ task[t].pc = "posting" /\ Home[c] = g /\ g # None
        /\ world' = world \cup {<<"channels", g, c>>} /\ events' = events \cup {<<"channels", g, c>>}
        /\ UNCHANGED <<guilds, cache, selGuild, selChannel, last, astray, unsure>>
    BY <1>1, <1>2 DEF Client!CreateChannel, Client!Is, Client!New, Client!selection
  <1>4. g \in Guild /\ <<"channels", g, c>> \in Client!Fact
    BY <1>3, FactIs, NoneIsNoId
  <1>5. TablesGrow
    BY <1>3, <1>4 DEF TablesGrow, ClientInv, ClientTyped
  <1>6. w \in Waiting /\ TaskTrue(w)'
    BY <1>2, <1>3, <1>4, NoneIsNoId DEF Waiting, TaskTrue
  <1>7. QED
    BY <1>3, <1>5, <1>6, TaskMoves DEF Chooses

LEMMA FurnishKeeps ==
  ASSUME ClientInv, NEW t \in Task, Client!Furnish(t)
  PROVE  ClientInv'
  <1>1. PICK g : g = task[t].guild
    OBVIOUS
  <1>2. PICK w : w = [pc |-> "answered", guild |-> g, channel |-> None]
    OBVIOUS
  <1>3. /\ Client!Await(t, w) /\ task[t].pc = "founded"
        /\ UNCHANGED <<events, guilds, cache, selGuild, selChannel, last, astray>>
    BY <1>1, <1>2 DEF Client!Furnish, Client!Is, Client!selection
  <1>4. task[t] \in Waiting /\ TaskTrue(task[t])
    BY DEF ClientInv, ClientTyped, TasksTrue
  <1>5. g \in Guild /\ <<"guild", g, g>> \in world
    BY <1>1, <1>3, <1>4 DEF Waiting, TaskTrue, Client!Idle
  <1>6. TablesGrow
    <2>1. CASE UNCHANGED <<world, unsure>>
      BY <1>3, <2>1, TablesStay DEF ClientInv
    <2>2. ASSUME NEW c \in Text, Client!New(c, g), world' = world \cup {<<"channels", g, c>>},
                 Client!Doubt(<<"channels", g, c>>)
          PROVE  TablesGrow
      <3>1. <<"channels", g, c>> \in Client!Fact
        BY <2>2, FactIs DEF Client!New, ChannelIds
      <3>2. CASE Client!IsThere(<<"channels", g, c>>)
        BY <1>3, <2>2, <3>1, <3>2 DEF TablesGrow, Client!Doubt, ClientInv, ClientTyped
      <3>3. CASE ~Client!IsThere(<<"channels", g, c>>)
        BY <1>3, <2>2, <3>1, <3>3 DEF TablesGrow, Client!Doubt, ClientInv, ClientTyped
      <3>4. QED
        BY <3>2, <3>3
    <2>3. QED
      BY <1>1, <2>1, <2>2 DEF Client!Furnish
  <1>7. w \in Waiting /\ TaskTrue(w)'
    BY <1>2, <1>5, <1>6 DEF Waiting, TaskTrue, TablesGrow
  <1>8. QED
    BY <1>3, <1>6, <1>7, TaskMoves DEF Chooses

LEMMA PostFailsKeeps ==
  ASSUME ClientInv, NEW t \in Task, Client!PostFails(t)
  PROVE  ClientInv'
  <1>1. /\ Client!Await(t, Client!Idle) /\ task[t].pc \in {"posting", "founded", "answered"}
        /\ UNCHANGED <<world, guilds, cache, selGuild, selChannel, last, astray>>
    BY DEF Client!PostFails, Client!selection
  <1>2. TablesGrow
    <2>1. CASE ~Client!Is(t, "founded")
      BY <1>1, <2>1, TablesStay DEF ClientInv, Client!PostFails
    <2>2. CASE Client!Is(t, "founded")
      <3>1. PICK f : f = <<"guild", task[t].guild, task[t].guild>>
        OBVIOUS
      <3>2. events' = events \ {f} /\ Client!Doubt(f)
        BY <2>2, <3>1 DEF Client!PostFails
      <3>3. f \in Client!Fact
        <4>1. task[t] \in Waiting
          BY DEF ClientInv, ClientTyped
        <4>2. task[t].guild \in Guild
          BY <2>2, <4>1 DEF Client!Is, Waiting, Client!Idle
        <4>3. QED
          BY <3>1, <4>2, FactIs
      <3>4. QED
        BY <1>1, <3>2, <3>3 DEF TablesGrow, Client!Doubt, ClientInv, ClientTyped
    <2>3. QED
      BY <2>1, <2>2
  <1>3. QED
    BY <1>1, <1>2, AskedIs, UnknowingIsTrue, TaskMoves DEF Chooses

LEMMA ElsewhereKeeps ==
  ASSUME ClientInv, NEW kind, NEW g, NEW x, Client!Elsewhere(kind, g, x)
  PROVE  ClientInv'
  <1>1. PICK f : f = <<kind, g, x>>
    OBVIOUS
  <1>2. /\ f \in Client!Fact /\ world' = world \cup {f} /\ events' = events \cup {f}
        /\ UNCHANGED <<task, guilds, cache, selGuild, selChannel, last, astray, unsure>>
    BY <1>1 DEF Client!Elsewhere, Client!selection
  <1>3. TablesGrow
    BY <1>2 DEF TablesGrow, ClientInv, ClientTyped
  <1>4. QED
    BY <1>2, <1>3, NoTaskMoves

LEMMA LoseKeeps ==
  ASSUME ClientInv, NEW f \in events, Client!Lose(f)
  PROVE  ClientInv'
  <1>1. /\ events' = events \ {f} /\ Client!Doubt(f)
        /\ UNCHANGED <<world, task, guilds, cache, selGuild, selChannel, last, astray>>
    BY DEF Client!Lose, Client!selection
  <1>2. TablesGrow
    BY <1>1 DEF TablesGrow, Client!Doubt, ClientInv, ClientTyped
  <1>3. QED
    BY <1>1, <1>2, NoTaskMoves

-----------------------------------------------------------------------------
(* The steps that select, and change no list.                              *)

LEMMA FetchFailsKeeps ==
  ASSUME ClientInv, NEW t \in Task, Client!FetchFails(t)
  PROVE  ClientInv'
  <1>1. /\ Client!Await(t, Client!Idle)
        /\ UNCHANGED <<world, events, guilds, cache, selGuild, selChannel, last, unsure>>
    BY DEF Client!FetchFails, Client!tables
  <1>2. ClientTyped /\ TasksTrue /\ ListsTrue /\ ListsComplete /\ Selected
    BY DEF ClientInv
  <1>3. TablesGrow
    BY <1>1, <1>2, TablesStay
  <1>4. /\ task' \in [Task -> Waiting] /\ task'[t] = Client!Idle
        /\ \A o \in Task \ {t} : task'[o] = task[o]
    BY <1>1, <1>2, AskedIs, AwaitIs
  <1>5. TasksTrue'
    BY <1>2, <1>3, <1>4, AskedIs, UnknowingIsTrue, TasksGoOn DEF TablesGrow
  <1>6. ListsTrue' /\ ListsComplete'
    BY <1>1, <1>2, <1>3, ListsGoOn DEF TablesGrow
  <1>7. astray' \in BOOLEAN
    BY Zenon DEF Client!FetchFails
  <1>8. /\ astray => astray'
        /\ (Chooses(task[t], selGuild) /\ cache["channels"][selGuild] = None) => astray'
    BY DEF Client!FetchFails, Chooses
  <1>9. ClientTyped'
    BY <1>1, <1>2, <1>4, <1>7 DEF ClientTyped
  <1>10. Selected'
    BY <1>1, <1>2, <1>4, <1>8 DEF Selected, ShowsGuild, Chooses, In
  <1>11. QED
    BY <1>5, <1>6, <1>9, <1>10 DEF ClientInv

LEMMA ClickGuildKeeps ==
  ASSUME ClientInv, NEW t \in Task, NEW g \in Guild, Client!ClickGuild(t, g)
  PROVE  ClientInv'
  <1>1. /\ Client!SelectGuild(t, g, Client!Shown) /\ g \in Client!Shown
        /\ UNCHANGED <<world, events, guilds, cache, unsure>>
    BY DEF Client!ClickGuild, Client!tables
  <1>2. ClientTyped /\ TasksTrue /\ ListsTrue /\ ListsComplete /\ Selected
    BY DEF ClientInv
  <1>3. ShowsGuild(g)'
    BY <1>1, ShownIs DEF ShowsGuild, In
  <1>4. /\ Selected'
        /\ selGuild' \in Guild \cup {None} /\ selChannel' \in ChannelIds \cup {None}
        /\ last' \in [Guild -> ChannelIds \cup {None}] /\ astray' \in BOOLEAN
        /\ \E w \in Waiting : Client!Await(t, w) /\ TaskTrue(w)'
    BY <1>1, <1>2, <1>3, SelectGuildIs
  <1>5. PICK w \in Waiting : Client!Await(t, w) /\ TaskTrue(w)'
    BY <1>4
  <1>6. /\ task' \in [Task -> Waiting] /\ task'[t] = w
        /\ \A o \in Task \ {t} : task'[o] = task[o]
    BY <1>2, <1>5, AwaitIs
  <1>7. ClientTyped'
    BY <1>1, <1>2, <1>4, <1>6 DEF ClientTyped
  <1>8. TasksTrue'
    BY <1>1, <1>2, <1>5, <1>6, TasksGoOn
  <1>9. ListsTrue' /\ ListsComplete'
    BY <1>1, <1>2, ListsGoOn
  <1>10. QED
    BY <1>4, <1>7, <1>8, <1>9 DEF ClientInv

LEMMA ClickChannelKeeps ==
  ASSUME ClientInv, NEW c \in Text, Client!ClickChannel(c)
  PROVE  ClientInv'
  <1>1. /\ Client!SelectChannel(selGuild, c) /\ astray' = FALSE
        /\ selGuild \in Client!Shown /\ cache["channels"][selGuild] # None
        /\ c \in Client!ToSet(cache["channels"][selGuild])
        /\ UNCHANGED <<world, events, guilds, cache, selGuild, task, unsure>>
    BY DEF Client!ClickChannel, Client!tables
  <1>2. ClientTyped /\ TasksTrue /\ ListsTrue /\ ListsComplete /\ Selected
    BY DEF ClientInv
  <1>3. selGuild \in Guild /\ ShowsGuild(selGuild) /\ In(cache["channels"][selGuild], c)
    <2>1. ShowsGuild(selGuild) /\ In(cache["channels"][selGuild], c)
      BY <1>1, ShownIs, ToSetIs
    <2>2. OfUser(guilds)
      BY <1>2, <2>1 DEF ShowsGuild, ListsTrue
    <2>3. QED
      BY <1>2, <2>1, <2>2, OfUserIs DEF ShowsGuild
  <1>4. c \in ChannelIds \cup {None}
    BY DEF ChannelIds
  <1>5. selChannel' = c /\ last' \in [Guild -> ChannelIds \cup {None}]
    BY <1>1, <1>2, <1>3, <1>4, SelectChannelIs
  <1>6. ClientTyped'
    BY <1>1, <1>2, <1>4, <1>5 DEF ClientTyped
  <1>7. TasksTrue' /\ ListsTrue' /\ ListsComplete'
    BY <1>1, <1>2, TasksGoOn, ListsGoOn
  <1>8. Selected'
    BY <1>1, <1>3, <1>5, NoneIsNoId DEF Selected, ShowsGuild, In
  <1>9. QED
    BY <1>6, <1>7, <1>8 DEF ClientInv

-----------------------------------------------------------------------------
(* The steps that change lists.                                            *)

\* A list that is fetched lacks nothing but what is outstanding then.
LEMMA LacksIs ==
  ASSUME ClientTyped, NEW list
  PROVE  /\ \A k, g : Client!Lacks(k, g, list) \subseteq world
         /\ \A k, g : \A f \in world :
              f[1] = k /\ f[2] = g /\ ~In(list, f[3]) => f \in events \cup Client!Lacks(k, g, list)
         /\ Client!LacksGuilds(list) \subseteq world
         /\ \A f \in world :
              f[1] = "guild" /\ ~In(list, f[2]) => f \in events \cup Client!LacksGuilds(list)
  <1>1. \A k, g : Client!Lacks(k, g, list) \subseteq world
    BY DEF Client!Lacks
  <1>2. ASSUME NEW k, NEW g, NEW f \in world, f[1] = k, f[2] = g, ~In(list, f[3])
        PROVE  f \in events \cup Client!Lacks(k, g, list)
    BY <1>2, ToSetIs DEF Client!Lacks
  <1>3. Client!LacksGuilds(list) \subseteq world
    BY <1>1 DEF Client!LacksGuilds
  <1>4. ASSUME NEW f \in world, f[1] = "guild", ~In(list, f[2])
        PROVE  f \in events \cup Client!LacksGuilds(list)
    <2>1. f[2] \in Guild /\ f[3] = f[2]
      BY <1>4, FactIs DEF ClientTyped
    <2>2. f \in events \cup Client!Lacks("guild", f[2], list)
      BY <1>2, <1>4, <2>1
    <2>3. QED
      BY <2>1, <2>2 DEF Client!LacksGuilds
  <1>5. QED
    BY <1>1, <1>2, <1>3, <1>4

\* applyGuildCreate, on an event or an answer.
LEMMA ApplyGuildIs ==
  ASSUME ClientTyped, ListsTrue, ListsComplete, NEW g \in Guild, <<"guild", g, g>> \in world,
         Client!ApplyGuild(g), UNCHANGED <<world, cache>>,
         \A f \in events : f \in events' \/ f = <<"guild", g, g>>
  PROVE  /\ guilds' \in Lists /\ unsure' \subseteq Client!Fact
         /\ ShowsGuild(g)' /\ \A h : ShowsGuild(h) => ShowsGuild(h)'
         /\ ListsTrue' /\ ListsComplete'
  <1>1. g \in Nat
    BY NoneIsNoId
  <1>2. CASE guilds = None
    <2>1. guilds' = <<g>> /\ unsure' = unsure \cup {f \in world : f[1] = "guild"}
      BY <1>2 DEF Client!ApplyGuild
    <2>2. <<g>> \in Seq(Nat) /\ IsInjective(<<g>>) /\ \A y : In(<<g>>, y) <=> y = g
      <3>1. <<>> \in Seq(Nat)
        OBVIOUS
      <3>2. QED
        BY <1>1, <3>1, AddedIs
    <2>3. OfUser(<<g>>)'
      BY <2>2 DEF OfUser
    <2>4. ListsTrue'
      BY <2>1, <2>3 DEF ListsTrue, OfUser, OfGuild
    <2>5. ASSUME NEW f \in world', Client!IsThere(f)', ~Has(f)'
          PROVE  f \in events' \cup unsure'
      <3>1. CASE f[1] = "guild"
        BY <2>1, <3>1
      <3>2. CASE f[1] # "guild"
        <4>1. Client!IsThere(f) /\ ~Has(f)
          BY <2>5, <3>2 DEF Client!IsThere, Has, In
        <4>2. QED
          BY <2>1, <3>2, <4>1 DEF ListsComplete
      <3>3. QED
        BY <3>1, <3>2
    <2>6. guilds' # None /\ In(guilds', g)
      BY <2>1, <2>2, NoneIsNoId
    <2>7. QED
      BY <1>2, <2>1, <2>2, <2>4, <2>5, <2>6 DEF ListsComplete, ShowsGuild, Lists, ClientTyped, In
  <1>3. CASE guilds # None
    <2>1. guilds \in Seq(Nat) /\ OfUser(guilds)
      BY <1>3 DEF ClientTyped, Lists, ListsTrue
    <2>2. PICK list : list = Client!Added(guilds, g)
      OBVIOUS
    <2>3. guilds' = list /\ UNCHANGED unsure
      BY <1>3, <2>2 DEF Client!ApplyGuild
    <2>4. /\ list \in Seq(Nat) /\ IsInjective(list)
          /\ \A y : In(list, y) <=> In(guilds, y) \/ y = g
      BY <1>1, <2>1, <2>2, AddedIs DEF OfUser
    <2>5. \A y : In(list, y) => <<"guild", y, y>> \in world
      BY <2>1, <2>4, OfUserIs
    <2>6. OfUser(list)'
      BY <2>4, <2>5 DEF OfUser, In
    <2>7. ListsTrue'
      BY <2>3, <2>6 DEF ListsTrue, OfUser, OfGuild
    <2>8. \A y : In(guilds', y) <=> In(guilds, y) \/ y = g
      BY <2>3, <2>4
    <2>9. ASSUME NEW f \in world', Client!IsThere(f)', ~Has(f)'
          PROVE  f \in events' \cup unsure'
      <3>1. f[1] = "guild" => ~In(guilds', f[2])
        BY <2>9 DEF Has, In
      <3>2. Client!IsThere(f) /\ ~Has(f)
        BY <1>3, <2>8, <2>9, <3>1 DEF Client!IsThere, Has, In
      <3>3. f \in events \cup unsure
        BY <3>2 DEF ListsComplete
      <3>4. f # <<"guild", g, g>>
        BY <2>8, <3>1
      <3>5. QED
        BY <2>3, <3>3, <3>4
    <2>10. list # None
      BY <2>4, NoneIsNoId
    <2>11. QED
      BY <2>3, <2>4, <2>7, <2>8, <2>9, <2>10 DEF ListsComplete, ShowsGuild, Lists, ClientTyped, In
  <1>4. QED
    BY <1>2, <1>3

\* applyChannelCreate and applyMemberAdd, on an event or an answer.
LEMMA ApplyToIs ==
  ASSUME ClientTyped, ListsTrue, ListsComplete, NEW k \in Client!Kind, NEW g \in Guild, NEW x \in Nat,
         <<k, g, x>> \in world, Client!ApplyTo(k, g, x), UNCHANGED <<world, guilds, unsure>>,
         \A f \in events : f \in events' \/ f = <<k, g, x>>
  PROVE  /\ cache' \in [Client!Kind -> [Guild -> Lists]]
         /\ \A o \in Client!Kind, h \in Guild :
              /\ cache'[o][h] = None <=> cache[o][h] = None
              /\ \A y : In(cache[o][h], y) => In(cache'[o][h], y)
         /\ cache[k][g] # None => In(cache'[k][g], x)
         /\ ListsTrue' /\ ListsComplete'
  <1>1. /\ cache \in [Client!Kind -> [Guild -> Lists]]
        /\ cache' = [cache EXCEPT ![k][g] =
                        IF cache[k][g] = None THEN None ELSE Client!Added(cache[k][g], x)]
    BY DEF ClientTyped, Client!ApplyTo
  <1>2. PICK list : list = IF cache[k][g] = None THEN None ELSE Client!Added(cache[k][g], x)
    OBVIOUS
  <1>3. cache[k][g] = None => list = None
    BY <1>2
  <1>4. ASSUME cache[k][g] # None
        PROVE  /\ list \in Seq(Nat) /\ IsInjective(list)
               /\ \A y : In(list, y) <=> In(cache[k][g], y) \/ y = x
    <2>1. cache[k][g] \in Seq(Nat) /\ OfGuild(cache[k][g], k, g)
      BY <1>1, <1>4 DEF Lists, ListsTrue
    <2>2. QED
      BY <1>2, <1>4, <2>1, AddedIs DEF OfGuild
  <1>5. list \in Lists /\ (list = None <=> cache[k][g] = None)
    BY <1>3, <1>4, NoneIsNoId DEF Lists
  <1>6. /\ cache' \in [Client!Kind -> [Guild -> Lists]] /\ cache'[k][g] = list
        /\ \A o \in Client!Kind, h \in Guild : o # k \/ h # g => cache'[o][h] = cache[o][h]
    BY <1>1, <1>2, <1>5
  <1>7. ASSUME cache[k][g] # None
        PROVE  OfGuild(list, k, g)'
    <2>1. OfGuild(cache[k][g], k, g)
      BY <1>7 DEF ListsTrue
    <2>2. \A y : In(list, y) => <<k, g, y>> \in world
      BY <1>4, <1>7, <2>1, OfGuildIs
    <2>3. QED
      BY <1>4, <1>7, <2>2 DEF OfGuild, In
  <1>8. ListsTrue'
    <2>1. guilds' # None => OfUser(guilds)'
      BY DEF ListsTrue, OfUser
    <2>2. ASSUME NEW o \in Client!Kind, NEW h \in Guild, cache'[o][h] # None
          PROVE  OfGuild(cache[o][h], o, h)'
      <3>1. CASE o = k /\ h = g
        <4>1. OfGuild(list, k, g)'
          BY <1>5, <1>6, <1>7, <2>2, <3>1
        <4>2. QED
          BY <1>6, <3>1, <4>1 DEF OfGuild
      <3>2. CASE o # k \/ h # g
        BY <1>6, <2>2, <3>2 DEF ListsTrue, OfGuild
      <3>3. QED
        BY <3>1, <3>2
    <2>3. QED
      BY <2>1, <2>2 DEF ListsTrue
  <1>9. ASSUME NEW o \in Client!Kind, NEW h \in Guild
        PROVE  /\ cache'[o][h] = None <=> cache[o][h] = None
               /\ \A y : In(cache[o][h], y) => In(cache'[o][h], y) \/ cache[o][h] = None
    BY <1>4, <1>5, <1>6
  <1>10. ASSUME NEW f \in world', Client!IsThere(f)', ~Has(f)'
         PROVE  f \in events' \cup unsure'
    <2>1. /\ f \in world /\ f[2] \in Guild
          /\ f[1] # "guild" => f[1] \in Client!Kind
      BY FactIs DEF ClientTyped, Client!Kind
    <2>2. f[1] # "guild" => cache'[f[1]][f[2]] # None /\ ~In(cache'[f[1]][f[2]], f[3])
      BY <1>10 DEF Client!IsThere, Has, In
    <2>3. Client!IsThere(f) /\ ~Has(f)
      <3>1. CASE f[1] = "guild"
        BY <1>10, <3>1 DEF Client!IsThere, Has, In
      <3>2. CASE f[1] # "guild"
        BY <1>9, <2>1, <2>2, <3>2 DEF Client!IsThere, Has
      <3>3. QED
        BY <3>1, <3>2
    <2>4. f \in events \cup unsure
      BY <2>1, <2>3 DEF ListsComplete
    <2>5. f # <<k, g, x>>
      <3>1. SUFFICES ASSUME f = <<k, g, x>>  PROVE FALSE
        OBVIOUS
      <3>2. f[1] = k /\ f[2] = g /\ f[3] = x /\ k # "guild"
        BY <3>1, KindIs
      <3>3. QED
        BY <1>4, <1>5, <1>6, <2>2, <3>2
    <2>6. QED
      BY <2>4, <2>5
  <1>11. \A o \in Client!Kind, h \in Guild :
            \A y : In(cache[o][h], y) => In(cache'[o][h], y)
    BY <1>3, <1>4, <1>6
  <1>12. cache[k][g] # None => In(cache'[k][g], x)
    BY <1>4, <1>6
  <1>13. ListsComplete'
    BY <1>10 DEF ListsComplete
  <1>14. QED
    BY <1>6, <1>8, <1>9, <1>11, <1>12, <1>13

LEMMA DispatchKeeps ==
  ASSUME ClientInv, NEW f \in events, Client!Dispatch(f)
  PROVE  ClientInv'
  <1>1. ClientTyped /\ TasksTrue /\ ListsTrue /\ ListsComplete /\ Selected
    BY DEF ClientInv
  <1>2. /\ events' = events \ {f}
        /\ UNCHANGED <<world, task, selGuild, selChannel, last, astray>>
    BY DEF Client!Dispatch, Client!selection
  <1>3. f \in world /\ f = <<f[1], f[2], f[3]>> /\ f[2] \in Guild /\ f[3] \in Nat
    BY <1>1, FactIs DEF ClientTyped
  <1>4. TasksTrue'
    BY <1>1, <1>2, TasksGoOn
  <1>5. CASE f[1] = "guild"
    <2>1. Client!ApplyGuild(f[2]) /\ UNCHANGED cache /\ f = <<"guild", f[2], f[2]>>
      BY <1>1, <1>3, <1>5, FactIs DEF Client!Dispatch, ClientTyped
    <2>2. /\ guilds' \in Lists /\ unsure' \subseteq Client!Fact
          /\ \A h : ShowsGuild(h) => ShowsGuild(h)'
          /\ ListsTrue' /\ ListsComplete'
      BY <1>1, <1>2, <1>3, <2>1, ApplyGuildIs
    <2>3. ShowsGuild(selGuild) => ShowsGuild(selGuild)'
      BY <1>2, <2>2 DEF ShowsGuild, In
    <2>4. Selected'
      BY <1>1, <1>2, <2>1, <2>3, SelectionGoesOn
    <2>5. ClientTyped'
      BY <1>1, <1>2, <2>1, <2>2 DEF ClientTyped
    <2>6. QED
      BY <1>4, <2>2, <2>4, <2>5 DEF ClientInv
  <1>6. CASE f[1] # "guild"
    <2>1. Client!ApplyTo(f[1], f[2], f[3]) /\ UNCHANGED <<guilds, unsure>> /\ f[1] \in Client!Kind
      BY <1>1, <1>3, <1>6, FactIs DEF Client!Dispatch, ClientTyped, Client!Kind
    <2>2. /\ cache' \in [Client!Kind -> [Guild -> Lists]]
          /\ \A o \in Client!Kind, h \in Guild :
               /\ cache'[o][h] = None <=> cache[o][h] = None
               /\ \A y : In(cache[o][h], y) => In(cache'[o][h], y)
          /\ ListsTrue' /\ ListsComplete'
      BY <1>1, <1>2, <1>3, <2>1, ApplyToIs
    <2>3. ShowsGuild(selGuild) => ShowsGuild(selGuild)'
      BY <1>2, <2>1 DEF ShowsGuild, In
    <2>4. Selected'
      BY <1>1, <1>2, <2>2, <2>3, SelectionGoesOn DEF Client!Kind
    <2>5. ClientTyped'
      BY <1>1, <1>2, <2>1, <2>2 DEF ClientTyped
    <2>6. QED
      BY <1>4, <2>2, <2>4, <2>5 DEF ClientInv
  <1>7. QED
    BY <1>5, <1>6

\* An answer is of a guild, and of a channel of it if one was created.
LEMMA AnsweredIs ==
  ASSUME ClientInv, NEW t \in Task, Client!Is(t, "answered")
  PROVE  /\ task[t].guild \in Guild /\ task[t].channel \in ChannelIds \cup {None}
         /\ task[t].channel = None => <<"guild", task[t].guild, task[t].guild>> \in world
         /\ task[t].channel # None => <<"channels", task[t].guild, task[t].channel>> \in world
         /\ ~Chooses(task[t], selGuild)
  <1>1. task[t] \in Waiting /\ TaskTrue(task[t]) /\ task[t].pc = "answered"
    BY DEF ClientInv, ClientTyped, TasksTrue, Client!Is
  <1>2. QED
    BY <1>1 DEF Waiting, TaskTrue, Chooses, Client!Idle

LEMMA GuildAnsweredKeeps ==
  ASSUME ClientInv, NEW t \in Task, Client!GuildAnswered(t)
  PROVE  ClientInv'
  <1>1. ClientTyped /\ TasksTrue /\ ListsTrue /\ ListsComplete /\ Selected
    BY DEF ClientInv
  <1>2. PICK g : g = task[t].guild
    OBVIOUS
  <1>3. /\ Client!ApplyGuild(g) /\ Client!SelectGuild(t, g, Client!Shown \cup {g})
        /\ UNCHANGED <<world, events, cache>>
        /\ Client!Is(t, "answered") /\ task[t].channel = None
    BY <1>2 DEF Client!GuildAnswered, Client!tables
  <1>4. g \in Guild /\ <<"guild", g, g>> \in world
    BY <1>2, <1>3, AnsweredIs
  <1>5. /\ guilds' \in Lists /\ unsure' \subseteq Client!Fact
        /\ ShowsGuild(g)'
        /\ ListsTrue' /\ ListsComplete'
    BY <1>1, <1>3, <1>4, ApplyGuildIs
  <1>6. g \in Client!Shown \cup {g}
    OBVIOUS
  <1>7. /\ Selected'
        /\ selGuild' \in Guild \cup {None} /\ selChannel' \in ChannelIds \cup {None}
        /\ last' \in [Guild -> ChannelIds \cup {None}] /\ astray' \in BOOLEAN
        /\ \E w \in Waiting : Client!Await(t, w) /\ TaskTrue(w)'
    BY <1>1, <1>3, <1>4, <1>5, <1>6, SelectGuildIs
  <1>8. PICK w \in Waiting : Client!Await(t, w) /\ TaskTrue(w)'
    BY <1>7
  <1>9. /\ task' \in [Task -> Waiting] /\ task'[t] = w
        /\ \A o \in Task \ {t} : task'[o] = task[o]
    BY <1>1, <1>8, AwaitIs
  <1>10. ClientTyped'
    BY <1>1, <1>3, <1>5, <1>7, <1>9 DEF ClientTyped
  <1>11. TasksTrue'
    BY <1>1, <1>3, <1>8, <1>9, TasksGoOn
  <1>12. QED
    BY <1>5, <1>7, <1>10, <1>11 DEF ClientInv

LEMMA ChannelAnsweredKeeps ==
  ASSUME ClientInv, NEW t \in Task, Client!ChannelAnswered(t)
  PROVE  ClientInv'
  <1>1. ClientTyped /\ TasksTrue /\ ListsTrue /\ ListsComplete /\ Selected
    BY DEF ClientInv
  <1>2. PICK g : g = task[t].guild
    OBVIOUS
  <1>3. PICK c : c = task[t].channel
    OBVIOUS
  <1>4. /\ Client!ApplyTo("channels", g, c) /\ Client!Await(t, Client!Idle)
        /\ UNCHANGED <<world, events, guilds, selGuild, astray, unsure>>
        /\ Client!Is(t, "answered") /\ c # None
        /\ IF selGuild = g /\ c \in Text
           THEN Client!SelectChannel(g, c) ELSE UNCHANGED <<selChannel, last>>
    BY <1>2, <1>3 DEF Client!ChannelAnswered, Client!tables
  <1>5. /\ g \in Guild /\ c \in ChannelIds /\ c \in Nat /\ <<"channels", g, c>> \in world
        /\ ~Chooses(task[t], selGuild) /\ "channels" \in Client!Kind
    BY <1>2, <1>3, <1>4, AnsweredIs, NoneIsNoId DEF Client!Kind
  <1>6. /\ cache' \in [Client!Kind -> [Guild -> Lists]]
        /\ \A o \in Client!Kind, h \in Guild :
             /\ cache'[o][h] = None <=> cache[o][h] = None
             /\ \A y : In(cache[o][h], y) => In(cache'[o][h], y)
        /\ cache["channels"][g] # None => In(cache'["channels"][g], c)
        /\ ListsTrue' /\ ListsComplete'
    BY <1>1, <1>4, <1>5, ApplyToIs
  <1>7. /\ task' \in [Task -> Waiting] /\ task'[t] = Client!Idle
        /\ \A o \in Task \ {t} : task'[o] = task[o]
    BY <1>1, <1>4, AskedIs, AwaitIs
  <1>8. TasksTrue'
    BY <1>1, <1>4, <1>7, AskedIs, UnknowingIsTrue, TasksGoOn
  <1>9. /\ ShowsGuild(selGuild) => ShowsGuild(selGuild)'
        /\ \A o \in Task : Chooses(task[o], selGuild) => Chooses(task'[o], selGuild)
    BY <1>4, <1>5, <1>7, OthersChoose DEF ShowsGuild, In
  <1>10. CASE selGuild = g /\ c \in Text
    <2>1. selChannel' = c /\ last' \in [Guild -> ChannelIds \cup {None}]
      BY <1>1, <1>4, <1>5, <1>10, SelectChannelIs
    <2>2. Selected'
      <3>1. CASE astray
        BY <1>4, <3>1 DEF Selected
      <3>2. CASE ~astray
        <4>1. /\ selGuild # None /\ ShowsGuild(selGuild)
              /\ cache["channels"][g] = None => \E o \in Task : Chooses(task[o], selGuild)
          BY <1>1, <1>5, <1>10, <3>2, NoneIsNoId DEF Selected
        <4>2. /\ selGuild' = g /\ g # None /\ ShowsGuild(selGuild)'
              /\ cache'["channels"][g] = None => \E o \in Task : Chooses(task'[o], g)
              /\ cache'["channels"][g] # None => In(cache'["channels"][g], c)
          BY <1>4, <1>5, <1>6, <1>9, <1>10, <4>1
        <4>3. QED
          BY <1>10, <2>1, <4>2 DEF Selected, ShowsGuild, Chooses, In
      <3>3. QED
        BY <3>1, <3>2
    <2>3. ClientTyped'
      BY <1>1, <1>4, <1>5, <1>6, <1>7, <2>1 DEF ClientTyped
    <2>4. QED
      BY <1>6, <1>8, <2>2, <2>3 DEF ClientInv
  <1>11. CASE ~(selGuild = g /\ c \in Text)
    <2>1. UNCHANGED <<selChannel, last>>
      BY <1>4, <1>11
    <2>2. Selected'
      BY <1>1, <1>4, <1>6, <1>9, <2>1, SelectionGoesOn DEF Client!Kind
    <2>3. ClientTyped'
      BY <1>1, <1>4, <1>6, <1>7, <2>1 DEF ClientTyped
    <2>4. QED
      BY <1>6, <1>8, <2>2, <2>3 DEF ClientInv
  <1>12. QED
    BY <1>10, <1>11

LEMMA LoadArrivesKeeps ==
  ASSUME ClientInv, NEW t \in Task, Client!LoadArrives(t)
  PROVE  ClientInv'
  <1>1. ClientTyped /\ TasksTrue /\ ListsTrue /\ ListsComplete /\ Selected
    BY DEF ClientInv
  <1>2. PICK list : list = task[t].list
    OBVIOUS
  <1>3. /\ Client!Is(t, "guildsRead") /\ guilds' = list
        /\ unsure' = {f \in unsure : f[1] # "guild"} \cup Client!LacksGuilds(list)
        /\ UNCHANGED <<world, events, cache>>
    BY <1>2 DEF Client!LoadArrives, Client!tables
  <1>4. \/ selGuild = None /\ list # <<>> /\ Client!SelectGuild(t, list[1], Client!ToSet(list))
        \/ Client!Deselect /\ Client!Await(t, Client!Idle)
        \/ /\ selGuild = None \/ selGuild \in Client!ToSet(list)
           /\ Client!Await(t, Client!Idle) /\ UNCHANGED <<selGuild, selChannel, last, astray>>
    BY <1>2 DEF Client!LoadArrives, Client!selection
  <1>5. task[t] \in Waiting /\ TaskTrue(task[t]) /\ task[t].pc = "guildsRead"
    BY <1>1, <1>3 DEF ClientTyped, TasksTrue, Client!Is
  <1>6. list \in Seq(Nat) /\ list # None /\ OfUser(list)
    BY <1>2, <1>5, NoneIsNoId DEF Waiting, TaskTrue, Client!Idle
  <1>7. /\ Client!LacksGuilds(list) \subseteq world
        /\ \A f \in world :
             f[1] = "guild" /\ ~In(list, f[2]) => f \in events \cup Client!LacksGuilds(list)
    BY <1>1, LacksIs
  <1>8. ListsTrue'
    BY <1>1, <1>3, <1>6 DEF ListsTrue, OfUser, OfGuild
  <1>9. ASSUME NEW f \in world', Client!IsThere(f)', ~Has(f)'
        PROVE  f \in events' \cup unsure'
    <2>1. CASE f[1] = "guild"
      BY <1>3, <1>7, <1>9, <2>1 DEF Has, In
    <2>2. CASE f[1] # "guild"
      <3>1. Client!IsThere(f) /\ ~Has(f)
        BY <1>3, <1>9, <2>2 DEF Client!IsThere, Has, In
      <3>2. f \in events \cup unsure
        BY <1>1, <1>3, <3>1 DEF ListsComplete
      <3>3. QED
        BY <1>3, <2>2, <3>2
    <2>3. QED
      BY <2>1, <2>2
  <1>10. ListsComplete'
    BY <1>9 DEF ListsComplete
  <1>11. \A h : ShowsGuild(h)' <=> In(list, h)
    BY <1>3, <1>6 DEF ShowsGuild, In
  <1>12. guilds' \in Lists /\ unsure' \subseteq Client!Fact
    BY <1>1, <1>3, <1>6, <1>7 DEF Lists, ClientTyped
  <1>13. SUFFICES
           ASSUME Selected', NEW w \in Waiting, Client!Await(t, w), TaskTrue(w)',
                  selGuild' \in Guild \cup {None}, selChannel' \in ChannelIds \cup {None},
                  last' \in [Guild -> ChannelIds \cup {None}], astray' \in BOOLEAN
           PROVE  ClientInv'
    <2>1. Client!Idle \in Waiting /\ TaskTrue(Client!Idle)'
      BY AskedIs, UnknowingIsTrue
    <2>2. CASE selGuild = None /\ list # <<>> /\ Client!SelectGuild(t, list[1], Client!ToSet(list))
      <3>1. In(list, list[1])
        BY <1>6, <2>2 DEF In
      <3>2. list[1] \in Guild /\ list[1] \in Client!ToSet(list) /\ ShowsGuild(list[1])'
        BY <1>1, <1>6, <1>11, <3>1, OfUserIs, ToSetIs
      <3>3. PICK g : g = list[1]
        OBVIOUS
      <3>4. g \in Guild /\ g \in Client!ToSet(list) /\ ShowsGuild(g)'
            /\ Client!SelectGuild(t, g, Client!ToSet(list))
        BY <1>11, <2>2, <3>1, <3>2, <3>3
      <3>5. QED
        BY <1>1, <1>3, <1>13, <3>4, SelectGuildIs
    <2>3. CASE Client!Deselect /\ Client!Await(t, Client!Idle)
      BY <1>1, <1>13, <2>1, <2>3, DeselectIs
    <2>4. CASE /\ selGuild = None \/ selGuild \in Client!ToSet(list)
               /\ Client!Await(t, Client!Idle) /\ UNCHANGED <<selGuild, selChannel, last, astray>>
      <3>1. \A o \in Task \ {t} : task'[o] = task[o]
        BY <1>1, <2>1, <2>4, AwaitIs
      <3>2. ~Chooses(task[t], selGuild)
        BY <1>5 DEF Chooses
      <3>3. selGuild = None \/ ShowsGuild(selGuild)'
        BY <1>11, <2>4, ToSetIs DEF ShowsGuild, In
      <3>4. Selected'
        BY <1>1, <1>3, <2>4, <3>1, <3>2, <3>3 DEF Selected, Chooses, In
      <3>5. QED
        BY <1>1, <1>13, <2>1, <2>4, <3>4 DEF ClientTyped
    <2>5. QED
      BY <1>4, <2>2, <2>3, <2>4
  <1>14. /\ task' \in [Task -> Waiting] /\ task'[t] = w
         /\ \A o \in Task \ {t} : task'[o] = task[o]
    BY <1>1, <1>13, AwaitIs
  <1>15. ClientTyped'
    BY <1>1, <1>3, <1>12, <1>13, <1>14 DEF ClientTyped
  <1>16. TasksTrue'
    BY <1>1, <1>3, <1>13, <1>14, TasksGoOn
  <1>17. QED
    BY <1>8, <1>10, <1>13, <1>15, <1>16 DEF ClientInv

LEMMA ListArrivesKeeps ==
  ASSUME ClientInv, NEW t \in Task, Client!ListArrives(t)
  PROVE  ClientInv'
  <1>1. ClientTyped /\ TasksTrue /\ ListsTrue /\ ListsComplete /\ Selected
    BY DEF ClientInv
  <1>2. PICK k : k = task[t].kind
    OBVIOUS
  <1>3. PICK g : g = task[t].guild
    OBVIOUS
  <1>4. PICK list : list = task[t].list
    OBVIOUS
  <1>5. /\ Client!Is(t, "listRead") /\ cache' = [cache EXCEPT ![k][g] = list]
        /\ unsure' = Client!Others(k, g) \cup Client!Lacks(k, g, list)
        /\ UNCHANGED <<world, events, guilds, selGuild>>
        /\ IF k = "channels" /\ selGuild = g
           THEN Client!Enter(t, g, list, Client!Shown)
           ELSE Client!Await(t, Client!Idle) /\ UNCHANGED <<selChannel, last, astray>>
    BY <1>2, <1>3, <1>4 DEF Client!ListArrives, Client!tables, Client!selection
  <1>6. task[t] \in Waiting /\ TaskTrue(task[t]) /\ task[t].pc = "listRead"
    BY <1>1, <1>5 DEF ClientTyped, TasksTrue, Client!Is
  <1>7. /\ k \in Client!Kind /\ g \in Guild /\ list \in Seq(Nat) /\ list # None
        /\ OfGuild(list, k, g)
    BY <1>2, <1>3, <1>4, <1>6, NoneIsNoId DEF Waiting, TaskTrue, Client!Idle
  <1>8. /\ cache' \in [Client!Kind -> [Guild -> Lists]] /\ cache'[k][g] = list
        /\ \A o \in Client!Kind, h \in Guild : o # k \/ h # g => cache'[o][h] = cache[o][h]
    BY <1>1, <1>5, <1>7 DEF ClientTyped, Lists
  <1>9. /\ Client!Lacks(k, g, list) \subseteq world
        /\ \A f \in world :
             f[1] = k /\ f[2] = g /\ ~In(list, f[3]) => f \in events \cup Client!Lacks(k, g, list)
    BY <1>1, LacksIs
  <1>10. ListsTrue'
    <2>1. guilds' # None => OfUser(guilds)'
      BY <1>1, <1>5 DEF ListsTrue, OfUser
    <2>2. ASSUME NEW o \in Client!Kind, NEW h \in Guild, cache'[o][h] # None
          PROVE  OfGuild(cache[o][h], o, h)'
      <3>1. CASE o = k /\ h = g
        BY <1>5, <1>7, <1>8, <3>1 DEF OfGuild
      <3>2. CASE o # k \/ h # g
        BY <1>1, <1>5, <1>8, <2>2, <3>2 DEF ListsTrue, OfGuild
      <3>3. QED
        BY <3>1, <3>2
    <2>3. QED
      BY <2>1, <2>2 DEF ListsTrue
  <1>11. ASSUME NEW f \in world', Client!IsThere(f)', ~Has(f)'
         PROVE  f \in events' \cup unsure'
    <2>1. /\ f \in world /\ f[2] \in Guild
          /\ f[1] # "guild" => f[1] \in Client!Kind
      BY <1>1, <1>5, FactIs DEF ClientTyped, Client!Kind
    <2>2. k # "guild"
      BY <1>7, KindIs
    <2>3. CASE f[1] = k /\ f[2] = g
      <3>1. ~In(list, f[3])
        BY <1>8, <1>11, <2>2, <2>3 DEF Has, In
      <3>2. QED
        BY <1>5, <1>9, <2>1, <2>3, <3>1
    <2>4. CASE ~(f[1] = k /\ f[2] = g)
      <3>1. Client!IsThere(f) /\ ~Has(f)
        BY <1>5, <1>8, <1>11, <2>1, <2>4 DEF Client!IsThere, Has, In
      <3>2. f \in events \cup unsure
        BY <1>1, <2>1, <3>1 DEF ListsComplete
      <3>3. QED
        BY <1>5, <2>4, <3>2 DEF Client!Others
    <2>5. QED
      BY <2>3, <2>4
  <1>12. ListsComplete'
    BY <1>11 DEF ListsComplete
  <1>13. unsure' \subseteq Client!Fact
    BY <1>1, <1>5, <1>9 DEF ClientTyped, Client!Others
  <1>14. \A h : ShowsGuild(h)' <=> ShowsGuild(h)
    BY <1>5 DEF ShowsGuild, In
  <1>15. CASE k = "channels" /\ selGuild = g
    <2>1. Client!Enter(t, g, list, Client!Shown)
      BY <1>5, <1>15
    <2>2. /\ selChannel' \in Text \cup {None} /\ (selChannel' # None => In(list, selChannel'))
          /\ last' \in [Guild -> ChannelIds \cup {None}]
          /\ astray' \in BOOLEAN /\ (astray' <=> astray /\ g \notin Client!Shown)
          /\ \E w \in Waiting : Client!Await(t, w) /\ TaskTrue(w)'
      BY <1>1, <1>7, <2>1, EnterIs
    <2>3. PICK w \in Waiting : Client!Await(t, w) /\ TaskTrue(w)'
      BY <2>2
    <2>4. /\ task' \in [Task -> Waiting] /\ task'[t] = w
          /\ \A o \in Task \ {t} : task'[o] = task[o]
      BY <1>1, <2>3, AwaitIs
    <2>5. astray' \/ ShowsGuild(g)'
      BY <1>1, <1>7, <1>14, <1>15, <2>2, NoneIsNoId, ShownIs DEF Selected
    <2>6. Selected'
      BY <1>5, <1>7, <1>8, <1>15, <2>2, <2>5, NoneIsNoId DEF Selected, ShowsGuild, In
    <2>7. ClientTyped'
      BY <1>1, <1>5, <1>8, <1>13, <2>2, <2>4 DEF ClientTyped, ChannelIds
    <2>8. TasksTrue'
      BY <1>1, <1>5, <2>3, <2>4, TasksGoOn
    <2>9. QED
      BY <1>10, <1>12, <2>6, <2>7, <2>8 DEF ClientInv
  <1>16. CASE ~(k = "channels" /\ selGuild = g)
    <2>1. Client!Await(t, Client!Idle) /\ UNCHANGED <<selChannel, last, astray>>
      BY <1>5, <1>16
    <2>2. /\ task' \in [Task -> Waiting] /\ task'[t] = Client!Idle
          /\ \A o \in Task \ {t} : task'[o] = task[o]
      BY <1>1, <2>1, AskedIs, AwaitIs
    <2>3. ~Chooses(task[t], selGuild)
      BY <1>2, <1>3, <1>16 DEF Chooses
    <2>4. \A o \in Task : Chooses(task[o], selGuild) => Chooses(task'[o], selGuild)
      BY <2>2, <2>3, OthersChoose
    <2>5. selGuild \in Guild => cache'["channels"][selGuild] = cache["channels"][selGuild]
      BY <1>8, <1>16 DEF Client!Kind
    <2>6. Selected'
      BY <1>1, <1>5, <1>14, <2>1, <2>4, <2>5, SelectionGoesOn DEF ShowsGuild, In
    <2>7. ClientTyped'
      BY <1>1, <1>5, <1>8, <1>13, <2>1, <2>2 DEF ClientTyped
    <2>8. TasksTrue'
      BY <1>1, <1>5, <2>2, AskedIs, UnknowingIsTrue, TasksGoOn
    <2>9. QED
      BY <1>10, <1>12, <2>6, <2>7, <2>8 DEF ClientInv
  <1>17. QED
    BY <1>15, <1>16

LEMMA ResyncArrivesKeeps ==
  ASSUME ClientInv, NEW t \in Task, Client!ResyncArrives(t)
  PROVE  ClientInv'
  <1>1. ClientTyped /\ TasksTrue /\ ListsTrue /\ ListsComplete /\ Selected
    BY DEF ClientInv
  <1>2. PICK list : list = task[t].list
    OBVIOUS
  <1>3. /\ Client!Is(t, "guildsRead") /\ UNCHANGED <<world, events>>
    BY DEF Client!ResyncArrives, Client!tables
  <1>4. task[t] \in Waiting /\ TaskTrue(task[t]) /\ task[t].pc = "guildsRead"
    BY <1>1, <1>3 DEF ClientTyped, TasksTrue, Client!Is
  <1>5. list \in Seq(Nat) /\ list # None /\ OfUser(list)
    BY <1>2, <1>4, NoneIsNoId DEF Waiting, TaskTrue, Client!Idle
  <1>6. CASE selGuild \in Client!ToSet(list)
    <2>1. PICK w : w = [pc |-> "lists", guild |-> selGuild, channel |-> selChannel, guilds |-> list,
                        read |-> [k \in Client!Kind |-> None]]
      OBVIOUS
    <2>2. /\ Client!Await(t, w)
          /\ UNCHANGED <<guilds, cache, selGuild, selChannel, last, astray, unsure>>
      BY <1>2, <1>6, <2>1 DEF Client!ResyncArrives, Client!selection
    <2>3. In(list, selGuild) /\ selGuild \in Guild
      BY <1>1, <1>5, <1>6, ToSetIs, OfUserIs
    <2>4. w \in Waiting
      BY <1>1, <1>5, <2>1, <2>3 DEF Waiting, ClientTyped, Lists
    <2>5. TaskTrue(w)'
      BY <1>3, <1>5, <2>1, <2>3 DEF TaskTrue, OfUser
    <2>6. QED
      BY <1>1, <1>3, <1>4, <2>2, <2>4, <2>5, TablesStay, TaskMoves DEF Chooses
  <1>7. CASE selGuild \notin Client!ToSet(list)
    <2>1. /\ guilds' = list /\ cache' = [k \in Client!Kind |-> [g \in Guild |-> None]]
          /\ unsure' = Client!LacksGuilds(list)
          /\ Client!Deselect /\ Client!Await(t, Client!Idle)
      BY <1>2, <1>7 DEF Client!ResyncArrives
    <2>2. /\ task' \in [Task -> Waiting] /\ task'[t] = Client!Idle
          /\ \A o \in Task \ {t} : task'[o] = task[o]
      BY <1>1, <2>1, AskedIs, AwaitIs
    <2>3. /\ Client!LacksGuilds(list) \subseteq world
          /\ \A f \in world :
               f[1] = "guild" /\ ~In(list, f[2]) => f \in events \cup Client!LacksGuilds(list)
      BY <1>1, LacksIs
    <2>4. ListsTrue'
      BY <1>3, <1>5, <2>1 DEF ListsTrue, OfUser, OfGuild
    <2>5. ASSUME NEW f \in world', Client!IsThere(f)', ~Has(f)'
          PROVE  f \in events' \cup unsure'
      <3>1. /\ f \in world /\ f[2] \in Guild
            /\ f[1] # "guild" => f[1] \in Client!Kind
        BY <1>1, <1>3, FactIs DEF ClientTyped, Client!Kind
      <3>2. f[1] = "guild"
        BY <2>1, <2>5, <3>1 DEF Client!IsThere
      <3>3. QED
        BY <1>3, <2>1, <2>3, <2>5, <3>1, <3>2 DEF Has, In
    <2>6. /\ Selected' /\ selGuild' = None /\ selChannel' = None
          /\ last' \in [Guild -> ChannelIds \cup {None}] /\ astray' \in BOOLEAN
      BY <1>1, <2>1, DeselectIs
    <2>7. ClientTyped'
      BY <1>1, <1>3, <1>5, <2>1, <2>2, <2>3, <2>6 DEF ClientTyped, Lists
    <2>8. TasksTrue'
      BY <1>1, <1>3, <2>2, AskedIs, UnknowingIsTrue, TasksGoOn
    <2>9. QED
      BY <2>4, <2>5, <2>6, <2>7, <2>8 DEF ClientInv, ListsComplete
  <1>8. QED
    BY <1>6, <1>7

LEMMA ResyncLandsKeeps ==
  ASSUME ClientInv, NEW t \in Task, Client!ResyncLands(t)
  PROVE  ClientInv'
  <1>1. ClientTyped /\ TasksTrue /\ ListsTrue /\ ListsComplete /\ Selected
    BY DEF ClientInv
  <1>2. PICK r : r = task[t]
    OBVIOUS
  <1>3. PICK channels : channels = r.read["channels"]
    OBVIOUS
  <1>4. PICK first : first = IF channels = <<>> THEN None ELSE channels[1]
    OBVIOUS
  <1>5. /\ r.pc = "lists" /\ \A k \in Client!Kind : r.read[k] # None
        /\ guilds' = r.guilds
        /\ cache' = [k \in Client!Kind |->
                        [g \in Guild |-> IF g = r.guild THEN r.read[k] ELSE None]]
        /\ unsure' = Client!LacksGuilds(r.guilds)
                        \cup UNION {Client!Lacks(k, r.guild, r.read[k]) : k \in Client!Kind}
        /\ Client!Await(t, Client!Idle)
        /\ UNCHANGED <<world, events, selGuild, last>>
    BY <1>2 DEF Client!ResyncLands, Client!Is, Client!tables
  <1>6. /\ selChannel' = IF r.channel \in Client!ToSet(channels) THEN selChannel ELSE first
        /\ astray' =
                \/ selGuild # r.guild \/ selChannel # r.channel
                \/ IF r.channel \in Client!ToSet(channels) THEN astray ELSE first \in Voice
    BY <1>2, <1>3, <1>4, Zenon DEF Client!ResyncLands
  <1>7. r \in Waiting /\ TaskTrue(r)
    BY <1>1, <1>2 DEF ClientTyped, TasksTrue
  <1>8. r \in [pc : {"lists"}, guild : Guild, channel : ChannelIds \cup {None}, guilds : Seq(Nat),
               read : [Client!Kind -> Lists]]
    BY <1>5, <1>7 DEF Waiting, Client!Idle
  <1>9. /\ OfUser(r.guilds) /\ In(r.guilds, r.guild) /\ r.guilds \in Seq(Nat) /\ r.guilds # None
        /\ \A k \in Client!Kind : r.read[k] \in Seq(Nat) /\ OfGuild(r.read[k], k, r.guild)
    BY <1>5, <1>7, <1>8, NoneIsNoId DEF TaskTrue, Lists
  <1>10. /\ channels \in Seq(Nat) /\ channels # None
         /\ \A x : In(channels, x) => x \in ChannelIds
         /\ first # None => In(channels, first)
         /\ "channels" \in Client!Kind
    <2>1. "channels" \in Client!Kind
      BY DEF Client!Kind
    <2>2. channels \in Seq(Nat) /\ OfGuild(channels, "channels", r.guild)
      BY <1>3, <1>9, <2>1
    <2>3. first # None => In(channels, first)
      BY <1>4, <2>2 DEF In
    <2>4. QED
      BY <1>1, <2>1, <2>2, <2>3, OfGuildIs, NoneIsNoId
  <1>11. astray' \in BOOLEAN
    <2>1. /\ (selGuild # r.guild \/ selChannel # r.channel) \in BOOLEAN
          /\ (first \in Voice) \in BOOLEAN /\ astray \in BOOLEAN
      BY <1>1 DEF ClientTyped
    <2>2. CASE selGuild # r.guild \/ selChannel # r.channel
      BY <1>6, <2>2, Zenon
    <2>3. CASE ~(selGuild # r.guild \/ selChannel # r.channel)
      <3>1. CASE r.channel \in Client!ToSet(channels)
        BY <1>6, <2>1, <2>3, <3>1, Zenon
      <3>2. CASE r.channel \notin Client!ToSet(channels)
        BY <1>6, <2>1, <2>3, <3>2, Zenon
      <3>3. QED
        BY <3>1, <3>2
    <2>4. QED
      BY <2>2, <2>3
  <1>12. ~astray' =>
            /\ selGuild = r.guild /\ selChannel = r.channel
            /\ r.channel \in Client!ToSet(channels) => ~astray
            /\ r.channel \notin Client!ToSet(channels) => first \notin Voice
    BY <1>6, Zenon
  <1>13. /\ task' \in [Task -> Waiting] /\ task'[t] = Client!Idle
         /\ \A o \in Task \ {t} : task'[o] = task[o]
    BY <1>1, <1>5, AskedIs, AwaitIs
  <1>14. /\ cache' \in [Client!Kind -> [Guild -> Lists]]
         /\ \A k \in Client!Kind : cache'[k][r.guild] = r.read[k]
         /\ \A k \in Client!Kind, g \in Guild : g # r.guild => cache'[k][g] = None
    BY <1>5, <1>8 DEF Lists
  <1>15. ListsTrue'
    <2>1. OfUser(guilds)'
      BY <1>5, <1>9 DEF OfUser
    <2>2. ASSUME NEW k \in Client!Kind, NEW g \in Guild, cache'[k][g] # None
          PROVE  OfGuild(cache[k][g], k, g)'
      <3>1. g = r.guild /\ cache'[k][g] = r.read[k]
        BY <1>14, <2>2
      <3>2. OfGuild(r.read[k], k, r.guild)
        BY <1>9
      <3>3. QED
        BY <1>5, <3>1, <3>2 DEF OfGuild
    <2>3. QED
      BY <2>1, <2>2 DEF ListsTrue
  <1>16. unsure' \subseteq Client!Fact
    <2>1. /\ Client!LacksGuilds(r.guilds) \subseteq world
          /\ \A k \in Client!Kind : Client!Lacks(k, r.guild, r.read[k]) \subseteq world
      BY <1>1, LacksIs
    <2>2. QED
      BY <1>1, <1>5, <2>1 DEF ClientTyped
  <1>17. ASSUME NEW f \in world', Client!IsThere(f)', ~Has(f)'
         PROVE  f \in events' \cup unsure'
    <2>1. /\ f \in world /\ f[2] \in Guild
          /\ f[1] # "guild" => f[1] \in Client!Kind
      BY <1>1, <1>5, FactIs DEF ClientTyped, Client!Kind
    <2>2. CASE f[1] = "guild"
      <3>1. ~In(r.guilds, f[2])
        BY <1>5, <1>17, <2>2 DEF Has, In
      <3>2. f \in events \cup Client!LacksGuilds(r.guilds)
        BY <1>1, <2>1, <2>2, <3>1, LacksIs
      <3>3. QED
        BY <1>5, <3>2
    <2>3. CASE f[1] # "guild"
      <3>1. f[1] \in Client!Kind /\ f[2] = r.guild
        BY <1>14, <1>17, <2>1, <2>3 DEF Client!IsThere
      <3>2. PICK k \in Client!Kind : k = f[1]
        BY <3>1
      <3>3. ~In(r.read[k], f[3])
        BY <1>14, <1>17, <2>3, <3>1, <3>2 DEF Has, In
      <3>4. f \in events \cup Client!Lacks(k, r.guild, r.read[k])
        BY <1>1, <2>1, <3>1, <3>2, <3>3, LacksIs
      <3>5. QED
        BY <1>5, <3>4
    <2>4. QED
      BY <2>2, <2>3
  <1>18. selChannel' \in ChannelIds \cup {None}
    BY <1>1, <1>6, <1>10 DEF ClientTyped
  <1>19. Selected'
    <2>1. CASE astray'
      BY <2>1 DEF Selected
    <2>2. CASE ~astray'
      <3>1. selGuild' = r.guild /\ r.guild \in Guild /\ r.guild # None
        BY <1>5, <1>8, <1>12, <2>2, NoneIsNoId
      <3>2. ShowsGuild(selGuild)'
        BY <1>5, <1>9, <3>1 DEF ShowsGuild, In
      <3>3. cache'["channels"][r.guild] = channels
        BY <1>3, <1>10, <1>14
      <3>4. selChannel' \in Text \cup {None} /\ (selChannel' # None => In(channels, selChannel'))
        <4>1. CASE r.channel \in Client!ToSet(channels)
          <5>1. selChannel' = selChannel /\ In(channels, selChannel) /\ ~astray
            BY <1>6, <1>12, <2>2, <4>1, ToSetIs
          <5>2. selChannel \in Text \cup {None}
            BY <1>1, <5>1 DEF Selected
          <5>3. QED
            BY <5>1, <5>2
        <4>2. CASE r.channel \notin Client!ToSet(channels)
          <5>1. selChannel' = first /\ first \notin Voice
            BY <1>6, <1>12, <2>2, <4>2
          <5>2. QED
            BY <1>10, <5>1 DEF ChannelIds
        <4>3. QED
          BY <4>1, <4>2
      <3>5. QED
        BY <1>10, <3>1, <3>2, <3>3, <3>4 DEF Selected, ShowsGuild, In
    <2>3. QED
      BY <2>1, <2>2
  <1>20. ClientTyped'
    BY <1>1, <1>5, <1>9, <1>11, <1>13, <1>14, <1>16, <1>18 DEF ClientTyped, Lists
  <1>21. TasksTrue'
    BY <1>1, <1>5, <1>13, AskedIs, UnknowingIsTrue, TasksGoOn
  <1>22. QED
    BY <1>15, <1>17, <1>19, <1>20, <1>21 DEF ClientInv, ListsComplete

-----------------------------------------------------------------------------
(* The theorems of the client.                                             *)

LEMMA ClientInit == Client!Init => ClientInv
  <1> SUFFICES ASSUME Client!Init  PROVE ClientInv
    OBVIOUS
  <1>1. /\ world \subseteq Client!Fact /\ events = {} /\ guilds = None /\ unsure = {}
        /\ cache = [k \in Client!Kind |-> [g \in Guild |-> None]]
        /\ selGuild = None /\ selChannel = None /\ last = [g \in Guild |-> None]
        /\ task = [t \in Task |-> Client!Idle]
    BY DEF Client!Init
  <1>2. astray = FALSE
    BY Zenon DEF Client!Init
  <1>3. ClientTyped
    BY <1>1, <1>2, AskedIs DEF ClientTyped, Lists
  <1>4. TasksTrue
    BY <1>1, AskedIs DEF TasksTrue, TaskTrue
  <1>5. ListsTrue
    BY <1>1 DEF ListsTrue
  <1>6. ASSUME NEW f \in world  PROVE ~Client!IsThere(f)
    <2>1. f[2] \in Guild /\ (f[1] # "guild" => f[1] \in Client!Kind)
      BY <1>1, FactIs DEF Client!Kind
    <2>2. QED
      BY <1>1, <2>1 DEF Client!IsThere
  <1>7. Selected
    BY <1>1 DEF Selected
  <1>8. QED
    BY <1>3, <1>4, <1>5, <1>6, <1>7 DEF ClientInv, ListsComplete

LEMMA ClientStep == ClientInv /\ Client!Next => ClientInv'
  <1> SUFFICES ASSUME ClientInv, Client!Next  PROVE ClientInv'
    OBVIOUS
  <1>1. Client!ChannelId = ChannelIds
    BY DEF Client!ChannelId, ChannelIds
  <1>2. CASE \E t \in Task : \E g \in Guild :
                Client!ClickGuild(t, g) \/ Client!Found(t, g) \/ Client!JoinedAlready(t, g)
    BY <1>2, ClickGuildKeeps, FoundKeeps, JoinedAlreadyKeeps
  <1>3. CASE \E t \in Task : \E g \in Guild \cup {None} : Client!Post(t, g)
    BY <1>3, PostKeeps
  <1>4. CASE \E t \in Task : \E c \in Client!ChannelId : Client!CreateChannel(t, c)
    BY <1>1, <1>4, CreateChannelKeeps
  <1>5. CASE \E t \in Task : \E job \in {"load", "resync"} : Client!FetchGuilds(t, job)
    BY <1>5, FetchGuildsKeeps DEF Jobs
  <1>6. CASE \E t \in Task : Client!Read(t) \/ Client!LoadArrives(t) \/ Client!ListArrives(t)
    BY <1>6, ReadKeeps, LoadArrivesKeeps, ListArrivesKeeps
  <1>7. CASE \E t \in Task : Client!ResyncArrives(t) \/ Client!ResyncLands(t) \/ Client!FetchFails(t)
    BY <1>7, ResyncArrivesKeeps, ResyncLandsKeeps, FetchFailsKeeps
  <1>8. CASE \E t \in Task : Client!Furnish(t) \/ Client!GuildAnswered(t)
                                \/ Client!ChannelAnswered(t) \/ Client!PostFails(t)
    BY <1>8, FurnishKeeps, GuildAnsweredKeeps, ChannelAnsweredKeeps, PostFailsKeeps
  <1>9. CASE \E c \in Text : Client!ClickChannel(c)
    BY <1>9, ClickChannelKeeps
  <1>10. CASE \E kind \in Client!Kind, g \in Guild, x \in Client!ChannelId \cup Person :
                Client!Elsewhere(kind, g, x)
    BY <1>10, ElsewhereKeeps
  <1>11. CASE \E f \in events : Client!Dispatch(f) \/ Client!Lose(f)
    BY <1>11, DispatchKeeps, LoseKeeps
  <1>12. QED
    BY <1>2, <1>3, <1>4, <1>5, <1>6, <1>7, <1>8, <1>9, <1>10, <1>11 DEF Client!Next

\* Every reachable state of the client satisfies the invariant.
THEOREM ClientInvariant == PartSpec => []ClientInv
  <1>1. PartInit => ClientInv
    BY ClientInit DEF PartInit
  <1>2. ClientInv /\ UNCHANGED clientVars => ClientInv'
    <2> SUFFICES ASSUME ClientInv, UNCHANGED clientVars  PROVE ClientInv'
      OBVIOUS
    <2>1. UNCHANGED <<world, events, guilds, cache, selGuild, selChannel, last, task, unsure, astray>>
      BY DEF clientVars
    <2>2. QED
      BY <2>1, TablesStay, NoTaskMoves DEF ClientInv
  <1>3. ClientInv /\ [PartNext]_<<part, vars, clientVars, feedVars>> => ClientInv'
    BY <1>2, ClientStep DEF PartNext
  <1>4. QED
    BY <1>1, <1>3, PTL DEF PartSpec

\* However answers, events, clicks and reconnects interleave, and whatever fails
\* or is lost, no list of guilds, channels or members shows anything twice or
\* anything false, and what it lacks is outstanding or in doubt.
THEOREM TheListsAreRight == PartSpec => []ListsAreRight
  <1>1. ASSUME ClientInv  PROVE Client!ListsAreRight
    <2>1. ClientTyped /\ ListsTrue /\ ListsComplete
      BY <1>1 DEF ClientInv
    <2>2. ASSUME NEW k \in Client!Kind, NEW g \in Guild, cache[k][g] # None
          PROVE  Client!IsRight(cache[k][g], k, g)
      <3>1. PICK list : list = cache[k][g]
        OBVIOUS
      <3>2. OfGuild(list, k, g) /\ k # "guild"
        BY <2>1, <2>2, <3>1, KindIs DEF ListsTrue
      <3>3. ASSUME NEW x \in Client!Listed(k, g) \ Client!ToSet(list)
            PROVE  <<k, g, x>> \in events \cup unsure
        <4>1. PICK f : f = <<k, g, x>>
          OBVIOUS
        <4>2. f \in world /\ f[1] = k /\ f[2] = g /\ f[3] = x /\ ~In(list, x)
          BY <2>1, <4>1, ListedIs, ToSetIs
        <4>3. Client!IsThere(f) /\ ~Has(f)
          BY <2>2, <3>1, <3>2, <4>2 DEF Client!IsThere, Has
        <4>4. QED
          BY <2>1, <4>1, <4>2, <4>3 DEF ListsComplete
      <3>4. QED
        BY <3>1, <3>2, <3>3, ClientOperators DEF Client!IsRight, OfGuild
    <2>3. ASSUME guilds # None
          PROVE  /\ Client!IsInjective(guilds) /\ Client!ToSet(guilds) \subseteq Client!Mine
                 /\ \A g \in Client!Mine \ Client!ToSet(guilds) :
                        <<"guild", g, g>> \in events \cup unsure
      <3>1. OfUser(guilds)
        BY <2>1, <2>3 DEF ListsTrue
      <3>2. Client!ToSet(guilds) \subseteq Client!Mine
        BY <2>1, <3>1, OfUserIs, ToSetIs, ListedIs
      <3>3. ASSUME NEW g \in Client!Mine \ Client!ToSet(guilds)
            PROVE  <<"guild", g, g>> \in events \cup unsure
        <4>1. PICK f : f = <<"guild", g, g>>
          OBVIOUS
        <4>2. f \in world /\ f[1] = "guild" /\ f[2] = g /\ ~In(guilds, g)
          BY <2>1, <4>1, ListedIs, ToSetIs
        <4>3. Client!IsThere(f) /\ ~Has(f)
          BY <2>3, <4>2 DEF Client!IsThere, Has
        <4>4. QED
          BY <2>1, <4>1, <4>2, <4>3 DEF ListsComplete
      <3>4. QED
        BY <3>1, <3>2, <3>3, ClientOperators DEF OfUser
    <2>4. QED
      BY <2>2, <2>3 DEF Client!ListsAreRight
  <1>2. ClientInv => ListsAreRight
    BY <1>1 DEF ListsAreRight
  <1>3. QED
    BY <1>2, ClientInvariant, PTL

\* The selected channel is a text channel of the selected guild and that guild is
\* shown, unless a channel is being chosen or the selection is astray.
THEOREM TheSelectionFits == PartSpec => []SelectionFits
  <1>1. ASSUME ClientInv  PROVE Client!SelectionFits
    <2>1. Selected
      BY <1>1 DEF ClientInv
    <2>2. (\E t \in Task : Chooses(task[t], selGuild)) => Client!Choosing
      BY DEF Client!Choosing, Chooses
    <2>3. ShowsGuild(selGuild) => selGuild \in Client!Shown
      BY ShownIs
    <2>4. QED
      BY <2>1, <2>2, <2>3, NoneIsNoId, ToSetIs DEF Selected, Client!SelectionFits
  <1>2. ClientInv => SelectionFits
    BY <1>1 DEF SelectionFits
  <1>3. QED
    BY <1>2, ClientInvariant, PTL

\* The handlers, the client and the member's feed have their types.
THEOREM GuildsTypes == PartSpec => []AllTypesOK
  <1>1. PartSpec => Spec
    <2>1. PartInit => Init
      BY DEF PartInit
    <2>2. [PartNext]_<<part, vars, clientVars, feedVars>> => [Next]_vars
      BY DEF PartNext
    <2>3. QED
      BY <2>1, <2>2, PTL DEF PartSpec, Spec
  <1>2. ASSUME ClientInv  PROVE Client!TypeOK
    <2>1. ClientTyped /\ ListsTrue
      BY <1>2 DEF ClientInv
    <2>2. guilds = None \/ Client!ToSet(guilds) \subseteq Guild
      BY <2>1, OfUserIs, ToSetIs DEF ListsTrue
    <2>3. ASSUME NEW g \in Guild
          PROVE  /\ cache["channels"][g] = None \/ Client!ToSet(cache["channels"][g]) \subseteq Client!ChannelId
                 /\ cache["members"][g] = None \/ Client!ToSet(cache["members"][g]) \subseteq Person
      <3>1. ASSUME NEW k \in Client!Kind, cache[k][g] # None
            PROVE  \A x \in Client!ToSet(cache[k][g]) :
                      (k = "channels" => x \in ChannelIds) /\ (k = "members" => x \in Person)
        <4>1. OfGuild(cache[k][g], k, g)
          BY <2>1, <3>1 DEF ListsTrue
        <4>2. QED
          BY <2>1, <4>1, OfGuildIs, ToSetIs
      <3>2. "channels" \in Client!Kind /\ "members" \in Client!Kind
        BY DEF Client!Kind
      <3>3. QED
        BY <3>1, <3>2 DEF Client!ChannelId, ChannelIds
    <2>4. \A t \in Task : task[t].pc \in
            {"idle", "guilds", "guildsRead", "list", "listRead", "lists", "posting", "founded", "answered"}
      <3>1. \A w \in Waiting : w.pc \in
            {"idle", "guilds", "guildsRead", "list", "listRead", "lists", "posting", "founded", "answered"}
        BY DEF Waiting, Client!Idle
      <3>2. QED
        BY <2>1, <3>1 DEF ClientTyped
    <2>5. QED
      BY <2>1, <2>2, <2>3, <2>4 DEF ClientTyped, Client!TypeOK, Client!ChannelId, ChannelIds
  <1>3. PartSpec => []Feed!TypeOK
    BY FeedTypes
  <1>4. TypeOK /\ ClientInv /\ Feed!TypeOK => AllTypesOK
    BY <1>2 DEF AllTypesOK
  <1>5. QED
    BY <1>1, <1>3, <1>4, GuildsTypeOK, ClientInvariant, PTL

=============================================================================
