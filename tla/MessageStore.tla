----------------------------- MODULE MessageStore -----------------------------
(***************************************************************************)
(* The messages of one channel: the table and its statements               *)
(* (store/messages.go), the handlers that load a row and then write it     *)
(* (httpapi/message_handlers.go), and a client that pages through the      *)
(* history while they run (loadMessages and loadOlder of chatStore.js).    *)
(*                                                                         *)
(* A message id is the instant inside its timeuuid, read from the clock of *)
(* the api replica that creates it; ids are unique and the table orders by *)
(* them.  A replica's clock is off by at most Skew.  List runs one query   *)
(* per bucket, and everything else may happen between two of them.         *)
(*                                                                         *)
(* Contents are abstracted to the user who wrote them.  The events that    *)
(* the handlers publish are in ChatClient, beside the list they update.    *)
(*                                                                         *)
(* A definition Name_Variant is Name with a bug put in; only the mutation  *)
(* runs use it.                                                            *)
(***************************************************************************)
EXTENDS Integers, FiniteSets

CONSTANTS
    User,         \* members of the guild
    Owner,        \* the guild's owner
    NoOne,        \* the author_id of a row whose columns were never inserted
    Request,      \* PATCH and DELETE requests that may be under way at once
    BucketSize,   \* BucketSizeMillis
    Skew,         \* how far a replica's clock may be from the true time
    CreatedAt,    \* created_at of the channel
    Limit,        \* messages per page
    MaxTime, MaxMessages   \* bounds: how long the behaviours are, and how many messages

ASSUME OwnerAssumption == Owner \in User /\ NoOne \notin User
ASSUME BucketAssumption == BucketSize \in Nat \ {0}
\* List starts one bucket above its clock: writers and the reader together
\* must not be further apart than that.
ASSUME SkewAssumption == Skew \in Nat /\ 2 * Skew <= BucketSize
ASSUME CreatedAtAssumption == CreatedAt \in Nat
ASSUME LimitAssumption == Limit \in Nat \ {0}

VARIABLES
    now,       \* the true time
    rows,      \* the table: id -> author_id and who wrote the content
    used,      \* ids drawn so far
    request,   \* the edit or deletion each request is at
    deleted,   \* ids whose row a DELETE has removed (history)
    pager,     \* the client's walk through the history
    got,       \* ids the pages have returned
    dropped,   \* of these, the ones the client has removed on MESSAGE_DELETE
    base       \* the table when the client began (history)

vars == <<now, rows, used, request, deleted, pager, got, dropped, base>>
tableVars == <<rows, used, request, deleted>>
pagerVars == <<pager, got, dropped, base>>

Row == [author : User \cup {NoOne}, writer : User]
Bucket(t) == t \div BucketSize
MinBucket == Bucket(CreatedAt)

\* What a request past its checks is about to write; who deletes no longer matters.
Pending == [kind : {"edit"}, id : Nat, user : User] \cup [kind : {"delete"}, id : Nat]
Job(kind, id, u) ==
    IF kind = "edit" THEN [kind |-> "edit", id |-> id, user |-> u] ELSE [kind |-> "delete", id |-> id]
NoRequest == [kind |-> "none"]

(***************************************************************************)
(* idle     no page is being fetched, more are expected                    *)
(* walking  List is about to query bucket                                  *)
(* done     the last page was short: hasMore is false                      *)
(* before = -1 when the request has no before parameter.                   *)
(***************************************************************************)
Walk == [pc : {"walking"}, before : Nat \cup {-1}, start : Int, bucket : Int, page : SUBSET Nat]
Closed == [pc |-> "closed"]
Waiting == [pc |-> "idle"]
Finished == [pc |-> "done"]

Stored == DOMAIN rows
Walking == pager.pc = "walking"
Shown == got \ dropped

TypeOK ==
    /\ now \in Nat
    /\ Stored \subseteq used /\ rows \in [Stored -> Row]
    /\ used \subseteq Nat
    /\ request \in [Request -> Pending \cup {NoRequest}]
    /\ deleted \subseteq used
    /\ pager \in Walk \cup {Closed, Waiting, Finished}
    /\ Walking => pager.page \subseteq used /\ Cardinality(pager.page) <= Limit
    /\ got \subseteq used /\ dropped \subseteq got \cap deleted
    /\ base \subseteq used

Init ==
    /\ now = CreatedAt
    /\ rows = [i \in {} |-> NoOne] /\ used = {}
    /\ request = [r \in Request |-> NoRequest]
    /\ deleted = {}
    /\ pager = Closed /\ got = {} /\ dropped = {} /\ base = {}

Tick == now < MaxTime /\ now' = now + 1 /\ UNCHANGED <<tableVars, pagerVars>>

-----------------------------------------------------------------------------
(* The statements.                                                         *)

\* What a replica's clock may show.
Clock == {t \in now - Skew .. now + Skew : t >= 0}

Put(id, row) == rows' = [i \in Stored \cup {id} |-> IF i = id THEN row ELSE rows[i]]

Get(id, row) == id \in Stored /\ rows[id] = row

\* UPDATE inserts the columns it sets when there is no row: no author.
UpdateContent(id, u) ==
    Put(id, [author |-> IF id \in Stored THEN rows[id].author ELSE NoOne, writer |-> u])

Delete(id) ==
    /\ rows' = [i \in Stored \ {id} |-> rows[i]]
    /\ deleted' = deleted \cup {id}

-----------------------------------------------------------------------------
(* The handlers.  A write that fails may have been applied; when it was    *)
(* not, the request ends and nothing changes.                              *)

\* POST: the row is inserted whole, whatever its answer is.
Create(u) ==
    \E id \in Clock \ used :
        /\ Cardinality(used) < MaxMessages
        /\ used' = used \cup {id}
        /\ Put(id, [author |-> u, writer |-> u])
        /\ UNCHANGED <<now, request, deleted, pagerVars>>

MayEdit_Anyone(row, u) == TRUE
MayEdit(row, u) == row.author = u
MayDelete(row, u) == row.author = u \/ u = Owner

\* PATCH and DELETE load the row and check it; a missing row is 404.
Load(r, kind, id, u) ==
    /\ request[r] = NoRequest
    /\ \E row \in Row :
        /\ Get(id, row)
        /\ IF kind = "edit" THEN MayEdit(row, u) ELSE MayDelete(row, u)
    /\ request' = [request EXCEPT ![r] = Job(kind, id, u)]
    /\ UNCHANGED <<now, rows, used, deleted, pagerVars>>

\* ... and then write what they loaded, whatever has happened since.
Write(r) ==
    /\ request[r] # NoRequest
    /\ \/ /\ request[r].kind = "edit"
          /\ UpdateContent(request[r].id, request[r].user)
          /\ UNCHANGED deleted
       \/ request[r].kind = "delete" /\ Delete(request[r].id)
    /\ request' = [request EXCEPT ![r] = NoRequest]
    /\ UNCHANGED <<now, used, pagerVars>>

WriteFails(r) ==
    /\ request[r] # NoRequest
    /\ request' = [request EXCEPT ![r] = NoRequest]
    /\ UNCHANGED <<now, rows, used, deleted, pagerVars>>

-----------------------------------------------------------------------------
(* Reading the history.                                                    *)

Start_NoMargin(clock, before) ==
    LET ceiling == Bucket(clock)
    IN IF before # -1 /\ Bucket(before) < ceiling THEN Bucket(before) ELSE ceiling

Start(clock, before) ==
    LET ceiling == Bucket(clock) + 1
    IN IF before # -1 /\ Bucket(before) < ceiling THEN Bucket(before) ELSE ceiling

BeginWalk(before) ==
    \E clock \in Clock :
        pager' = [pc |-> "walking", before |-> before, start |-> Start(clock, before),
                  bucket |-> Start(clock, before), page |-> {}]

\* loadMessages: the newest page.
Open ==
    /\ pager = Closed
    /\ BeginWalk(-1)
    /\ base' = Stored
    /\ UNCHANGED <<now, tableVars, got, dropped>>

\* loadOlder: before the oldest message still shown.
LoadOlder ==
    /\ pager = Waiting
    /\ \E oldest \in Shown : (\A i \in Shown : oldest <= i) /\ BeginWalk(oldest)
    /\ UNCHANGED <<now, tableVars, got, dropped, base>>

PageFull == Cardinality(pager.page) >= Limit
WalkOver == pager.bucket < MinBucket \/ PageFull

\* The LIMIT of the next query.
Remaining_Whole == Limit
Remaining == Limit - Cardinality(pager.page)

\* The rows of the bucket that the query asks for, and the LIMIT newest of them.
Matching ==
    {i \in Stored : Bucket(i) = pager.bucket
                    /\ (pager.before # -1 /\ pager.bucket = pager.start => i < pager.before)}

Newest(ids, n) ==
    {s \in SUBSET ids : /\ Cardinality(s) <= n
                        /\ s = ids \/ Cardinality(s) = n
                        /\ \A x \in s, y \in ids \ s : y < x}

QueryBucket ==
    /\ Walking /\ ~WalkOver
    /\ \E found \in Newest(Matching, Remaining) :
        pager' = [pager EXCEPT !.page = @ \cup found, !.bucket = @ - 1]
    /\ UNCHANGED <<now, tableVars, got, dropped, base>>

\* The page arrives; hasMore says whether it was full.
PageArrives ==
    /\ Walking /\ WalkOver
    /\ got' = got \cup pager.page
    /\ pager' = IF PageFull THEN Waiting ELSE Finished
    /\ UNCHANGED <<now, tableVars, dropped, base>>

\* A query fails: the page is asked for again from its first bucket.
ReadFails ==
    /\ Walking
    /\ pager' = IF pager.before = -1 THEN Closed ELSE Waiting
    /\ UNCHANGED <<now, tableVars, got, dropped, base>>

\* MESSAGE_DELETE takes a message off the client's list.
Drop(id) ==
    /\ id \in Shown \cap deleted
    /\ dropped' = dropped \cup {id}
    /\ UNCHANGED <<now, tableVars, pager, got, base>>

Next ==
    \/ Tick
    \/ \E u \in User : Create(u)
    \/ \E r \in Request, u \in User, id \in Stored, kind \in {"edit", "delete"} : Load(r, kind, id, u)
    \/ \E r \in Request : Write(r) \/ WriteFails(r)
    \/ Open \/ LoadOlder \/ QueryBucket \/ PageArrives \/ ReadFails
    \/ \E id \in Shown : Drop(id)

Spec == Init /\ [][Next]_vars

-----------------------------------------------------------------------------
(* Properties.                                                             *)

\* Messages that were there when the client began, that nobody has deleted
\* and whose bucket List reaches.
Steady == {i \in base \ deleted : MinBucket <= Bucket(i)}

\* Paging to the end shows every message that was there when it began and
\* was not deleted since, however the clocks of writers and readers differ
\* and whatever is created, edited and deleted between two queries.
PagingComplete == pager = Finished => Steady \subseteq Shown

\* Nothing is skipped on the way: what is not shown yet is older than all
\* that has been returned, so the next page can still reach it.
NoGaps == pager = Waiting => \A i \in Steady \ got : \A x \in got : i < x

\* A page holds only messages older than every one on screen: prepending it
\* neither repeats a message nor breaks the order.
PagesGoBack == Walking => \A x \in pager.page, y \in Shown : x < y

\* A deleted message never shows again as its author's: all that can come
\* back is the content of an edit that was past its checks when the message
\* was deleted, in a row without an author.
DeletedLoseAuthor == \A id \in Stored \cap deleted : rows[id].author = NoOne

\* Only its author decides what a message says, also when the owner deletes
\* it and edits overlap.
OwnWords == \A id \in Stored : rows[id].author \in {NoOne, rows[id].writer}

=============================================================================
