-------------------------- MODULE MessageStoreProofs --------------------------
(***************************************************************************)
(* For any bucket and page size, any clocks within Skew and any number of  *)
(* members and requests: paging misses nothing and repeats nothing, and    *)
(* nobody else's words appear under an author's name.                      *)
(*                                                                         *)
(* Paging rests on what a walk has settled: every steady message is        *)
(* returned already, or in a bucket still to be queried, or older than all *)
(* of a page that is full.                                                 *)
(*                                                                         *)
(* And for any throttle and any time a typing entry lasts, as long as the  *)
(* one plus the longest delay is under the other: who types is shown to    *)
(* type, and who does not is not shown for long.                           *)
(*                                                                         *)
(* And for any number of members, writes, clicks and pages: once all has   *)
(* arrived, the pill of an emoji shows the rows of the table.              *)
(*                                                                         *)
(* And of the client's list, what ChatClientProofs shows of any list.      *)
(***************************************************************************)
EXTENDS MCChannel, FiniteSetTheorems, TLAPS

USE OwnerAssumption, BucketAssumption, SkewAssumption, CreatedAtAssumption, LimitAssumption

-----------------------------------------------------------------------------
(* Buckets.                                                                *)

\* Buckets are natural numbers and follow the order of the ids.
LEMMA BucketOrder ==
    ASSUME NEW s \in Nat, NEW t \in Nat
    PROVE  /\ Bucket(s) \in Nat
           /\ s <= t => Bucket(s) <= Bucket(t)
           /\ Bucket(s) < Bucket(t) => s < t
           /\ s <= t + BucketSize => Bucket(s) <= Bucket(t) + 1
  <1> DEFINE a == s \div BucketSize
             b == t \div BucketSize
  <1>1. a \in Nat /\ BucketSize * a <= s /\ s < BucketSize * a + BucketSize
    BY Z3
  <1>2. b \in Nat /\ BucketSize * b <= t /\ t < BucketSize * b + BucketSize
    BY Z3
  <1>3. ASSUME s <= t  PROVE a <= b
    <2>1. SUFFICES ASSUME b + 1 <= a  PROVE FALSE
      BY <1>1, <1>2
    <2>2. BucketSize * (b + 1) <= BucketSize * a
      BY <1>1, <1>2, <2>1, Z3
    <2>3. QED
      BY <1>1, <1>2, <1>3, <2>2, Z3
  <1>4. ASSUME s <= t + BucketSize  PROVE a <= b + 1
    <2>1. SUFFICES ASSUME b + 2 <= a  PROVE FALSE
      BY <1>1, <1>2
    <2>2. BucketSize * (b + 2) <= BucketSize * a
      BY <1>1, <1>2, <2>1, Z3
    <2>3. QED
      BY <1>1, <1>2, <1>4, <2>2, Z3
  <1>5. ASSUME a < b  PROVE s < t
    <2>1. SUFFICES ASSUME t <= s  PROVE FALSE
      OBVIOUS
    <2>2. BucketSize * (a + 1) <= BucketSize * b
      BY <1>1, <1>2, <1>5, Z3
    <2>3. QED
      BY <1>1, <1>2, <2>1, <2>2, Z3
  <1>6. QED
    BY <1>1, <1>3, <1>4, <1>5 DEF Bucket

LEMMA MinBucketNat == MinBucket \in Nat
  BY BucketOrder DEF MinBucket

-----------------------------------------------------------------------------
(* The invariant.                                                          *)

\* Ids are close to the clocks, and requests only know ids that were drawn.
IdsInv ==
    /\ IsFiniteSet(used)
    /\ \A i \in used : i <= now + Skew
    /\ \A r \in Request : request[r] # NoRequest => request[r].id \in used
    /\ base \ deleted \subseteq Stored

\* Whatever has been returned is newer than what is still to come.
Frontier == \A i \in Steady \ got : \A x \in got : i < x

\* Each steady message is returned, still ahead, or left to the next page.
Settled(i) ==
    \/ i \in got \cup pager.page
    \/ Bucket(i) <= pager.bucket
    \/ Cardinality(pager.page) = Limit /\ \A x \in pager.page : i < x

\* What the walk's own fields say.
WalkInv ==
    /\ pager.bucket <= pager.start
    /\ IF pager.before = -1
       THEN got = {}
       ELSE /\ pager.before \in got
            /\ \A x \in Shown : pager.before <= x
            /\ pager.start <= Bucket(pager.before)
            /\ \A x \in pager.page : x < pager.before
    /\ \A x \in pager.page : pager.bucket < Bucket(x)
    /\ \A i \in Steady : Settled(i)

PagingInv ==
    /\ TypeOK
    /\ IdsInv
    /\ Frontier
    /\ pager = Closed => got = {}
    /\ Walking => WalkInv
    /\ pager = Finished => Steady \subseteq got

-----------------------------------------------------------------------------
(* Types.                                                                  *)

LEMMA PagerKinds ==
    /\ \A w \in Walk : w.pc = "walking" /\ w # Closed /\ w # Waiting /\ w # Finished
    /\ Closed.pc = "closed" /\ Waiting.pc = "idle" /\ Finished.pc = "done"
    /\ Closed # Waiting /\ Closed # Finished /\ Waiting # Finished
  BY DEF Walk, Closed, Waiting, Finished

LEMMA WalkingIsWalk ==
    ASSUME TypeOK
    PROVE  /\ Walking <=> pager \in Walk
           /\ Walking => pager # Closed /\ pager # Waiting /\ pager # Finished
  BY PagerKinds DEF TypeOK, Walking

\* A row put into the table keeps it a table.
LEMMA PutTyped ==
    ASSUME TypeOK, NEW id \in Nat, NEW row \in Row, Put(id, row)
    PROVE  /\ DOMAIN rows' = Stored \cup {id}
           /\ rows' \in [DOMAIN rows' -> Row]
           /\ rows'[id] = row
           /\ \A i \in Stored \ {id} : rows'[i] = rows[i]
  <1>1. rows' = [i \in Stored \cup {id} |-> IF i = id THEN row ELSE rows[i]]
    BY DEF Put
  <1>2. DOMAIN rows' = Stored \cup {id}
    BY <1>1
  <1>3. \A i \in Stored \cup {id} : (IF i = id THEN row ELSE rows[i]) \in Row
    BY DEF TypeOK
  <1>4. QED
    BY <1>1, <1>2, <1>3

\* The row an edit writes.
EditedRow(id, u) == [author |-> IF id \in Stored THEN rows[id].author ELSE NoOne, writer |-> u]

LEMMA EditTyped ==
    ASSUME TypeOK, NEW id \in Nat, NEW u \in User, UpdateContent(id, u)
    PROVE  EditedRow(id, u) \in Row /\ Put(id, EditedRow(id, u))
  BY DEF UpdateContent, EditedRow, Row, TypeOK

LEMMA DeleteTyped ==
    ASSUME TypeOK, NEW id, Delete(id)
    PROVE  /\ DOMAIN rows' = Stored \ {id}
           /\ rows' \in [DOMAIN rows' -> Row]
           /\ \A i \in Stored \ {id} : rows'[i] = rows[i]
           /\ deleted' = deleted \cup {id}
  BY DEF Delete, TypeOK

\* A pending request is one of the two kinds and names a user and an id.
LEMMA PendingTyped ==
    ASSUME TypeOK, NEW r \in Request, request[r] # NoRequest
    PROVE  /\ request[r].id \in Nat /\ request[r].kind \in {"edit", "delete"}
           /\ request[r].kind = "edit" => request[r].user \in User
  BY DEF TypeOK, Pending, NoRequest

\* A request that passes its checks is about to write the message it loaded.
LEMMA JobTyped ==
    ASSUME NEW kind \in {"edit", "delete"}, NEW id \in Nat, NEW u \in User
    PROVE  /\ Job(kind, id, u) \in Pending /\ Job(kind, id, u).id = id
           /\ Job(kind, id, u).kind = "edit" => kind = "edit" /\ Job(kind, id, u).user = u
  BY DEF Job, Pending

-----------------------------------------------------------------------------
(* The steps that touch the table.                                         *)

\* What keeps the pager's part when the table changes: the list does not,
\* and messages only leave Steady.
LEMMA PagerKept ==
    ASSUME PagingInv, UNCHANGED <<pager, got, base>>,
           deleted \subseteq deleted', dropped' = dropped \/ (dropped \subseteq dropped' /\ dropped' \subseteq got)
    PROVE  /\ Frontier'
           /\ (pager = Closed => got = {})'
           /\ (Walking => WalkInv)'
           /\ (pager = Finished => Steady \subseteq got)'
  <1>1. Steady' \subseteq Steady
    BY DEF Steady, MinBucket, Bucket
  <1>2. Shown' \subseteq Shown
    BY DEF Shown
  <1>3. Walking' <=> Walking
    BY DEF Walking
  <1>4. Frontier' /\ (pager = Closed => got = {})' /\ (pager = Finished => Steady \subseteq got)'
    BY <1>1 DEF PagingInv, Frontier
  <1>5. ASSUME WalkInv  PROVE WalkInv'
    <2>1. \A i : Settled(i) <=> Settled(i)'
      BY DEF Settled, Bucket
    <2>2. \A x : Bucket(x)' = Bucket(x)
      BY DEF Bucket
    <2>3. \A i \in Steady' : Settled(i)'
      BY <1>1, <1>5, <2>1 DEF WalkInv
    <2>4. QED
      BY <1>2, <1>5, <2>2, <2>3 DEF WalkInv
  <1>6. QED
    BY <1>3, <1>4, <1>5 DEF PagingInv

LEMMA TickKeeps == ASSUME PagingInv, Tick  PROVE PagingInv'
  <1>1. UNCHANGED <<rows, used, request, deleted, pager, got, dropped, base>> /\ now' = now + 1
    BY DEF Tick, tableVars, pagerVars
  <1>2. TypeOK'
    BY <1>1 DEF PagingInv, TypeOK, Walking, Stored
  <1>3. IdsInv'
    BY <1>1 DEF PagingInv, IdsInv, TypeOK, Stored
  <1>4. QED
    BY <1>1, <1>2, <1>3, PagerKept DEF PagingInv

LEMMA CreateKeeps == ASSUME PagingInv, NEW u \in User, Create(u)  PROVE PagingInv'
  <1>1. PICK id \in Clock \ used :
            used' = used \cup {id} /\ Put(id, [author |-> u, writer |-> u])
    BY DEF Create
  <1>2. UNCHANGED <<now, request, deleted, pager, got, dropped, base>>
    BY DEF Create, pagerVars
  <1>3. id \in Nat /\ id <= now + Skew
    BY DEF Clock, PagingInv, TypeOK
  <1>4. [author |-> u, writer |-> u] \in Row
    BY DEF Row
  <1>5. DOMAIN rows' = Stored \cup {id} /\ rows' \in [DOMAIN rows' -> Row]
    BY <1>1, <1>3, <1>4, PutTyped DEF PagingInv
  <1>6. TypeOK'
    BY <1>1, <1>2, <1>3, <1>5 DEF PagingInv, TypeOK, Stored, Walking
  <1>7. IdsInv'
    <2>1. IsFiniteSet(used')
      BY <1>1, FS_AddElement DEF PagingInv, IdsInv
    <2>2. QED
      BY <1>1, <1>2, <1>3, <1>5, <2>1 DEF PagingInv, IdsInv, Stored
  <1>8. QED
    BY <1>2, <1>6, <1>7, PagerKept DEF PagingInv

LEMMA LoadKeeps ==
    ASSUME PagingInv, NEW r \in Request, NEW u \in User, NEW id \in Stored,
           NEW kind \in {"edit", "delete"}, Load(r, kind, id, u)
    PROVE  PagingInv'
  <1>1. UNCHANGED <<now, rows, used, deleted, pager, got, dropped, base>>
        /\ request' = [request EXCEPT ![r] = Job(kind, id, u)]
    BY DEF Load, pagerVars
  <1>2. id \in used /\ id \in Nat
    BY DEF PagingInv, TypeOK
  <1>3. TypeOK'
    BY <1>1, <1>2, JobTyped DEF PagingInv, TypeOK, Stored, Walking
  <1>4. \A q \in Request : request'[q] # NoRequest => request'[q].id \in used
    <2>1. TAKE q \in Request
    <2>2. request'[q] = IF q = r THEN Job(kind, id, u) ELSE request[q]
      BY <1>1 DEF PagingInv, TypeOK
    <2>3. QED
      BY <1>2, <2>2, JobTyped DEF PagingInv, IdsInv
  <1>5. IdsInv'
    BY <1>1, <1>4 DEF PagingInv, IdsInv, Stored
  <1>6. QED
    BY <1>1, <1>3, <1>5, PagerKept DEF PagingInv

LEMMA WriteKeeps == ASSUME PagingInv, NEW r \in Request, Write(r)  PROVE PagingInv'
  <1> DEFINE id == request[r].id
             u == request[r].user
  <1>1. UNCHANGED <<now, used, pager, got, dropped, base>>
        /\ request' = [request EXCEPT ![r] = NoRequest] /\ request[r] # NoRequest
    BY DEF Write, pagerVars
  <1>2. id \in Nat /\ (request[r].kind = "edit" => u \in User) /\ id \in used
    BY <1>1, PendingTyped DEF PagingInv, IdsInv
  <1>3. /\ DOMAIN rows' \subseteq Stored \cup {id} /\ rows' \in [DOMAIN rows' -> Row]
        /\ deleted \subseteq deleted' /\ deleted' \subseteq deleted \cup {id}
        /\ Stored \ deleted' \subseteq DOMAIN rows'
    <2>1. CASE request[r].kind = "edit" /\ UpdateContent(id, u) /\ UNCHANGED deleted
      <3>1. EditedRow(id, u) \in Row /\ Put(id, EditedRow(id, u))
        BY <1>2, <2>1, EditTyped DEF PagingInv
      <3>2. DOMAIN rows' = Stored \cup {id} /\ rows' \in [DOMAIN rows' -> Row]
        BY <1>2, <3>1, PutTyped DEF PagingInv
      <3>3. QED
        BY <2>1, <3>2
    <2>2. CASE Delete(id)
      BY <2>2, DeleteTyped DEF PagingInv
    <2>3. QED
      BY <2>1, <2>2 DEF Write
  <1>4. TypeOK'
    BY <1>1, <1>2, <1>3 DEF PagingInv, TypeOK, Stored, Walking
  <1>5. IdsInv'
    <2>1. \A q \in Request : request'[q] # NoRequest => request'[q].id \in used
      BY <1>1 DEF PagingInv, IdsInv, TypeOK
    <2>2. base \ deleted' \subseteq DOMAIN rows'
      BY <1>3 DEF PagingInv, IdsInv
    <2>3. QED
      BY <1>1, <2>1, <2>2 DEF PagingInv, IdsInv, Stored
  <1>6. QED
    BY <1>1, <1>3, <1>4, <1>5, PagerKept DEF PagingInv

LEMMA WriteFailsKeeps == ASSUME PagingInv, NEW r \in Request, WriteFails(r)  PROVE PagingInv'
  <1>1. UNCHANGED <<now, rows, used, deleted, pager, got, dropped, base>>
        /\ request' = [request EXCEPT ![r] = NoRequest]
    BY DEF WriteFails, pagerVars
  <1>2. TypeOK'
    BY <1>1 DEF PagingInv, TypeOK, Stored, Walking
  <1>3. \A q \in Request : request'[q] # NoRequest => request'[q].id \in used
    BY <1>1 DEF PagingInv, IdsInv, TypeOK
  <1>4. IdsInv'
    BY <1>1, <1>3 DEF PagingInv, IdsInv, Stored
  <1>5. QED
    BY <1>1, <1>2, <1>4, PagerKept DEF PagingInv

LEMMA DropKeeps == ASSUME PagingInv, NEW id \in Shown, Drop(id)  PROVE PagingInv'
  <1>1. UNCHANGED <<now, rows, used, request, deleted, pager, got, base>>
        /\ dropped' = dropped \cup {id} /\ id \in got \cap deleted
    BY DEF Drop, tableVars, Shown
  <1>2. TypeOK'
    BY <1>1 DEF PagingInv, TypeOK, Stored, Walking
  <1>3. IdsInv'
    BY <1>1 DEF PagingInv, IdsInv, Stored
  <1>4. QED
    BY <1>1, <1>2, <1>3, PagerKept DEF PagingInv, TypeOK

-----------------------------------------------------------------------------
(* The steps of a walk.                                                    *)

\* A walk starts at or above the bucket of every message it has to find.
LEMMA BeginReaches ==
    ASSUME PagingInv, NEW before \in got \cup {-1}, before = -1 => got = {},
           NEW clock \in Clock, NEW i \in used \ got,
           \A x \in got : i < x
    PROVE  /\ Start(clock, before) \in Int
           /\ Bucket(i) <= Start(clock, before)
           /\ before # -1 => Start(clock, before) <= Bucket(before)
  <1>1. clock \in Nat /\ i \in Nat /\ i <= clock + BucketSize /\ (before # -1 => before \in Nat)
    <2>1. now \in Nat /\ i \in Nat /\ i <= now + Skew /\ got \subseteq Nat
      BY DEF PagingInv, TypeOK, IdsInv
    <2>2. clock \in Int /\ now - Skew <= clock /\ 0 <= clock
      BY <2>1 DEF Clock
    <2>3. QED
      BY <2>1, <2>2
  <1>2. Bucket(clock) \in Nat /\ Bucket(i) \in Nat /\ Bucket(i) <= Bucket(clock) + 1
    BY <1>1, BucketOrder
  <1>3. ASSUME before # -1
        PROVE  Bucket(before) \in Nat /\ Bucket(i) <= Bucket(before)
    <2>1. i < before
      BY <1>3
    <2>2. QED
      BY <1>1, <1>3, <2>1, BucketOrder
  <1>4. QED
    BY <1>2, <1>3 DEF Start

\* The start of a walk is a bucket, also when there is nothing to find.
LEMMA StartTyped ==
    ASSUME PagingInv, NEW before \in got \cup {-1}, NEW clock \in Clock
    PROVE  /\ Start(clock, before) \in Int
           /\ before # -1 => Start(clock, before) <= Bucket(before)
  <1>1. clock \in Nat /\ (before # -1 => before \in Nat)
    <2>1. now \in Nat /\ got \subseteq Nat
      BY DEF PagingInv, TypeOK
    <2>2. QED
      BY <2>1 DEF Clock
  <1>2. Bucket(clock) \in Nat /\ (before # -1 => Bucket(before) \in Nat)
    BY <1>1, BucketOrder
  <1>3. QED
    <2>1. CASE before # -1 /\ Bucket(before) < Bucket(clock) + 1
      BY <1>2, <2>1 DEF Start
    <2>2. CASE ~(before # -1 /\ Bucket(before) < Bucket(clock) + 1)
      BY <1>2, <2>2 DEF Start
    <2>3. QED
      BY <2>1, <2>2

\* Beginning a walk establishes what is known of it.
LEMMA BeginKeeps ==
    ASSUME PagingInv, NEW before \in got \cup {-1}, before = -1 => got = {},
           before # -1 => \A x \in Shown : before <= x,
           BeginWalk(before), UNCHANGED <<now, rows, used, request, deleted, got, dropped>>,
           base' \subseteq used, base' \ deleted \subseteq Stored,
           \A i \in base' \ got : \A x \in got : MinBucket <= Bucket(i) /\ i \notin deleted => i < x
    PROVE  PagingInv'
  <1>1. PICK clock \in Clock :
            pager' = [pc |-> "walking", before |-> before, start |-> Start(clock, before),
                      bucket |-> Start(clock, before), page |-> {}]
    BY DEF BeginWalk
  <1> DEFINE start == Start(clock, before)
  <1>2. start \in Int /\ (before # -1 => start <= Bucket(before))
    BY StartTyped
  <1>3. pager' \in Walk /\ before \in Nat \cup {-1}
    BY <1>1, <1>2 DEF Walk, PagingInv, TypeOK
  <1>4. /\ pager'.before = before /\ pager'.start = start /\ pager'.bucket = start /\ pager'.page = {}
        /\ pager' # Closed /\ pager' # Waiting /\ pager' # Finished
    BY <1>1, <1>3, PagerKinds
  <1>5. TypeOK'
    BY <1>3, <1>4, FS_EmptySet DEF PagingInv, TypeOK, Stored, Walking
  <1>6. IdsInv'
    BY DEF PagingInv, IdsInv, Stored
  <1>7. Frontier'
    BY DEF Frontier, Steady, MinBucket, Bucket
  <1>8. WalkInv'
    <2>1. ASSUME NEW i \in Steady'  PROVE Settled(i)'
      <3>1. CASE i \in got
        BY <3>1 DEF Settled
      <3>2. CASE i \notin got
        <4>1. i \in used \ got /\ \A x \in got : i < x
          BY <3>2 DEF Steady, MinBucket, Bucket
        <4>2. Bucket(i) <= start
          BY <4>1, BeginReaches
        <4>3. QED
          BY <1>4, <4>2 DEF Settled, Bucket
      <3>3. QED
        BY <3>1, <3>2
    <2>2. Shown' = Shown /\ \A x : Bucket(x)' = Bucket(x)
      BY DEF Shown, Bucket
    <2>3. QED
      BY <1>2, <1>4, <2>1, <2>2 DEF WalkInv
  <1>9. QED
    BY <1>4, <1>5, <1>6, <1>7, <1>8 DEF PagingInv

LEMMA OpenKeeps == ASSUME PagingInv, Open  PROVE PagingInv'
  <1>1. UNCHANGED <<now, rows, used, request, deleted, got, dropped>>
    BY DEF Open, tableVars
  <1>2. base' = Stored /\ got = {} /\ BeginWalk(-1)
    BY DEF Open, PagingInv
  <1>3. base' \subseteq used /\ base' \ deleted \subseteq Stored
    BY <1>2 DEF PagingInv, TypeOK
  <1>4. QED
    BY <1>1, <1>2, <1>3, BeginKeeps

LEMMA LoadOlderKeeps == ASSUME PagingInv, LoadOlder  PROVE PagingInv'
  <1>1. UNCHANGED <<now, rows, used, request, deleted, got, dropped, base>>
    BY DEF LoadOlder, tableVars
  <1>2. PICK oldest \in Shown : (\A i \in Shown : oldest <= i) /\ BeginWalk(oldest)
    BY DEF LoadOlder
  <1>3. oldest \in got /\ oldest # -1
    BY <1>2 DEF Shown, PagingInv, TypeOK
  <1>4. base' \subseteq used /\ base' \ deleted \subseteq Stored
    BY <1>1 DEF PagingInv, TypeOK, IdsInv
  <1>5. \A i \in base' \ got : \A x \in got : MinBucket <= Bucket(i) /\ i \notin deleted => i < x
    BY <1>1 DEF PagingInv, Frontier, Steady
  <1>6. QED
    BY <1>1, <1>2, <1>3, <1>4, <1>5, BeginKeeps

LEMMA ReadFailsKeeps == ASSUME PagingInv, ReadFails  PROVE PagingInv'
  <1>1. UNCHANGED <<now, rows, used, request, deleted, got, dropped, base>>
    BY DEF ReadFails, tableVars
  <1>2. Walking /\ pager' = IF pager.before = -1 THEN Closed ELSE Waiting
    BY DEF ReadFails
  <1>3. pager' \in {Closed, Waiting} /\ ~(pager'.pc = "walking") /\ pager' # Finished
    BY <1>2, PagerKinds
  <1>4. pager' = Closed => got = {}
    BY <1>2, PagerKinds DEF PagingInv, WalkInv
  <1>5. TypeOK'
    BY <1>1, <1>3 DEF PagingInv, TypeOK, Stored, Walking
  <1>6. IdsInv' /\ Frontier'
    BY <1>1 DEF PagingInv, IdsInv, Stored, Frontier, Steady, MinBucket, Bucket
  <1>7. QED
    BY <1>1, <1>3, <1>4, <1>5, <1>6 DEF PagingInv, Walking

\* A query returns what is in its bucket and older than the page it continues.
LEMMA FoundIsRight ==
    ASSUME PagingInv, Walking, NEW found \in Newest(Matching, Remaining)
    PROVE  /\ found \subseteq Matching /\ IsFiniteSet(found)
           /\ \A x \in found : Bucket(x) = pager.bucket
           /\ pager.before # -1 => \A x \in found : x < pager.before
  <1>1. found \subseteq Matching /\ Matching \subseteq used /\ used \subseteq Nat
    BY DEF Newest, Matching, PagingInv, TypeOK
  <1>2. IsFiniteSet(found)
    BY <1>1, FS_Subset DEF PagingInv, IdsInv
  <1>3. \A x \in found : Bucket(x) = pager.bucket
    BY <1>1 DEF Matching
  <1>4. ASSUME pager.before # -1, NEW x \in found  PROVE x < pager.before
    <2>1. pager.before \in Nat /\ x \in Nat /\ pager.bucket \in Int /\ pager.start \in Int
      BY <1>1, <1>4, WalkingIsWalk DEF PagingInv, Walk
    <2>2. pager.bucket <= pager.start /\ pager.start <= Bucket(pager.before)
      BY <1>4 DEF PagingInv, WalkInv
    <2>3. CASE pager.bucket = pager.start
      BY <1>1, <1>4, <2>3 DEF Matching
    <2>4. CASE pager.bucket < pager.start
      <3>1. Bucket(x) < Bucket(pager.before)
        BY <1>3, <2>1, <2>2, <2>4, BucketOrder
      <3>2. QED
        BY <2>1, <3>1, BucketOrder
    <2>5. QED
      BY <2>1, <2>2, <2>3, <2>4
  <1>5. QED
    BY <1>1, <1>2, <1>3, <1>4

\* A query that leaves something out has filled the page.
LEMMA FoundFills ==
    ASSUME PagingInv, Walking, ~PageFull, NEW found \in Newest(Matching, Remaining)
    PROVE  /\ Cardinality(pager.page \cup found) <= Limit
           /\ found # Matching => Cardinality(pager.page \cup found) = Limit
  <1>1. IsFiniteSet(found) /\ IsFiniteSet(pager.page)
    <2>1. pager.page \subseteq used
      BY DEF PagingInv, TypeOK
    <2>2. QED
      BY <2>1, FoundIsRight, FS_Subset DEF PagingInv, IdsInv
  <1>2. pager.page \cap found = {}
    <2>1. \A x \in pager.page : pager.bucket < Bucket(x)
      BY DEF PagingInv, WalkInv
    <2>2. \A x \in found : Bucket(x) = pager.bucket
      BY FoundIsRight
    <2>3. pager.bucket \in Int
      BY WalkingIsWalk DEF PagingInv, Walk
    <2>4. QED
      BY <2>1, <2>2, <2>3
  <1>3. Cardinality(found) \in Nat /\ Cardinality(pager.page) \in Nat
    BY <1>1, FS_CardinalityType
  <1>4. Cardinality(pager.page \cup found) = Cardinality(pager.page) + Cardinality(found)
    <2>1. Cardinality(pager.page \cup found)
            = Cardinality(pager.page) + Cardinality(found) - Cardinality(pager.page \cap found)
      BY <1>1, FS_Union
    <2>2. Cardinality(pager.page \cap found) = 0
      BY <1>2, FS_EmptySet
    <2>3. QED
      BY <1>3, <2>1, <2>2
  <1>5. /\ Cardinality(found) <= Limit - Cardinality(pager.page)
        /\ found # Matching => Cardinality(found) = Limit - Cardinality(pager.page)
    BY DEF Newest, Remaining
  <1>6. QED
    BY <1>3, <1>4, <1>5

\* After the query of a bucket nothing in it is left unsettled.
LEMMA QuerySettles ==
    ASSUME PagingInv, Walking, ~PageFull, NEW found \in Newest(Matching, Remaining),
           NEW i \in Steady
    PROVE  \/ i \in got \cup pager.page \cup found
           \/ Bucket(i) <= pager.bucket - 1
           \/ Cardinality(pager.page \cup found) = Limit /\ \A x \in pager.page \cup found : i < x
  <1>1. /\ i \in Nat /\ pager.bucket \in Int /\ Bucket(i) \in Nat
        /\ pager.page \subseteq Nat /\ found \subseteq Nat
    <2>1. i \in used /\ used \subseteq Nat /\ pager.page \subseteq used
      BY DEF Steady, PagingInv, TypeOK
    <2>2. found \subseteq used
      BY FoundIsRight DEF Matching, PagingInv, TypeOK
    <2>3. QED
      BY <2>1, <2>2, BucketOrder, WalkingIsWalk DEF PagingInv, Walk
  <1>2. Settled(i) /\ Cardinality(pager.page) # Limit
    BY DEF PagingInv, WalkInv, PageFull
  <1>3. CASE i \in got \cup pager.page \/ Bucket(i) < pager.bucket
    BY <1>1, <1>3
  <1>4. CASE i \notin got \cup pager.page /\ Bucket(i) = pager.bucket
    <2>1. i \in Matching
      <3>1. i \in Stored
        BY DEF Steady, PagingInv, IdsInv
      <3>2. pager.before # -1 => i < pager.before
        BY <1>4 DEF PagingInv, WalkInv, Frontier
      <3>3. QED
        BY <1>4, <3>1, <3>2 DEF Matching
    <2>2. CASE i \in found
      BY <2>2
    <2>3. CASE i \notin found
      <3>1. found # Matching /\ \A x \in found : i < x
        BY <2>1, <2>3 DEF Newest
      <3>2. \A x \in pager.page : i < x
        <4>1. TAKE x \in pager.page
        <4>2. Bucket(i) < Bucket(x)
          BY <1>4 DEF PagingInv, WalkInv
        <4>3. QED
          BY <1>1, <4>2, BucketOrder
      <3>3. QED
        BY <3>1, <3>2, FoundFills
    <2>4. QED
      BY <2>2, <2>3
  <1>5. QED
    BY <1>1, <1>2, <1>3, <1>4 DEF Settled

LEMMA QueryKeeps == ASSUME PagingInv, QueryBucket  PROVE PagingInv'
  <1>1. UNCHANGED <<now, rows, used, request, deleted, got, dropped, base>> /\ Walking /\ ~PageFull
    BY DEF QueryBucket, tableVars, WalkOver
  <1>2. PICK found \in Newest(Matching, Remaining) :
            pager' = [pager EXCEPT !.page = @ \cup found, !.bucket = @ - 1]
    BY DEF QueryBucket
  <1>3. pager \in Walk /\ found \subseteq used /\ used \subseteq Nat
    BY <1>1, FoundIsRight, WalkingIsWalk DEF PagingInv, Matching, TypeOK
  <1>4. /\ pager' \in Walk
        /\ pager'.before = pager.before /\ pager'.start = pager.start
        /\ pager'.bucket = pager.bucket - 1 /\ pager'.page = pager.page \cup found
    <2>1. pager.bucket - 1 \in Int /\ pager.page \cup found \in SUBSET Nat
      <3>1. pager.bucket \in Int /\ pager.page \subseteq Nat
        BY <1>3 DEF Walk
      <3>2. pager.page \cup found \subseteq Nat
        BY <1>3, <3>1
      <3>3. QED
        BY <3>1, <3>2
    <2>2. pager = [pc |-> pager.pc, before |-> pager.before, start |-> pager.start,
                   bucket |-> pager.bucket, page |-> pager.page]
      BY <1>3 DEF Walk
    <2>3. pager' = [pc |-> pager.pc, before |-> pager.before, start |-> pager.start,
                    bucket |-> pager.bucket - 1, page |-> pager.page \cup found]
      BY <1>2, <2>2
    <2>4. QED
      BY <1>3, <2>1, <2>3 DEF Walk
  <1>5. pager' # Closed /\ pager' # Waiting /\ pager' # Finished
    BY <1>4, PagerKinds
  <1>6. TypeOK'
    BY <1>1, <1>3, <1>4, FoundFills DEF PagingInv, TypeOK, Stored, Walking
  <1>7. IdsInv' /\ Frontier'
    BY <1>1 DEF PagingInv, IdsInv, Stored, Frontier, Steady, MinBucket, Bucket
  <1>8. WalkInv'
    <2>1. /\ pager.bucket \in Int /\ pager.start \in Int /\ pager.page \subseteq Nat
      BY <1>1, <1>3 DEF Walk, PagingInv, TypeOK
    <2>2. Steady' = Steady /\ Shown' = Shown /\ \A x : Bucket(x)' = Bucket(x)
      BY <1>1 DEF Steady, Shown, MinBucket, Bucket
    <2>3. \A i \in Steady' : Settled(i)'
      BY <1>1, <1>4, <2>2, QuerySettles DEF Settled
    <2>4. \A x \in pager'.page : pager'.bucket < Bucket(x)
      <3>1. TAKE x \in pager'.page
      <3>2. Bucket(x) \in Nat
        BY <1>3, <1>4, <2>1, BucketOrder
      <3>3. pager.bucket <= Bucket(x)
        BY <1>1, <1>4, <2>1, <3>2, FoundIsRight DEF PagingInv, WalkInv
      <3>4. QED
        BY <1>4, <2>1, <3>2, <3>3
    <2>5. pager.before # -1 => \A x \in pager'.page : x < pager.before
      BY <1>1, <1>4, FoundIsRight DEF PagingInv, WalkInv
    <2>6. QED
      BY <1>1, <1>4, <2>1, <2>2, <2>3, <2>4, <2>5 DEF PagingInv, WalkInv
  <1>9. QED
    BY <1>4, <1>5, <1>6, <1>7, <1>8 DEF PagingInv

LEMMA PageArrivesKeeps == ASSUME PagingInv, PageArrives  PROVE PagingInv'
  <1>1. /\ UNCHANGED <<now, rows, used, request, deleted, dropped, base>>
        /\ Walking /\ WalkOver /\ got' = got \cup pager.page
        /\ pager' = IF PageFull THEN Waiting ELSE Finished
    BY DEF PageArrives, tableVars
  <1>2. pager' \in {Waiting, Finished} /\ ~(pager'.pc = "walking") /\ pager' # Closed
    BY <1>1, PagerKinds
  <1>3. pager.page \subseteq used /\ used \subseteq Nat /\ pager \in Walk
    BY <1>1, WalkingIsWalk DEF PagingInv, TypeOK
  <1>4. TypeOK'
    BY <1>1, <1>2, <1>3 DEF PagingInv, TypeOK, Stored, Walking
  <1>5. IdsInv'
    BY <1>1 DEF PagingInv, IdsInv, Stored
  <1>6. Steady' = Steady /\ Steady \subseteq Nat
    BY <1>1, <1>3 DEF Steady, MinBucket, Bucket, PagingInv, TypeOK
  <1>7. ASSUME NEW i \in Steady, i \notin got'
        PROVE  PageFull /\ \A x \in got' : i < x
    <2>1. \A x \in got : i < x
      BY <1>1, <1>7 DEF PagingInv, Frontier
    <2>2. Settled(i) /\ i \notin got \cup pager.page
      BY <1>1, <1>7 DEF PagingInv, WalkInv
    <2>3. CASE Bucket(i) <= pager.bucket
      <3>1. \A x \in pager.page : i < x
        <4>1. TAKE x \in pager.page
        <4>2. pager.bucket < Bucket(x)
          BY <1>1 DEF PagingInv, WalkInv
        <4>3. i \in Nat /\ x \in Nat /\ pager.bucket \in Int /\ Bucket(i) \in Nat /\ Bucket(x) \in Nat
          BY <1>3, <1>6, BucketOrder DEF Walk
        <4>4. Bucket(i) < Bucket(x)
          BY <2>3, <4>2, <4>3
        <4>5. QED
          BY <4>3, <4>4, BucketOrder
      <3>2. ~(pager.bucket < MinBucket)
        <4>1. i \in Nat /\ pager.bucket \in Int /\ Bucket(i) \in Nat /\ MinBucket <= Bucket(i)
          BY <1>3, <1>6, BucketOrder DEF Walk, Steady
        <4>2. QED
          BY <2>3, <4>1, MinBucketNat
      <3>3. QED
        BY <1>1, <2>1, <3>1, <3>2 DEF WalkOver
    <2>4. CASE Cardinality(pager.page) = Limit /\ \A x \in pager.page : i < x
      BY <1>1, <2>1, <2>4 DEF PageFull
    <2>5. QED
      BY <2>2, <2>3, <2>4 DEF Settled
  <1>8. Frontier'
    BY <1>6, <1>7 DEF Frontier
  <1>9. pager' = Finished => Steady' \subseteq got'
    BY <1>1, <1>6, <1>7, PagerKinds
  <1>10. QED
    BY <1>2, <1>4, <1>5, <1>8, <1>9 DEF PagingInv, Walking

-----------------------------------------------------------------------------
(* The theorems about paging.                                              *)

LEMMA PagingInit == Init => PagingInv
  <1> SUFFICES ASSUME Init PROVE PagingInv
    OBVIOUS
  <1>1. TypeOK /\ ~Walking /\ pager # Finished
    BY PagerKinds DEF Init, TypeOK, Stored, Walking
  <1>2. IdsInv
    BY FS_EmptySet DEF Init, IdsInv
  <1>3. QED
    BY <1>1, <1>2 DEF Init, PagingInv, Frontier

LEMMA PagingStutters == ASSUME PagingInv, UNCHANGED vars  PROVE PagingInv'
  <1>1. UNCHANGED <<now, rows, used, request, deleted, pager, got, dropped, base>>
    BY DEF vars
  <1>2. TypeOK' /\ IdsInv'
    BY <1>1 DEF PagingInv, TypeOK, IdsInv, Stored, Walking
  <1>3. QED
    BY <1>1, <1>2, PagerKept DEF PagingInv

\* Types, the spread of ids, and what a walk has settled are invariant.
THEOREM PagingInvariant == Spec => []PagingInv
  <1>1. PagingInv /\ [Next]_vars => PagingInv'
    <2> SUFFICES ASSUME PagingInv, [Next]_vars  PROVE PagingInv'
      OBVIOUS
    <2>1. CASE Tick
      BY <2>1, TickKeeps
    <2>2. ASSUME NEW u \in User, Create(u)  PROVE PagingInv'
      BY <2>2, CreateKeeps
    <2>3. ASSUME NEW r \in Request, NEW u \in User, NEW id \in Stored,
                 NEW kind \in {"edit", "delete"}, Load(r, kind, id, u)
          PROVE  PagingInv'
      BY <2>3, LoadKeeps
    <2>4. ASSUME NEW r \in Request, Write(r) \/ WriteFails(r)  PROVE PagingInv'
      BY <2>4, WriteKeeps, WriteFailsKeeps
    <2>5. CASE Open \/ LoadOlder \/ QueryBucket \/ PageArrives \/ ReadFails
      BY <2>5, OpenKeeps, LoadOlderKeeps, QueryKeeps, PageArrivesKeeps, ReadFailsKeeps
    <2>6. ASSUME NEW id \in Shown, Drop(id)  PROVE PagingInv'
      BY <2>6, DropKeeps
    <2>7. CASE UNCHANGED vars
      BY <2>7, PagingStutters
    <2>8. QED
      BY <2>1, <2>2, <2>3, <2>4, <2>5, <2>6, <2>7 DEF Next
  <1>2. QED
    BY <1>1, PagingInit, PTL DEF Spec

\* The variables have their types, and a page is never longer than asked for.
THEOREM MessageTypes == Spec => []TypeOK
  <1>1. PagingInv => TypeOK
    BY DEF PagingInv
  <1>2. QED
    BY <1>1, PagingInvariant, PTL

\* Paging to the end shows every message that stayed.
THEOREM PagingIsComplete == Spec => []PagingComplete
  <1>1. PagingInv => PagingComplete
    BY DEF PagingInv, PagingComplete, Shown, Steady, TypeOK
  <1>2. QED
    BY <1>1, PagingInvariant, PTL

\* Nothing is skipped between two pages.
THEOREM NothingSkipped == Spec => []NoGaps
  <1>1. PagingInv => NoGaps
    BY DEF PagingInv, NoGaps, Frontier
  <1>2. QED
    BY <1>1, PagingInvariant, PTL

\* A page is older than all that is shown, so prepending it repeats nothing.
THEOREM PagesAreOlder == Spec => []PagesGoBack
  <1>1. PagingInv => PagesGoBack
    <2> SUFFICES ASSUME PagingInv, Walking, NEW x \in pager.page, NEW y \in Shown  PROVE x < y
      BY DEF PagesGoBack
    <2>1. pager.before # -1 /\ pager.before <= y /\ x < pager.before
      BY DEF PagingInv, WalkInv, Shown
    <2>2. x \in Nat /\ y \in Nat /\ pager.before \in Nat
      BY <2>1, WalkingIsWalk DEF PagingInv, TypeOK, Shown, Walk
    <2>3. QED
      BY <2>1, <2>2
  <1>2. QED
    BY <1>1, PagingInvariant, PTL

-----------------------------------------------------------------------------
(* Whose words a row holds.                                                *)

\* An edit under way is by the author of its message, if the row still has one.
EditsByAuthor ==
    \A r \in Request : request[r] # NoRequest /\ request[r].kind = "edit" /\ request[r].id \in Stored
        => rows[request[r].id].author \in {request[r].user, NoOne}

AuthorInv == PagingInv /\ EditsByAuthor /\ DeletedLoseAuthor /\ OwnWords

LEMMA AuthorInit == Init => AuthorInv
  BY PagingInit DEF Init, AuthorInv, EditsByAuthor, DeletedLoseAuthor, OwnWords, Stored

LEMMA AuthorKept ==
    ASSUME AuthorInv, PagingInv', UNCHANGED <<rows, request, deleted>>
    PROVE  AuthorInv'
  BY DEF AuthorInv, EditsByAuthor, DeletedLoseAuthor, OwnWords, Stored

LEMMA AuthorCreate == ASSUME AuthorInv, NEW u \in User, Create(u)  PROVE AuthorInv'
  <1>1. PICK id \in Clock \ used :
            used' = used \cup {id} /\ Put(id, [author |-> u, writer |-> u])
    BY DEF Create
  <1>2. UNCHANGED <<request, deleted>> /\ PagingInv /\ PagingInv'
    BY CreateKeeps DEF Create, AuthorInv
  <1>3. id \in Nat /\ [author |-> u, writer |-> u] \in Row
    BY DEF Clock, Row, AuthorInv, PagingInv, TypeOK
  <1>4. /\ DOMAIN rows' = Stored \cup {id} /\ rows'[id] = [author |-> u, writer |-> u]
        /\ \A i \in Stored \ {id} : rows'[i] = rows[i]
    BY <1>1, <1>2, <1>3, PutTyped DEF PagingInv
  <1>5. id \notin deleted /\ \A r \in Request : request[r] # NoRequest => request[r].id # id
    BY <1>2 DEF PagingInv, TypeOK, IdsInv
  <1>6. DeletedLoseAuthor' /\ OwnWords'
    BY <1>2, <1>4, <1>5 DEF AuthorInv, DeletedLoseAuthor, OwnWords, Stored
  <1>7. EditsByAuthor'
    BY <1>2, <1>4, <1>5 DEF AuthorInv, EditsByAuthor, Stored
  <1>8. QED
    BY <1>2, <1>6, <1>7 DEF AuthorInv

LEMMA AuthorLoad ==
    ASSUME AuthorInv, NEW r \in Request, NEW u \in User, NEW id \in Stored,
           NEW kind \in {"edit", "delete"}, Load(r, kind, id, u)
    PROVE  AuthorInv'
  <1>1. /\ UNCHANGED <<rows, deleted>> /\ PagingInv /\ PagingInv'
        /\ request' = [request EXCEPT ![r] = Job(kind, id, u)]
    BY LoadKeeps DEF Load, AuthorInv
  <1>2. kind = "edit" => rows[id].author = u
    BY DEF Load, Get, MayEdit
  <1>3. \A q \in Request :
            request'[q] = IF q = r THEN Job(kind, id, u) ELSE request[q]
    BY <1>1 DEF PagingInv, TypeOK
  <1>4. id \in Nat
    BY DEF AuthorInv, PagingInv, TypeOK
  <1>5. EditsByAuthor'
    BY <1>1, <1>2, <1>3, <1>4, JobTyped DEF AuthorInv, EditsByAuthor, Stored
  <1>6. QED
    BY <1>1, <1>5 DEF AuthorInv, DeletedLoseAuthor, OwnWords, Stored

LEMMA AuthorRequestEnds ==
    ASSUME AuthorInv, PagingInv', NEW r \in Request,
           request' = [request EXCEPT ![r] = NoRequest],
           DOMAIN rows' \subseteq Stored \/ \E id \in Nat : DOMAIN rows' \subseteq Stored \cup {id},
           \A q \in Request : request'[q] # NoRequest /\ request[q].id \in DOMAIN rows' =>
               \/ rows'[request[q].id].author = NoOne
               \/ request[q].id \in Stored /\ rows'[request[q].id].author = rows[request[q].id].author,
           DeletedLoseAuthor', OwnWords'
    PROVE  AuthorInv'
  <1>1. \A q \in Request : request'[q] = IF q = r THEN NoRequest ELSE request[q]
    BY DEF AuthorInv, PagingInv, TypeOK
  <1>2. EditsByAuthor'
    BY <1>1 DEF AuthorInv, EditsByAuthor, Stored
  <1>3. QED
    BY <1>2 DEF AuthorInv

LEMMA AuthorWrite == ASSUME AuthorInv, NEW r \in Request, Write(r)  PROVE AuthorInv'
  <1> DEFINE id == request[r].id
             u == request[r].user
             row == EditedRow(id, u)
  <1>1. /\ PagingInv /\ PagingInv' /\ request[r] # NoRequest
        /\ request' = [request EXCEPT ![r] = NoRequest]
    BY WriteKeeps DEF Write, AuthorInv
  <1>2. id \in Nat /\ (request[r].kind = "edit" => u \in User)
    BY <1>1, PendingTyped DEF PagingInv
  <1>3. CASE request[r].kind = "edit" /\ UpdateContent(id, u) /\ UNCHANGED deleted
    <2>1. row \in Row /\ Put(id, row)
      BY <1>1, <1>2, <1>3, EditTyped DEF PagingInv
    <2>2. /\ DOMAIN rows' = Stored \cup {id} /\ rows'[id] = row
          /\ \A i \in Stored \ {id} : rows'[i] = rows[i]
      BY <1>1, <1>2, <2>1, PutTyped DEF PagingInv
    <2>3. /\ row.writer = u
          /\ id \in Stored => row.author = rows[id].author
          /\ id \notin Stored => row.author = NoOne
      BY DEF EditedRow
    <2>4. row.author \in {u, NoOne}
      BY <1>1, <1>3, <2>3 DEF AuthorInv, EditsByAuthor
    <2>5. DeletedLoseAuthor'
      BY <1>3, <2>2, <2>3 DEF AuthorInv, DeletedLoseAuthor, Stored
    <2>6. OwnWords'
      BY <2>2, <2>3, <2>4 DEF AuthorInv, OwnWords, Stored
    <2>7. QED
      BY <1>1, <1>2, <2>2, <2>3, <2>5, <2>6, AuthorRequestEnds
  <1>4. CASE Delete(id)
    <2>1. /\ DOMAIN rows' = Stored \ {id} /\ deleted' = deleted \cup {id}
          /\ \A i \in Stored \ {id} : rows'[i] = rows[i]
      BY <1>1, <1>4, DeleteTyped DEF PagingInv
    <2>2. DeletedLoseAuthor' /\ OwnWords'
      BY <2>1 DEF AuthorInv, DeletedLoseAuthor, OwnWords, Stored
    <2>3. QED
      BY <1>1, <2>1, <2>2, AuthorRequestEnds
  <1>5. QED
    BY <1>3, <1>4 DEF Write

LEMMA AuthorWriteFails == ASSUME AuthorInv, NEW r \in Request, WriteFails(r)  PROVE AuthorInv'
  <1>1. /\ PagingInv' /\ UNCHANGED <<rows, deleted>>
        /\ request' = [request EXCEPT ![r] = NoRequest]
    BY WriteFailsKeeps DEF WriteFails, AuthorInv
  <1>2. DeletedLoseAuthor' /\ OwnWords'
    BY <1>1 DEF AuthorInv, DeletedLoseAuthor, OwnWords, Stored
  <1>3. QED
    BY <1>1, <1>2, AuthorRequestEnds DEF Stored

\* Authors of rows, and of the edits under way, are invariant.
THEOREM AuthorInvariant == Spec => []AuthorInv
  <1>1. AuthorInv /\ [Next]_vars => AuthorInv'
    <2> SUFFICES ASSUME AuthorInv, [Next]_vars  PROVE AuthorInv'
      OBVIOUS
    <2>1. PagingInv
      BY DEF AuthorInv
    <2>2. ASSUME NEW u \in User, Create(u)  PROVE AuthorInv'
      BY <2>2, AuthorCreate
    <2>3. ASSUME NEW r \in Request, NEW u \in User, NEW id \in Stored,
                 NEW kind \in {"edit", "delete"}, Load(r, kind, id, u)
          PROVE  AuthorInv'
      BY <2>3, AuthorLoad
    <2>4. ASSUME NEW r \in Request, Write(r) \/ WriteFails(r)  PROVE AuthorInv'
      BY <2>4, AuthorWrite, AuthorWriteFails
    <2>5. CASE Tick
      BY <2>1, <2>5, TickKeeps, AuthorKept DEF Tick, tableVars
    <2>6. CASE Open \/ LoadOlder \/ QueryBucket \/ PageArrives \/ ReadFails
      <3>1. PagingInv'
        BY <2>1, <2>6, OpenKeeps, LoadOlderKeeps, QueryKeeps, PageArrivesKeeps, ReadFailsKeeps
      <3>2. UNCHANGED <<rows, request, deleted>>
        BY <2>6 DEF Open, LoadOlder, QueryBucket, PageArrives, ReadFails, tableVars
      <3>3. QED
        BY <3>1, <3>2, AuthorKept
    <2>7. ASSUME NEW id \in Shown, Drop(id)  PROVE AuthorInv'
      <3>1. PagingInv' /\ UNCHANGED <<rows, request, deleted>>
        BY <2>1, <2>7, DropKeeps DEF Drop, tableVars
      <3>2. QED
        BY <3>1, AuthorKept
    <2>8. CASE UNCHANGED vars
      BY <2>1, <2>8, PagingStutters, AuthorKept DEF vars
    <2>9. QED
      BY <2>2, <2>3, <2>4, <2>5, <2>6, <2>7, <2>8 DEF Next
  <1>2. QED
    BY <1>1, AuthorInit, PTL DEF Spec

\* A deleted message comes back without its author, if at all.
THEOREM DeletedComeBackNameless == Spec => []DeletedLoseAuthor
  <1>1. AuthorInv => DeletedLoseAuthor
    BY DEF AuthorInv
  <1>2. QED
    BY <1>1, AuthorInvariant, PTL

\* Nobody's name stands over somebody else's words.
THEOREM WordsAreOwn == Spec => []OwnWords
  <1>1. AuthorInv => OwnWords
    BY DEF AuthorInv
  <1>2. QED
    BY <1>1, AuthorInvariant, PTL

-----------------------------------------------------------------------------
(* Who is typing.  While somebody types, what keeps the line is either the *)
(* entry itself, good for longer than the next request is away, or a       *)
(* request under way that arrives before the entry is over.                *)

LineTyped ==
    flight \subseteq [kind : {"typing", "message"}, age : 0 .. MaxDelay, kept : BOOLEAN, n : 0 .. MaxLines]

Promised(f) == f.kind = "typing" /\ f.kept

AskedRecently ==
    \A f \in flight : f.kind = "typing" => quietFor <= f.age /\ (f.kept => since <= f.age)

BarLasts ==
    bar => /\ entry
           /\ left > 0 => quietFor + left <= MaxDelay + TYPING_TTL
           /\ left = 0 => quietFor <= MaxDelay + TYPING_TTL + swept

\* Whoever has just sent a message has promised nothing.
SentFirst == typed /\ since = Line!LongAgo => ~sure /\ \A f \in flight : ~Promised(f)

SureLasts ==
    sure => /\ bar
            /\ \/ left + since >= TYPING_TTL
               \/ \E f \in flight : Promised(f) /\ left > MaxDelay - f.age

\* A request from after the last message is about an unfinished text.
MessageEnds ==
    /\ seen <= sent /\ \A f \in flight : f.n <= sent
    /\ \A f \in flight : f.kind = "typing" /\ f.n = sent => ~empty
    /\ excused \/ sent = 0 \/ seen = sent \/ \E f \in flight : f.kind = "message" /\ f.n = sent
    /\ bar /\ ~excused /\ seen = sent /\ sent > 0 => ~empty

LineInv == Line!TypeOK /\ LineTyped /\ AskedRecently /\ BarLasts /\ SentFirst /\ SureLasts /\ MessageEnds

LEMMA LineConstants ==
    /\ {TYPING_THROTTLE, TYPING_TTL, Sweep, MaxDelay, MaxLines} \subseteq Nat
    /\ TYPING_THROTTLE + 1 + MaxDelay < TYPING_TTL
    /\ Line!LongAgo = TYPING_THROTTLE + 1 /\ Line!Longest = TYPING_TTL + MaxDelay + Sweep
  BY LineAssumption DEF Line!TimesAssumption, Line!LongAgo, Line!Longest

LEMMA LineInit == Line!Init => LineInv
  <1> SUFFICES ASSUME Line!Init  PROVE LineInv
    OBVIOUS
  <1>1. /\ since = Line!LongAgo /\ sent = 0 /\ quietFor = Line!Longest + 1
        /\ flight = {} /\ left = 0 /\ swept = 0 /\ seen = 0
    BY DEF Line!Init
  <1>2. empty /\ ~typed /\ loaded \in BOOLEAN /\ ~entry /\ ~bar /\ ~sure /\ ~excused
    BY DEF Line!Init
  <1>3. {empty, typed, loaded, entry, bar, sure, excused} \subseteq BOOLEAN
    BY Zenon DEF Line!Init
  <1>4. Line!TypeOK
    BY <1>1, <1>3, LineConstants DEF Line!TypeOK
  <1>5. LineTyped /\ AskedRecently /\ BarLasts /\ SentFirst /\ SureLasts /\ MessageEnds
    BY <1>1, <1>2 DEF LineTyped, AskedRecently, BarLasts, SentFirst, SureLasts, MessageEnds
  <1>6. QED
    BY <1>4, <1>5 DEF LineInv

\* The flags as their types have them.
LEMMA LineFacts ==
    ASSUME LineInv
    PROVE  /\ since \in 0 .. Line!LongAgo /\ left \in 0 .. TYPING_TTL /\ swept \in 0 .. Sweep
           /\ quietFor \in 0 .. Line!Longest + 1 /\ sent \in 0 .. MaxLines /\ seen \in 0 .. MaxLines
           /\ \A f \in flight : /\ f.kind \in {"typing", "message"} /\ f.age \in 0 .. MaxDelay
                                /\ f.kept \in BOOLEAN /\ f.n \in 0 .. MaxLines
           /\ empty \in BOOLEAN /\ typed \in BOOLEAN /\ loaded \in BOOLEAN /\ entry \in BOOLEAN
           /\ bar \in BOOLEAN /\ sure \in BOOLEAN /\ excused \in BOOLEAN
  <1>1. Line!TypeOK /\ LineTyped
    BY DEF LineInv
  <1>2. /\ since \in 0 .. Line!LongAgo /\ left \in 0 .. TYPING_TTL /\ swept \in 0 .. Sweep
        /\ quietFor \in 0 .. Line!Longest + 1 /\ sent \in 0 .. MaxLines /\ seen \in 0 .. MaxLines
        /\ {empty, typed, loaded, entry, bar, sure, excused} \subseteq BOOLEAN
    BY <1>1 DEF Line!TypeOK
  <1>3. /\ empty \in BOOLEAN /\ typed \in BOOLEAN /\ loaded \in BOOLEAN /\ entry \in BOOLEAN
        /\ bar \in BOOLEAN /\ sure \in BOOLEAN /\ excused \in BOOLEAN
    BY <1>2, Zenon
  <1>4. QED
    BY <1>1, <1>2, <1>3 DEF LineTyped

\* Requests and events that only lose their promise.
LEMMA BrokenItems ==
    ASSUME NEW S, S \subseteq [kind : {"typing", "message"}, age : 0 .. MaxDelay, kept : BOOLEAN, n : 0 .. MaxLines]
    PROVE  /\ Line!Broken(S) \subseteq [kind : {"typing", "message"}, age : 0 .. MaxDelay, kept : BOOLEAN, n : 0 .. MaxLines]
           /\ \A f \in Line!Broken(S) : /\ ~Promised(f)
                                        /\ \E g \in S : f.kind = g.kind /\ f.age = g.age /\ f.n = g.n
           /\ \A g \in S : \E f \in Line!Broken(S) : f.kind = g.kind /\ f.age = g.age /\ f.n = g.n
  <1> DEFINE Item == [kind : {"typing", "message"}, age : 0 .. MaxDelay, kept : BOOLEAN, n : 0 .. MaxLines]
  <1>1. \A g \in Item : LET b == [g EXCEPT !.kept = FALSE] IN
            /\ b \in Item /\ ~b.kept /\ b.kind = g.kind /\ b.age = g.age /\ b.n = g.n
    OBVIOUS
  <1>2. \A f : f \in Line!Broken(S) <=> \E g \in S : f = [g EXCEPT !.kept = FALSE]
    BY DEF Line!Broken
  <1> HIDE DEF Item
  <1>3. S \subseteq Item
    BY DEF Item
  <1>4. Line!Broken(S) \subseteq Item
    BY <1>1, <1>2, <1>3
  <1>5. ASSUME NEW f \in Line!Broken(S)
        PROVE  ~Promised(f) /\ \E g \in S : f.kind = g.kind /\ f.age = g.age /\ f.n = g.n
    <2>1. PICK g \in S : f = [g EXCEPT !.kept = FALSE]
      BY <1>2
    <2>2. ~f.kept /\ f.kind = g.kind /\ f.age = g.age /\ f.n = g.n
      BY <1>1, <1>3, <2>1
    <2>3. QED
      BY <2>2 DEF Promised
  <1>6. ASSUME NEW g \in S  PROVE \E f \in Line!Broken(S) : f.kind = g.kind /\ f.age = g.age /\ f.n = g.n
    <2>1. [g EXCEPT !.kept = FALSE] \in Line!Broken(S)
      BY <1>2
    <2>2. QED
      BY <1>1, <1>3, <2>1
  <1>7. QED
    BY <1>4, <1>5, <1>6 DEF Item

\* The type invariant, from its parts.
LEMMA LineTypes ==
    ASSUME since \in 0 .. Line!LongAgo, left \in 0 .. TYPING_TTL, swept \in 0 .. Sweep,
           quietFor \in 0 .. Line!Longest + 1, sent \in 0 .. MaxLines, seen \in 0 .. MaxLines,
           {empty, typed, loaded, entry, bar, sure, excused} \subseteq BOOLEAN,
           LineTyped
    PROVE  Line!TypeOK
  BY DEF Line!TypeOK, LineTyped

LEMMA KeyStep == LineInv /\ Line!Key => LineInv'
  <1> SUFFICES ASSUME LineInv, Line!Key  PROVE LineInv'
    OBVIOUS
  <1> DEFINE asks == since > TYPING_THROTTLE
  <1>0. /\ AskedRecently /\ BarLasts /\ SentFirst /\ SureLasts /\ MessageEnds /\ LineTyped
        /\ {empty, typed, loaded, entry, bar, sure, excused} \subseteq BOOLEAN
    BY DEF LineInv, Line!TypeOK
  <1>1. /\ ~typed /\ typed' /\ ~empty' /\ UNCHANGED <<sent, loaded, entry, left, bar, swept, sure, seen, excused>>
        /\ {empty', typed', loaded', entry', bar', sure', excused'} \subseteq BOOLEAN
    BY <1>0, Zenon DEF Line!Key, Line!viewer
  <1>2. CASE ~asks
    <2>1. UNCHANGED <<since, quietFor, flight>>
      BY <1>2 DEF Line!Key
    <2>2. LineTyped' /\ Line!TypeOK'
      BY <1>0, <1>1, <2>1, LineFacts DEF Line!TypeOK, LineTyped
    <2>3. AskedRecently' /\ BarLasts' /\ SureLasts' /\ MessageEnds'
      BY <1>0, <1>1, <2>1 DEF AskedRecently, BarLasts, SureLasts, MessageEnds, Promised
    <2>4. SentFirst'
      BY <1>2, <2>1, LineFacts, LineConstants DEF SentFirst
    <2>5. QED
      BY <2>2, <2>3, <2>4 DEF LineInv
  <1>3. CASE asks
    <2> DEFINE g == [kind |-> "typing", age |-> 0, kept |-> TRUE, n |-> sent]
    <2>1. since' = 0 /\ quietFor' = 0 /\ flight' = flight \cup {g}
      BY <1>3 DEF Line!Key
    <2>2. g.kind = "typing" /\ g.age = 0 /\ g.kept /\ g.n = sent /\ Promised(g)
      BY DEF Promised
    <2>3. g \in [kind : {"typing", "message"}, age : 0 .. MaxDelay, kept : BOOLEAN, n : 0 .. MaxLines]
      BY LineFacts, LineConstants
    <2> HIDE DEF g
    <2>4. LineTyped'
      BY <1>0, <2>1, <2>3 DEF LineTyped
    <2>5. Line!TypeOK'
      BY <1>0, <1>1, <2>1, <2>4, LineFacts, LineConstants DEF Line!TypeOK, LineTyped
    <2>6. AskedRecently'
      BY <1>0, <2>1, <2>2, LineFacts DEF AskedRecently
    <2>7. BarLasts'
      BY <1>0, <1>1, <2>1, LineFacts, LineConstants DEF BarLasts
    <2>8. SentFirst'
      BY <2>1, LineConstants DEF SentFirst
    <2>9. SureLasts'
      <3>1. since <= TYPING_THROTTLE + 1
        BY LineFacts, LineConstants
      <3>2. left + since >= TYPING_TTL => left > MaxDelay
        BY <3>1, LineFacts, LineConstants
      <3>3. left > MaxDelay - g.age <=> left > MaxDelay
        BY <2>2, LineFacts, LineConstants
      <3>4. QED
        BY <1>0, <1>1, <2>1, <2>2, <3>2, <3>3 DEF SureLasts
    <2>10. MessageEnds'
      BY <1>0, <1>1, <2>1, <2>2, LineFacts DEF MessageEnds
    <2>11. QED
      BY <2>4, <2>5, <2>6, <2>7, <2>8, <2>9, <2>10 DEF LineInv
  <1>4. QED
    BY <1>2, <1>3

LEMMA SendStep == LineInv /\ Line!Send => LineInv'
  <1> SUFFICES ASSUME LineInv, Line!Send  PROVE LineInv'
    OBVIOUS
  <1> DEFINE g == [kind |-> "message", age |-> 0, kept |-> FALSE, n |-> sent']
  <1>0. /\ AskedRecently /\ BarLasts /\ MessageEnds /\ LineTyped
        /\ {empty, typed, loaded, entry, bar, sure, excused} \subseteq BOOLEAN
    BY DEF LineInv, Line!TypeOK
  <1>1. /\ empty' /\ ~sure' /\ UNCHANGED <<typed, quietFor, loaded, entry, left, bar, swept, seen, excused>>
        /\ {empty', typed', loaded', entry', bar', sure', excused'} \subseteq BOOLEAN
    BY <1>0, Zenon DEF Line!Send
  <1>2. /\ sent < MaxLines /\ sent' = sent + 1 /\ since' = Line!LongAgo
        /\ flight' = Line!Broken(flight) \cup {g}
    BY DEF Line!Send
  <1>3. g.kind = "message" /\ g.age = 0 /\ ~g.kept /\ g.n = sent' /\ ~Promised(g)
    BY DEF Promised
  <1>4. g \in [kind : {"typing", "message"}, age : 0 .. MaxDelay, kept : BOOLEAN, n : 0 .. MaxLines]
    BY <1>2, LineFacts, LineConstants
  <1> HIDE DEF g
  <1>5. /\ Line!Broken(flight) \subseteq [kind : {"typing", "message"}, age : 0 .. MaxDelay, kept : BOOLEAN, n : 0 .. MaxLines]
        /\ \A f \in Line!Broken(flight) : /\ ~Promised(f)
                                          /\ \E h \in flight : f.kind = h.kind /\ f.age = h.age /\ f.n = h.n
    BY <1>0, BrokenItems DEF LineTyped
  <1>6. LineTyped'
    BY <1>2, <1>4, <1>5 DEF LineTyped
  <1>7. Line!TypeOK'
    BY <1>1, <1>2, <1>6, LineFacts, LineConstants DEF Line!TypeOK, LineTyped
  <1>8. AskedRecently'
    BY <1>0, <1>1, <1>2, <1>3, <1>5 DEF AskedRecently, Promised
  <1>9. BarLasts' /\ SentFirst' /\ SureLasts'
    BY <1>0, <1>1, <1>2, <1>3, <1>5 DEF BarLasts, SentFirst, SureLasts
  <1>10. MessageEnds'
    <2>1. \A f \in flight' : f.n <= sent' /\ (f.kind = "typing" => f.n < sent')
      BY <1>0, <1>2, <1>3, <1>5, LineFacts DEF MessageEnds
    <2>2. g \in flight' /\ seen <= sent /\ seen # sent'
      BY <1>0, <1>2, LineFacts DEF MessageEnds
    <2>3. \A f \in flight' : f.n # sent' \/ f.kind # "typing"
      BY <1>2, <2>1, <1>5, <1>4, LineFacts
    <2>4. QED
      BY <1>1, <1>2, <1>3, <2>1, <2>2, <2>3, LineFacts DEF MessageEnds
  <1>11. QED
    BY <1>6, <1>7, <1>8, <1>9, <1>10 DEF LineInv

LEMMA TypingArrives == LineInv /\ (\E f \in flight : f.kind = "typing" /\ Line!Arrive(f)) => LineInv'
  <1> SUFFICES ASSUME LineInv, NEW f \in flight, f.kind = "typing", Line!Arrive(f)  PROVE LineInv'
    OBVIOUS
  <1>0. /\ AskedRecently /\ BarLasts /\ SentFirst /\ SureLasts /\ MessageEnds /\ LineTyped
        /\ {empty, typed, loaded, entry, bar, sure, excused} \subseteq BOOLEAN
    BY DEF LineInv, Line!TypeOK
  <1>1. Line!TypingStart(f) /\ flight' = flight \ {f} /\ UNCHANGED <<empty, since, typed, sent, quietFor>>
    BY DEF Line!Arrive, Line!typist
  <1>2. /\ entry' /\ bar' /\ (sure' <=> sure \/ f.kept) /\ (excused' <=> excused \/ f.n < seen)
        /\ {empty', typed', loaded', entry', bar', sure', excused'} \subseteq BOOLEAN
    <2>1. entry' /\ bar' /\ sure' = (sure \/ f.kept) /\ excused' = (excused \/ f.n < seen)
      BY <1>1 DEF Line!TypingStart
    <2>2. {empty', typed', loaded', entry', bar', sure', excused'} \subseteq BOOLEAN
      BY <1>0, <1>1, LineFacts, Zenon DEF Line!TypingStart
    <2>3. QED
      BY <2>1, <2>2
  <1>3. left' = TYPING_TTL /\ swept' = 0 /\ UNCHANGED <<loaded, seen>>
    BY <1>1 DEF Line!TypingStart
  <1>4. Line!TypeOK' /\ LineTyped'
    BY <1>0, <1>1, <1>2, <1>3, LineFacts, LineConstants DEF Line!TypeOK, LineTyped
  <1>5. quietFor <= f.age /\ f.age <= MaxDelay
    BY <1>0, LineFacts, LineConstants DEF AskedRecently
  <1>6. BarLasts'
    BY <1>1, <1>2, <1>3, <1>5, LineFacts, LineConstants DEF BarLasts
  <1>7. AskedRecently'
    BY <1>0, <1>1 DEF AskedRecently
  <1>8. SentFirst'
    BY <1>0, <1>1, <1>2 DEF SentFirst, Promised
  <1>9. SureLasts'
    BY <1>1, <1>2, <1>3, LineFacts, LineConstants DEF SureLasts
  <1>10. MessageEnds'
    <2>1. ~excused' => ~excused /\ f.n >= seen
      BY <1>2, LineFacts, LineConstants
    <2>2. ~excused' /\ seen = sent => f.n = sent
      BY <1>0, <2>1, LineFacts, LineConstants DEF MessageEnds
    <2>3. ~excused' /\ seen = sent => ~empty
      BY <1>0, <2>2 DEF MessageEnds
    <2>4. \A h \in flight : h.kind = "message" => h \in flight'
      BY <1>1
    <2>5. QED
      BY <1>0, <1>1, <1>2, <1>3, <2>1, <2>3, <2>4 DEF MessageEnds
  <1>11. QED
    BY <1>4, <1>6, <1>7, <1>8, <1>9, <1>10 DEF LineInv

LEMMA MessageArrives == LineInv /\ (\E f \in flight : f.kind # "typing" /\ Line!Arrive(f)) => LineInv'
  <1> SUFFICES ASSUME LineInv, NEW f \in flight, f.kind # "typing", Line!Arrive(f)  PROVE LineInv'
    OBVIOUS
  <1>0. /\ AskedRecently /\ BarLasts /\ MessageEnds /\ LineTyped
        /\ {empty, typed, loaded, entry, bar, sure, excused} \subseteq BOOLEAN
    BY DEF LineInv, Line!TypeOK
  <1>1. Line!Message(f) /\ flight' = flight \ {f} /\ UNCHANGED <<empty, since, typed, sent, quietFor>>
    BY DEF Line!Arrive, Line!typist
  <1>2. /\ ~sure' /\ loaded' = loaded /\ seen' = IF f.n > seen THEN f.n ELSE seen
        /\ loaded => ~entry' /\ ~bar' /\ left' = 0 /\ swept' = 0 /\ excused' = excused
        /\ ~loaded => excused' /\ UNCHANGED <<entry, left, bar, swept>>
    BY <1>1 DEF Line!Message
  <1>3. {empty', typed', loaded', entry', bar', sure', excused'} \subseteq BOOLEAN
    BY <1>0, <1>1, LineFacts, Zenon DEF Line!Message
  <1>4. LineTyped' /\ Line!TypeOK'
    BY <1>0, <1>1, <1>2, <1>3, LineFacts, LineConstants DEF Line!TypeOK, LineTyped
  <1>5. AskedRecently'
    BY <1>0, <1>1 DEF AskedRecently
  <1>6. BarLasts'
    <2>1. CASE loaded
      BY <1>2, <2>1 DEF BarLasts
    <2>2. CASE ~loaded
      <3>1. UNCHANGED <<entry, left, bar, swept, quietFor>>
        BY <1>1, <1>2, <2>2
      <3>2. QED
        BY <1>0, <3>1 DEF BarLasts
    <2>3. QED
      BY <2>1, <2>2
  <1>7. SentFirst' /\ SureLasts'
    <2>1. SentFirst
      BY DEF LineInv
    <2>2. QED
      BY <1>1, <1>2, <2>1 DEF SentFirst, SureLasts
  <1>8. MessageEnds'
    <2>1. seen' <= sent /\ seen <= seen' /\ f.n <= seen'
      BY <1>0, <1>2, LineFacts, LineConstants DEF MessageEnds
    <2>2. seen = sent \/ f.n = sent => seen' = sent
      <3>1. seen' \in Nat /\ sent \in Nat
        BY <1>2, LineFacts, LineConstants
      <3>2. QED
        BY <2>1, <3>1
    <2>3. excused' \/ sent = 0 \/ seen' = sent \/ \E h \in flight' : h.kind = "message" /\ h.n = sent
      BY <1>0, <1>1, <1>2, <2>2 DEF MessageEnds
    <2>4. QED
      BY <1>0, <1>1, <1>2, <2>1, <2>3 DEF MessageEnds
  <1>9. QED
    BY <1>4, <1>5, <1>6, <1>7, <1>8 DEF LineInv

LEMMA FailStep == LineInv /\ (\E f \in flight : Line!Fail(f)) => LineInv'
  <1> SUFFICES ASSUME LineInv, NEW f \in flight, Line!Fail(f)  PROVE LineInv'
    OBVIOUS
  <1>0. /\ AskedRecently /\ BarLasts /\ MessageEnds /\ LineTyped
        /\ {empty, typed, loaded, entry, bar, sure, excused} \subseteq BOOLEAN
    BY DEF LineInv, Line!TypeOK
  <1>1. /\ UNCHANGED <<empty, since, typed, sent, quietFor, loaded, entry, left, bar, swept, seen>>
        /\ ~sure' /\ flight' = Line!Broken(flight \ {f})
    BY DEF Line!Fail, Line!typist
  <1>2. excused' <=> excused \/ f.kind = "message"
    BY DEF Line!Fail
  <1>3. {empty', typed', loaded', entry', bar', sure', excused'} \subseteq BOOLEAN
    BY <1>0, <1>1, LineFacts, Zenon DEF Line!Fail
  <1>4. /\ flight' \subseteq [kind : {"typing", "message"}, age : 0 .. MaxDelay, kept : BOOLEAN, n : 0 .. MaxLines]
        /\ \A h \in flight' : ~Promised(h) /\ \E g \in flight : h.kind = g.kind /\ h.age = g.age /\ h.n = g.n
        /\ \A g \in flight \ {f} : \E h \in flight' : h.kind = g.kind /\ h.age = g.age /\ h.n = g.n
    <2>1. flight \ {f} \subseteq [kind : {"typing", "message"}, age : 0 .. MaxDelay, kept : BOOLEAN, n : 0 .. MaxLines]
      BY <1>0 DEF LineTyped
    <2>2. QED
      BY <1>1, <2>1, BrokenItems
  <1>5. LineTyped' /\ Line!TypeOK'
    BY <1>1, <1>3, <1>4, LineFacts DEF Line!TypeOK, LineTyped
  <1>6. AskedRecently' /\ BarLasts' /\ SentFirst' /\ SureLasts'
    <2>1. AskedRecently'
      <3>1. ASSUME NEW h \in flight', h.kind = "typing"  PROVE quietFor <= h.age /\ ~h.kept
        <4>1. PICK g \in flight : h.kind = g.kind /\ h.age = g.age
          BY <1>4
        <4>2. ~Promised(h)
          BY <1>4
        <4>3. QED
          BY <1>0, <3>1, <4>1, <4>2 DEF AskedRecently, Promised
      <3>2. UNCHANGED <<quietFor, since>>
        BY <1>1
      <3>3. QED
        BY <3>1, <3>2 DEF AskedRecently
    <2>2. BarLasts'
      BY <1>0, <1>1 DEF BarLasts
    <2>3. SentFirst' /\ SureLasts'
      BY <1>1, <1>4 DEF SentFirst, SureLasts
    <2>4. QED
      BY <2>1, <2>2, <2>3
  <1>7. MessageEnds'
    <2>1. ~excused' => ~excused /\ \A g \in flight : g.kind = "message" => g \in flight \ {f}
      BY <1>2
    <2>2. excused' \/ sent = 0 \/ seen = sent \/ \E h \in flight' : h.kind = "message" /\ h.n = sent
      BY <1>0, <1>4, <2>1 DEF MessageEnds
    <2>3. (\A h \in flight' : h.n <= sent) /\ \A h \in flight' : h.kind = "typing" /\ h.n = sent => ~empty
      BY <1>0, <1>4 DEF MessageEnds
    <2>4. QED
      BY <1>0, <1>1, <2>1, <2>2, <2>3 DEF MessageEnds
  <1>8. QED
    BY <1>5, <1>6, <1>7 DEF LineInv

LEMMA PruneStep == LineInv /\ (Line!Prune \/ Line!LoadMessages) => LineInv'
  <1> SUFFICES ASSUME LineInv, Line!Prune \/ Line!LoadMessages  PROVE LineInv'
    OBVIOUS
  <1>0. /\ AskedRecently /\ BarLasts /\ SentFirst /\ SureLasts /\ MessageEnds /\ LineTyped
        /\ {empty, typed, loaded, entry, bar, sure, excused} \subseteq BOOLEAN
    BY DEF LineInv, Line!TypeOK
  <1>1. /\ UNCHANGED <<empty, since, typed, sent, quietFor, flight, left, sure, seen, excused>>
        /\ bar' => bar /\ (Line!Prune => left > 0)
        /\ bar /\ left > 0 => bar'
        /\ swept' = swept \/ swept' = 0
        /\ bar' => (entry' <=> entry) /\ (swept' = swept \/ left > 0)
    <2>1. CASE Line!Prune
      <3>1. /\ entry /\ swept' = 0 /\ entry' = (left > 0) /\ bar' = (bar /\ left > 0)
            /\ UNCHANGED <<empty, since, typed, sent, quietFor, flight, left, sure, seen, excused>>
        BY <2>1 DEF Line!Prune, Line!typist
      <3>2. QED
        BY <3>1
    <2>2. CASE Line!LoadMessages
      <3>1. UNCHANGED <<empty, since, typed, sent, quietFor, flight, left, sure, seen, excused, bar, swept, entry>>
        BY <2>2 DEF Line!LoadMessages, Line!typist
      <3>2. ~Line!Prune \/ left > 0 \/ ~bar
        BY <3>1 DEF Line!Prune
      <3>3. QED
        BY <3>1, <3>2
    <2>3. QED
      BY <2>1, <2>2
  <1>2. {empty', typed', loaded', entry', bar', sure', excused'} \subseteq BOOLEAN
    <2>1. CASE Line!Prune
      <3>1. entry' \in BOOLEAN /\ bar' \in BOOLEAN
        <4>1. entry' = (left > 0) /\ bar' = (bar /\ left > 0)
          BY <2>1 DEF Line!Prune
        <4>2. (left > 0) \in BOOLEAN /\ (bar /\ left > 0) \in BOOLEAN
          OBVIOUS
        <4>3. QED
          BY <4>1, <4>2, Zenon
      <3>2. UNCHANGED <<empty, typed, loaded, sure, excused>>
        BY <2>1 DEF Line!Prune, Line!typist
      <3>3. QED
        BY <1>0, <3>1, <3>2, Zenon
    <2>2. CASE Line!LoadMessages
      BY <1>0, <1>1, <2>2, LineFacts, Zenon DEF Line!LoadMessages
    <2>3. QED
      BY <2>1, <2>2
  <1>3. LineTyped' /\ Line!TypeOK'
    BY <1>0, <1>1, <1>2, LineFacts, LineConstants DEF Line!TypeOK, LineTyped
  <1>4. AskedRecently' /\ SentFirst'
    BY <1>0, <1>1 DEF AskedRecently, SentFirst
  <1>5. BarLasts'
    BY <1>0, <1>1, LineFacts DEF BarLasts
  <1>6. MessageEnds'
    BY <1>0, <1>1 DEF MessageEnds
  <1>7. SureLasts'
    <2>1. sure => left > 0
      BY <1>0, LineFacts, LineConstants DEF SureLasts
    <2>2. QED
      BY <1>0, <1>1, <2>1 DEF SureLasts
  <1>8. QED
    BY <1>3, <1>4, <1>5, <1>6, <1>7 DEF LineInv

LEMMA TickStep == LineInv /\ Line!Tick => LineInv'
  <1> SUFFICES ASSUME LineInv, Line!Tick  PROVE LineInv'
    OBVIOUS
  <1> DEFINE Item == [kind : {"typing", "message"}, age : 0 .. MaxDelay, kept : BOOLEAN, n : 0 .. MaxLines]
             older(f) == [f EXCEPT !.age = @ + 1]
             later == {older(f) : f \in flight}
  <1>0. /\ AskedRecently /\ BarLasts /\ SentFirst /\ SureLasts /\ MessageEnds /\ LineTyped
        /\ {empty, typed, loaded, entry, bar, sure, excused} \subseteq BOOLEAN
    BY DEF LineInv, Line!TypeOK
  <1>1. /\ UNCHANGED <<empty, sent, loaded, entry, bar, seen, excused>> /\ ~typed'
        /\ sure' => sure /\ typed
        /\ {empty', typed', loaded', entry', bar', sure', excused'} \subseteq BOOLEAN
    <2>1. UNCHANGED <<empty, sent, loaded, entry, bar, seen, excused>> /\ ~typed' /\ sure' = (sure /\ typed)
      BY DEF Line!Tick
    <2>2. {empty', typed', loaded', entry', bar', sure', excused'} \subseteq BOOLEAN
      BY <1>0, <2>1, LineFacts, Zenon DEF Line!Tick
    <2>3. QED
      BY <2>1, <2>2
  <1>2. /\ since' = IF since + 1 < Line!LongAgo THEN since + 1 ELSE Line!LongAgo
        /\ quietFor' = IF quietFor + 1 < Line!Longest + 1 THEN quietFor + 1 ELSE Line!Longest + 1
        /\ left' = IF left > 0 THEN left - 1 ELSE 0
        /\ swept' = IF entry THEN swept + 1 ELSE 0
        /\ entry => swept < Sweep
    BY DEF Line!Tick, Line!Capped
  <1>3. \A f \in flight : /\ f.age < MaxDelay /\ older(f) \in Item
                          /\ older(f).age = f.age + 1 /\ older(f).kind = f.kind
                          /\ older(f).n = f.n /\ (older(f).kept <=> f.kept)
    <2>1. \A f \in flight : f.age < MaxDelay /\ f \in Item
      BY <1>0 DEF Line!Tick, LineTyped
    <2>2. QED
      BY <2>1, LineConstants
  <1>4. flight' = (IF typed THEN later ELSE Line!Broken(later)) /\ later \subseteq Item
    BY <1>3 DEF Line!Tick
  <1>5. \A h \in later : \E f \in flight : /\ h.age = f.age + 1 /\ h.kind = f.kind
                                           /\ h.n = f.n /\ (h.kept <=> f.kept)
    BY <1>3
  <1>6. \A f \in flight : \E h \in later : /\ h.age = f.age + 1 /\ h.kind = f.kind
                                           /\ h.n = f.n /\ (h.kept <=> f.kept)
    <2>1. \A f \in flight : older(f) \in later
      OBVIOUS
    <2>2. QED
      BY <1>3, <2>1
  <1> HIDE DEF later
  <1>7. /\ flight' \subseteq Item
        /\ \A h \in flight' : \E f \in flight : /\ h.age = f.age + 1 /\ h.kind = f.kind
                                                /\ h.n = f.n /\ (Promised(h) => Promised(f))
        /\ \A f \in flight : \E h \in flight' : /\ h.age = f.age + 1 /\ h.kind = f.kind /\ h.n = f.n
                                                /\ (typed /\ Promised(f) => Promised(h))
    <2>1. /\ Line!Broken(later) \subseteq Item
          /\ \A f \in Line!Broken(later) : ~Promised(f) /\ \E g \in later : f.kind = g.kind /\ f.age = g.age /\ f.n = g.n
          /\ \A g \in later : \E f \in Line!Broken(later) : f.kind = g.kind /\ f.age = g.age /\ f.n = g.n
      BY <1>4, BrokenItems
    <2> HIDE DEF Item
    <2>2. CASE typed
      BY <1>4, <1>5, <1>6, <2>2 DEF Promised
    <2>3. CASE ~typed
      <3>1. flight' = Line!Broken(later)
        BY <1>4, <2>3
      <3>2. \A h \in flight' : ~Promised(h) /\ \E f \in flight : h.age = f.age + 1 /\ h.kind = f.kind /\ h.n = f.n
        BY <1>5, <2>1, <3>1
      <3>3. \A f \in flight : \E h \in flight' : h.age = f.age + 1 /\ h.kind = f.kind /\ h.n = f.n
        BY <1>6, <2>1, <3>1
      <3>4. QED
        BY <2>1, <2>3, <3>1, <3>2, <3>3
    <2>4. QED
      BY <2>2, <2>3
  <1>8. LineTyped'
    BY <1>7 DEF LineTyped
  <1>9. Line!TypeOK'
    BY <1>1, <1>2, <1>8, LineFacts, LineConstants DEF Line!TypeOK, LineTyped
  <1>10. AskedRecently'
    <2>1. \A f \in flight : f.kind = "typing" => quietFor <= f.age /\ (Promised(f) => since <= f.age)
      BY <1>0 DEF AskedRecently, Promised
    <2>2. quietFor' <= quietFor + 1 /\ since' <= since + 1
      BY <1>2, LineFacts, LineConstants
    <2>3. ASSUME NEW h \in flight', h.kind = "typing"
          PROVE  quietFor' <= h.age /\ (Promised(h) => since' <= h.age)
      <3>1. PICK f \in flight : h.age = f.age + 1 /\ h.kind = f.kind /\ (Promised(h) => Promised(f))
        BY <1>7
      <3>2. since' \in Nat /\ quietFor' \in Nat /\ f.age \in Nat /\ since \in Nat /\ quietFor \in Nat
        BY <1>2, LineFacts, LineConstants
      <3>3. QED
        BY <2>1, <2>2, <2>3, <3>1, <3>2
    <2>4. QED
      BY <2>3 DEF AskedRecently, Promised
  <1>11. BarLasts'
    BY <1>0, <1>1, <1>2, LineFacts, LineConstants DEF BarLasts
  <1>12. SentFirst'
    BY <1>1 DEF SentFirst
  <1>13. SureLasts'
    <2>1. SUFFICES ASSUME sure'
                   PROVE  bar' /\ (left' + since' >= TYPING_TTL \/ \E h \in flight' : Promised(h) /\ left' > MaxDelay - h.age)
      BY DEF SureLasts
    <2>2. sure /\ typed /\ bar /\ bar' /\ since # Line!LongAgo
      BY <1>0, <1>1, <2>1 DEF SureLasts, SentFirst
    <2>3. CASE left + since >= TYPING_TTL
      <3>1. left > 0 /\ since + 1 <= Line!LongAgo
        BY <2>2, <2>3, LineFacts, LineConstants
      <3>2. since' = since + 1 /\ left' = left - 1
        BY <1>2, <3>1, LineFacts, LineConstants
      <3>3. QED
        BY <2>2, <2>3, <3>2, LineFacts, LineConstants
    <2>4. CASE \E f \in flight : Promised(f) /\ left > MaxDelay - f.age
      <3>1. PICK f \in flight : Promised(f) /\ left > MaxDelay - f.age
        BY <2>4
      <3>2. PICK h \in flight' : h.age = f.age + 1 /\ Promised(h)
        BY <1>7, <2>2, <3>1
      <3>3. left' > MaxDelay - h.age
        BY <1>2, <1>3, <3>1, <3>2, LineFacts, LineConstants
      <3>4. QED
        BY <2>2, <3>2, <3>3
    <2>5. QED
      BY <1>0, <2>2, <2>3, <2>4 DEF SureLasts
  <1>14. MessageEnds'
    <2>1. (\A h \in flight' : h.n <= sent) /\ \A h \in flight' : h.kind = "typing" /\ h.n = sent => ~empty
      BY <1>0, <1>7 DEF MessageEnds
    <2>2. excused \/ sent = 0 \/ seen = sent \/ \E h \in flight' : h.kind = "message" /\ h.n = sent
      BY <1>0, <1>7 DEF MessageEnds
    <2>3. QED
      BY <1>0, <1>1, <2>1, <2>2 DEF MessageEnds
  <1>15. QED
    BY <1>8, <1>9, <1>10, <1>11, <1>12, <1>13, <1>14 DEF LineInv

LEMMA LineStep == LineInv /\ [PartNext]_<<part, vars, listVars, pillVars, typingVars>> => LineInv'
  <1> SUFFICES ASSUME LineInv, [PartNext]_<<part, vars, listVars, pillVars, typingVars>>  PROVE LineInv'
    OBVIOUS
  <1>1. CASE UNCHANGED typingVars
    BY <1>1 DEF typingVars, LineInv, Line!TypeOK, LineTyped, AskedRecently, BarLasts, SentFirst, SureLasts,
       MessageEnds
  <1>2. CASE Line!Next
    BY <1>2, KeyStep, SendStep, PruneStep, TickStep, TypingArrives, MessageArrives, FailStep DEF Line!Next
  <1>3. QED
    BY <1>1, <1>2 DEF PartNext

THEOREM LineInvariant == PartSpec => []LineInv
  <1>1. PartInit => LineInv
    BY LineInit DEF PartInit
  <1>2. QED
    BY <1>1, LineStep, PTL DEF PartSpec

\* Whoever keeps typing stays on the line, nobody stays there longer than a
\* request is good for, and a message takes its author off it, for any
\* throttle and lifetime between which a request can arrive
\* (MessageInput.jsx, TYPING_THROTTLE; chatStore.js, TYPING_TTL).
THEOREM TheLineIsRight == PartSpec => []TypingRight
  <1>1. LineInv => Line!TypingRight
    <2> SUFFICES ASSUME LineInv  PROVE Line!TypingRight
      OBVIOUS
    <2>0. BarLasts /\ SureLasts /\ MessageEnds
      BY DEF LineInv
    <2>1. sure => bar /\ left > 0
      BY <2>0, LineFacts, LineConstants DEF SureLasts
    <2>2. bar => quietFor <= Line!Longest
      BY <2>0, LineFacts, LineConstants DEF BarLasts
    <2>3. bar /\ empty /\ flight = {} => excused \/ sent = 0
      BY <2>0, LineFacts DEF MessageEnds
    <2>4. QED
      BY <2>1, <2>2, <2>3 DEF Line!TypingRight
  <1>2. LineInv => TypingRight
    BY <1>1 DEF TypingRight
  <1>3. QED
    BY <1>2, LineInvariant, PTL

-----------------------------------------------------------------------------
(* The pill.  The last of a member's events that are still to come says    *)
(* whether they have reacted; who has none to come is counted if and only  *)
(* if they have.  For me this holds when none of my requests is still to   *)
(* be carried out; one that may be taken back was made on the true state.  *)

NewestIn(q, k) == \A j \in DOMAIN q : j > k => q[j].who # q[k].who
Absent(q, u) == \A j \in DOMAIN q : q[j].who # u
Outstanding(u) == ~(Absent(due, u) /\ Absent(echoes, u))

LastIsRow ==
    /\ \A k \in DOMAIN due : NewestIn(due, k) => due[k].add = (due[k].who \in reactions)
    /\ \A k \in DOMAIN echoes :
        NewestIn(echoes, k) /\ Absent(due, echoes[k].who) =>
            echoes[k].add = (echoes[k].who \in reactions)

\* A page that no event has passed misses only what is still to come.
PageKnows ==
    page.pc = "read" /\ ~page.passed =>
        \A u \in Pill!Member : ~Outstanding(u) => (u \in page.rows) = (u \in reactions)

OwnRequests ==
    \A r \in asked : ~r.stale =>
        asked = {r} /\ (r.pc = "sent" => r.add # (Me \in reactions))

\* Whom a pill counts, and a pill that does: each of them is known, blind or me.
CountedBy(p, b) == (p.users \ {Me}) \cup b \cup (IF p.me THEN {Me} ELSE {})
Counted == CountedBy(pill, blind)
Consistent(p, b) ==
    /\ IsFiniteSet(CountedBy(p, b)) /\ p.count = Cardinality(CountedBy(p, b))
    /\ p.users \cap b = {} /\ (Me \in p.users => p.me)

PillShows ==
    /\ Consistent(pill, blind)
    /\ \A u \in Reader : ~Outstanding(u) => (u \in Counted) = (u \in reactions)
    /\ ~Outstanding(Me) /\ (\A r \in asked : r.pc = "done") => pill.me = (Me \in reactions)

OwnRequest == [add : BOOLEAN, pc : {"sent", "done"}, n : Nat, stale : BOOLEAN]
ReadPage == [pc : {"read"}, rows : SUBSET Pill!Member, passed : BOOLEAN]
PillState == [count : Nat, me : BOOLEAN, users : SUBSET Pill!Member]

PillTyped ==
    /\ reactions \subseteq Pill!Member /\ IsFiniteSet(reactions)
    /\ due \in Seq(Pill!Event) /\ echoes \in Seq(Pill!Event)
    /\ asked \subseteq OwnRequest /\ toggles \in Nat
    /\ page \in {Pill!NoPage, [pc |-> "asked"]} \cup ReadPage
    /\ page.pc = "read" => IsFiniteSet(page.rows)
    /\ pill \in PillState /\ blind \subseteq Reader /\ doubt \subseteq Pill!Cause

PillInv ==
    /\ PillTyped
    /\ OwnRequests
    /\ "overtaken" \notin doubt => LastIsRow /\ PageKnows
    /\ doubt = {} => PillShows

LEMMA PillOperators ==
    /\ \A S : Pill!Cardinality(S) = Cardinality(S)
    /\ Me \notin Reader /\ Pill!Member = {Me} \cup Reader
  <1>1. \A S : Pill!Cardinality(S) = Cardinality(S)
    BY DEF Pill!Cardinality, Cardinality
  <1>2. QED
    BY <1>1, PillAssumption DEF Pill!MeAssumption, Pill!Member

LEMMA Joined ==
    ASSUME NEW E, NEW p \in Seq(E), NEW q \in Seq(E)
    PROVE  /\ p \o q \in Seq(E) /\ Len(p \o q) = Len(p) + Len(q)
           /\ \A i \in 1 .. Len(p) + Len(q) :
                (p \o q)[i] = IF i <= Len(p) THEN p[i] ELSE q[i - Len(p)]
  <1>1. p \o q \in Seq(E)
    OBVIOUS
  <1>2. Len(p \o q) = Len(p) + Len(q)
    OBVIOUS
  <1>3. QED
    BY <1>1, <1>2

LEMMA DropIs ==
    ASSUME NEW E, NEW q \in Seq(E), NEW k \in DOMAIN q
    PROVE  /\ Pill!Drop(q, k) \in Seq(E) /\ Len(Pill!Drop(q, k)) = Len(q) - 1
           /\ \A i \in 1 .. Len(q) - 1 :
                Pill!Drop(q, k)[i] = IF i < k THEN q[i] ELSE q[i + 1]
  <1> DEFINE front == SubSeq(q, 1, k - 1)
             back == SubSeq(q, k + 1, Len(q))
  <1>1. k \in 1 .. Len(q) /\ Len(q) \in Nat
    OBVIOUS
  <1>2. front \in Seq(E) /\ Len(front) = k - 1 /\ \A i \in 1 .. k - 1 : front[i] = q[i]
    BY <1>1
  <1>3. back \in Seq(E) /\ Len(back) = Len(q) - k /\ \A i \in 1 .. Len(q) - k : back[i] = q[i + k]
    BY <1>1
  <1> HIDE DEF front, back
  <1>4. Pill!Drop(q, k) = front \o back
    BY DEF Pill!Drop, front, back
  <1>5. /\ front \o back \in Seq(E) /\ Len(front \o back) = Len(q) - 1
        /\ \A i \in 1 .. Len(q) - 1 :
             (front \o back)[i] = IF i <= k - 1 THEN front[i] ELSE back[i - (k - 1)]
    <2>1. front \in Seq(E) /\ back \in Seq(E)
      BY <1>2, <1>3
    <2>2. /\ front \o back \in Seq(E) /\ Len(front \o back) = Len(front) + Len(back)
          /\ \A i \in 1 .. Len(front) + Len(back) :
               (front \o back)[i] = IF i <= Len(front) THEN front[i] ELSE back[i - Len(front)]
      BY <2>1, Joined
    <2>3. QED
      <3>1. Len(front) = k - 1 /\ Len(front) + Len(back) = Len(q) - 1
        BY <1>1, <1>2, <1>3
      <3>2. QED
        BY <2>2, <3>1
  <1>6. ASSUME NEW i \in 1 .. Len(q) - 1
        PROVE  (front \o back)[i] = IF i < k THEN q[i] ELSE q[i + 1]
    <2>1. CASE i < k
      <3>1. i \in 1 .. k - 1
        BY <1>1, <2>1
      <3>2. QED
        BY <1>2, <1>5, <2>1, <3>1
    <2>2. CASE ~(i < k)
      <3>1. i - (k - 1) \in 1 .. Len(q) - k /\ i - (k - 1) + k = i + 1 /\ ~(i <= k - 1)
        BY <1>1, <2>2
      <3>2. QED
        BY <1>3, <1>5, <2>2, <3>1
    <2>3. QED
      BY <2>1, <2>2
  <1>7. QED
    BY <1>4, <1>5, <1>6

\* Events added to and taken from a queue.
LEMMA AbsentAppended ==
    ASSUME NEW E, NEW q \in Seq(E), NEW e, NEW u
    PROVE  Absent(Append(q, e), u) <=> Absent(q, u) /\ e.who # u
  <1>1. /\ DOMAIN q = 1 .. Len(q) /\ DOMAIN Append(q, e) = 1 .. Len(q) + 1 /\ Len(q) \in Nat
        /\ Append(q, e)[Len(q) + 1] = e /\ \A i \in 1 .. Len(q) : Append(q, e)[i] = q[i]
    OBVIOUS
  <1>2. QED
    BY <1>1 DEF Absent

LEMMA AbsentDropped ==
    ASSUME NEW E, NEW q \in Seq(E), NEW k \in DOMAIN q, NEW u
    PROVE  Absent(q, u) <=> Absent(Pill!Drop(q, k), u) /\ q[k].who # u
  <1>1. /\ Len(Pill!Drop(q, k)) = Len(q) - 1 /\ DOMAIN Pill!Drop(q, k) = 1 .. Len(q) - 1
        /\ \A i \in 1 .. Len(q) - 1 : Pill!Drop(q, k)[i] = IF i < k THEN q[i] ELSE q[i + 1]
    BY DropIs
  <1>2. ASSUME Absent(q, u)  PROVE Absent(Pill!Drop(q, k), u) /\ q[k].who # u
    BY <1>1, <1>2 DEF Absent
  <1>3. ASSUME Absent(Pill!Drop(q, k), u), q[k].who # u, NEW j \in DOMAIN q
        PROVE  q[j].who # u
    <2>1. CASE j < k
      BY <1>1, <1>3, <2>1 DEF Absent
    <2>2. CASE j > k
      <3>1. j - 1 \in 1 .. Len(q) - 1 /\ ~(j - 1 < k) /\ (j - 1) + 1 = j
        BY <2>2
      <3>2. QED
        BY <1>1, <1>3, <3>1 DEF Absent
    <2>3. QED
      BY <1>3, <2>1, <2>2
  <1>4. QED
    BY <1>2, <1>3 DEF Absent

LEMMA NewestAppended ==
    ASSUME NEW E, NEW q \in Seq(E), NEW e, NEW k \in DOMAIN Append(q, e), NewestIn(Append(q, e), k)
    PROVE  \/ k = Len(q) + 1 /\ Append(q, e)[k] = e
           \/ k \in DOMAIN q /\ NewestIn(q, k) /\ Append(q, e)[k] = q[k] /\ q[k].who # e.who
  <1>1. /\ DOMAIN q = 1 .. Len(q) /\ DOMAIN Append(q, e) = 1 .. Len(q) + 1 /\ Len(q) \in Nat
        /\ Append(q, e)[Len(q) + 1] = e /\ \A i \in 1 .. Len(q) : Append(q, e)[i] = q[i]
    OBVIOUS
  <1>2. CASE k = Len(q) + 1
    BY <1>1, <1>2
  <1>3. CASE k \in 1 .. Len(q)
    <2>1. \A j \in 1 .. Len(q) + 1 : j > k => Append(q, e)[j].who # Append(q, e)[k].who
      BY <1>1 DEF NewestIn
    <2>2. Append(q, e)[k] = q[k] /\ q[k].who # e.who
      BY <1>1, <1>3, <2>1
    <2>3. NewestIn(q, k)
      BY <1>1, <1>3, <2>1, <2>2 DEF NewestIn
    <2>4. QED
      BY <1>1, <1>3, <2>2, <2>3
  <1>4. QED
    BY <1>1, <1>2, <1>3

LEMMA NewestDropped ==
    ASSUME NEW E, NEW q \in Seq(E), NEW k \in DOMAIN q,
           \A j \in DOMAIN q : j < k => q[j].who # q[k].who,
           NEW i \in DOMAIN Pill!Drop(q, k), NewestIn(Pill!Drop(q, k), i)
    PROVE  \E j \in DOMAIN q : NewestIn(q, j) /\ q[j] = Pill!Drop(q, k)[i]
  <1> DEFINE d == Pill!Drop(q, k)
             j == IF i < k THEN i ELSE i + 1
  <1>1. /\ DOMAIN q = 1 .. Len(q) /\ DOMAIN d = 1 .. Len(q) - 1 /\ Len(q) \in Nat
        /\ \A n \in 1 .. Len(q) - 1 : d[n] = IF n < k THEN q[n] ELSE q[n + 1]
    BY DropIs
  <1> HIDE DEF d
  <1>2. j \in DOMAIN q /\ q[j] = d[i] /\ j # k /\ i \in 1 .. Len(q) - 1 /\ k \in 1 .. Len(q)
    BY <1>1 DEF d
  <1>3. ASSUME NEW m \in DOMAIN q, m > j  PROVE q[m].who # q[j].who
    <2>1. CASE m < k
      <3>1. m \in 1 .. Len(q) - 1 /\ m > i /\ d[m] = q[m]
        BY <1>1, <1>2, <1>3, <2>1
      <3>2. QED
        BY <1>1, <1>2, <3>1 DEF NewestIn, d
    <2>2. CASE m = k
      BY <1>1, <1>2, <1>3, <2>2
    <2>3. CASE m > k
      <3>1. m - 1 \in 1 .. Len(q) - 1 /\ m - 1 > i /\ d[m - 1] = q[m]
        BY <1>1, <1>2, <1>3, <2>3
      <3>2. QED
        BY <1>1, <1>2, <3>1 DEF NewestIn, d
    <2>4. QED
      BY <1>1, <1>2, <1>3, <2>1, <2>2, <2>3
  <1>4. QED
    BY <1>2, <1>3 DEF NewestIn, d

\* A write puts its event at the end of what is due.
LEMMA WrittenStep ==
    ASSUME PillInv, NEW u \in Pill!Member, NEW add \in BOOLEAN, Pill!Written(u, add),
           echoes' = echoes, page' = page
    PROVE  /\ reactions' \subseteq Pill!Member /\ IsFiniteSet(reactions') /\ due' \in Seq(Pill!Event)
           /\ Outstanding(u)'
           /\ \A v \in Pill!Member \ {u} :
                (v \in reactions') = (v \in reactions) /\ (Outstanding(v)' <=> Outstanding(v))
           /\ LastIsRow => LastIsRow'
           /\ PageKnows => PageKnows'
  <1> DEFINE e == [who |-> u, add |-> add]
  <1>1. /\ reactions \subseteq Pill!Member /\ IsFiniteSet(reactions)
        /\ due \in Seq(Pill!Event) /\ echoes \in Seq(Pill!Event)
    BY DEF PillInv, PillTyped
  <1>2. /\ reactions' = IF add THEN reactions \cup {u} ELSE reactions \ {u}
        /\ due' = Append(due, e) /\ e \in Pill!Event /\ e.who = u /\ e.add = add
    BY DEF Pill!Written, Pill!Event
  <1>3. IsFiniteSet(reactions')
    BY <1>1, <1>2, FS_AddElement, FS_RemoveElement
  <1> HIDE DEF e
  <1>4. due' \in Seq(Pill!Event) /\ reactions' \subseteq Pill!Member
    BY <1>1, <1>2
  <1>5. ASSUME NEW v  PROVE Absent(due, v)' <=> Absent(due, v) /\ u # v
    BY <1>1, <1>2, AbsentAppended DEF Absent
  <1>6. ASSUME NEW v  PROVE Absent(echoes, v)' <=> Absent(echoes, v)
    BY DEF Absent
  <1>7. Outstanding(u)' /\ \A v : v # u => (Outstanding(v)' <=> Outstanding(v))
    BY <1>5, <1>6 DEF Outstanding
  <1>8. \A v : v # u => (v \in reactions') = (v \in reactions)
    BY <1>2
  <1>9. ASSUME LastIsRow  PROVE LastIsRow'
    <2>1. ASSUME NEW k \in DOMAIN due', NewestIn(due', k)
          PROVE  due'[k].add = (due'[k].who \in reactions')
      <3>1. \/ k = Len(due) + 1 /\ due'[k] = e
            \/ k \in DOMAIN due /\ NewestIn(due, k) /\ due'[k] = due[k] /\ due[k].who # e.who
        BY <1>1, <1>2, <2>1, NewestAppended
      <3>2. CASE due'[k] = e
        BY <1>2, <3>2
      <3>3. CASE k \in DOMAIN due /\ NewestIn(due, k) /\ due'[k] = due[k] /\ due[k].who # e.who
        BY <1>2, <1>8, <1>9, <3>3 DEF LastIsRow
      <3>4. QED
        BY <3>1, <3>2, <3>3
    <2>2. ASSUME NEW k \in DOMAIN echoes, NewestIn(echoes, k), Absent(due, echoes[k].who)'
          PROVE  echoes[k].add = (echoes[k].who \in reactions')
      BY <1>5, <1>8, <1>9, <2>2 DEF LastIsRow
    <2>3. QED
      BY <2>1, <2>2 DEF LastIsRow, NewestIn, Absent
  <1>10. ASSUME PageKnows  PROVE PageKnows'
    BY <1>7, <1>8, <1>10 DEF PageKnows
  <1>11. QED
    BY <1>3, <1>4, <1>7, <1>8, <1>9, <1>10

-----------------------------------------------------------------------------
(* What the client does with an event or a click of its own: whoever it is *)
(* about is counted afterwards if and only if they have reacted.           *)

BlindAfter(p, u) == IF p.count = 0 THEN {} ELSE blind \ {u}

LEMMA AppliedTyped ==
    ASSUME PillTyped, NEW e \in Pill!Event
    PROVE  Pill!Applied(pill, e) \in PillState
  <1>1. /\ pill.count \in Nat /\ pill.me \in BOOLEAN /\ pill.users \subseteq Pill!Member
        /\ e.who \in Pill!Member /\ e.add \in BOOLEAN /\ pill \in PillState
    BY DEF PillTyped, PillState, Pill!Event
  <1>2. Pill!Added(pill, e.who) \in PillState
    BY <1>1 DEF Pill!Added, PillState
  <1>3. Pill!Removed(pill, e.who) \in PillState
    <2>1. Pill!NoPill \in PillState
      BY DEF Pill!NoPill, PillState
    <2>2. pill.count # 0 /\ pill.count # 1 => pill.count - 1 \in Nat
      BY <1>1
    <2>3. QED
      BY <1>1, <2>1, <2>2 DEF Pill!Removed, PillState
  <1>4. QED
    BY <1>1, <1>2, <1>3 DEF Pill!Applied

LEMMA AddedShows ==
    ASSUME PillTyped, Consistent(pill, blind), NEW u \in Pill!Member,
           ~Pill!Misread([who |-> u, add |-> TRUE])
    PROVE  LET p == Pill!Added(pill, u) IN
           /\ CountedBy(p, BlindAfter(p, u)) = Counted \cup {u}
           /\ Consistent(p, BlindAfter(p, u))
  <1> DEFINE p == Pill!Added(pill, u)
             b == BlindAfter(p, u)
             e == [who |-> u, add |-> TRUE]
  <1> SUFFICES CountedBy(p, b) = Counted \cup {u} /\ Consistent(p, b)
    OBVIOUS
  <1>0. /\ pill.count \in Nat /\ pill.me \in BOOLEAN /\ pill.users \subseteq Pill!Member
        /\ blind \subseteq Reader /\ pill = [count |-> pill.count, me |-> pill.me, users |-> pill.users]
        /\ e.who = u /\ e.add = TRUE
    BY DEF PillTyped, PillState
  <1>1. /\ Counted = CountedBy(pill, blind) /\ IsFiniteSet(Counted) /\ pill.count = Cardinality(Counted)
        /\ pill.users \cap blind = {} /\ (Me \in pill.users => pill.me)
    BY DEF Consistent, Counted, CountedBy
  <1>2. Me \notin Reader /\ Me \notin blind
    BY <1>0, PillOperators
  <1>3. pill.count = 0 => Counted = {}
    BY <1>1, FS_EmptySet
  <1>4. u \notin Counted => Cardinality(Counted \cup {u}) = pill.count + 1
    <2> HIDE DEF p, b, e
    <2>1. IsFiniteSet(Counted) /\ pill.count = Cardinality(Counted)
      BY <1>1
    <2>2. u \notin Counted => Cardinality(Counted \cup {u}) = Cardinality(Counted) + 1
      BY <2>1, FS_AddElement
    <2>3. QED
      BY <2>1, <2>2
  <1>5. IsFiniteSet(Counted \cup {u})
    BY <1>1, FS_AddElement
  <1>6. u # Me /\ pill.count > 0 /\ u \notin pill.users => u \notin blind
    BY <1>0 DEF Pill!Misread
  <1> HIDE DEF e
  <1>7. CASE pill.count = 0
    <2>1. p.count = 1 /\ (p.me <=> u = Me) /\ p.users = {u}
      <3>1. p = [count |-> 1, me |-> u = Me, users |-> {u}]
        BY <1>7 DEF Pill!Added
      <3> HIDE DEF p
      <3>2. QED
        BY <3>1
    <2> HIDE DEF p
    <2>2. blind = {} /\ b = {}
      BY <1>3, <1>7, <2>1 DEF BlindAfter, Counted, CountedBy
    <2>3. CountedBy(p, b) = {u}
      BY <2>1, <2>2 DEF CountedBy
    <2>4. Counted \cup {u} = {u} /\ u \notin Counted
      BY <1>3, <1>7
    <2>5. QED
      BY <1>4, <1>5, <1>7, <2>1, <2>2, <2>3, <2>4 DEF Consistent
  <1>8. CASE pill.count > 0 /\ (IF u = Me THEN pill.me ELSE u \in pill.users)
    <2>1. p = pill
      BY <1>0, <1>8 DEF Pill!Added
    <2>2. b = blind
      BY <1>1, <1>2, <1>8, <2>1 DEF BlindAfter
    <2>3. Counted \cup {u} = Counted
      BY <1>8 DEF Counted, CountedBy
    <2>4. QED
      BY <1>1, <2>1, <2>2, <2>3
  <1>9. CASE pill.count > 0 /\ ~(IF u = Me THEN pill.me ELSE u \in pill.users)
    <2>1. /\ p.count = pill.count + 1 /\ (p.me <=> pill.me \/ u = Me)
          /\ p.users = pill.users \cup {u}
      <3>1. p = [count |-> pill.count + 1, me |-> pill.me \/ u = Me, users |-> pill.users \cup {u}]
        BY <1>0, <1>9 DEF Pill!Added
      <3> HIDE DEF p
      <3>2. QED
        BY <3>1
    <2> HIDE DEF p
    <2>2. u \notin blind
      BY <1>2, <1>6, <1>9
    <2>3. b = blind
      BY <1>0, <2>1, <2>2 DEF BlindAfter
    <2>4. u \notin Counted
      BY <1>9, <2>2 DEF Counted, CountedBy
    <2>5. CountedBy(p, b) = Counted \cup {u}
      <3>1. CASE u = Me
        BY <1>1, <2>1, <2>3, <3>1 DEF CountedBy, Counted
      <3>2. CASE u # Me
        BY <1>1, <2>1, <2>3, <3>2 DEF CountedBy, Counted
      <3>3. QED
        BY <3>1, <3>2
    <2>6. p.users \cap b = {} /\ (Me \in p.users => p.me) /\ p.count = pill.count + 1
      BY <1>1, <2>1, <2>2, <2>3
    <2>7. QED
      BY <1>4, <1>5, <2>4, <2>5, <2>6 DEF Consistent
  <1>10. QED
    BY <1>0, <1>7, <1>8, <1>9

LEMMA RemovedShows ==
    ASSUME PillTyped, Consistent(pill, blind), NEW u \in Pill!Member,
           ~Pill!Misread([who |-> u, add |-> FALSE])
    PROVE  LET p == Pill!Removed(pill, u) IN
           /\ CountedBy(p, BlindAfter(p, u)) = Counted \ {u}
           /\ Consistent(p, BlindAfter(p, u))
  <1> DEFINE p == Pill!Removed(pill, u)
             b == BlindAfter(p, u)
             e == [who |-> u, add |-> FALSE]
             ignored == IF u = Me THEN ~pill.me ELSE pill.users # {} /\ u \notin pill.users
  <1> SUFFICES CountedBy(p, b) = Counted \ {u} /\ Consistent(p, b)
    OBVIOUS
  <1>0. /\ pill.count \in Nat /\ pill.me \in BOOLEAN /\ pill.users \subseteq Pill!Member
        /\ blind \subseteq Reader /\ e.who = u /\ e.add = FALSE
    BY DEF PillTyped, PillState
  <1>1. /\ Counted = CountedBy(pill, blind) /\ IsFiniteSet(Counted) /\ pill.count = Cardinality(Counted)
        /\ pill.users \cap blind = {} /\ (Me \in pill.users => pill.me)
    BY DEF Consistent, Counted, CountedBy
  <1>2. Me \notin Reader /\ Me \notin blind
    BY <1>0, PillOperators
  <1>3. pill.count = 0 => Counted = {}
    BY <1>1, FS_EmptySet
  <1>4. /\ IsFiniteSet(Counted \ {u})
        /\ u \in Counted => Cardinality(Counted \ {u}) = pill.count - 1
    BY <1>1, FS_RemoveElement
  <1>5. /\ u # Me /\ pill.count > 0 /\ u \notin pill.users => ((u \in blind) # (pill.users # {}))
    BY <1>0 DEF Pill!Misread
  <1>6. pill.count = 0 => blind = {}
    BY <1>3 DEF Counted, CountedBy
  <1> HIDE DEF e
  <1>7. CASE pill.count = 0 \/ ignored
    <2>1. p = pill
      BY <1>7 DEF Pill!Removed
    <2>2. u \notin Counted
      <3>1. CASE pill.count = 0
        BY <1>3, <3>1
      <3>2. CASE pill.count > 0 /\ ignored
        BY <1>2, <1>5, <3>2 DEF Counted, CountedBy
      <3>3. QED
        BY <1>0, <1>7, <3>1, <3>2
    <2>3. b = blind
      BY <1>6, <2>1, <2>2 DEF BlindAfter, Counted, CountedBy
    <2>4. Counted \ {u} = Counted
      BY <2>2
    <2>5. QED
      BY <1>1, <2>1, <2>3, <2>4
  <1>8. CASE pill.count > 0 /\ ~ignored
    <2>1. u \in Counted
      BY <1>5, <1>8 DEF Counted, CountedBy
    <2>2. CASE pill.count = 1
      <3>1. p = Pill!NoPill
        BY <1>8, <2>2 DEF Pill!Removed
      <3>2. b = {} /\ p.count = 0 /\ ~p.me /\ p.users = {}
        BY <3>1 DEF BlindAfter, Pill!NoPill
      <3>3. Cardinality(Counted \ {u}) = 0
        BY <1>4, <2>1, <2>2
      <3>4. Counted \ {u} = {}
        BY <1>4, <3>3, FS_EmptySet
      <3>5. CountedBy(p, b) = {}
        BY <3>2 DEF CountedBy
      <3>6. QED
        BY <1>4, <3>2, <3>3, <3>4, <3>5 DEF Consistent
    <2>3. CASE pill.count > 1
      <3>1. /\ p.count = pill.count - 1 /\ (p.me <=> pill.me /\ u # Me)
            /\ p.users = pill.users \ {u}
        <4>1. p = [count |-> pill.count - 1, me |-> pill.me /\ u # Me, users |-> pill.users \ {u}]
          BY <1>8, <2>3 DEF Pill!Removed
        <4> HIDE DEF p
        <4>2. QED
          BY <4>1
      <3> HIDE DEF p
      <3>2. b = blind \ {u}
        BY <1>0, <2>3, <3>1 DEF BlindAfter
      <3>3. CountedBy(p, b) = Counted \ {u}
        <4>1. CASE u = Me
          BY <1>2, <3>1, <3>2, <4>1 DEF CountedBy, Counted
        <4>2. CASE u # Me
          BY <3>1, <3>2, <4>2 DEF CountedBy, Counted
        <4>3. QED
          BY <4>1, <4>2
      <3>4. p.users \cap b = {} /\ (Me \in p.users => p.me) /\ p.count = pill.count - 1
        BY <1>1, <3>1, <3>2
      <3>5. QED
        BY <1>4, <2>1, <3>3, <3>4 DEF Consistent
    <2>4. QED
      BY <1>0, <1>8, <2>2, <2>3
  <1>9. QED
    BY <1>0, <1>7, <1>8

LEMMA AppliedShows ==
    ASSUME PillTyped, Consistent(pill, blind), NEW e \in Pill!Event, ~Pill!Misread(e)
    PROVE  LET p == Pill!Applied(pill, e)
               b == BlindAfter(p, e.who)
           IN  /\ CountedBy(p, b) = IF e.add THEN Counted \cup {e.who} ELSE Counted \ {e.who}
               /\ Consistent(p, b)
  <1>1. e.who \in Pill!Member /\ e.add \in BOOLEAN /\ e = [who |-> e.who, add |-> e.add]
    BY DEF Pill!Event
  <1>2. CASE e.add
    <2>1. e = [who |-> e.who, add |-> TRUE] /\ Pill!Applied(pill, e) = Pill!Added(pill, e.who)
      BY <1>1, <1>2 DEF Pill!Applied
    <2>2. QED
      BY <1>1, <1>2, <2>1, AddedShows
  <1>3. CASE ~e.add
    <2>1. e = [who |-> e.who, add |-> FALSE] /\ Pill!Applied(pill, e) = Pill!Removed(pill, e.who)
      BY <1>1, <1>3 DEF Pill!Applied
    <2>2. QED
      BY <1>1, <1>3, <2>1, RemovedShows
  <1>4. QED
    BY <1>2, <1>3

LEMMA MeIsCounted ==
    ASSUME NEW p \in PillState, NEW b \in SUBSET Reader
    PROVE  p.me <=> Me \in CountedBy(p, b)
  BY PillOperators DEF CountedBy

\* A change of the pill made by me, in a click or its taking back.
LEMMA MineShows ==
    ASSUME PillInv, doubt = {}, NEW add \in BOOLEAN,
           pill' = Pill!Applied(pill, [who |-> Me, add |-> add]),
           blind' = IF pill'.count = 0 THEN {} ELSE blind,
           UNCHANGED <<reactions, due, echoes>>,
           (\A r \in asked' : r.pc = "done") /\ ~Outstanding(Me) => add = (Me \in reactions)
    PROVE  PillShows'
  <1> DEFINE e == [who |-> Me, add |-> add]
  <1>1. PillTyped /\ PillShows
    BY DEF PillInv
  <1>2. e \in Pill!Event /\ e.who = Me /\ e.add = add /\ ~Pill!Misread(e)
    BY PillOperators DEF Pill!Event, Pill!Misread
  <1> HIDE DEF e
  <1>3. blind \subseteq Reader /\ Me \notin blind
    BY <1>1, PillOperators DEF PillTyped
  <1>4. pill' = Pill!Applied(pill, e)
    BY DEF e
  <1>5. blind' = BlindAfter(pill', Me) /\ blind' \in SUBSET Reader
    BY <1>3 DEF BlindAfter
  <1>6. Consistent(pill, blind)
    BY <1>1 DEF PillShows
  <1>7. /\ Counted' = IF add THEN Counted \cup {Me} ELSE Counted \ {Me}
        /\ Consistent(pill', blind')
    BY <1>1, <1>2, <1>4, <1>5, <1>6, AppliedShows DEF Counted
  <1>8. pill' \in PillState
    BY <1>1, <1>2, <1>4, AppliedTyped
  <1>9. pill'.me <=> add
    BY <1>5, <1>7, <1>8, MeIsCounted DEF Counted
  <1>10. ASSUME NEW v  PROVE Outstanding(v)' <=> Outstanding(v)
    BY DEF Outstanding, Absent
  <1>11. \A v \in Reader : ~Outstanding(v)' => (v \in Counted') = (v \in reactions')
    BY <1>1, <1>7, <1>10, PillOperators DEF PillShows
  <1>12. ~Outstanding(Me)' /\ (\A r \in asked' : r.pc = "done") => pill'.me = (Me \in reactions')
    <2>1. pill'.me \in BOOLEAN
      BY <1>8 DEF PillState
    <2>2. QED
      BY <1>9, <1>10, <2>1
  <1>13. QED
    BY <1>7, <1>11, <1>12 DEF PillShows, Consistent

-----------------------------------------------------------------------------
(* Each action.                                                            *)

LEMMA PillInit == Pill!Init => PillInv
  <1> SUFFICES ASSUME Pill!Init  PROVE PillInv
    OBVIOUS
  <1>1. /\ reactions = {} /\ due = <<>> /\ echoes = <<>> /\ asked = {} /\ page = Pill!NoPage
        /\ pill = Pill!NoPill /\ blind = {} /\ doubt = {} /\ toggles = 0
    BY DEF Pill!Init
  <1>2. page.pc = "none" /\ pill.count = 0 /\ ~pill.me /\ pill.users = {} /\ pill \in PillState
    BY <1>1 DEF Pill!NoPage, Pill!NoPill, PillState
  <1>3. PillTyped
    BY <1>1, <1>2, FS_EmptySet DEF PillTyped
  <1>4. OwnRequests /\ LastIsRow /\ PageKnows
    BY <1>1, <1>2 DEF OwnRequests, LastIsRow, PageKnows
  <1>5. Counted = {}
    BY <1>1, <1>2 DEF Counted, CountedBy
  <1>6. PillShows
    <2>1. Consistent(pill, blind)
      BY <1>1, <1>2, <1>5, FS_EmptySet DEF Consistent, Counted
    <2>2. pill.me = (Me \in reactions)
      BY <1>1, <1>2 DEF PillState
    <2>3. QED
      BY <1>1, <1>5, <2>1, <2>2 DEF PillShows
  <1>7. QED
    BY <1>3, <1>4, <1>6 DEF PillInv

\* What changes neither the pill nor anything it shows.
LEMMA PillKept ==
    ASSUME PillShows, UNCHANGED <<pill, blind>>,
           \A u \in Pill!Member :
                ~Outstanding(u)' => ~Outstanding(u) /\ (u \in reactions') = (u \in reactions),
           ~Outstanding(Me)' /\ (\A r \in asked' : r.pc = "done") => \A r \in asked : r.pc = "done"
    PROVE  PillShows'
  <1>1. Counted' = Counted /\ (Consistent(pill, blind))'
    BY DEF Counted, CountedBy, Consistent, PillShows
  <1>2. \A u \in Reader : ~Outstanding(u)' => (u \in Counted') = (u \in reactions')
    BY <1>1, PillOperators DEF PillShows
  <1>3. ~Outstanding(Me)' /\ (\A r \in asked' : r.pc = "done") => pill'.me = (Me \in reactions')
    BY PillOperators DEF PillShows
  <1>4. QED
    BY <1>1, <1>2, <1>3 DEF PillShows

LEMMA OtherReactsStep ==
    ASSUME PillInv, NEW u \in Reader, NEW add \in BOOLEAN, Pill!OtherReacts(u, add)
    PROVE  PillInv'
  <1>1. Pill!Written(u, add) /\ UNCHANGED <<echoes, asked, page, toggles, pill, blind, doubt>>
    BY DEF Pill!OtherReacts, Pill!clientVars
  <1>2. u \in Pill!Member /\ u # Me /\ Me \in Pill!Member
    BY PillOperators
  <1>3. /\ reactions' \subseteq Pill!Member /\ IsFiniteSet(reactions') /\ due' \in Seq(Pill!Event)
        /\ Outstanding(u)'
        /\ \A v \in Pill!Member \ {u} :
             (v \in reactions') = (v \in reactions) /\ (Outstanding(v)' <=> Outstanding(v))
        /\ LastIsRow => LastIsRow'
        /\ PageKnows => PageKnows'
    BY <1>1, <1>2, WrittenStep
  <1>4. PillTyped'
    BY <1>1, <1>3 DEF PillInv, PillTyped
  <1>5. OwnRequests'
    BY <1>1, <1>2, <1>3 DEF PillInv, OwnRequests
  <1>6. "overtaken" \notin doubt' => LastIsRow' /\ PageKnows'
    BY <1>1, <1>3 DEF PillInv
  <1>7. doubt' = {} => PillShows'
    BY <1>1, <1>2, <1>3, PillKept DEF PillInv
  <1>8. QED
    BY <1>4, <1>5, <1>6, <1>7 DEF PillInv

LEMMA CarriedStep ==
    ASSUME PillInv, NEW r \in asked, Pill!Carried(r)
    PROVE  PillInv'
  <1> DEFINE done == [r EXCEPT !.pc = "done"]
  <1>1. /\ Pill!Written(Me, r.add) /\ r.pc = "sent" /\ asked' = (asked \ {r}) \cup {done}
        /\ UNCHANGED <<echoes, page, toggles, pill, blind, doubt>>
    BY DEF Pill!Carried, Pill!clientVars
  <1>2. Me \in Pill!Member /\ r \in OwnRequest /\ r.add \in BOOLEAN
    BY PillOperators DEF PillInv, PillTyped, OwnRequest
  <1>3. done \in OwnRequest /\ done.pc = "done" /\ done.stale = r.stale
    BY <1>2 DEF OwnRequest
  <1> HIDE DEF done
  <1>4. /\ reactions' \subseteq Pill!Member /\ IsFiniteSet(reactions') /\ due' \in Seq(Pill!Event)
        /\ Outstanding(Me)'
        /\ \A v \in Pill!Member \ {Me} :
             (v \in reactions') = (v \in reactions) /\ (Outstanding(v)' <=> Outstanding(v))
        /\ LastIsRow => LastIsRow'
        /\ PageKnows => PageKnows'
    BY <1>1, <1>2, WrittenStep
  <1>5. PillTyped'
    BY <1>1, <1>3, <1>4 DEF PillInv, PillTyped
  <1>6. OwnRequests'
    <2>1. ASSUME NEW x \in asked', ~x.stale  PROVE asked' = {x} /\ x.pc # "sent"
      <3>1. CASE x = done
        <4>1. asked = {r}
          BY <1>3, <2>1, <3>1 DEF PillInv, OwnRequests
        <4>2. QED
          BY <1>1, <1>3, <3>1, <4>1
      <3>2. CASE x \in asked /\ x # r
        BY <2>1, <3>2 DEF PillInv, OwnRequests
      <3>3. QED
        BY <1>1, <2>1, <3>1, <3>2
    <2>2. QED
      BY <2>1 DEF OwnRequests
  <1>7. "overtaken" \notin doubt' => LastIsRow' /\ PageKnows'
    BY <1>1, <1>4 DEF PillInv
  <1>8. doubt' = {} => PillShows'
    BY <1>1, <1>4, PillKept DEF PillInv
  <1>9. QED
    BY <1>5, <1>6, <1>7, <1>8 DEF PillInv

LEMMA AnsweredStep ==
    ASSUME PillInv, NEW r \in asked, Pill!Answered(r)
    PROVE  PillInv'
  <1>1. /\ r.pc = "done" /\ asked' = asked \ {r}
        /\ UNCHANGED <<reactions, due, echoes, page, toggles, pill, blind, doubt>>
    BY DEF Pill!Answered, Pill!clientVars, Pill!serverVars
  <1>2. PillTyped'
    BY <1>1 DEF PillInv, PillTyped
  <1>3. OwnRequests'
    BY <1>1 DEF PillInv, OwnRequests
  <1>4. \A u : Outstanding(u)' <=> Outstanding(u)
    BY <1>1 DEF Outstanding, Absent
  <1>5. "overtaken" \notin doubt' => LastIsRow' /\ PageKnows'
    BY <1>1, <1>4 DEF PillInv, LastIsRow, PageKnows, NewestIn, Absent
  <1>6. doubt' = {} => PillShows'
    BY <1>1, <1>4, PillKept DEF PillInv
  <1>7. QED
    BY <1>2, <1>3, <1>5, <1>6 DEF PillInv

LEMMA PublishStep ==
    ASSUME PillInv, NEW k \in DOMAIN due, Pill!Publish(k)
    PROVE  PillInv'
  <1> DEFINE u == due[k].who
  <1>1. /\ due' = Pill!Drop(due, k) /\ echoes' = Append(echoes, due[k])
        /\ doubt' = doubt \cup Pill!Overtakes(k, SubSeq(due, 1, k - 1))
        /\ UNCHANGED <<reactions, page, asked, toggles, pill, blind>>
    BY DEF Pill!Publish
  <1>2. /\ due \in Seq(Pill!Event) /\ echoes \in Seq(Pill!Event) /\ due[k] \in Pill!Event
        /\ due' \in Seq(Pill!Event) /\ echoes' \in Seq(Pill!Event)
    BY <1>1, DropIs DEF PillInv, PillTyped
  <1> HIDE DEF u
  <1>3. PillTyped'
    BY <1>1, <1>2 DEF PillInv, PillTyped, Pill!Overtakes, Pill!Cause
  <1>4. OwnRequests'
    BY <1>1 DEF PillInv, OwnRequests
  <1>5. ASSUME NEW v
        PROVE  /\ Absent(due, v) <=> Absent(due', v) /\ u # v
               /\ Absent(echoes', v) <=> Absent(echoes, v) /\ u # v
    BY <1>1, <1>2, AbsentDropped, AbsentAppended DEF u
  <1>6. \A v : Outstanding(v)' <=> Outstanding(v)
    BY <1>5 DEF Outstanding, Absent
  <1>7. ASSUME "overtaken" \notin doubt'  PROVE LastIsRow' /\ PageKnows'
    <2>1. LastIsRow /\ PageKnows
      BY <1>1, <1>7 DEF PillInv
    <2>2. \A j \in DOMAIN due : j < k => due[j].who # u
      <3> DEFINE older == SubSeq(due, 1, k - 1)
      <3>1. \A j \in DOMAIN due : j < k => j \in DOMAIN older /\ older[j] = due[j]
        BY <1>2
      <3>2. \A j \in DOMAIN older : older[j].who # u
        BY <1>1, <1>7 DEF Pill!Overtakes, u
      <3> HIDE DEF older
      <3>3. QED
        BY <3>1, <3>2
    <2>3. ASSUME NEW i \in DOMAIN due', NewestIn(due', i)
          PROVE  due'[i].add = (due'[i].who \in reactions')
      <3>1. PICK j \in DOMAIN due : NewestIn(due, j) /\ due[j] = due'[i]
        BY <1>1, <1>2, <2>2, <2>3, NewestDropped DEF u
      <3>2. QED
        BY <1>1, <2>1, <3>1 DEF LastIsRow
    <2>4. ASSUME NEW i \in DOMAIN echoes', NewestIn(echoes', i), Absent(due', echoes'[i].who)
          PROVE  echoes'[i].add = (echoes'[i].who \in reactions')
      <3>1. \/ echoes'[i] = due[k]
            \/ i \in DOMAIN echoes /\ NewestIn(echoes, i) /\ echoes'[i] = echoes[i] /\ echoes[i].who # u
        BY <1>1, <1>2, <2>4, NewestAppended DEF u
      <3>2. CASE echoes'[i] = due[k]
        <4>1. NewestIn(due, k)
          <5>1. ASSUME NEW j \in DOMAIN due, j > k  PROVE due[j].who # due[k].who
            <6>1. /\ Len(due) \in Nat /\ k \in 1 .. Len(due) /\ j \in 1 .. Len(due)
                  /\ DOMAIN due' = 1 .. Len(due) - 1
                  /\ \A n \in 1 .. Len(due) - 1 : due'[n] = IF n < k THEN due[n] ELSE due[n + 1]
              <7>1. Len(due) \in Nat /\ DOMAIN due = 1 .. Len(due)
                BY <1>2
              <7>2. /\ due' \in Seq(Pill!Event) /\ Len(due') = Len(due) - 1
                    /\ \A n \in 1 .. Len(due) - 1 : due'[n] = IF n < k THEN due[n] ELSE due[n + 1]
                BY <1>1, <1>2, DropIs
              <7>3. DOMAIN due' = 1 .. Len(due')
                BY <7>2
              <7>4. QED
                BY <7>1, <7>2, <7>3
            <6>2. j - 1 \in DOMAIN due' /\ due'[j - 1] = due[j]
              BY <5>1, <6>1
            <6>3. QED
              BY <2>4, <3>2, <6>2 DEF Absent
          <5>2. QED
            BY <5>1 DEF NewestIn
        <4>2. QED
          BY <1>1, <2>1, <3>2, <4>1 DEF LastIsRow
      <3>3. CASE i \in DOMAIN echoes /\ NewestIn(echoes, i) /\ echoes'[i] = echoes[i] /\ echoes[i].who # u
        <4>1. Absent(due, echoes[i].who)
          BY <1>5, <2>4, <3>3
        <4>2. QED
          BY <1>1, <2>1, <3>3, <4>1 DEF LastIsRow
      <3>4. QED
        BY <3>1, <3>2, <3>3
    <2>5. LastIsRow'
      BY <2>3, <2>4 DEF LastIsRow, NewestIn, Absent
    <2>6. PageKnows'
      BY <1>1, <1>6, <2>1 DEF PageKnows
    <2>7. QED
      BY <2>5, <2>6
  <1>8. doubt' = {} => PillShows'
    BY <1>1, <1>6, PillKept DEF PillInv
  <1>9. QED
    BY <1>3, <1>4, <1>7, <1>8 DEF PillInv

\* An event that passes a page under way.
LEMMA PassedIs ==
    ASSUME PillInv, page' = Pill!Passed
    PROVE  /\ page' \in {Pill!NoPage, [pc |-> "asked"]} \cup ReadPage
           /\ page'.pc = "read" => IsFiniteSet(page'.rows) /\ page'.passed
  <1>1. /\ page \in {Pill!NoPage, [pc |-> "asked"]} \cup ReadPage
        /\ page.pc = "read" => IsFiniteSet(page.rows)
    BY DEF PillInv, PillTyped
  <1>2. CASE page.pc = "read"
    <2>1. page \in ReadPage
      BY <1>1, <1>2 DEF Pill!NoPage
    <2>2. page' = [page EXCEPT !.passed = TRUE]
      BY <1>2 DEF Pill!Passed
    <2>3. page' \in ReadPage /\ page'.rows = page.rows /\ page'.passed
      BY <2>1, <2>2 DEF ReadPage
    <2>4. QED
      BY <1>1, <1>2, <2>3
  <1>3. CASE page.pc # "read"
    BY <1>1, <1>3 DEF Pill!Passed
  <1>4. QED
    BY <1>2, <1>3

LEMMA PublishFailsStep ==
    ASSUME PillInv, NEW k \in DOMAIN due, Pill!PublishFails(k)
    PROVE  PillInv'
  <1> DEFINE u == due[k].who
             older == echoes \o SubSeq(due, 1, k - 1)
  <1>1. /\ due' = Pill!Drop(due, k) /\ page' = Pill!Passed
        /\ doubt' = doubt \cup {"lost"} \cup Pill!Overtakes(k, older)
        /\ UNCHANGED <<reactions, echoes, asked, toggles, pill, blind>>
    BY DEF Pill!PublishFails
  <1>2. due \in Seq(Pill!Event) /\ echoes \in Seq(Pill!Event) /\ due' \in Seq(Pill!Event)
    BY <1>1, DropIs DEF PillInv, PillTyped
  <1>3. /\ page' \in {Pill!NoPage, [pc |-> "asked"]} \cup ReadPage
        /\ page'.pc = "read" => IsFiniteSet(page'.rows) /\ page'.passed
    BY <1>1, PassedIs
  <1>4. PillTyped'
    BY <1>1, <1>2, <1>3 DEF PillInv, PillTyped, Pill!Overtakes, Pill!Cause
  <1>5. OwnRequests'
    BY <1>1 DEF PillInv, OwnRequests
  <1>6. ASSUME "overtaken" \notin doubt'  PROVE LastIsRow' /\ PageKnows'
    <2>1. LastIsRow
      BY <1>1, <1>6 DEF PillInv
    <2>2. \A j \in DOMAIN older : older[j].who # u
      BY <1>1, <1>6 DEF Pill!Overtakes
    <2>3. \A j \in DOMAIN due : j < k => due[j].who # u
      <3>1. SUFFICES ASSUME NEW j \in DOMAIN due, j < k  PROVE due[j].who # u
        OBVIOUS
      <3>2. Len(echoes) + j \in DOMAIN older /\ older[Len(echoes) + j] = due[j]
        BY <1>2, <3>1
      <3>3. QED
        BY <2>2, <3>2
    <2>4. \A j \in DOMAIN echoes : echoes[j].who # u
      <3>1. \A j \in DOMAIN echoes : j \in DOMAIN older /\ older[j] = echoes[j]
        BY <1>2
      <3>2. QED
        BY <2>2, <3>1
    <2> HIDE DEF older
    <2>5. ASSUME NEW i \in DOMAIN due', NewestIn(due', i)
          PROVE  due'[i].add = (due'[i].who \in reactions')
      <3>1. PICK j \in DOMAIN due : NewestIn(due, j) /\ due[j] = due'[i]
        BY <1>1, <1>2, <2>3, <2>5, NewestDropped
      <3>2. QED
        BY <1>1, <2>1, <3>1 DEF LastIsRow
    <2>6. ASSUME NEW i \in DOMAIN echoes, NewestIn(echoes, i), Absent(due', echoes[i].who)
          PROVE  echoes[i].add = (echoes[i].who \in reactions)
      <3>1. Absent(due, echoes[i].who)
        BY <1>1, <1>2, <2>4, <2>6, AbsentDropped
      <3>2. QED
        BY <2>1, <2>6, <3>1 DEF LastIsRow
    <2>7. LastIsRow'
      BY <1>1, <2>5, <2>6 DEF LastIsRow, NewestIn, Absent
    <2>8. PageKnows'
      BY <1>3 DEF PageKnows
    <2>9. QED
      BY <2>7, <2>8
  <1>7. doubt' # {}
    BY <1>1
  <1>8. QED
    BY <1>4, <1>5, <1>6, <1>7 DEF PillInv

LEMMA DispatchStep ==
    ASSUME PillInv, Pill!Dispatch
    PROVE  PillInv'
  <1> DEFINE e == Head(echoes)
  <1>1. /\ echoes # <<>> /\ echoes' = Tail(echoes) /\ pill' = Pill!Applied(pill, e)
        /\ doubt' = IF Pill!Misread(e) THEN doubt \cup {"misread"} ELSE doubt
        /\ blind' = BlindAfter(pill', e.who) /\ page' = Pill!Passed
        /\ UNCHANGED <<reactions, due, asked, toggles>>
    BY DEF Pill!Dispatch, BlindAfter
  <1>2. PillTyped
    BY DEF PillInv
  <1>3. /\ echoes \in Seq(Pill!Event) /\ echoes' \in Seq(Pill!Event)
        /\ Len(echoes) \in Nat /\ Len(echoes) > 0 /\ DOMAIN echoes = 1 .. Len(echoes)
        /\ DOMAIN echoes' = 1 .. Len(echoes) - 1
        /\ \A i \in 1 .. Len(echoes) - 1 : echoes'[i] = echoes[i + 1]
        /\ e = echoes[1] /\ e \in Pill!Event
    BY <1>1, <1>2 DEF PillTyped
  <1> HIDE DEF e
  <1>4. e.who \in Pill!Member /\ e.add \in BOOLEAN
    BY <1>3 DEF Pill!Event
  <1>5. /\ page' \in {Pill!NoPage, [pc |-> "asked"]} \cup ReadPage
        /\ page'.pc = "read" => IsFiniteSet(page'.rows) /\ page'.passed
    BY <1>1, PassedIs
  <1>6. pill' \in PillState
    BY <1>1, <1>2, <1>3, AppliedTyped
  <1>7. blind' \in SUBSET Reader
    BY <1>1, <1>2 DEF BlindAfter, PillTyped
  <1>8. PillTyped'
    BY <1>1, <1>2, <1>3, <1>5, <1>6, <1>7 DEF PillTyped, Pill!Cause
  <1>9. OwnRequests'
    BY <1>1 DEF PillInv, OwnRequests
  <1>10. ASSUME NEW i \in DOMAIN echoes', NewestIn(echoes', i)
         PROVE  i + 1 \in DOMAIN echoes /\ NewestIn(echoes, i + 1) /\ echoes'[i] = echoes[i + 1]
    <2>1. i + 1 \in DOMAIN echoes /\ echoes'[i] = echoes[i + 1]
      BY <1>3, <1>10
    <2>2. ASSUME NEW j \in DOMAIN echoes, j > i + 1  PROVE echoes[j].who # echoes[i + 1].who
      <3>1. j - 1 \in DOMAIN echoes' /\ j - 1 > i /\ echoes'[j - 1] = echoes[j]
        BY <1>3, <1>10, <2>2
      <3>2. QED
        BY <1>10, <2>1, <3>1 DEF NewestIn
    <2>3. QED
      BY <2>1, <2>2 DEF NewestIn
  <1>11. "overtaken" \notin doubt' => LastIsRow' /\ PageKnows'
    <2>1. SUFFICES ASSUME "overtaken" \notin doubt'  PROVE LastIsRow' /\ PageKnows'
      OBVIOUS
    <2>2. LastIsRow
      BY <1>1, <2>1 DEF PillInv
    <2>3. LastIsRow'
      BY <1>1, <1>10, <2>2 DEF LastIsRow, NewestIn, Absent
    <2>4. QED
      BY <1>5, <2>3 DEF PageKnows
  <1>12. ASSUME NEW v  PROVE Absent(echoes, v) <=> Absent(echoes', v) /\ e.who # v
    <2>1. ASSUME Absent(echoes, v)  PROVE Absent(echoes', v) /\ e.who # v
      BY <1>3, <2>1 DEF Absent
    <2>2. ASSUME Absent(echoes', v), e.who # v, NEW j \in DOMAIN echoes  PROVE echoes[j].who # v
      <3>1. CASE j = 1
        BY <1>3, <2>2, <3>1
      <3>2. CASE j > 1
        <4>1. j - 1 \in DOMAIN echoes' /\ echoes'[j - 1] = echoes[j]
          BY <1>3, <3>2
        <4>2. QED
          BY <2>2, <4>1 DEF Absent
      <3>3. QED
        BY <1>3, <3>1, <3>2
    <2>3. QED
      BY <2>1, <2>2 DEF Absent
  <1>13. doubt' = {} => PillShows'
    <2>1. SUFFICES ASSUME doubt' = {}  PROVE PillShows'
      OBVIOUS
    <2>2. doubt = {} /\ ~Pill!Misread(e)
      BY <1>1, <2>1
    <2>3. PillShows /\ LastIsRow
      BY <2>2 DEF PillInv
    <2>4. /\ Counted' = IF e.add THEN Counted \cup {e.who} ELSE Counted \ {e.who}
          /\ Consistent(pill', blind')
      <3>1. Consistent(pill, blind)
        BY <2>3 DEF PillShows
      <3>2. QED
        BY <1>1, <1>2, <1>3, <2>2, <3>1, AppliedShows DEF Counted
    \* Who has nothing more to come is counted if their row is there.
    <2>5. ASSUME NEW w, w = e.who, ~Outstanding(w)'  PROVE e.add = (w \in reactions)
      <3>1. Absent(echoes', e.who) /\ Absent(due, e.who)
        BY <1>1, <2>5 DEF Outstanding, Absent
      <3>2. NewestIn(echoes, 1)
        <4>1. ASSUME NEW j \in DOMAIN echoes, j > 1  PROVE echoes[j].who # e.who
          <5>1. j - 1 \in DOMAIN echoes' /\ echoes'[j - 1] = echoes[j]
            BY <1>3, <4>1
          <5>2. QED
            BY <3>1, <5>1 DEF Absent
        <4>2. QED
          BY <1>3, <4>1 DEF NewestIn
      <3>3. QED
        BY <1>3, <2>3, <2>5, <3>1, <3>2 DEF LastIsRow
    <2>6. ASSUME NEW v, v # e.who  PROVE Outstanding(v)' <=> Outstanding(v)
      BY <1>1, <1>12, <2>6 DEF Outstanding, Absent
    <2>7. \A v \in Reader : ~Outstanding(v)' => (v \in Counted') = (v \in reactions')
      <3>1. SUFFICES ASSUME NEW v \in Reader, ~Outstanding(v)'  PROVE (v \in Counted') = (v \in reactions)
        BY <1>1
      <3>2. CASE v = e.who
        BY <1>4, <2>4, <2>5, <3>1, <3>2
      <3>3. CASE v # e.who
        <4>1. (v \in Counted) = (v \in reactions)
          BY <2>3, <2>6, <3>1, <3>3 DEF PillShows
        <4>2. QED
          BY <2>4, <3>3, <4>1
      <3>4. QED
        BY <3>2, <3>3
    <2>8. ~Outstanding(Me)' /\ (\A r \in asked' : r.pc = "done") => pill'.me = (Me \in reactions')
      <3>1. SUFFICES ASSUME ~Outstanding(Me)', \A r \in asked : r.pc = "done"
                     PROVE  pill'.me = (Me \in reactions)
        BY <1>1
      <3>2. (pill'.me <=> Me \in Counted') /\ (pill.me <=> Me \in Counted)
        BY <1>2, <1>6, <1>7, MeIsCounted DEF Counted, PillTyped
      <3>3. pill'.me \in BOOLEAN /\ pill.me \in BOOLEAN
        BY <1>2, <1>6 DEF PillState, PillTyped
      <3>4. CASE e.who = Me
        BY <1>4, <2>4, <2>5, <3>1, <3>2, <3>3, <3>4
      <3>5. CASE e.who # Me
        <4>1. pill.me = (Me \in reactions)
          BY <2>3, <2>6, <3>1, <3>5 DEF PillShows
        <4>2. QED
          BY <2>4, <3>2, <3>3, <3>5, <4>1
      <3>6. QED
        BY <3>4, <3>5
    <2>9. QED
      BY <2>4, <2>7, <2>8 DEF PillShows, Consistent
  <1>14. QED
    BY <1>8, <1>9, <1>11, <1>13 DEF PillInv

LEMMA ToggleStep ==
    ASSUME PillInv, Pill!Toggle
    PROVE  PillInv'
  <1> DEFINE staled == {[r EXCEPT !.stale = TRUE] : r \in asked}
             mine == [add |-> ~pill.me, pc |-> "sent", n |-> toggles, stale |-> Pill!Stale]
  <1>1. /\ toggles' = toggles + 1 /\ asked' = staled \cup {mine}
        /\ pill' = Pill!Applied(pill, [who |-> Me, add |-> ~pill.me])
        /\ blind' = IF pill'.count = 0 THEN {} ELSE blind
        /\ UNCHANGED <<reactions, due, echoes, page, doubt>>
    BY DEF Pill!Toggle, Pill!serverVars
  <1>2. PillTyped /\ pill.me \in BOOLEAN
    BY DEF PillInv, PillTyped, PillState
  <1>3. staled \subseteq OwnRequest /\ \A r \in staled : r.stale
    BY <1>2 DEF PillTyped, OwnRequest
  <1>4. Pill!Stale \in BOOLEAN
    BY DEF Pill!Stale
  <1>5. mine \in OwnRequest
    BY <1>2, <1>4 DEF PillTyped, OwnRequest
  <1>6. mine.add = ~pill.me /\ mine.pc = "sent" /\ mine.stale = Pill!Stale
    OBVIOUS
  <1>7. asked = {} => staled = {}
    OBVIOUS
  <1> HIDE DEF staled, mine
  <1>8. [who |-> Me, add |-> ~pill.me] \in Pill!Event
    BY <1>2, PillOperators DEF Pill!Event
  <1>9. pill' \in PillState
    BY <1>1, <1>2, <1>8, AppliedTyped
  <1>10. PillTyped'
    BY <1>1, <1>2, <1>3, <1>5, <1>9 DEF PillTyped
  <1>11. OwnRequests'
    <2>1. ASSUME NEW r \in asked', ~r.stale
          PROVE  asked' = {r} /\ (r.pc = "sent" => r.add # (Me \in reactions))
      <3>1. r = mine
        BY <1>1, <1>3, <2>1
      <3>2. asked = {} /\ pill.me = (Me \in reactions)
        BY <1>6, <2>1, <3>1 DEF Pill!Stale
      <3>3. QED
        BY <1>1, <1>2, <1>6, <1>7, <3>1, <3>2
    <2>2. QED
      BY <1>1, <2>1 DEF OwnRequests
  <1>12. \A v : Outstanding(v)' <=> Outstanding(v)
    BY <1>1 DEF Outstanding, Absent
  <1>13. "overtaken" \notin doubt' => LastIsRow' /\ PageKnows'
    BY <1>1, <1>12 DEF PillInv, LastIsRow, PageKnows, NewestIn, Absent
  <1>14. doubt' = {} => PillShows'
    <2>1. mine \in asked' /\ mine.pc # "done"
      BY <1>1, <1>6
    <2>2. QED
      BY <1>1, <1>2, <2>1, MineShows
  <1>15. QED
    BY <1>10, <1>11, <1>13, <1>14 DEF PillInv

LEMMA FailsStep ==
    ASSUME PillInv, NEW r \in asked, Pill!Fails(r)
    PROVE  PillInv'
  <1>1. /\ asked' = asked \ {r}
        /\ pill' = Pill!Applied(pill, [who |-> Me, add |-> ~r.add])
        /\ blind' = IF pill'.count = 0 THEN {} ELSE blind
        /\ doubt' = IF Pill!Untimely(r) THEN doubt \cup {"failed"} ELSE doubt
        /\ UNCHANGED <<reactions, due, echoes, page, toggles>>
    BY DEF Pill!Fails, Pill!serverVars
  <1>2. PillTyped /\ r \in OwnRequest /\ r.add \in BOOLEAN /\ r.pc \in {"sent", "done"}
    BY DEF PillInv, PillTyped, OwnRequest
  <1>3. [who |-> Me, add |-> ~r.add] \in Pill!Event
    BY <1>2, PillOperators DEF Pill!Event
  <1>4. pill' \in PillState
    BY <1>1, <1>2, <1>3, AppliedTyped
  <1>5. PillTyped'
    BY <1>1, <1>2, <1>4 DEF PillTyped, Pill!Cause
  <1>6. OwnRequests'
    BY <1>1 DEF PillInv, OwnRequests
  <1>7. \A v : Outstanding(v)' <=> Outstanding(v)
    BY <1>1 DEF Outstanding, Absent
  <1>8. "overtaken" \notin doubt' => LastIsRow' /\ PageKnows'
    BY <1>1, <1>7 DEF PillInv, LastIsRow, PageKnows, NewestIn, Absent
  <1>9. doubt' = {} => PillShows'
    <2>1. SUFFICES ASSUME doubt' = {}  PROVE PillShows'
      OBVIOUS
    <2>2. doubt = {} /\ ~Pill!Untimely(r)
      BY <1>1, <2>1
    <2>3. r.add # (Me \in reactions)
      BY <1>2, <2>2 DEF Pill!Untimely, PillInv, OwnRequests
    <2>4. CASE r.add = TRUE
      <3>1. pill' = Pill!Applied(pill, [who |-> Me, add |-> FALSE])
        BY <1>1, <2>4
      <3>2. Me \notin reactions
        BY <2>3, <2>4
      <3>3. FALSE = (Me \in reactions) /\ FALSE \in BOOLEAN
        BY <3>2
      <3>4. QED
        BY <1>1, <2>2, <3>1, <3>3, MineShows
    <2>5. CASE r.add = FALSE
      <3>1. pill' = Pill!Applied(pill, [who |-> Me, add |-> TRUE])
        BY <1>1, <2>5
      <3>2. Me \in reactions
        <4>1. CASE Me \notin reactions
          <5>1. (Me \in reactions) = FALSE
            BY <4>1
          <5>2. QED
            BY <2>3, <2>5, <5>1
        <4>2. QED
          BY <4>1
      <3>3. TRUE = (Me \in reactions) /\ TRUE \in BOOLEAN
        BY <3>2, ZenonT(30)
      <3>4. QED
        BY <1>1, <2>2, <3>1, <3>3, MineShows
    <2>6. QED
      BY <1>2, <2>4, <2>5
  <1>10. QED
    BY <1>5, <1>6, <1>8, <1>9 DEF PillInv

LEMMA LoadStep ==
    ASSUME PillInv, Pill!Load \/ Pill!Read
    PROVE  PillInv'
  <1>1. UNCHANGED <<reactions, due, echoes, asked, toggles, pill, blind, doubt>>
    BY DEF Pill!Load, Pill!Read, Pill!serverVars, Pill!clientVars
  <1>2. \/ page' = [pc |-> "asked"]
        \/ page' = [pc |-> "read", rows |-> reactions, passed |-> FALSE]
    BY DEF Pill!Load, Pill!Read
  <1>3. PillTyped
    BY DEF PillInv
  <1>4. /\ page' \in {Pill!NoPage, [pc |-> "asked"]} \cup ReadPage
        /\ page'.pc = "read" => page'.rows = reactions
    <2>1. reactions \subseteq Pill!Member /\ IsFiniteSet(reactions)
      BY <1>3 DEF PillTyped
    <2>2. CASE page' = [pc |-> "asked"]
      BY <2>2
    <2>3. CASE page' = [pc |-> "read", rows |-> reactions, passed |-> FALSE]
      <3>1. reactions \in SUBSET Pill!Member /\ FALSE \in BOOLEAN
        BY <2>1
      <3>2. page' \in ReadPage /\ page'.rows = reactions
        BY <2>1, <2>3, <3>1 DEF ReadPage
      <3>3. QED
        BY <3>2
    <2>4. QED
      BY <1>2, <2>2, <2>3
  <1>5. PillTyped'
    BY <1>1, <1>3, <1>4 DEF PillTyped
  <1>6. OwnRequests'
    BY <1>1 DEF PillInv, OwnRequests
  <1>7. \A v : Outstanding(v)' <=> Outstanding(v)
    BY <1>1 DEF Outstanding, Absent
  <1>8. "overtaken" \notin doubt' => LastIsRow' /\ PageKnows'
    BY <1>1, <1>4 DEF PillInv, LastIsRow, PageKnows, NewestIn, Absent
  <1>9. doubt' = {} => PillShows'
    BY <1>1, <1>7, PillKept DEF PillInv
  <1>10. QED
    BY <1>5, <1>6, <1>8, <1>9 DEF PillInv

LEMMA PageArrivesStep ==
    ASSUME PillInv, Pill!PageArrives
    PROVE  PillInv'
  <1>1. /\ page.pc = "read" /\ page' = Pill!NoPage
        /\ pill' = [count |-> Cardinality(page.rows), me |-> Me \in page.rows, users |-> {}]
        /\ blind' = page.rows \ {Me}
        /\ doubt' = (doubt \cap (IF asked = {} THEN {"overtaken"} ELSE {"overtaken", "failed"}))
                      \cup (IF page.passed THEN {"lost"} ELSE {})
        /\ UNCHANGED <<reactions, due, echoes, asked, toggles>>
    BY PillOperators DEF Pill!PageArrives, Pill!Aggregate, Pill!serverVars
  <1>2. PillTyped /\ page.rows \subseteq Pill!Member /\ IsFiniteSet(page.rows) /\ page.passed \in BOOLEAN
    BY <1>1 DEF PillInv, PillTyped, ReadPage, Pill!NoPage
  <1>3. Cardinality(page.rows) \in Nat
    BY <1>2, FS_CardinalityType
  <1>4. /\ pill'.count = Cardinality(page.rows) /\ (pill'.me <=> Me \in page.rows)
        /\ pill'.users = {} /\ pill' \in PillState
    <2>1. /\ pill'.count = Cardinality(page.rows) /\ pill'.me = (Me \in page.rows)
          /\ pill'.users = {}
      BY <1>1
    <2>2. (Me \in page.rows) \in BOOLEAN /\ {} \in SUBSET Pill!Member
      OBVIOUS
    <2>3. pill' \in PillState
      BY <1>1, <1>3, <2>2 DEF PillState
    <2>4. QED
      BY <2>1, <2>3
  <1>5. page'.pc # "read"
    BY <1>1 DEF Pill!NoPage
  <1>6. PillTyped'
    BY <1>1, <1>2, <1>4, <1>5, PillOperators DEF PillTyped, Pill!Cause
  <1>7. OwnRequests'
    BY <1>1 DEF PillInv, OwnRequests
  <1>8. \A v : Outstanding(v)' <=> Outstanding(v)
    BY <1>1 DEF Outstanding, Absent
  <1>9. "overtaken" \notin doubt' => LastIsRow' /\ PageKnows'
    BY <1>1, <1>5 DEF PillInv, LastIsRow, PageKnows, NewestIn, Absent
  <1>10. doubt' = {} => PillShows'
    <2>1. SUFFICES ASSUME doubt' = {}  PROVE PillShows'
      OBVIOUS
    <2>2. PageKnows /\ ~page.passed
      BY <1>1, <2>1 DEF PillInv
    <2>3. Counted' = page.rows
      BY <1>1, <1>4 DEF Counted, CountedBy
    <2>4. Consistent(pill', blind')
      BY <1>2, <1>4, <2>3 DEF Consistent, Counted
    <2>5. \A v \in Pill!Member : ~Outstanding(v)' => (v \in page.rows) = (v \in reactions')
      BY <1>1, <1>8, <2>2 DEF PageKnows
    <2>6. Me \in Pill!Member /\ Reader \subseteq Pill!Member /\ pill'.me \in BOOLEAN
      BY <1>4, PillOperators DEF PillState
    <2>7. QED
      BY <1>4, <2>3, <2>4, <2>5, <2>6 DEF PillShows, Consistent
  <1>11. QED
    BY <1>6, <1>7, <1>9, <1>10 DEF PillInv

LEMMA EditStep ==
    ASSUME PillInv, Pill!Edit
    PROVE  PillInv'
  <1>1. /\ pill' = Pill!NoPill /\ blind' = {}
        /\ doubt' = IF pill # Pill!NoPill THEN doubt \cup {"edited"} ELSE doubt
        /\ UNCHANGED <<reactions, due, echoes, page, asked, toggles>>
    BY DEF Pill!Edit, Pill!serverVars
  <1>2. Pill!NoPill \in PillState /\ Pill!NoPill.count = 0 /\ ~Pill!NoPill.me
    BY DEF Pill!NoPill, PillState
  <1>3. PillTyped'
    BY <1>1, <1>2 DEF PillInv, PillTyped, Pill!Cause
  <1>4. OwnRequests'
    BY <1>1 DEF PillInv, OwnRequests
  <1>5. \A v : Outstanding(v)' <=> Outstanding(v)
    BY <1>1 DEF Outstanding, Absent
  <1>6. "overtaken" \notin doubt' => LastIsRow' /\ PageKnows'
    BY <1>1, <1>5 DEF PillInv, LastIsRow, PageKnows, NewestIn, Absent
  <1>7. doubt' = {} => PillShows'
    <2>1. SUFFICES ASSUME doubt' = {}  PROVE PillShows'
      OBVIOUS
    <2>2. doubt = {} /\ pill = Pill!NoPill /\ PillShows
      BY <1>1, <2>1 DEF PillInv
    <2>3. blind = {}
      <3>1. IsFiniteSet(Counted) /\ Cardinality(Counted) = 0
        BY <1>2, <2>2 DEF PillShows, Consistent, Counted
      <3>2. Counted = {}
        BY <3>1, FS_EmptySet
      <3>3. QED
        BY <3>2 DEF Counted, CountedBy
    <2>4. UNCHANGED <<pill, blind>>
      BY <1>1, <2>2, <2>3
    <2>5. QED
      BY <1>1, <1>5, <2>2, <2>4, PillKept
  <1>8. QED
    BY <1>3, <1>4, <1>6, <1>7 DEF PillInv

LEMMA PillStep == PillInv /\ [PartNext]_<<part, vars, listVars, pillVars, typingVars>> => PillInv'
  <1> SUFFICES ASSUME PillInv, [PartNext]_<<part, vars, listVars, pillVars, typingVars>>  PROVE PillInv'
    OBVIOUS
  <1>1. CASE UNCHANGED pillVars
    BY <1>1 DEF pillVars, PillInv, PillTyped, OwnRequests, LastIsRow, PageKnows, PillShows, Counted,
       CountedBy, Consistent, Outstanding, Absent, NewestIn
  <1>2. CASE Pill!Next
    BY <1>2, OtherReactsStep, CarriedStep, AnsweredStep, PublishStep, PublishFailsStep, DispatchStep,
       ToggleStep, FailsStep, LoadStep, PageArrivesStep, EditStep DEF Pill!Next
  <1>3. QED
    BY <1>1, <1>2 DEF PartNext

\* For any number of members, writes, clicks and pages the pill is what
\* PillInv says of it, whatever order events and answers come in
\* (chatStore.js, toggleReaction, applyReactionAdd, applyReactionRemove).
THEOREM PillInvariant == PartSpec => []PillInv
  <1>1. PartInit => PillInv
    BY PillInit DEF PartInit
  <1>2. QED
    BY <1>1, PillStep, PTL DEF PartSpec

\* Once everything has arrived, the pill shows the rows of the table: own
\* clicks counted once, failed ones taken back, repetitions of others ignored,
\* unless one of the causes in doubt has come about
\* (chatStore.js, toggleReaction; store/reactions.go).
THEOREM ReactionsAreRight == PartSpec => []ReactionsRight
  <1>1. PillInv => Pill!ReactionsRight
    <2>1. SUFFICES ASSUME PillInv, Pill!Quiet, doubt = {}  PROVE Pill!PillMatches
      BY DEF Pill!ReactionsRight
    <2>2. PillTyped /\ PillShows
      BY <2>1 DEF PillInv
    <2>3. \A u : ~Outstanding(u)
      BY <2>1 DEF Pill!Quiet, Outstanding, Absent
    <2>4. pill.me = (Me \in reactions)
      BY <2>1, <2>2, <2>3 DEF PillShows, Pill!Quiet
    <2>5. pill \in PillState /\ blind \in SUBSET Reader
      BY <2>2 DEF PillTyped
    <2>6. Me \in Counted <=> Me \in reactions
      BY <2>4, <2>5, MeIsCounted DEF Counted
    <2>7. Counted \subseteq Pill!Member /\ reactions \subseteq Pill!Member
      BY <2>2, <2>5, PillOperators DEF Counted, CountedBy, PillTyped, PillState
    <2>8. Counted = reactions
      BY <2>2, <2>3, <2>6, <2>7, PillOperators DEF PillShows
    <2>9. pill.count = Cardinality(reactions) /\ IsFiniteSet(reactions)
      BY <2>2, <2>8 DEF PillShows, Consistent, Counted
    <2>10. pill.users \subseteq reactions
      BY <2>2, <2>8 DEF PillShows, Consistent, Counted, CountedBy
    <2>11. /\ Cardinality(pill.users) \in Nat /\ Cardinality(reactions) \in Nat
           /\ Cardinality(pill.users) <= Cardinality(reactions)
      BY <2>9, <2>10, FS_Subset, FS_CardinalityType
    <2>12. /\ Pill!Label.named = pill.users
           /\ Pill!Label.more = IF pill.count > Cardinality(pill.users)
                                THEN pill.count - Cardinality(pill.users) ELSE 0
      BY PillOperators DEF Pill!Label
    <2>13. Cardinality(pill.users) + Pill!Label.more = Cardinality(reactions)
      BY <2>9, <2>11, <2>12
    <2>14. QED
      BY <2>4, <2>9, <2>10, <2>12, <2>13, PillOperators DEF Pill!PillMatches
  <1>2. PillInv => ReactionsRight
    BY <1>1 DEF ReactionsRight
  <1>3. QED
    BY <1>2, PillInvariant, PTL

-----------------------------------------------------------------------------
(* The list.  ChatClientProofs shows what it shows of any list; the runs'  *)
(* list is one of them.                                                    *)

ListProofs == INSTANCE ChatClientProofs WITH MaxMessages <- MaxPosts

\* The list of the runs is the client's, and stands still in the other parts.
LEMMA ListIsTheClient == PartSpec => ListProofs!Spec
  <1>1. PartInit => ListProofs!Init
    BY DEF PartInit,
          List!Init, List!Absent, List!Idle, List!Message, List!Kind, ListProofs!Init,
          ListProofs!Absent, ListProofs!Idle, ListProofs!Message, ListProofs!Kind
  <1>2. [PartNext]_<<part, vars, listVars, pillVars, typingVars>> => [ListProofs!Next]_ListProofs!vars
    <2>1. List!Next => ListProofs!Next
      BY DEF
          List!serverVars, List!clientVars, List!Message, List!Clock, List!Born,
          List!Stored, List!Entry, List!Optimistic, List!IsOptimistic, List!Ids,
          List!Versions, List!Absent, List!Loading, List!Loaded, List!Idle, List!Asked,
          List!Kind, List!Written, List!Create, List!Change, List!Store, List!Room,
          List!Nth, List!Newest, List!Read, List!Places, List!Waiting, List!Without,
          List!Substitute, List!Matches, List!FirstMatch, List!Shown, List!ApplyCreate,
          List!Apply, List!Overtaken, List!Doubt, List!Dispatch, List!Lose, List!Reply,
          List!Full, List!Floor, List!Unseen, List!Load, List!Buffered, List!LoadArrives,
          List!LoadOlder, List!Prepended, List!OlderArrives, List!ResyncArrives,
          List!FetchFails, List!Send, List!Resolved, List!Answer, List!SendFails,
          List!Dismiss, List!Reconnect, List!Next, List!Cardinality,
          ListProofs!serverVars, ListProofs!clientVars, ListProofs!Message,
          ListProofs!Clock, ListProofs!Born, ListProofs!Stored, ListProofs!Entry,
          ListProofs!Optimistic, ListProofs!IsOptimistic, ListProofs!Ids,
          ListProofs!Versions, ListProofs!Absent, ListProofs!Loading, ListProofs!Loaded,
          ListProofs!Idle, ListProofs!Asked, ListProofs!Kind, ListProofs!Written,
          ListProofs!Create, ListProofs!Change, ListProofs!Store, ListProofs!Room,
          ListProofs!Nth, ListProofs!Newest, ListProofs!Read, ListProofs!Places,
          ListProofs!Waiting, ListProofs!Without, ListProofs!Substitute,
          ListProofs!Matches, ListProofs!FirstMatch, ListProofs!Shown,
          ListProofs!ApplyCreate, ListProofs!Apply, ListProofs!Overtaken,
          ListProofs!Doubt, ListProofs!Dispatch, ListProofs!Lose, ListProofs!Reply,
          ListProofs!Full, ListProofs!Floor, ListProofs!Unseen, ListProofs!Load,
          ListProofs!Buffered, ListProofs!LoadArrives, ListProofs!LoadOlder,
          ListProofs!Prepended, ListProofs!OlderArrives, ListProofs!ResyncArrives,
          ListProofs!FetchFails, ListProofs!Send, ListProofs!Resolved, ListProofs!Answer,
          ListProofs!SendFails, ListProofs!Dismiss, ListProofs!Reconnect, ListProofs!Next,
          ListProofs!Cardinality
    <2>2. UNCHANGED listVars => UNCHANGED ListProofs!vars
      BY DEF listVars, ListProofs!vars
    <2>3. QED
      BY <2>1, <2>2 DEF PartNext
  <1>3. QED
    BY <1>1, <1>2, PTL DEF PartSpec, ListProofs!Spec

LEMMA ListConstants == ListProofs!ClientAssumption
  BY ListAssumption DEF List!ClientAssumption, ListProofs!ClientAssumption

\* A list that is loaded agrees with the table on every message it accounts for,
\* unless a write about it is on its way, was lost or is in doubt, with any page
\* size, messages and writes (chatStore.js, applyMessageCreate, loadMessages,
\* loadOlder, resync).
THEOREM TheListOfTheRunsIsRight == PartSpec => []ListIsRight
  <1>1. ListProofs!Spec => []ListProofs!ListIsRight
    BY ListConstants, ListProofs!TheListIsRight
  <1>2. ListProofs!ListIsRight => ListIsRight
    BY DEF ListIsRight,
          List!ListIsRight, List!Disturbed, List!Showing, List!Places, List!Stored,
          List!Clock, List!Versions, List!Message, ListProofs!ListIsRight,
          ListProofs!Disturbed, ListProofs!Showing, ListProofs!Places, ListProofs!Stored,
          ListProofs!Clock, ListProofs!Versions, ListProofs!Message
  <1>3. QED
    BY <1>1, <1>2, ListIsTheClient, PTL

\* Whether the answer or the event comes first, a send has one entry at most, and
\* none that is pending once its request is over (chatStore.js, sendMessage,
\* resolveOptimistic).
THEOREM SendsOfTheRunsSettle == PartSpec => []SendsSettle
  <1>1. ListProofs!Spec => []ListProofs!SendsSettle
    BY ListConstants, ListProofs!EverySendSettles
  <1>2. ListProofs!SendsSettle => SendsSettle
    BY DEF SendsSettle, List!Cardinality, ListProofs!Cardinality, Cardinality,
          List!SendsSettle, List!Waiting, ListProofs!SendsSettle, ListProofs!Waiting
  <1>3. QED
    BY <1>1, <1>2, ListIsTheClient, PTL

\* No answer, event or older page takes a message away that is not deleted
\* (chatStore.js, loadOlder, applyMessageCreate, resolveOptimistic).
THEOREM WhatTheRunsShowStays == PartSpec => ShownStays
  <1>1. ListProofs!Spec => ListProofs!ShownStays
    BY ListConstants, ListProofs!WhatIsShownStays
  <1>2. ListProofs!ShownStays => ShownStays
    BY DEF ShownStays,
          List!ShownStays, List!Refetched, List!Ids, List!vars, ListProofs!ShownStays,
          ListProofs!Refetched, ListProofs!Ids, ListProofs!vars
  <1>3. QED
    BY <1>1, <1>2, ListIsTheClient, PTL

LEMMA ListOfTheRunsTypes == PartSpec => []List!TypeOK
  <1>1. ListProofs!Spec => []ListProofs!TypeOK
    BY ListConstants, ListProofs!ListTypes
  <1>2. ListProofs!TypeOK => List!TypeOK
    BY DEF
          List!TypeOK, List!Message, List!Clock, List!Notice, List!Item, List!Kind,
          ListProofs!TypeOK, ListProofs!Message, ListProofs!Clock, ListProofs!Notice,
          ListProofs!Item, ListProofs!Kind
  <1>3. QED
    BY <1>1, <1>2, ListIsTheClient, PTL

-----------------------------------------------------------------------------
(* All that goes on in the channel.                                        *)

\* The table of the runs is that of MessageStore, with fewer requests or messages.
LEMMA TableIsTheStore == PartSpec => Spec
  <1>1. PartInit => Init
    BY DEF PartInit
  <1>2. [PartNext]_<<part, vars, listVars, pillVars, typingVars>> => [Next]_vars
    BY DEF PartNext
  <1>3. QED
    BY <1>1, <1>2, PTL DEF PartSpec, Spec

\* Every variable has its type, whichever part of the channel moves.
THEOREM ChannelTypes == PartSpec => []AllTypesOK
  <1>1. PartSpec => []TypeOK
    BY TableIsTheStore, MessageTypes, PTL
  <1>2. PillInv => Pill!TypeOK
    <2>1. SUFFICES ASSUME PillInv  PROVE Pill!TypeOK
      OBVIOUS
    <2>2. PillTyped
      BY <2>1 DEF PillInv
    <2>3. Pill!Entered(due) \subseteq Pill!Event /\ Pill!Entered(echoes) \subseteq Pill!Event
      BY <2>2 DEF PillTyped, Pill!Entered
    <2>4. \A r \in asked : r.add \in BOOLEAN /\ r.pc \in {"sent", "done"}
      BY <2>2 DEF PillTyped, OwnRequest
    <2>5. page.pc \in {"none", "asked", "read"}
      BY <2>2 DEF PillTyped, ReadPage, Pill!NoPage
    <2>6. pill.count \in Nat /\ pill.me \in BOOLEAN /\ pill.users \subseteq Pill!Member
      BY <2>2 DEF PillTyped, PillState
    <2>7. QED
      BY <2>2, <2>3, <2>4, <2>5, <2>6 DEF PillTyped, Pill!TypeOK
  <1>3. LineInv => Line!TypeOK
    BY DEF LineInv
  <1>4. TypeOK /\ List!TypeOK /\ PillInv /\ LineInv => AllTypesOK
    BY <1>2, <1>3 DEF AllTypesOK
  <1>5. QED
    BY <1>1, <1>4, ListOfTheRunsTypes, PillInvariant, LineInvariant, PTL

=============================================================================
