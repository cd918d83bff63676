---------------------------- MODULE ChatClientProofs ----------------------------
(***************************************************************************)
(* For any page size, any number of messages, writes and sends: the list   *)
(* of the web client agrees with the table wherever nothing about a        *)
(* message is on its way, lost or in doubt; a send leaves one entry; and   *)
(* what is shown stays.                                                    *)
(*                                                                         *)
(* The invariant ChatInv has a part for each place in which something is   *)
(* kept: the rows and the numbering of their writes (RowsInv), what is     *)
(* told of them (NoticesInv), pages read at one moment and applied at      *)
(* another (FetchInv), the list (ConvInv), the buffer of one that is       *)
(* loading (HeardInv), the sends (SendsInv), and what a loaded list has to *)
(* show (ListInv).  ListIsRight speaks of a message with no event to come; *)
(* ListInv also says what is shown of one whose events are to come, since  *)
(* the step that dispatches the last of them has nothing else to rest on.  *)
(*                                                                         *)
(* The first half is about lists alone: what a page, an append, a          *)
(* substitution and a removal do to the versions of a message and to the   *)
(* entry of a send.                                                        *)
(***************************************************************************)
EXTENDS ChatClient, FiniteSetTheorems, TLAPS

\* The entries of two lists put one after the other.
LEMMA Joined ==
    ASSUME NEW E, NEW p \in Seq(E), NEW q \in Seq(E)
    PROVE  /\ p \o q \in Seq(E) /\ Len(p \o q) = Len(p) + Len(q)
           /\ \A i \in 1 .. Len(p) + Len(q) :
                (p \o q)[i] = IF i <= Len(p) THEN p[i] ELSE q[i - Len(p)]
  <1>1. p \o q \in Seq(E)
    OBVIOUS
  <1>2. Len(p \o q) = Len(p) + Len(q)
    OBVIOUS
  <1>3. QED
    BY <1>1, <1>2

\* The k-th number of a finite set, and that there is one for each of its numbers.
LEMMA NthIs ==
    ASSUME NEW S \in SUBSET Nat, IsFiniteSet(S)
    PROVE  /\ Cardinality(S) \in Nat
           /\ \A k \in 1 .. Cardinality(S) :
                Nth(S, k) \in S /\ Cardinality({j \in S : j <= Nth(S, k)}) = k
           /\ \A x \in S : \E k \in 1 .. Cardinality(S) : Nth(S, k) = x
           /\ \A k, l \in 1 .. Cardinality(S) : k < l => Nth(S, k) < Nth(S, l)
  <1> DEFINE n == Cardinality(S)
             UpTo(x) == {j \in S : j <= x}
             rank == [x \in S |-> Cardinality(UpTo(x))]
  <1>1. n \in Nat
    BY FS_CardinalityType
  <1>2. ASSUME NEW x \in S
        PROVE  IsFiniteSet(UpTo(x)) /\ Cardinality(UpTo(x)) \in Nat /\ rank[x] \in 1 .. n
    <2>1. UpTo(x) \in SUBSET S /\ x \in UpTo(x)
      OBVIOUS
    <2>2. IsFiniteSet(UpTo(x)) /\ Cardinality(UpTo(x)) <= n
      BY <2>1, FS_Subset
    <2>3. Cardinality(UpTo(x)) \in Nat
      BY <2>2, FS_CardinalityType
    <2>4. Cardinality(UpTo(x)) # 0
      BY <2>1, <2>2, FS_EmptySet
    <2>5. QED
      BY <1>1, <2>2, <2>3, <2>4
  <1>3. ASSUME NEW x \in S, NEW y \in S, x < y
        PROVE  rank[x] < rank[y]
    <2>1. UpTo(x) \cup {y} \subseteq UpTo(y)
      <3>1. x \in Nat /\ y \in Nat /\ \A z \in S : z \in Nat
        OBVIOUS
      <3>2. ASSUME NEW z \in UpTo(x)  PROVE z \in UpTo(y)
        <4>1. z \in S /\ z \in Nat /\ z <= x
          BY <3>1
        <4>2. QED
          BY <1>3, <3>1, <4>1
      <3>3. y \in UpTo(y)
        BY <3>1
      <3> HIDE DEF UpTo
      <3>4. QED
        BY <3>2, <3>3
    <2>2. IsFiniteSet(UpTo(x)) /\ IsFiniteSet(UpTo(y))
      BY <1>2
    <2>3. Cardinality(UpTo(x) \cup {y}) = Cardinality(UpTo(x)) + 1
      <3>1. y \notin UpTo(x)
        BY <1>3
      <3> HIDE DEF UpTo
      <3>2. QED
        BY <2>2, <3>1, FS_AddElement
    <2>4. Cardinality(UpTo(x) \cup {y}) <= Cardinality(UpTo(y))
      BY <2>1, <2>2, FS_Subset
    <2>5. Cardinality(UpTo(x)) \in Nat /\ Cardinality(UpTo(y)) \in Nat
      BY <1>2
    <2>6. QED
      BY <2>3, <2>4, <2>5
  <1>4. ASSUME NEW x \in S, NEW y \in S, rank[x] = rank[y]
        PROVE  x = y
    <2>1. rank[x] \in Nat
      BY <1>1, <1>2
    <2>2. ~(x < y) /\ ~(y < x)
      BY <1>3, <1>4, <2>1
    <2>3. QED
      BY <2>2
  <1> HIDE DEF rank
  <1>5. rank \in Injection(S, 1 .. n)
    <2>1. rank \in [S -> 1 .. n]
      BY <1>2 DEF rank
    <2>2. QED
      BY <1>4, <2>1 DEF Injection, IsInjective
  <1>6. rank \in Surjection(S, 1 .. n)
    <2>1. IsFiniteSet(1 .. n) /\ Cardinality(1 .. n) = n
      BY <1>1, FS_Interval
    <2>2. QED
      BY <1>5, <2>1, FS_Injection
  <1>7. ASSUME NEW k \in 1 .. n
        PROVE  Nth(S, k) \in S /\ rank[Nth(S, k)] = k
    <2>1. PICK x \in S : rank[x] = k
      BY <1>6 DEF Surjection
    <2>2. \A y \in S : Cardinality(UpTo(y)) = rank[y]
      BY DEF rank
    <2>3. \E y \in S : Cardinality(UpTo(y)) = k
      BY <2>1, <2>2
    <2>4. Nth(S, k) \in S /\ Cardinality(UpTo(Nth(S, k))) = k
      <3>1. Nth(S, k) = CHOOSE y \in S : Cardinality(UpTo(y)) = k
        BY DEF Nth
      <3> HIDE DEF UpTo
      <3>2. QED
        BY <2>3, <3>1
    <2>5. QED
      BY <2>2, <2>4
  <1>8. \A k \in 1 .. n : Cardinality(UpTo(Nth(S, k))) = k
    BY <1>7 DEF rank
  <1>9. ASSUME NEW x \in S  PROVE \E k \in 1 .. n : Nth(S, k) = x
    <2>1. rank[x] \in 1 .. n
      BY <1>2
    <2>2. Nth(S, rank[x]) = x
      BY <1>4, <1>7, <2>1
    <2>3. QED
      BY <2>1, <2>2
  <1>10. ASSUME NEW k \in 1 .. n, NEW l \in 1 .. n, k < l
         PROVE  Nth(S, k) < Nth(S, l)
    <2> DEFINE a == Nth(S, k)
               b == Nth(S, l)
    <2>1. a \in S /\ b \in S /\ rank[a] = k /\ rank[b] = l
      BY <1>7
    <2> HIDE DEF a, b
    <2>2. a # b /\ ~(b < a)
      BY <1>3, <1>10, <2>1
    <2>3. a < b
      BY <2>1, <2>2
    <2>4. QED
      BY <2>3 DEF a, b
  <1>11. QED
    BY <1>1, <1>7, <1>8, <1>9, <1>10

\* What remains of a list without some places keeps its order.
LEMMA WithoutIs ==
    ASSUME NEW E, NEW items \in Seq(E), NEW places \in SUBSET (DOMAIN items),
           NEW new, new = Without(items, places)
    PROVE  /\ new \in Seq(E)
           /\ \E h \in [DOMAIN new -> DOMAIN items] :
                /\ \A k \in DOMAIN new : h[k] \notin places /\ new[k] = items[h[k]]
                /\ \A k, l \in DOMAIN new : h[k] = h[l] => k = l
                /\ \A x \in DOMAIN items \ places : \E k \in DOMAIN new : h[k] = x
  <1> DEFINE kept == DOMAIN items \ places
             n == Cardinality(kept)
             h == [k \in 1 .. n |-> Nth(kept, k)]
  <1>1. DOMAIN items = 1 .. Len(items) /\ Len(items) \in Nat
    OBVIOUS
  <1>2. kept \in SUBSET Nat /\ IsFiniteSet(kept)
    <2>1. IsFiniteSet(1 .. Len(items))
      BY <1>1, FS_Interval
    <2>2. kept \in SUBSET (1 .. Len(items))
      BY <1>1
    <2>3. QED
      BY <1>1, <2>1, <2>2, FS_Subset
  <1>3. new = [k \in 1 .. n |-> items[Nth(kept, k)]]
    BY DEF Without
  <1> HIDE DEF kept
  <1>4. /\ n \in Nat /\ \A k \in 1 .. n : Nth(kept, k) \in kept
        /\ \A x \in kept : \E k \in 1 .. n : Nth(kept, k) = x
        /\ \A k, l \in 1 .. n : k < l => Nth(kept, k) < Nth(kept, l)
    BY <1>2, NthIs
  <1> HIDE DEF n
  <1>5. \A k \in 1 .. n : h[k] \in DOMAIN items /\ h[k] \notin places /\ h[k] \in Nat
    <2>1. SUFFICES ASSUME NEW k \in 1 .. n
                   PROVE  h[k] \in DOMAIN items /\ h[k] \notin places /\ h[k] \in Nat
      OBVIOUS
    <2>2. h[k] \in kept
      BY <1>4
    <2>3. QED
      BY <1>1, <2>2 DEF kept
  <1>6. DOMAIN new = 1 .. n /\ \A k \in 1 .. n : new[k] = items[h[k]] /\ new[k] \in E
    BY <1>3, <1>5
  <1>7. new \in Seq(E)
    <2>1. new \in [1 .. n -> E]
      BY <1>3, <1>6
    <2>2. QED
      BY <1>4, <2>1
  <1>8. \A k, l \in 1 .. n : h[k] = h[l] => k = l
    <2>1. \A k, l \in 1 .. n : k < l => h[k] # h[l]
      BY <1>4, <1>5
    <2>2. \A k, l \in 1 .. n : k < l \/ l < k \/ k = l
      BY <1>4
    <2> HIDE DEF h
    <2>3. QED
      BY <2>1, <2>2
  <1>9. \A x \in DOMAIN items \ places : \E k \in 1 .. n : h[k] = x
    BY <1>4 DEF kept
  <1>10. h \in [1 .. n -> DOMAIN items]
    BY <1>5
  <1> HIDE DEF h
  <1>11. /\ h \in [DOMAIN new -> DOMAIN items]
         /\ \A k \in DOMAIN new : h[k] \notin places /\ new[k] = items[h[k]]
         /\ \A k, l \in DOMAIN new : h[k] = h[l] => k = l
         /\ \A x \in DOMAIN items \ places : \E k \in DOMAIN new : h[k] = x
    <2>1. DOMAIN new = 1 .. n
      BY <1>6
    <2>2. QED
      BY <2>1, <1>5, <1>6, <1>8, <1>9, <1>10
  <1>12. QED
    BY <1>7, <1>11, Zenon

-----------------------------------------------------------------------------
(* What a list shows: the versions of a message and whether it has more    *)
(* than one place, and the same for a send.                                *)

\* The versions shown of a message, and that it has one place at most.
Vers(items, i) == {items[k].ver : k \in Places(items, i)}
Once(items, i) == \A k, l \in Places(items, i) : k = l
\* Whether the entries of a send have failed, and that it has one place at most.
Fates(items, t) == {items[k].failed : k \in Waiting(items, t)}
Single(items, t) == \A k, l \in Waiting(items, t) : k = l

\* An entry is of a message or of a send, and never both.
LEMMA ItemIs ==
    ASSUME ClientAssumption
    PROVE  /\ Message \subseteq Nat \ {0} /\ Other \notin Temp
           /\ \A m \in Item :
               \/ /\ m.id \in Message /\ m.ver \in 1 .. MaxWrites /\ m.temp = Other
               \/ /\ m.id = 0 /\ m.temp \in Temp /\ m.failed \in BOOLEAN
           /\ \A i \in Message, v \in 1 .. MaxWrites :
               /\ Entry(i, v) \in Item /\ Entry(i, v).id = i /\ Entry(i, v).ver = v
               /\ Entry(i, v).temp = Other
           /\ \A t \in Temp :
               /\ Optimistic(t) \in Item /\ Optimistic(t).id = 0 /\ Optimistic(t).temp = t
               /\ Optimistic(t).failed = FALSE
               /\ [Optimistic(t) EXCEPT !.failed = TRUE] \in Item
               /\ [Optimistic(t) EXCEPT !.failed = TRUE].id = 0
               /\ [Optimistic(t) EXCEPT !.failed = TRUE].temp = t
               /\ [Optimistic(t) EXCEPT !.failed = TRUE].failed = TRUE
  <1>1. Message \subseteq Nat \ {0} /\ Other \notin Temp
    BY DEF ClientAssumption, Message
  <1>2. \A m \in Item :
        \/ /\ m.id \in Message /\ m.ver \in 1 .. MaxWrites /\ m.temp = Other
        \/ /\ m.id = 0 /\ m.temp \in Temp /\ m.failed \in BOOLEAN
    BY DEF Item
  <1>3. \A i \in Message, v \in 1 .. MaxWrites :
        /\ Entry(i, v) \in Item /\ Entry(i, v).id = i /\ Entry(i, v).ver = v
        /\ Entry(i, v).temp = Other
    BY DEF Item, Entry
  <1>4. \A t \in Temp :
        /\ Optimistic(t) \in Item /\ Optimistic(t).id = 0 /\ Optimistic(t).temp = t
        /\ Optimistic(t).failed = FALSE
    BY DEF Item, Optimistic
  <1>5. \A t \in Temp :
        /\ [Optimistic(t) EXCEPT !.failed = TRUE] \in Item
        /\ [Optimistic(t) EXCEPT !.failed = TRUE].id = 0
        /\ [Optimistic(t) EXCEPT !.failed = TRUE].temp = t
        /\ [Optimistic(t) EXCEPT !.failed = TRUE].failed = TRUE
    BY DEF Item, Optimistic
  <1>6. QED
    BY <1>1, <1>2, <1>3, <1>4, <1>5

\* A message is among the ids of a list if and only if some version of it is shown.
LEMMA ShowsIs ==
    ASSUME NEW items, NEW i
    PROVE  i \in Ids(items) <=> Vers(items, i) # {}
  BY DEF Ids, Vers, Places

\* A message that is shown gets a new version, and nothing else changes.
LEMMA SubstitutePlaces ==
    ASSUME ClientAssumption, NEW items \in Seq(Item), NEW j \in Message, NEW v \in 1 .. MaxWrites,
           NEW new, new = Substitute(items, Places(items, j), Entry(j, v))
    PROVE  /\ new \in Seq(Item)
           /\ \A i \in Message :
                /\ Vers(new, i) = IF i = j /\ Vers(items, j) # {} THEN {v} ELSE Vers(items, i)
                /\ Once(items, i) => Once(new, i)
           /\ \A t \in Temp :
                Fates(new, t) = Fates(items, t) /\ (Single(items, t) => Single(new, t))
  <1>1. /\ DOMAIN new = DOMAIN items
        /\ \A k \in DOMAIN items :
            new[k] = IF items[k].id = j THEN Entry(j, v) ELSE items[k]
    BY DEF Substitute, Places
  <1>2. \A k \in DOMAIN items : items[k] \in Item /\ new[k] \in Item
    BY <1>1, ItemIs
  <1>3. new \in Seq(Item)
    <2>1. DOMAIN items = 1 .. Len(items) /\ Len(items) \in Nat
      OBVIOUS
    <2>2. new \in [1 .. Len(items) -> Item]
      BY <1>1, <1>2, <2>1 DEF Substitute
    <2>3. QED
      BY <2>1, <2>2
  <1>4. \A k \in DOMAIN items : new[k].id = items[k].id
    BY <1>1, ItemIs
  <1>5. \A i \in Message : Places(new, i) = Places(items, i)
    BY <1>1, <1>4 DEF Places
  <1>6. ASSUME NEW i \in Message
        PROVE  Vers(new, i) = IF i = j /\ Vers(items, j) # {} THEN {v} ELSE Vers(items, i)
    <2>1. CASE i = j
      <3>1. \A k \in Places(items, j) : new[k].ver = v
        BY <1>1, ItemIs DEF Places
      <3>2. QED
        BY <1>5, <2>1, <3>1 DEF Vers
    <2>2. CASE i # j
      <3>1. \A k \in Places(items, i) : new[k].ver = items[k].ver
        BY <1>1, <2>2 DEF Places
      <3>2. QED
        BY <1>5, <2>2, <3>1 DEF Vers
    <2>3. QED
      BY <2>1, <2>2
  <1>7. \A k \in DOMAIN items : items[k].id = j => items[k].temp = Other
    BY <1>2, ItemIs
  <1>8. ASSUME NEW t \in Temp
        PROVE  Waiting(new, t) = Waiting(items, t) /\ \A k \in Waiting(items, t) : new[k] = items[k]
    BY <1>1, <1>7, ItemIs DEF Waiting
  <1>9. QED
    BY <1>3, <1>5, <1>6, <1>8 DEF Once, Fates, Single

\* Optimistic entries give way to a message.
LEMMA SubstituteWaiting ==
    ASSUME ClientAssumption, NEW items \in Seq(Item), NEW j \in Message, NEW v \in 1 .. MaxWrites,
           NEW Q \in SUBSET (DOMAIN items), \A k \in Q : items[k].id = 0, \A k, l \in Q : k = l,
           NEW new, new = Substitute(items, Q, Entry(j, v))
    PROVE  /\ new \in Seq(Item)
           /\ \A i \in Message :
                /\ Vers(new, i) = IF i = j /\ Q # {} THEN Vers(items, i) \cup {v} ELSE Vers(items, i)
                /\ Once(items, i) /\ (i = j => Vers(items, i) = {}) => Once(new, i)
           /\ \A t \in Temp :
                /\ Fates(new, t) \subseteq Fates(items, t)
                /\ Q = Waiting(items, t) => Fates(new, t) = {}
                /\ Single(items, t) => Single(new, t)
  <1>1. /\ DOMAIN new = DOMAIN items
        /\ \A k \in DOMAIN items : new[k] = IF k \in Q THEN Entry(j, v) ELSE items[k]
    BY DEF Substitute
  <1>2. \A k \in DOMAIN items : items[k] \in Item /\ new[k] \in Item
    BY <1>1, ItemIs
  <1>3. new \in Seq(Item)
    <2>1. DOMAIN items = 1 .. Len(items) /\ Len(items) \in Nat
      OBVIOUS
    <2>2. new \in [1 .. Len(items) -> Item]
      BY <1>1, <1>2, <2>1 DEF Substitute
    <2>3. QED
      BY <2>1, <2>2
  <1>4. ASSUME NEW i \in Message
        PROVE  Places(new, i) = IF i = j THEN Places(items, i) \cup Q ELSE Places(items, i)
    <2>1. \A k \in DOMAIN items : new[k].id = IF k \in Q THEN j ELSE items[k].id
      BY <1>1, ItemIs
    <2>2. \A k \in Q : items[k].id # i
      BY ItemIs
    <2>3. QED
      BY <1>1, <2>1, <2>2 DEF Places
  <1>5. ASSUME NEW i \in Message
        PROVE  Vers(new, i) = IF i = j /\ Q # {} THEN Vers(items, i) \cup {v} ELSE Vers(items, i)
    <2>1. \A k \in Places(items, i) : new[k] = items[k]
      <3>1. \A k \in Q : items[k].id # i
        BY ItemIs
      <3>2. QED
        BY <1>1, <3>1 DEF Places
    <2>2. \A k \in Q : new[k].ver = v
      BY <1>1, ItemIs
    <2>3. CASE i = j
      BY <1>4, <2>1, <2>2, <2>3 DEF Vers
    <2>4. CASE i # j
      BY <1>4, <2>1, <2>4 DEF Vers
    <2>5. QED
      BY <2>3, <2>4
  <1>6. ASSUME NEW i \in Message, Once(items, i), i = j => Vers(items, i) = {}
        PROVE  Once(new, i)
    <2>1. CASE i = j
      <3>1. Places(items, i) = {}
        BY <1>6, <2>1 DEF Vers
      <3>2. QED
        BY <1>4, <2>1, <3>1 DEF Once
    <2>2. CASE i # j
      BY <1>4, <1>6, <2>2 DEF Once
    <2>3. QED
      BY <2>1, <2>2
  <1>7. ASSUME NEW t \in Temp
        PROVE  /\ Waiting(new, t) = Waiting(items, t) \ Q
               /\ \A k \in Waiting(new, t) : new[k] = items[k]
    <2>1. \A k \in Q : new[k].temp = Other
      BY <1>1, ItemIs
    <2>2. \A k \in DOMAIN items \ Q : new[k] = items[k]
      BY <1>1
    <2>3. QED
      BY <1>1, <2>1, <2>2, ItemIs DEF Waiting
  <1>8. QED
    BY <1>3, <1>5, <1>6, <1>7 DEF Fates, Single

\* A list in which the entry of a send is marked as failed.
Failing(items, s, new) ==
    /\ new \in Seq(Item)
    /\ \A i \in Message : Vers(new, i) = Vers(items, i) /\ (Once(items, i) => Once(new, i))
    /\ \A t \in Temp :
         /\ t # s => Fates(new, t) = Fates(items, t)
         /\ Fates(new, s) \subseteq {TRUE}
         /\ Single(items, t) => Single(new, t)

\* A send fails.
LEMMA SubstituteFailed ==
    ASSUME ClientAssumption, NEW items \in Seq(Item), NEW s \in Temp,
           NEW gone \in [id : {0}, ver : {0}, temp : {s}, failed : {TRUE}],
           NEW new, new = Substitute(items, Waiting(items, s), gone)
    PROVE  Failing(items, s, new)
  <1>1. gone \in Item /\ gone.id = 0 /\ gone.temp = s /\ gone.failed = TRUE
    BY DEF Item
  <1>2. /\ DOMAIN new = DOMAIN items
        /\ \A k \in DOMAIN items : new[k] = IF items[k].temp = s THEN gone ELSE items[k]
    BY DEF Substitute, Waiting
  <1>3. \A k \in DOMAIN items : items[k] \in Item /\ new[k] \in Item
    BY <1>1, <1>2
  <1>4. new \in Seq(Item)
    <2>1. DOMAIN items = 1 .. Len(items) /\ Len(items) \in Nat
      OBVIOUS
    <2>2. new \in [1 .. Len(items) -> Item]
      BY <1>2, <1>3, <2>1 DEF Substitute
    <2>3. QED
      BY <2>1, <2>2
  <1>5. ASSUME NEW k \in DOMAIN items
        PROVE  new[k].id = items[k].id /\ new[k].temp = items[k].temp
    <2>1. CASE items[k].temp = s
      <3>1. items[k].id = 0
        BY <1>3, <2>1, ItemIs
      <3>2. QED
        BY <1>1, <1>2, <2>1, <3>1
    <2>2. CASE items[k].temp # s
      BY <1>2, <2>2
    <2>3. QED
      BY <2>1, <2>2
  <1>6. ASSUME NEW i \in Message
        PROVE  Places(new, i) = Places(items, i) /\ \A k \in Places(items, i) : new[k] = items[k]
    <2>1. \A k \in Places(items, i) : items[k].temp = Other
      BY <1>3, ItemIs DEF Places
    <2>2. s # Other
      BY ItemIs
    <2>3. QED
      BY <1>2, <1>5, <2>1, <2>2 DEF Places
  <1>7. ASSUME NEW t \in Temp
        PROVE  /\ Waiting(new, t) = Waiting(items, t)
               /\ \A k \in Waiting(items, t) : new[k] = IF t = s THEN gone ELSE items[k]
    <2>1. Waiting(new, t) = Waiting(items, t)
      BY <1>2, <1>5 DEF Waiting
    <2>2. \A k \in Waiting(items, t) : new[k] = IF t = s THEN gone ELSE items[k]
      BY <1>2 DEF Waiting
    <2>3. QED
      BY <2>1, <2>2
  <1>8. ASSUME NEW t \in Temp
        PROVE  Fates(new, t) = IF t = s /\ Fates(items, t) # {} THEN {TRUE} ELSE Fates(items, t)
    <2>1. CASE t = s
      <3>1. \A k \in Waiting(items, t) : new[k] = gone
        BY <1>7, <2>1
      <3>2. Fates(new, t) = IF Waiting(items, t) = {} THEN {} ELSE {gone.failed}
        BY <1>7, <3>1 DEF Fates
      <3>3. Fates(items, t) = {} <=> Waiting(items, t) = {}
        BY DEF Fates
      <3>4. QED
        BY <1>1, <2>1, <3>2, <3>3
    <2>2. CASE t # s
      BY <1>7, <2>2 DEF Fates
    <2>3. QED
      BY <2>1, <2>2
  <1>9. QED
    <2>1. \A i \in Message : Vers(new, i) = Vers(items, i) /\ (Once(items, i) => Once(new, i))
      BY <1>6 DEF Vers, Once
    <2>2. \A t \in Temp : Single(items, t) => Single(new, t)
      BY <1>7 DEF Single
    <2>3. Fates(new, s) \subseteq {TRUE}
      <3>1. CASE Fates(items, s) = {}
        BY <1>8, <3>1
      <3>2. CASE Fates(items, s) # {}
        BY <1>8, <3>2
      <3>3. QED
        BY <3>1, <3>2
    <2>4. \A t \in Temp : t # s => Fates(new, t) = Fates(items, t)
      BY <1>8
    <2>5. QED
      BY <1>4, <2>1, <2>2, <2>3, <2>4 DEF Failing

\* A list without some of its places shows what the other places show.
LEMMA WithoutShows ==
    ASSUME ClientAssumption, NEW items \in Seq(Item), NEW places \in SUBSET (DOMAIN items),
           NEW new, new = Without(items, places)
    PROVE  /\ new \in Seq(Item)
           /\ \A i \in Message :
                /\ Vers(new, i) = {items[k].ver : k \in Places(items, i) \ places}
                /\ Once(items, i) => Once(new, i)
           /\ \A t \in Temp :
                /\ Fates(new, t) = {items[k].failed : k \in Waiting(items, t) \ places}
                /\ Single(items, t) => Single(new, t)
  <1>1. new \in Seq(Item)
    BY WithoutIs
  <1>2. PICK h \in [DOMAIN new -> DOMAIN items] :
            /\ \A k \in DOMAIN new : h[k] \notin places /\ new[k] = items[h[k]]
            /\ \A k, l \in DOMAIN new : h[k] = h[l] => k = l
            /\ \A x \in DOMAIN items \ places : \E k \in DOMAIN new : h[k] = x
    BY WithoutIs
  <1>3. ASSUME NEW i \in Message
        PROVE  /\ \A k \in Places(new, i) : h[k] \in Places(items, i) \ places
               /\ \A x \in Places(items, i) \ places : \E k \in Places(new, i) : h[k] = x
    BY <1>2 DEF Places
  <1>4. ASSUME NEW t \in Temp
        PROVE  /\ \A k \in Waiting(new, t) : h[k] \in Waiting(items, t) \ places
               /\ \A x \in Waiting(items, t) \ places : \E k \in Waiting(new, t) : h[k] = x
    BY <1>2 DEF Waiting
  <1>5. ASSUME NEW i \in Message
        PROVE  /\ Vers(new, i) = {items[k].ver : k \in Places(items, i) \ places}
               /\ Once(items, i) => Once(new, i)
    <2>1. Places(new, i) \subseteq DOMAIN new
      BY DEF Places
    <2>2. \A k \in Places(new, i) : new[k] = items[h[k]]
      BY <1>2, <2>1
    <2>3. Vers(new, i) = {items[k].ver : k \in Places(items, i) \ places}
      BY <1>3, <2>2 DEF Vers
    <2>4. Once(items, i) => Once(new, i)
      BY <1>2, <1>3, <2>1 DEF Once
    <2>5. QED
      BY <2>3, <2>4
  <1>6. ASSUME NEW t \in Temp
        PROVE  /\ Fates(new, t) = {items[k].failed : k \in Waiting(items, t) \ places}
               /\ Single(items, t) => Single(new, t)
    <2>1. Waiting(new, t) \subseteq DOMAIN new
      BY DEF Waiting
    <2>2. \A k \in Waiting(new, t) : new[k] = items[h[k]]
      BY <1>2, <2>1
    <2>3. Fates(new, t) = {items[k].failed : k \in Waiting(items, t) \ places}
      BY <1>4, <2>2 DEF Fates
    <2>4. Single(items, t) => Single(new, t)
      BY <1>2, <1>4, <2>1 DEF Single
    <2>5. QED
      BY <2>3, <2>4
  <1>7. QED
    BY <1>1, <1>5, <1>6

\* A message leaves the list, or a send does.
LEMMA WithoutMessage ==
    ASSUME ClientAssumption, NEW items \in Seq(Item), NEW j \in Message,
           NEW new, new = Without(items, Places(items, j))
    PROVE  /\ new \in Seq(Item)
           /\ \A i \in Message :
                /\ Vers(new, i) = IF i = j THEN {} ELSE Vers(items, i)
                /\ Once(items, i) => Once(new, i)
           /\ \A t \in Temp :
                Fates(new, t) = Fates(items, t) /\ (Single(items, t) => Single(new, t))
  <1> DEFINE P == Places(items, j)
  <1>1. P \in SUBSET (DOMAIN items)
    BY DEF Places
  <1>2. \A k \in DOMAIN items : items[k] \in Item
    OBVIOUS
  <1>3. \A i \in Message : Places(items, i) \ P = IF i = j THEN {} ELSE Places(items, i)
    BY DEF Places
  <1>4. \A t \in Temp : Waiting(items, t) \ P = Waiting(items, t)
    <2>1. \A k \in P : items[k].temp = Other
      BY <1>2, ItemIs DEF Places
    <2>2. QED
      BY <2>1, ItemIs DEF Waiting
  <1> HIDE DEF P
  <1>5. new = Without(items, P)
    BY DEF P
  <1>6. /\ new \in Seq(Item)
        /\ \A i \in Message :
             /\ Vers(new, i) = {items[k].ver : k \in Places(items, i) \ P}
             /\ Once(items, i) => Once(new, i)
        /\ \A t \in Temp :
             /\ Fates(new, t) = {items[k].failed : k \in Waiting(items, t) \ P}
             /\ Single(items, t) => Single(new, t)
    BY <1>1, <1>5, WithoutShows
  <1>7. \A i \in Message : Vers(new, i) = IF i = j THEN {} ELSE Vers(items, i)
    BY <1>3, <1>6 DEF Vers
  <1>8. \A t \in Temp : Fates(new, t) = Fates(items, t)
    BY <1>4, <1>6 DEF Fates
  <1>9. QED
    BY <1>6, <1>7, <1>8

\* A send loses its entries, and nothing else changes.
LEMMA WithoutSend ==
    ASSUME ClientAssumption, NEW items \in Seq(Item), NEW s \in Temp,
           NEW new, new = Without(items, Waiting(items, s))
    PROVE  /\ new \in Seq(Item)
           /\ \A i \in Message : Vers(new, i) = Vers(items, i) /\ (Once(items, i) => Once(new, i))
           /\ \A t \in Temp :
                /\ Fates(new, t) = IF t = s THEN {} ELSE Fates(items, t)
                /\ Single(items, t) => Single(new, t)
  <1> DEFINE P == Waiting(items, s)
  <1>1. P \in SUBSET (DOMAIN items)
    BY DEF Waiting
  <1>2. \A k \in DOMAIN items : items[k] \in Item
    OBVIOUS
  <1>3. \A i \in Message : Places(items, i) \ P = Places(items, i)
    <2>1. \A k \in P : items[k].id = 0
      BY <1>2, ItemIs DEF Waiting
    <2>2. QED
      BY <2>1, ItemIs DEF Places
  <1>4. \A t \in Temp : Waiting(items, t) \ P = IF t = s THEN {} ELSE Waiting(items, t)
    BY DEF Waiting
  <1> HIDE DEF P
  <1>5. new = Without(items, P)
    BY DEF P
  <1>6. /\ new \in Seq(Item)
        /\ \A i \in Message :
             /\ Vers(new, i) = {items[k].ver : k \in Places(items, i) \ P}
             /\ Once(items, i) => Once(new, i)
        /\ \A t \in Temp :
             /\ Fates(new, t) = {items[k].failed : k \in Waiting(items, t) \ P}
             /\ Single(items, t) => Single(new, t)
    BY <1>1, <1>5, WithoutShows
  <1>7. \A i \in Message : Vers(new, i) = Vers(items, i)
    BY <1>3, <1>6 DEF Vers
  <1>8. \A t \in Temp : Fates(new, t) = IF t = s THEN {} ELSE Fates(items, t)
    BY <1>4, <1>6 DEF Fates
  <1>9. QED
    BY <1>6, <1>7, <1>8

\* The buffer without what the page has.
LEMMA BufferedShows ==
    ASSUME ClientAssumption,
           NEW page, NEW pending \in Seq(Item), NEW new, new = Buffered(page, pending)
    PROVE  /\ new \in Seq(Item)
           /\ \A i \in Message :
                /\ Vers(new, i) = IF i \in Ids(page) THEN {} ELSE Vers(pending, i)
                /\ Once(pending, i) => Once(new, i)
           /\ \A t \in Temp :
                Fates(new, t) \subseteq Fates(pending, t) /\ (Single(pending, t) => Single(new, t))
  <1> DEFINE P == UNION {Places(pending, i) : i \in Ids(page)}
  <1>1. P \in SUBSET (DOMAIN pending)
    BY DEF Places
  <1>2. \A i \in Message : Places(pending, i) \ P = IF i \in Ids(page) THEN {} ELSE Places(pending, i)
    BY DEF Places
  <1>3. new = Without(pending, P)
    BY DEF Buffered
  <1> HIDE DEF P
  <1>4. /\ new \in Seq(Item)
        /\ \A i \in Message :
             /\ Vers(new, i) = {pending[k].ver : k \in Places(pending, i) \ P}
             /\ Once(pending, i) => Once(new, i)
        /\ \A t \in Temp :
             /\ Fates(new, t) = {pending[k].failed : k \in Waiting(pending, t) \ P}
             /\ Single(pending, t) => Single(new, t)
    BY <1>1, <1>3, WithoutShows
  <1>5. ASSUME NEW i \in Message
        PROVE  Vers(new, i) = IF i \in Ids(page) THEN {} ELSE Vers(pending, i)
    BY <1>2, <1>4 DEF Vers
  <1>6. ASSUME NEW t \in Temp
        PROVE  Fates(new, t) \subseteq Fates(pending, t)
    <2>1. SUFFICES ASSUME NEW v \in Fates(new, t)  PROVE v \in Fates(pending, t)
      OBVIOUS
    <2>2. PICK k \in Waiting(pending, t) \ P : v = pending[k].failed
      BY <1>4
    <2>3. QED
      BY <2>2 DEF Fates
  <1>7. QED
    BY <1>4, <1>5, <1>6

\* Two lists, one after the other, show what each of them shows.
LEMMA JoinedShows ==
    ASSUME ClientAssumption,
           NEW a \in Seq(Item), NEW b \in Seq(Item), NEW new, new = Prepended(a, b)
    PROVE  /\ new \in Seq(Item)
           /\ \A i \in Message :
                /\ Vers(new, i) = Vers(a, i) \cup Vers(b, i)
                /\ Once(a, i) /\ Once(b, i) /\ (Vers(a, i) = {} \/ Vers(b, i) = {}) => Once(new, i)
           /\ \A t \in Temp :
                /\ Fates(new, t) = Fates(a, t) \cup Fates(b, t)
                /\ Single(a, t) /\ Single(b, t) /\ (Fates(a, t) = {} \/ Fates(b, t) = {}) =>
                     Single(new, t)
  <1> DEFINE n == Len(a)
             m == Len(b)
  <1>1. n \in Nat /\ m \in Nat /\ DOMAIN a = 1 .. n /\ DOMAIN b = 1 .. m
    OBVIOUS
  <1>2. /\ new \in Seq(Item) /\ Len(new) = n + m
        /\ \A k \in 1 .. n + m : new[k] = IF k <= n THEN a[k] ELSE b[k - n]
    BY Joined DEF Prepended
  <1> HIDE DEF n, m
  <1>3. /\ DOMAIN new = 1 .. n + m
        /\ \A k \in DOMAIN a : k \in DOMAIN new /\ new[k] = a[k]
        /\ \A k \in DOMAIN b : k + n \in DOMAIN new /\ new[k + n] = b[k] /\ k + n \notin DOMAIN a
        /\ \A k \in DOMAIN new \ DOMAIN a : k - n \in DOMAIN b /\ new[k] = b[k - n] /\ k = (k - n) + n
    <2>1. DOMAIN new = 1 .. n + m
      BY <1>1, <1>2
    <2>2. ASSUME NEW k \in DOMAIN a  PROVE k \in DOMAIN new /\ new[k] = a[k]
      BY <1>1, <1>2, <2>1
    <2>3. ASSUME NEW k \in DOMAIN b
          PROVE  k + n \in DOMAIN new /\ new[k + n] = b[k] /\ k + n \notin DOMAIN a
      <3>1. k + n \in 1 .. n + m /\ ~(k + n <= n) /\ (k + n) - n = k
        BY <1>1
      <3>2. QED
        BY <1>1, <1>2, <2>1, <3>1
    <2>4. ASSUME NEW k \in DOMAIN new \ DOMAIN a
          PROVE  k - n \in DOMAIN b /\ new[k] = b[k - n] /\ k = (k - n) + n
      BY <1>1, <1>2, <2>1
    <2>5. QED
      BY <2>1, <2>2, <2>3, <2>4
  <1>4. ASSUME NEW i \in Message
        PROVE  Vers(new, i) = Vers(a, i) \cup Vers(b, i)
    <2>1. ASSUME NEW v \in Vers(new, i)  PROVE v \in Vers(a, i) \cup Vers(b, i)
      <3>1. PICK k \in DOMAIN new : new[k].id = i /\ v = new[k].ver
        BY DEF Vers, Places
      <3>2. CASE k \in DOMAIN a
        BY <1>3, <3>1, <3>2 DEF Vers, Places
      <3>3. CASE k \notin DOMAIN a
        BY <1>3, <3>1, <3>3 DEF Vers, Places
      <3>4. QED
        BY <3>2, <3>3
    <2>2. ASSUME NEW v \in Vers(a, i)  PROVE v \in Vers(new, i)
      BY <1>3 DEF Vers, Places
    <2>3. ASSUME NEW v \in Vers(b, i)  PROVE v \in Vers(new, i)
      <3>1. PICK k \in DOMAIN b : b[k].id = i /\ v = b[k].ver
        BY DEF Vers, Places
      <3>2. k + n \in DOMAIN new /\ new[k + n] = b[k]
        BY <1>3
      <3>3. QED
        BY <3>1, <3>2 DEF Vers, Places
    <2>4. QED
      BY <2>1, <2>2, <2>3
  <1>5. ASSUME NEW i \in Message, Once(a, i), Once(b, i), Vers(a, i) = {} \/ Vers(b, i) = {}
        PROVE  Once(new, i)
    <2>1. Places(a, i) = {} \/ Places(b, i) = {}
      BY <1>5 DEF Vers
    <2>2. SUFFICES ASSUME NEW k \in Places(new, i), NEW l \in Places(new, i)  PROVE k = l
      BY DEF Once
    <2>3. k \in DOMAIN new /\ l \in DOMAIN new
      BY DEF Places
    <2>4. ASSUME NEW x \in Places(new, i)
          PROVE  x \in Places(a, i) \/ x - n \in Places(b, i)
      <3>1. x \in DOMAIN new /\ new[x].id = i
        BY DEF Places
      <3>2. CASE x \in DOMAIN a
        BY <1>3, <3>1, <3>2 DEF Places
      <3>3. CASE x \notin DOMAIN a
        BY <1>3, <3>1, <3>3 DEF Places
      <3>4. QED
        BY <3>2, <3>3
    <2>5. CASE Places(b, i) = {}
      <3>1. k \in Places(a, i) /\ l \in Places(a, i)
        BY <2>4, <2>5
      <3>2. QED
        BY <1>5, <3>1 DEF Once
    <2>6. CASE Places(a, i) = {}
      <3>1. k - n \in Places(b, i) /\ l - n \in Places(b, i)
        BY <2>4, <2>6
      <3>2. k - n = l - n
        BY <1>5, <3>1 DEF Once
      <3>3. k \in Int /\ l \in Int
        BY <1>1, <1>3, <2>3
      <3>4. QED
        BY <1>1, <3>2, <3>3
    <2>7. QED
      BY <2>1, <2>5, <2>6
  <1>6. ASSUME NEW t \in Temp
        PROVE  Fates(new, t) = Fates(a, t) \cup Fates(b, t)
    <2>1. ASSUME NEW v \in Fates(new, t)  PROVE v \in Fates(a, t) \cup Fates(b, t)
      <3>1. PICK k \in DOMAIN new : new[k].temp = t /\ v = new[k].failed
        BY DEF Fates, Waiting
      <3>2. CASE k \in DOMAIN a
        BY <1>3, <3>1, <3>2 DEF Fates, Waiting
      <3>3. CASE k \notin DOMAIN a
        BY <1>3, <3>1, <3>3 DEF Fates, Waiting
      <3>4. QED
        BY <3>2, <3>3
    <2>2. ASSUME NEW v \in Fates(a, t)  PROVE v \in Fates(new, t)
      BY <1>3 DEF Fates, Waiting
    <2>3. ASSUME NEW v \in Fates(b, t)  PROVE v \in Fates(new, t)
      <3>1. PICK k \in DOMAIN b : b[k].temp = t /\ v = b[k].failed
        BY DEF Fates, Waiting
      <3>2. k + n \in DOMAIN new /\ new[k + n] = b[k]
        BY <1>3
      <3>3. QED
        BY <3>1, <3>2 DEF Fates, Waiting
    <2>4. QED
      BY <2>1, <2>2, <2>3
  <1>7. ASSUME NEW t \in Temp, Single(a, t), Single(b, t), Fates(a, t) = {} \/ Fates(b, t) = {}
        PROVE  Single(new, t)
    <2>1. Waiting(a, t) = {} \/ Waiting(b, t) = {}
      BY <1>7 DEF Fates
    <2>2. SUFFICES ASSUME NEW k \in Waiting(new, t), NEW l \in Waiting(new, t)  PROVE k = l
      BY DEF Single
    <2>3. k \in DOMAIN new /\ l \in DOMAIN new
      BY DEF Waiting
    <2>4. ASSUME NEW x \in Waiting(new, t)
          PROVE  x \in Waiting(a, t) \/ x - n \in Waiting(b, t)
      <3>1. x \in DOMAIN new /\ new[x].temp = t
        BY DEF Waiting
      <3>2. CASE x \in DOMAIN a
        BY <1>3, <3>1, <3>2 DEF Waiting
      <3>3. CASE x \notin DOMAIN a
        BY <1>3, <3>1, <3>3 DEF Waiting
      <3>4. QED
        BY <3>2, <3>3
    <2>5. CASE Waiting(b, t) = {}
      <3>1. k \in Waiting(a, t) /\ l \in Waiting(a, t)
        BY <2>4, <2>5
      <3>2. QED
        BY <1>7, <3>1 DEF Single
    <2>6. CASE Waiting(a, t) = {}
      <3>1. k - n \in Waiting(b, t) /\ l - n \in Waiting(b, t)
        BY <2>4, <2>6
      <3>2. k - n = l - n
        BY <1>7, <3>1 DEF Single
      <3>3. k \in Int /\ l \in Int
        BY <1>1, <1>3, <2>3
      <3>4. QED
        BY <1>1, <3>2, <3>3
    <2>7. QED
      BY <2>1, <2>5, <2>6
  <1>8. QED
    BY <1>2, <1>4, <1>5, <1>6, <1>7

\* A list with an entry more at its end.
Appended(items, m, new) ==
    /\ new \in Seq(Item)
    /\ \A i \in Message :
         /\ m.id # i => Vers(new, i) = Vers(items, i)
         /\ m.id = i /\ Vers(items, i) = {} => Vers(new, i) = {m.ver}
         /\ Once(items, i) /\ (m.id = i => Vers(items, i) = {}) => Once(new, i)
    /\ \A t \in Temp :
         /\ m.temp # t => Fates(new, t) = Fates(items, t)
         /\ m.temp = t /\ Fates(items, t) = {} => Fates(new, t) = {m.failed}
         /\ Single(items, t) /\ (m.temp = t => Fates(items, t) = {}) => Single(new, t)

\* A message that was not shown is, and a send that had no entry has one.
LEMMA AppendShows ==
    ASSUME ClientAssumption,
           NEW items \in Seq(Item), NEW m \in Item, NEW new, new = Append(items, m)
    PROVE  Appended(items, m, new)
  <1> DEFINE one == <<m>>
  <1>1. one \in Seq(Item) /\ DOMAIN one = {1} /\ one[1] = m
    OBVIOUS
  <1>2. new = Prepended(items, one)
    BY DEF Prepended
  <1> HIDE DEF one
  <1>3. \A i \in Message : Places(one, i) = IF m.id = i THEN {1} ELSE {}
    BY <1>1 DEF Places
  <1>4. \A t \in Temp : Waiting(one, t) = IF m.temp = t THEN {1} ELSE {}
    BY <1>1 DEF Waiting
  <1>5. \A i \in Message : Vers(one, i) = (IF m.id = i THEN {m.ver} ELSE {}) /\ Once(one, i)
    BY <1>1, <1>3 DEF Vers, Once
  <1>6. \A t \in Temp : Fates(one, t) = (IF m.temp = t THEN {m.failed} ELSE {}) /\ Single(one, t)
    BY <1>1, <1>4 DEF Fates, Single
  <1>7. /\ new \in Seq(Item)
        /\ \A i \in Message :
             /\ Vers(new, i) = Vers(items, i) \cup Vers(one, i)
             /\ Once(items, i) /\ Once(one, i) /\ (Vers(items, i) = {} \/ Vers(one, i) = {}) =>
                  Once(new, i)
        /\ \A t \in Temp :
             /\ Fates(new, t) = Fates(items, t) \cup Fates(one, t)
             /\ Single(items, t) /\ Single(one, t) /\ (Fates(items, t) = {} \/ Fates(one, t) = {}) =>
                  Single(new, t)
    BY <1>1, <1>2, JoinedShows
  <1>8. \A i \in Message :
          /\ m.id # i => Vers(new, i) = Vers(items, i)
          /\ m.id = i /\ Vers(items, i) = {} => Vers(new, i) = {m.ver}
          /\ Once(items, i) /\ (m.id = i => Vers(items, i) = {}) => Once(new, i)
    BY <1>5, <1>7
  <1>9. \A t \in Temp :
          /\ m.temp # t => Fates(new, t) = Fates(items, t)
          /\ m.temp = t /\ Fates(items, t) = {} => Fates(new, t) = {m.failed}
          /\ Single(items, t) /\ (m.temp = t => Fates(items, t) = {}) => Single(new, t)
    BY <1>6, <1>7
  <1>10. QED
    BY <1>7, <1>8, <1>9 DEF Appended

\* A list in which a send has got an entry, which is pending.
Posted(items, s, new) ==
    /\ new \in Seq(Item)
    /\ \A i \in Message : Vers(new, i) = Vers(items, i) /\ (Once(items, i) => Once(new, i))
    /\ \A t \in Temp :
         /\ t # s => Fates(new, t) = Fates(items, t)
         /\ Single(items, t) => Single(new, t)
    /\ Fates(new, s) = {FALSE}

\* A send is shown at once.
LEMMA AppendOptimistic ==
    ASSUME ClientAssumption, NEW items \in Seq(Item), NEW s \in Temp, Fates(items, s) = {}
    PROVE  Posted(items, s, Append(items, Optimistic(s)))
  <1>1. PICK m \in Item : m = Optimistic(s)
    BY ItemIs
  <1>2. PICK new : new = Append(items, m)
    OBVIOUS
  <1>3. /\ m.id = 0 /\ m.temp = s /\ m.failed = FALSE
        /\ \A i \in Message : m.id # i
    BY <1>1, ItemIs
  <1>4. Appended(items, m, new)
    BY <1>2, AppendShows
  <1>5. \A i \in Message : Vers(new, i) = Vers(items, i) /\ (Once(items, i) => Once(new, i))
    BY <1>3, <1>4 DEF Appended
  <1>6. \A t \in Temp :
          /\ t # s => Fates(new, t) = Fates(items, t)
          /\ Single(items, t) => Single(new, t)
    BY <1>3, <1>4 DEF Appended
  <1>7. Fates(new, s) = {FALSE}
    BY <1>3, <1>4 DEF Appended
  <1>8. QED
    BY <1>1, <1>2, <1>4, <1>5, <1>6, <1>7 DEF Posted, Appended

\* A page: the stored messages before a given one, the newest of them if they
\* are too many; none from its floor on is left out.
LEMMA NewestIs ==
    ASSUME ClientAssumption,
           db \in [Message -> 0 .. MaxWrites], NEW before \in Nat, NEW page, page = Newest(before)
    PROVE  /\ page \in Seq(Item) /\ Len(page) <= PageSize
           /\ \A k \in DOMAIN page :
                /\ page[k].id \in Message /\ page[k].temp = Other
                /\ page[k].ver = db[page[k].id] /\ db[page[k].id] > 0
                /\ before = 0 \/ page[k].id < before
           /\ \A k, l \in DOMAIN page : k < l => page[k].id < page[l].id
           /\ \A i \in Message \ Ids(page) :
                db[i] > 0 /\ (before = 0 \/ i < before) => ~(Floor(page) <= i)
  <1> DEFINE ids == {i \in Stored : before = 0 \/ i < before}
             Above(i) == {j \in ids : i < j}
             taken == {i \in ids : Cardinality(Above(i)) < Room}
             n == Cardinality(taken)
  <1>1. PageSize \in Nat \ {0} /\ Room = PageSize /\ MaxMessages \in Nat \ {0}
    BY DEF ClientAssumption, Room
  <1>2. page = [k \in 1 .. n |-> Entry(Nth(taken, k), db[Nth(taken, k)])]
    BY DEF Newest
  <1>3. ids \in SUBSET Message /\ IsFiniteSet(ids) /\ \A i \in ids : i \in Nat /\ db[i] > 0
    <2>1. Stored \subseteq Message
      BY DEF Stored
    <2>2. IsFiniteSet(Message)
      BY <1>1, FS_Interval DEF Message
    <2>3. ids \in SUBSET Message
      BY <2>1
    <2>4. IsFiniteSet(ids)
      BY <2>2, <2>3, FS_Subset
    <2>5. QED
      BY <2>3, <2>4, ItemIs DEF Stored
  <1>4. \A i \in Message : db[i] > 0 /\ (before = 0 \/ i < before) => i \in ids
    BY DEF Stored
  <1>5. \A i \in ids : before = 0 \/ i < before
    OBVIOUS
  <1> HIDE DEF ids
  <1>6. \A i : Above(i) \in SUBSET ids /\ IsFiniteSet(Above(i)) /\ Cardinality(Above(i)) \in Nat
    <2>1. SUFFICES ASSUME NEW i
                   PROVE  /\ Above(i) \in SUBSET ids /\ IsFiniteSet(Above(i))
                          /\ Cardinality(Above(i)) \in Nat
      OBVIOUS
    <2>2. Above(i) \in SUBSET ids
      OBVIOUS
    <2> HIDE DEF Above
    <2>3. QED
      BY <1>3, <2>2, FS_Subset, FS_CardinalityType
  <1>7. taken \in SUBSET ids /\ taken \in SUBSET Nat /\ IsFiniteSet(taken)
    <2>1. taken \in SUBSET ids
      OBVIOUS
    <2> HIDE DEF taken
    <2>2. QED
      BY <1>3, <2>1, FS_Subset
  <1>8. /\ n \in Nat
        /\ \A k \in 1 .. n : Nth(taken, k) \in taken /\ Cardinality({j \in taken : j <= Nth(taken, k)}) = k
        /\ \A x \in taken : \E k \in 1 .. n : Nth(taken, k) = x
        /\ \A k, l \in 1 .. n : k < l => Nth(taken, k) < Nth(taken, l)
    BY <1>7, NthIs
  <1>9. \A i \in ids : i \in taken <=> Cardinality(Above(i)) < PageSize
    BY <1>1
  <1> HIDE DEF taken, n
  <1>10. /\ DOMAIN page = 1 .. n
         /\ \A k \in 1 .. n :
              LET i == Nth(taken, k) IN
              page[k] = Entry(i, db[i]) /\ i \in ids /\ i \in Message /\ db[i] \in 1 .. MaxWrites
    <2>1. ASSUME NEW k \in 1 .. n
          PROVE  LET i == Nth(taken, k) IN
                 page[k] = Entry(i, db[i]) /\ i \in ids /\ i \in Message /\ db[i] \in 1 .. MaxWrites
      <3> DEFINE i == Nth(taken, k)
      <3>1. page[k] = Entry(i, db[i])
        BY <1>2
      <3>2. i \in taken
        BY <1>8
      <3> HIDE DEF i
      <3>3. i \in ids /\ i \in Message
        BY <1>3, <1>7, <3>2
      <3>4. db[i] \in 1 .. MaxWrites
        BY <1>3, <3>3
      <3>5. QED
        BY <3>1, <3>3, <3>4 DEF i
    <2>2. QED
      BY <1>2, <2>1
  <1>11. \A k \in 1 .. n :
           /\ page[k] \in Item /\ page[k].id = Nth(taken, k) /\ page[k].id \in ids
           /\ page[k].id \in Message /\ page[k].temp = Other
           /\ page[k].ver = db[page[k].id] /\ db[page[k].id] > 0
    <2>1. SUFFICES ASSUME NEW k \in 1 .. n
                   PROVE  /\ page[k] \in Item /\ page[k].id = Nth(taken, k) /\ page[k].id \in ids
                          /\ page[k].id \in Message /\ page[k].temp = Other
                          /\ page[k].ver = db[page[k].id] /\ db[page[k].id] > 0
      OBVIOUS
    <2> DEFINE i == Nth(taken, k)
    <2>2. page[k] = Entry(i, db[i]) /\ i \in ids /\ i \in Message /\ db[i] \in 1 .. MaxWrites
      BY <1>10
    <2> HIDE DEF i
    <2>3. page[k] \in Item /\ page[k].id = i /\ page[k].ver = db[i] /\ page[k].temp = Other
      BY <2>2, ItemIs
    <2>4. db[i] > 0
      BY <2>2
    <2>5. QED
      BY <2>2, <2>3, <2>4 DEF i
  <1>12. page \in Seq(Item) /\ Len(page) = n
    <2>1. page \in [1 .. n -> Item]
      BY <1>2, <1>10, <1>11
    <2>2. QED
      BY <1>8, <2>1
  <1>13. \A x \in ids, y \in ids : x < y => Cardinality(Above(y)) < Cardinality(Above(x))
    <2>1. SUFFICES ASSUME NEW x \in ids, NEW y \in ids, x < y
                   PROVE  Cardinality(Above(y)) < Cardinality(Above(x))
      OBVIOUS
    <2>2. Above(y) \cup {y} \in SUBSET Above(x) /\ y \notin Above(y)
      <3>1. \A z \in ids : z \in Nat
        BY <1>3
      <3>2. QED
        BY <2>1, <3>1
    <2> HIDE DEF Above
    <2>3. Cardinality(Above(y) \cup {y}) = Cardinality(Above(y)) + 1
      BY <1>6, <2>2, FS_AddElement
    <2>4. Cardinality(Above(y) \cup {y}) <= Cardinality(Above(x))
      BY <1>6, <2>2, FS_Subset
    <2>5. QED
      BY <1>6, <2>3, <2>4
  <1>14. n <= PageSize
    <2>1. CASE n = 0
      BY <1>1, <2>1
    <2>2. CASE n # 0
      <3> DEFINE x == Nth(taken, 1)
      <3>1. x \in taken
        <4>1. 1 \in 1 .. n
          BY <1>8, <2>2
        <4>2. QED
          BY <1>8, <4>1
      <3>2. ASSUME NEW y \in taken  PROVE x <= y
        <4>1. PICK k \in 1 .. n : Nth(taken, k) = y
          BY <1>8
        <4>2. CASE k = 1
          BY <1>7, <4>1, <4>2
        <4>3. CASE k # 1
          <5>1. 1 \in 1 .. n /\ 1 < k
            BY <1>8, <4>1, <4>3
          <5>2. x < y
            BY <1>8, <4>1, <5>1
          <5>3. x \in Nat /\ y \in Nat
            BY <1>7, <3>1
          <5> HIDE DEF x
          <5>4. QED
            BY <5>2, <5>3
        <4>4. QED
          BY <4>2, <4>3
      <3> HIDE DEF x
      <3>3. x \in ids /\ x \in Nat /\ Cardinality(Above(x)) < PageSize
        BY <1>7, <1>9, <3>1
      <3>4. taken \ {x} \in SUBSET Above(x)
        <4>1. \A y \in taken : y # x => x < y /\ y \in ids
          BY <1>7, <3>2, <3>3
        <4>2. QED
          BY <4>1
      <3> HIDE DEF Above
      <3>5. Cardinality(taken \ {x}) = n - 1
        BY <1>7, <3>1, FS_RemoveElement DEF n
      <3>6. Cardinality(taken \ {x}) <= Cardinality(Above(x))
        BY <1>6, <3>4, FS_Subset
      <3>7. QED
        BY <1>1, <1>6, <1>8, <3>3, <3>5, <3>6
    <2>3. QED
      BY <2>1, <2>2
  <1>15. ASSUME NEW i \in ids \ taken
         PROVE  n >= PageSize /\ \A x \in taken : i < x
    <2>1. \A x \in taken : i < x
      <3>1. SUFFICES ASSUME NEW x \in taken  PROVE i < x
        OBVIOUS
      <3>2. x \in ids /\ x # i /\ i \in Nat /\ x \in Nat
        BY <1>3, <1>7
      <3>3. Cardinality(Above(x)) < PageSize /\ ~(Cardinality(Above(i)) < PageSize)
        BY <1>9, <3>2
      <3>4. ~(x < i)
        BY <1>1, <1>6, <1>13, <3>2, <3>3
      <3>5. QED
        BY <3>2, <3>4
    <2> DEFINE rest == ids \ taken
               m == Nth(rest, Cardinality(rest))
    <2>2. rest \in SUBSET Nat /\ IsFiniteSet(rest) /\ rest # {}
      BY <1>3, FS_Difference
    <2>3. /\ Cardinality(rest) \in Nat
          /\ \A k \in 1 .. Cardinality(rest) : Nth(rest, k) \in rest
          /\ \A x \in rest : \E k \in 1 .. Cardinality(rest) : Nth(rest, k) = x
          /\ \A k, l \in 1 .. Cardinality(rest) : k < l => Nth(rest, k) < Nth(rest, l)
      BY <2>2, NthIs
    <2>4. Cardinality(rest) \in 1 .. Cardinality(rest)
      BY <2>2, <2>3, FS_EmptySet
    <2>5. m \in rest /\ m \in Nat
      BY <2>2, <2>3, <2>4
    <2>6. ASSUME NEW y \in rest  PROVE ~(m < y)
      <3>1. PICK k \in 1 .. Cardinality(rest) : Nth(rest, k) = y
        BY <2>3
      <3>2. CASE k = Cardinality(rest)
        BY <2>5, <3>1, <3>2
      <3>3. CASE k # Cardinality(rest)
        <4>1. k < Cardinality(rest)
          BY <2>3, <3>1, <3>3
        <4>2. y < m
          BY <2>3, <2>4, <3>1, <4>1
        <4>3. m \in Nat /\ y \in Nat
          BY <2>2, <2>5
        <4> HIDE DEF m
        <4>4. QED
          BY <4>2, <4>3
      <3>4. QED
        BY <3>2, <3>3
    <2> HIDE DEF m
    <2>7. Above(m) \in SUBSET taken
      BY <2>6
    <2>8. ~(Cardinality(Above(m)) < PageSize)
      BY <1>9, <2>5
    <2> HIDE DEF Above, rest
    <2>9. Cardinality(Above(m)) <= n
      BY <1>7, <2>7, FS_Subset DEF n
    <2>10. QED
      BY <1>1, <1>6, <1>8, <2>1, <2>8, <2>9
  <1>16. ASSUME NEW i \in Message \ Ids(page), db[i] > 0, before = 0 \/ i < before
         PROVE  ~(Floor(page) <= i)
    <2>1. i \in ids
      BY <1>4, <1>16
    <2>2. i \notin taken
      <3>1. SUFFICES ASSUME i \in taken  PROVE FALSE
        OBVIOUS
      <3>2. PICK k \in 1 .. n : Nth(taken, k) = i
        BY <1>8, <3>1
      <3>3. page[k].id = i /\ k \in DOMAIN page
        BY <1>10, <1>11, <3>2
      <3>4. QED
        BY <3>3 DEF Ids
    <2>3. n >= PageSize /\ \A x \in taken : i < x
      BY <1>15, <2>1, <2>2
    <2>4. 1 \in 1 .. n
      BY <1>1, <1>8, <2>3
    <2>5. page[1].id \in taken
      BY <1>8, <1>11, <2>4
    <2>6. Floor(page) = page[1].id
      BY <1>12, <2>3 DEF Floor, Full
    <2>7. i < page[1].id /\ i \in Nat /\ page[1].id \in Nat
      BY <1>3, <1>7, <2>1, <2>3, <2>5
    <2>8. QED
      BY <2>6, <2>7
  <1>17. \A k, l \in DOMAIN page : k < l => page[k].id < page[l].id
    BY <1>8, <1>10, <1>11
  <1>18. \A k \in DOMAIN page :
           /\ page[k].id \in Message /\ page[k].temp = Other
           /\ page[k].ver = db[page[k].id] /\ db[page[k].id] > 0
           /\ before = 0 \/ page[k].id < before
    BY <1>5, <1>10, <1>11
  <1>19. page \in Seq(Item) /\ Len(page) <= PageSize
    BY <1>12, <1>14
  <1>20. QED
    BY <1>16, <1>17, <1>18, <1>19

-----------------------------------------------------------------------------
(* The server: its rows, what it has told of them, and what it answered.   *)

\* The writes about a message, the first and the last of them, those whose events are
\* to come, and the one that created it.
WritesOf(i) == {v \in 1 .. Clock : about[v] = i}
First(v) == \A w \in 1 .. Clock : w < v => about[w] # about[v]
Last(v) == \A w \in 1 .. Clock : v < w => about[w] # about[v]
Coming(i) == WritesOf(i) \cap Versions(events)
Creates(i, v) == v \in WritesOf(i) /\ First(v) /\ (Last(v) => db[i] = v)

\* The content of a row is the last write about it; the messages are numbered.
RowsInv ==
    /\ db \in [Message -> 0 .. MaxWrites] /\ sender \in [Message -> Temp \cup {Other}]
    /\ about \in Seq(Message) /\ Clock <= MaxWrites
    /\ Born \in 0 .. MaxMessages /\ \A i \in Message : WritesOf(i) # {} <=> i <= Born
    /\ \A i \in Message : WritesOf(i) = {} \/ \E v \in WritesOf(i) : First(v)
    /\ \A i \in Message : db[i] > 0 => db[i] \in WritesOf(i) /\ Last(db[i])

\* An event or an answer tells the truth about its write.
Told(n) ==
    /\ n \in Notice /\ n.ver \in WritesOf(n.id)
    /\ n.kind = "create" <=> First(n.ver)
    /\ n.kind = "delete" => Last(n.ver) /\ db[n.id] = 0
    /\ n.kind # "delete" /\ Last(n.ver) => db[n.id] = n.ver
\* All that is told is true, and no request of the client is answered by a creation.
NoticesInv ==
    (\A n \in events \cup replies : Told(n)) /\ \A r \in replies : r.kind # "create"

\* What a page shows was there when it was read and is outdated only by a
\* later write; what it leaves out from its floor on was not there.
PageOK(f) ==
    /\ f.page \in Seq(Item) /\ Len(f.page) <= PageSize /\ Floor(f.page) \in Message
    /\ f.at \in 0 .. Clock
    /\ \A t \in Temp : Fates(f.page, t) = {}
    /\ \A i \in Message :
        /\ Once(f.page, i)
        /\ f.before # 0 /\ f.before <= i => Vers(f.page, i) = {}
        /\ \A v \in Vers(f.page, i) :
            /\ v \in WritesOf(i) /\ v <= f.at
            /\ db[i] = v \/ \E w \in WritesOf(i) : w > f.at
        /\ Vers(f.page, i) = {} /\ Floor(f.page) <= i /\ (f.before = 0 \/ i < f.before) =>
            \/ \A w \in WritesOf(i) : w > f.at
            \/ db[i] = 0 /\ \A w \in WritesOf(i) : w <= f.at

\* A fetch asks for what is older than a message only in loadOlder, and its page is right.
AskedFetch == [pc : {"asked"}, before : Nat]
ReadFetch == [pc : {"read"}, page : Seq(Item), at : Nat, before : Nat]
FetchInv ==
    /\ fetch \in [Kind -> {Idle} \cup AskedFetch \cup ReadFetch]
    /\ \A k \in Kind :
        /\ fetch[k].pc # "idle" =>
             IF k = "older" THEN fetch[k].before \in Message ELSE fetch[k].before = 0
        /\ fetch[k].pc = "read" => PageOK(fetch[k])

-----------------------------------------------------------------------------
(* The client.                                                             *)

\* The list is absent, loading or loaded, and shows only versions that were written.
LoadingConv == [pc : {"loading"}, items : Seq(Item), pending : Seq(Item)]
LoadedConv == [pc : {"loaded"}, items : Seq(Item), hasMore : BOOLEAN, loadingOlder : BOOLEAN]
ConvInv ==
    /\ conv \in {Absent} \cup LoadingConv \cup LoadedConv
    /\ conv.pc # "absent" => \A i \in Message : Vers(conv.items, i) \subseteq WritesOf(i)
    /\ floor \in Message /\ unsure \subseteq 1 .. Clock

\* While the list is loading, the buffer holds what was heard of.
HeardInv ==
    IF conv.pc = "loading"
    THEN /\ fetch["load"].pc # "idle"
         /\ \A v \in heard : v \in 1 .. Clock /\ Creates(about[v], v)
         /\ \A t \in Temp : Fates(conv.pending, t) = {}
         /\ \A i \in Message :
             Once(conv.pending, i) /\ Vers(conv.pending, i) = {v \in heard : about[v] = i}
    ELSE heard = {}

\* A send has one entry at most, which has failed if and only if the send is over.
Unsent == [pc : {"unsent", "posting", "over"}]
StoredSend == [pc : {"stored"}, id : Message, ver : 1 .. MaxWrites]
SendsInv ==
    /\ send \in [Temp -> Unsent \cup StoredSend]
    /\ \A t \in Temp : send[t].pc = "stored" => Creates(send[t].id, send[t].ver)
    /\ conv.pc # "absent" =>
        \A t \in Temp :
            /\ Single(conv.items, t)
            /\ Fates(conv.items, t) \subseteq
                 CASE send[t].pc = "unsent" -> {} [] send[t].pc = "over" -> {TRUE} [] OTHER -> {FALSE}

\* A message no write of which is in doubt is shown once; without an event to
\* come it is shown as stored; it is missing only if its creation is to come,
\* it is deleted, or older than the list.
Right(items, i, from) ==
    /\ Once(items, i)
    /\ Coming(i) = {} => Vers(items, i) \subseteq {db[i]}
    /\ from <= i /\ db[i] > 0 /\ (\A v \in Coming(i) : ~First(v)) => Vers(items, i) # {}
ListInv ==
    conv.pc = "loaded" =>
        \A i \in Message : WritesOf(i) \cap unsure = {} => Right(conv.items, i, floor)

ChatInv == RowsInv /\ NoticesInv /\ FetchInv /\ ConvInv /\ HeardInv /\ SendsInv /\ ListInv

-----------------------------------------------------------------------------
(* The server's writes.                                                    *)

\* Without a write nothing changes that is said of them.
LEMMA Still ==
    ASSUME UNCHANGED serverVars
    PROVE  /\ Clock' = Clock /\ (RowsInv => RowsInv')
           /\ \A i : WritesOf(i)' = WritesOf(i)
           /\ \A v : (First(v)' <=> First(v)) /\ (Last(v)' <=> Last(v))
           /\ \A i, v : Creates(i, v)' <=> Creates(i, v)
           /\ \A n : Told(n)' <=> Told(n)
           /\ \A f : PageOK(f)' <=> PageOK(f)
  <1>1. db' = db /\ sender' = sender /\ about' = about
    BY DEF serverVars
  <1>2. Clock' = Clock /\ Born' = Born
    BY <1>1 DEF Clock, Born
  <1>3. \A i : WritesOf(i)' = WritesOf(i)
    BY <1>1, <1>2 DEF WritesOf
  <1>4. \A v : (First(v)' <=> First(v)) /\ (Last(v)' <=> Last(v))
    BY <1>1, <1>2 DEF First, Last
  <1>5. \A i, v : Creates(i, v)' <=> Creates(i, v)
    BY <1>1, <1>3, <1>4 DEF Creates
  <1>6. \A n : Told(n)' <=> Told(n)
    BY <1>1, <1>3, <1>4 DEF Told
  <1>7. \A f : PageOK(f)' <=> PageOK(f)
    BY <1>1, <1>2, <1>3 DEF PageOK
  <1>8. RowsInv => RowsInv'
    BY <1>1, <1>2, <1>3, <1>4 DEF RowsInv
  <1>9. QED
    BY <1>2, <1>3, <1>4, <1>5, <1>6, <1>7, <1>8

\* What a write changes: it is the last about its message, and the first if
\* it creates it.
LEMMA WritingIs ==
    ASSUME ClientAssumption,
           RowsInv, NEW i \in Message, NEW kind \in {"create", "update", "delete"},
           NEW new, new = Clock + 1,
           NEW content, content = (IF kind = "delete" THEN 0 ELSE new),
           Written(i, kind, content), sender' \in [Message -> Temp \cup {Other}],
           IF kind = "create" THEN i = Born + 1 ELSE db[i] > 0
    PROVE  /\ Clock \in Nat /\ Clock' = new /\ new \in 1 .. MaxWrites /\ new \notin 1 .. Clock
           /\ about' \in Seq(Message) /\ about'[new] = i
           /\ \A v \in 1 .. Clock : about'[v] = about[v]
           /\ \A j : WritesOf(j)' = WritesOf(j) \cup (IF j = i THEN {new} ELSE {})
           /\ \A v \in 1 .. Clock : (First(v)' <=> First(v)) /\ (Last(v)' <=> Last(v) /\ about[v] # i)
           /\ (First(new)' <=> kind = "create") /\ Last(new)'
           /\ db' \in [Message -> 0 .. MaxWrites] /\ db'[i] = content
           /\ \A j \in Message \ {i} : db'[j] = db[j]
           /\ kind = "create" <=> WritesOf(i) = {}
           /\ RowsInv'
  <1>1. /\ about \in Seq(Message) /\ Clock \in Nat /\ MaxWrites \in Nat /\ MaxMessages \in Nat
        /\ new \in Nat /\ new = Clock + 1
        /\ Clock < MaxWrites /\ Clock = Len(about) /\ db \in [Message -> 0 .. MaxWrites]
    BY DEF RowsInv, Written, Clock, ClientAssumption
  <1>2. /\ about' \in Seq(Message) /\ Len(about') = new /\ about'[new] = i
        /\ \A v \in 1 .. Clock : about'[v] = about[v]
    BY <1>1 DEF Written, Clock
  <1>3. Clock' = new
    BY <1>2 DEF Clock
  <1>4. \A j : WritesOf(j)' = WritesOf(j) \cup (IF j = i THEN {new} ELSE {})
    <2>1. \A v : v \in 1 .. Clock' <=> v \in 1 .. Clock \/ v = new
      BY <1>1, <1>3
    <2>2. ASSUME NEW j, NEW v  PROVE v \in WritesOf(j)' <=> v \in WritesOf(j) \/ (j = i /\ v = new)
      BY <1>1, <1>2, <2>1 DEF WritesOf
    <2>3. QED
      BY <2>2
  <1>5. ASSUME NEW v \in 1 .. Clock
        PROVE  (First(v)' <=> First(v)) /\ (Last(v)' <=> Last(v) /\ about[v] # i)
    <2> DEFINE n == Clock
    <2>0. n \in Nat /\ v \in Nat /\ v <= n
      BY <1>1
    <2>a. /\ First(v)' <=> \A w \in 1 .. n + 1 : w < v => about'[w] # about'[v]
          /\ First(v) <=> \A w \in 1 .. n : w < v => about[w] # about[v]
          /\ Last(v)' <=> \A w \in 1 .. n + 1 : v < w => about'[w] # about'[v]
          /\ Last(v) <=> \A w \in 1 .. n : v < w => about[w] # about[v]
      BY <1>3 DEF First, Last
    <2>b. \A w \in 1 .. n : w \in 1 .. n + 1 /\ about'[w] = about[w]
      BY <1>2, <2>0
    <2>c. \A w \in 1 .. n + 1 : w \in 1 .. n \/ w = n + 1
      BY <2>0
    <2>d. v \in 1 .. n /\ about'[n + 1] = i /\ v < n + 1 /\ ~(n + 1 < v) /\ n + 1 \in 1 .. n + 1
      BY <1>2, <2>0
    <2> HIDE DEF n
    <2>1. First(v)' <=> First(v)
      BY <2>a, <2>b, <2>c, <2>d
    <2>2. Last(v)' => Last(v) /\ about[v] # i
      BY <2>a, <2>b, <2>c, <2>d
    <2>3. Last(v) /\ about[v] # i => Last(v)'
      BY <2>a, <2>b, <2>c, <2>d
    <2>4. QED
      BY <2>1, <2>2, <2>3
  <1>6. kind = "create" <=> WritesOf(i) = {}
    <2>1. Born \in Nat /\ i \in Nat /\ (WritesOf(i) # {} <=> i <= Born)
      BY <1>1 DEF RowsInv, Message
    <2>2. CASE kind = "create"
      BY <2>1, <2>2
    <2>3. CASE kind # "create"
      BY <2>3 DEF RowsInv
    <2>4. QED
      BY <2>2, <2>3
  <1>7. First(new)' <=> kind = "create"
    <2>1. First(new)' <=> \A w \in 1 .. Clock : about[w] # i
      <3>1. First(new)' <=> \A w \in 1 .. new : w < new => about'[w] # about'[new]
        BY <1>3 DEF First
      <3>2. \A w \in 1 .. Clock : w \in 1 .. new /\ w < new /\ about'[w] = about[w]
        BY <1>1, <1>2
      <3>3. \A w \in 1 .. new : w < new => w \in 1 .. Clock
        BY <1>1
      <3>4. about'[new] = i
        BY <1>2
      <3>5. QED
        BY <3>1, <3>2, <3>3, <3>4
    <2>2. WritesOf(i) = {} <=> \A w \in 1 .. Clock : about[w] # i
      BY DEF WritesOf
    <2>3. QED
      BY <1>6, <2>1, <2>2
  <1>8. Last(new)'
    BY <1>1, <1>3 DEF Last
  <1>9. /\ db' \in [Message -> 0 .. MaxWrites] /\ db'[i] = content
        /\ \A j \in Message \ {i} : db'[j] = db[j]
    <2>1. content \in 0 .. MaxWrites
      BY <1>1
    <2>2. db' = [db EXCEPT ![i] = content]
      BY DEF Written
    <2>3. QED
      BY <1>1, <2>1, <2>2
  <1>10. RowsInv'
    <2>1. Born' = (IF kind = "create" THEN Born + 1 ELSE Born) /\ Born' \in 0 .. MaxMessages
      <3> DEFINE S == {j \in Message : \E v \in 1 .. Clock : about[v] = j}
                 T == {j \in Message : \E v \in 1 .. Clock' : about'[v] = j}
      <3>1. Born \in 0 .. MaxMessages /\ \A j \in Message : WritesOf(j) # {} <=> j <= Born
        BY DEF RowsInv
      <3>2. \A j \in Message : (j \in S <=> WritesOf(j) # {}) /\ (j \in T <=> WritesOf(j)' # {})
        BY DEF WritesOf
      <3>3. \A j \in Message : j \in T <=> j <= Born \/ j = i
        BY <1>4, <3>1, <3>2
      <3>4. Born' = Cardinality(T) /\ Born = Cardinality(S)
        BY DEF Born
      <3>5. Message = 1 .. MaxMessages
        BY DEF Message
      <3>6. CASE kind = "create"
        <4>1. i = Born + 1
          BY <3>6
        <4>2. Born + 1 \in Nat /\ 1 \in Nat /\ Born + 1 <= MaxMessages
          BY <1>1, <3>1, <3>5, <4>1
        <4>3. ASSUME NEW x  PROVE x \in T <=> x \in 1 .. Born + 1
          <5>1. x \in T => x \in Message
            OBVIOUS
          <5>2. x \in 1 .. Born + 1 => x \in Message
            BY <1>1, <3>5, <4>2
          <5>3. x \in Message => (x \in T <=> x <= Born \/ x = Born + 1)
            BY <3>3, <4>1
          <5> HIDE DEF T
          <5>4. QED
            BY <1>1, <3>1, <3>5, <4>2, <5>1, <5>2, <5>3
        <4>4. T = 1 .. Born + 1
          <5> HIDE DEF T
          <5> QED
            BY <4>3
        <4>5. Cardinality(1 .. Born + 1) = Born + 1
          BY <4>2, FS_Interval
        <4>6. QED
          <5> HIDE DEF T
          <5> QED
            BY <1>1, <3>1, <3>4, <3>6, <4>2, <4>4, <4>5
      <3>7. CASE kind # "create"
        <4>1. WritesOf(i) # {}
          BY <1>6, <3>7
        <4>2. T = S
          <5>1. ASSUME NEW x \in Message  PROVE x \in T <=> x \in S
            BY <3>1, <3>2, <3>3, <4>1
          <5>2. T \subseteq Message /\ S \subseteq Message
            OBVIOUS
          <5> HIDE DEF T, S
          <5>3. QED
            BY <5>1, <5>2
        <4>3. QED
          BY <3>1, <3>4, <3>7, <4>2
      <3>8. QED
        BY <3>6, <3>7
    <2>2. ASSUME NEW j \in Message  PROVE WritesOf(j)' # {} <=> j <= Born'
      <3>1. (WritesOf(j) # {} <=> j <= Born) /\ Born \in Nat /\ j \in Nat
        <4>1. Born \in Nat /\ (WritesOf(j) # {} <=> j <= Born)
          BY DEF RowsInv
        <4>2. j \in Nat
          BY <1>1 DEF Message
        <4>3. QED
          BY <4>1, <4>2
      <3>2. WritesOf(j)' # {} <=> WritesOf(j) # {} \/ j = i
        BY <1>4
      <3>3. kind # "create" => i <= Born
        BY <1>6 DEF RowsInv
      <3>4. QED
        BY <2>1, <3>1, <3>2, <3>3
    <2>3. ASSUME NEW j \in Message, NEW d, d = db'[j], d > 0  PROVE d \in WritesOf(j)' /\ Last(d)'
      <3>1. CASE j = i
        <4>1. d = new
          BY <1>1, <1>9, <2>3, <3>1
        <4>2. QED
          BY <1>4, <1>8, <3>1, <4>1
      <3>2. CASE j # i
        <4>1. d \in WritesOf(j) /\ Last(d)
          BY <1>9, <2>3, <3>2 DEF RowsInv
        <4>2. d \in 1 .. Clock /\ about[d] = j
          BY <4>1 DEF WritesOf
        <4>3. QED
          BY <1>4, <1>5, <3>2, <4>1, <4>2
      <3>3. QED
        BY <3>1, <3>2
    <2>8. ASSUME NEW j \in Message, WritesOf(j)' # {}  PROVE \E v \in WritesOf(j)' : First(v)'
      <3>1. CASE WritesOf(j) = {}
        <4>1. j = i /\ kind = "create"
          BY <1>4, <1>6, <2>8, <3>1
        <4>2. QED
          BY <1>4, <1>7, <4>1
      <3>2. CASE WritesOf(j) # {}
        <4>1. PICK v \in WritesOf(j) : First(v)
          BY <3>2 DEF RowsInv
        <4>2. v \in 1 .. Clock
          BY DEF WritesOf
        <4>3. QED
          BY <1>4, <1>5, <4>1, <4>2
      <3>3. QED
        BY <3>1, <3>2
    <2>4. Clock' <= MaxWrites
      BY <1>1, <1>3
    <2>5. Born' \in 0 .. MaxMessages /\ sender' \in [Message -> Temp \cup {Other}]
      BY <2>1
    <2>6. Message' = Message
      BY DEF Message
    <2>7. QED
      BY <1>2, <1>9, <2>2, <2>3, <2>4, <2>5, <2>6, <2>8 DEF RowsInv
  <1>11. QED
    BY <1>1, <1>2, <1>3, <1>4, <1>5, <1>6, <1>7, <1>8, <1>9, <1>10

\* A write leaves what was told, created and read as it was, and what the
\* list has to show.
LEMMA WritingKeeps ==
    ASSUME ClientAssumption,
           ChatInv, NEW i \in Message, NEW kind \in {"create", "update", "delete"},
           NEW new, new = Clock + 1,
           NEW content, content = (IF kind = "delete" THEN 0 ELSE new),
           Written(i, kind, content), sender' \in [Message -> Temp \cup {Other}],
           IF kind = "create" THEN i = Born + 1 ELSE db[i] > 0,
           UNCHANGED <<fetch, clientVars>>
    PROVE  /\ \A n : Told(n) => Told(n)'
           /\ \A n : n \in events' \ events => Told(n)'
           /\ \A n : n = [kind |-> kind, id |-> i, ver |-> new] => Told(n)'
           /\ \A j \in Message : \A v : Creates(j, v) => Creates(j, v)'
           /\ kind = "create" => Creates(i, new)'
           /\ FetchInv' /\ ConvInv' /\ HeardInv' /\ ListInv'
  <1>1. /\ Clock \in Nat /\ Clock' = new /\ new \in 1 .. MaxWrites /\ new \notin 1 .. Clock
        /\ \A v \in 1 .. Clock : about'[v] = about[v]
        /\ \A j : WritesOf(j)' = WritesOf(j) \cup (IF j = i THEN {new} ELSE {})
        /\ \A v \in 1 .. Clock : (First(v)' <=> First(v)) /\ (Last(v)' <=> Last(v) /\ about[v] # i)
        /\ (First(new)' <=> kind = "create") /\ Last(new)'
        /\ db'[i] = content /\ \A j \in Message \ {i} : db'[j] = db[j]
        /\ kind = "create" <=> WritesOf(i) = {}
    BY WritingIs DEF ChatInv
  <1>2. \A j, v : v \in WritesOf(j) => v \in 1 .. Clock /\ about[v] = j
    BY DEF WritesOf
  <1>3. 1 .. Clock \subseteq 1 .. Clock' /\ \A v \in 1 .. Clock : v < new
    BY <1>1
  <1>4. ASSUME NEW n, Told(n)  PROVE Told(n)'
    <2>1. n \in Notice /\ n.ver \in WritesOf(n.id) /\ n.id \in Message
      BY <1>4 DEF Told, Notice
    <2>2. n.ver \in 1 .. Clock /\ about[n.ver] = n.id
      BY <1>2, <2>1
    <2>3. n.kind = "delete" => n.id # i
      <3>1. ASSUME n.kind = "delete", n.id = i  PROVE FALSE
        <4>1. db[i] = 0 /\ WritesOf(i) # {}
          BY <1>4, <2>1, <3>1 DEF Told
        <4>2. QED
          BY <1>1, <4>1
      <3>2. QED
        BY <3>1
    <2>4. n.ver \in WritesOf(n.id)' /\ (First(n.ver)' <=> First(n.ver))
          /\ (Last(n.ver)' <=> Last(n.ver) /\ n.id # i)
      BY <1>1, <2>1, <2>2
    <2>5. n.id # i => db'[n.id] = db[n.id]
      BY <1>1, <2>1
    <2>6. QED
      BY <1>4, <2>1, <2>3, <2>4, <2>5 DEF Told, Notice
  <1>5. ASSUME NEW n, n = [kind |-> kind, id |-> i, ver |-> new]  PROVE Told(n)'
    <2>1. n \in Notice /\ n.kind = kind /\ n.id = i /\ n.ver = new
      BY <1>1, <1>5 DEF Notice
    <2>2. new \in WritesOf(i)' /\ (First(new)' <=> kind = "create") /\ Last(new)' /\ db'[i] = content
      BY <1>1
    <2>3. (n.ver \in WritesOf(n.id))' /\ First(n.ver)' = First(new)' /\ Last(n.ver)' = Last(new)'
      BY <2>1, <2>2
    <2>4. QED
      BY <2>1, <2>2, <2>3 DEF Told, Notice
  <1>6. \A n : n \in events' \ events => n = [kind |-> kind, id |-> i, ver |-> new]
    BY DEF Written
  <1>7. ASSUME NEW j \in Message, NEW v, Creates(j, v)  PROVE Creates(j, v)'
    <2>1. v \in 1 .. Clock /\ about[v] = j /\ v \in WritesOf(j)
      BY <1>2, <1>7 DEF Creates
    <2>2. v \in WritesOf(j)' /\ First(v)' /\ (Last(v)' => Last(v) /\ j # i)
      BY <1>1, <1>7, <2>1 DEF Creates
    <2>3. j # i => db'[j] = db[j]
      BY <1>1
    <2>4. QED
      BY <1>7, <2>2, <2>3 DEF Creates
  <1>8. kind = "create" => Creates(i, new)'
    BY <1>1 DEF Creates
  <1>9. ASSUME NEW f, PageOK(f)  PROVE PageOK(f)'
    <2>1. f.at \in 0 .. Clock'
      BY <1>1, <1>9 DEF PageOK
    <2>2. new > f.at
      BY <1>1, <1>9 DEF PageOK
    <2>3. ASSUME NEW j \in Message
          PROVE  /\ Once(f.page, j)
                 /\ f.before # 0 /\ f.before <= j => Vers(f.page, j) = {}
                 /\ \A v \in Vers(f.page, j) :
                     /\ v \in WritesOf(j)' /\ v <= f.at
                     /\ db'[j] = v \/ \E w \in WritesOf(j)' : w > f.at
                 /\ Vers(f.page, j) = {} /\ Floor(f.page) <= j /\ (f.before = 0 \/ j < f.before) =>
                     \/ \A w \in WritesOf(j)' : w > f.at
                     \/ db'[j] = 0 /\ \A w \in WritesOf(j)' : w <= f.at
      <3>1. /\ Once(f.page, j)
            /\ f.before # 0 /\ f.before <= j => Vers(f.page, j) = {}
            /\ \A v \in Vers(f.page, j) :
                /\ v \in WritesOf(j) /\ v <= f.at
                /\ db[j] = v \/ \E w \in WritesOf(j) : w > f.at
            /\ Vers(f.page, j) = {} /\ Floor(f.page) <= j /\ (f.before = 0 \/ j < f.before) =>
                \/ \A w \in WritesOf(j) : w > f.at
                \/ db[j] = 0 /\ \A w \in WritesOf(j) : w <= f.at
        BY <1>9 DEF PageOK
      <3>2. CASE j # i
        <4>1. WritesOf(j)' = WritesOf(j) /\ db'[j] = db[j]
          BY <1>1, <3>2
        <4>2. QED
          BY <3>1, <4>1
      <3>3. CASE j = i
        <4>1. WritesOf(j)' = WritesOf(j) \cup {new}
          BY <1>1, <3>3
        <4>2. \A v \in Vers(f.page, j) : v \in WritesOf(j)' /\ v <= f.at /\ \E w \in WritesOf(j)' : w > f.at
          BY <2>2, <3>1, <4>1
        <4>3. ASSUME Vers(f.page, j) = {}, Floor(f.page) <= j, f.before = 0 \/ j < f.before
              PROVE  \A w \in WritesOf(j)' : w > f.at
          <5>1. CASE \A w \in WritesOf(j) : w > f.at
            BY <2>2, <4>1, <5>1
          <5>2. CASE db[j] = 0
            <6>1. WritesOf(j) = {}
              BY <1>1, <3>3, <5>2
            <6>2. QED
              BY <2>2, <4>1, <6>1
          <5>3. QED
            BY <3>1, <4>3, <5>1, <5>2
        <4>4. QED
          BY <3>1, <4>2, <4>3
      <3>4. QED
        BY <3>2, <3>3
    <2>4. /\ f.page \in Seq(Item) /\ Len(f.page) <= PageSize /\ Floor(f.page) \in Message
          /\ \A t \in Temp : Fates(f.page, t) = {}
      BY <1>9 DEF PageOK
    <2>5. QED
      BY <2>1, <2>3, <2>4 DEF PageOK, Item, Message
  <1>10. FetchInv'
    <2>1. fetch' = fetch
      OBVIOUS
    <2>2. ASSUME NEW k \in Kind
          PROVE /\ fetch'[k].pc # "idle" =>
                     IF k = "older" THEN fetch'[k].before \in Message ELSE fetch'[k].before = 0
                /\ (fetch[k].pc = "read" => PageOK(fetch[k]))'
      <3>1. PICK f : f = fetch[k]
        OBVIOUS
      <3>2. fetch'[k] = f /\ (f.pc = "read" => PageOK(f))
        BY <2>1, <3>1 DEF FetchInv, ChatInv
      <3>3. f.pc = "read" => PageOK(f)'
        BY <1>9, <3>2
      <3>4. (fetch[k].pc = "read" => PageOK(fetch[k]))'
        BY <3>2, <3>3
      <3>5. QED
        BY <2>1, <3>4 DEF FetchInv, ChatInv
    <2>3. QED
      BY <2>1, <2>2 DEF FetchInv, ChatInv, Message, AskedFetch, ReadFetch, Item
  <1>11. conv' = conv /\ floor' = floor /\ heard' = heard /\ unsure' = unsure /\ fetch' = fetch
    BY DEF clientVars
  <1>12. ConvInv'
    <2>1. unsure' \subseteq 1 .. Clock' /\ floor' \in Message
      BY <1>3, <1>11 DEF ConvInv, ChatInv
    <2>2. conv' \in {Absent} \cup LoadingConv \cup LoadedConv
      BY <1>11 DEF ConvInv, ChatInv
    <2>3. ASSUME conv'.pc # "absent", NEW j \in Message  PROVE Vers(conv'.items, j) \subseteq WritesOf(j)'
      BY <1>1, <1>11, <2>3 DEF ConvInv, ChatInv
    <2>4. (\A j \in Message : conv.pc # "absent" => Vers(conv.items, j) \subseteq WritesOf(j))'
      BY <2>3 DEF Message
    <2>5. QED
      BY <2>1, <2>2, <2>4 DEF ConvInv, Message, LoadingConv, LoadedConv, Item
  <1>13. HeardInv'
    <2>1. ASSUME conv.pc = "loading", NEW v \in heard
          PROVE  v \in 1 .. Clock' /\ about'[v] = about[v] /\ about[v] \in Message /\ Creates(about[v], v)
      <3>1. v \in 1 .. Clock /\ Creates(about[v], v)
        BY <2>1 DEF HeardInv, ChatInv
      <3>2. about[v] \in Message
        BY <3>1 DEF ChatInv, RowsInv, Clock
      <3>3. QED
        BY <1>1, <1>3, <3>1, <3>2
    <2>2. ASSUME conv.pc = "loading", NEW v \in heard  PROVE (v \in 1 .. Clock /\ Creates(about[v], v))'
      <3>1. PICK j \in Message : j = about[v]
        BY <2>1, <2>2
      <3>2. Creates(j, v)' /\ about'[v] = j
        BY <1>7, <2>1, <2>2, <3>1
      <3>3. QED
        BY <2>1, <2>2, <3>2
    <2>3. ASSUME conv.pc = "loading"
          PROVE  \A j \in Message : {v \in heard : about'[v] = j} = {v \in heard : about[v] = j}
      BY <2>1, <2>3
    <2>4. CASE conv.pc = "loading"
      <3>1. /\ fetch["load"].pc # "idle"
            /\ \A t \in Temp : Fates(conv.pending, t) = {}
            /\ \A j \in Message :
                Once(conv.pending, j) /\ Vers(conv.pending, j) = {v \in heard : about[v] = j}
        BY <2>4 DEF HeardInv, ChatInv
      <3>2. (\A v \in heard : v \in 1 .. Clock /\ Creates(about[v], v))'
        BY <1>11, <2>2, <2>4
      <3>3. \A j \in Message :
                Once(conv.pending, j) /\ Vers(conv.pending, j) = {v \in heard : about'[v] = j}
        BY <2>3, <2>4, <3>1
      <3>4. (\A j \in Message :
                Once(conv.pending, j) /\ Vers(conv.pending, j) = {v \in heard : about[v] = j})'
        BY <1>11, <3>3 DEF Message
      <3>5. QED
        BY <1>11, <2>4, <3>1, <3>2, <3>4 DEF HeardInv
    <2>5. CASE conv.pc # "loading"
      BY <1>11, <2>5 DEF HeardInv, ChatInv
    <2>6. QED
      BY <2>4, <2>5
  <1>14. ListInv'
    <2>1. ASSUME conv.pc = "loaded", NEW j \in Message, WritesOf(j)' \cap unsure = {}
          PROVE  /\ Once(conv.items, j)
                 /\ Coming(j)' = {} => Vers(conv.items, j) \subseteq {db'[j]}
                 /\ floor <= j /\ db'[j] > 0 /\ (\A v \in Coming(j)' : ~First(v)') =>
                        Vers(conv.items, j) # {}
      <3>1. WritesOf(j) \cap unsure = {}
        BY <1>1, <2>1
      <3>2. Right(conv.items, j, floor)
        BY <2>1, <3>1 DEF ListInv, ChatInv
      <3>3. \A v : v \in Versions(events)' <=> v \in Versions(events) \/ v = new
        <4>1. PICK n : n = [kind |-> kind, id |-> i, ver |-> new] /\ events' = events \cup {n}
          BY DEF Written
        <4>2. n.ver = new
          BY <4>1
        <4>3. Versions(events)' = {e.ver : e \in events \cup {n}}
          BY <4>1 DEF Versions
        <4>4. QED
          BY <4>2, <4>3 DEF Versions
      <3>4. CASE j = i
        <4>1. new \in Coming(j)'
          BY <1>1, <3>3, <3>4 DEF Coming
        <4>2. Coming(j) \subseteq Coming(j)'
          BY <1>1, <3>3 DEF Coming
        <4>3. ASSUME floor <= j, \A v \in Coming(j)' : ~First(v)'  PROVE Vers(conv.items, j) # {}
          <5>1. kind # "create"
            BY <1>1, <4>1, <4>3
          <5>2. db[j] > 0
            BY <3>4, <5>1
          <5>3. \A v \in Coming(j) : ~First(v)
            BY <1>1, <1>2, <4>2, <4>3 DEF Coming
          <5>4. QED
            BY <3>2, <4>3, <5>2, <5>3 DEF Right
        <4>4. QED
          BY <3>2, <4>1, <4>3 DEF Right
      <3>5. CASE j # i
        <4>1. WritesOf(j)' = WritesOf(j) /\ db'[j] = db[j]
          BY <1>1, <3>5
        <4>2. Coming(j)' = Coming(j)
          BY <1>1, <1>2, <3>3, <4>1 DEF Coming
        <4>3. \A v \in Coming(j) : First(v)' <=> First(v)
          BY <1>1, <1>2 DEF Coming
        <4>4. QED
          BY <3>2, <4>1, <4>2, <4>3 DEF Right
      <3>6. QED
        BY <3>4, <3>5
    <2>2. (conv.pc = "loaded" =>
             \A j \in Message : WritesOf(j) \cap unsure = {} => Right(conv.items, j, floor))'
      BY <1>11, <2>1 DEF Right, Message
    <2>3. QED
      BY <2>2 DEF ListInv
  <1>15. QED
    BY <1>4, <1>5, <1>6, <1>7, <1>8, <1>10, <1>12, <1>13, <1>14

\* A write of somebody else leaves the sends alone.
LEMMA SendsKept ==
    ASSUME ClientAssumption, ChatInv, send' = send, conv' = conv,
           \A j \in Message : \A v : Creates(j, v) => Creates(j, v)'
    PROVE  SendsInv'
  <1>1. ASSUME NEW t \in Temp  PROVE send'[t].pc = "stored" => Creates(send[t].id, send[t].ver)'
    <2>1. SUFFICES ASSUME send[t].pc = "stored"
                   PROVE  Creates(send[t].id, send[t].ver)'
      OBVIOUS
    <2>2. send[t] \in StoredSend /\ Creates(send[t].id, send[t].ver)
      BY <2>1 DEF ChatInv, SendsInv, Unsent
    <2>3. PICK j \in Message, v \in 1 .. MaxWrites : j = send[t].id /\ v = send[t].ver
      BY <2>2 DEF StoredSend
    <2>4. Creates(j, v)'
      BY <2>2, <2>3
    <2>5. QED
      BY <2>3, <2>4
  <1>2. QED
    BY <1>1 DEF ChatInv, SendsInv, StoredSend, Message

\* Somebody else posts.
LEMMA CreateKeeps ==
    ASSUME ClientAssumption, ChatInv, Create
    PROVE  ChatInv'
  <1>1. PICK new : new = Clock + 1
    OBVIOUS
  <1>2. PICK i : i = Born + 1
    OBVIOUS
  <1>3. i \in Message
    BY <1>2 DEF Create, ChatInv, RowsInv, Message, ClientAssumption
  <1>4. /\ Written(i, "create", new) /\ UNCHANGED <<sender, replies, fetch, send, clientVars>>
        /\ sender' \in [Message -> Temp \cup {Other}]
    BY <1>1, <1>2 DEF Create, ChatInv, RowsInv
  <1>5. RowsInv'
    BY <1>1, <1>2, <1>3, <1>4, WritingIs DEF ChatInv
  <1>6. /\ \A n : Told(n) => Told(n)'
        /\ \A n : n = [kind |-> "create", id |-> i, ver |-> new] => Told(n)'
        /\ \A j \in Message : \A v : Creates(j, v) => Creates(j, v)'
        /\ FetchInv' /\ ConvInv' /\ HeardInv' /\ ListInv'
    BY <1>1, <1>2, <1>3, <1>4, WritingKeeps
  <1>7. NoticesInv'
    <2>1. replies' = replies /\ events' = events \cup {[kind |-> "create", id |-> i, ver |-> new]}
      BY <1>1, <1>4 DEF Written
    <2>2. ASSUME NEW n \in events' \cup replies'  PROVE Told(n)'
      BY <1>6, <2>1 DEF ChatInv, NoticesInv
    <2>3. QED
      BY <2>1, <2>2 DEF ChatInv, NoticesInv
  <1>8. SendsInv'
    BY <1>4, <1>6, SendsKept DEF clientVars
  <1>9. QED
    BY <1>5, <1>6, <1>7, <1>8 DEF ChatInv

\* A message is edited or deleted.
LEMMA ChangeKeeps ==
    ASSUME ClientAssumption,
           ChatInv, NEW i \in Message, NEW kind \in {"update", "delete"}, NEW own \in BOOLEAN,
           Change(i, kind, own)
    PROVE  ChatInv'
  <1>1. PICK new : new = Clock + 1
    OBVIOUS
  <1>2. PICK content : content = (IF kind = "delete" THEN 0 ELSE new)
    OBVIOUS
  <1>3. kind \in {"create", "update", "delete"} /\ kind # "create" /\ db[i] > 0
    BY DEF Change, Stored
  <1>4. /\ Written(i, kind, content) /\ UNCHANGED <<sender, fetch, send, clientVars>>
        /\ sender' \in [Message -> Temp \cup {Other}]
    <2>1. content = (IF kind = "update" THEN Clock + 1 ELSE 0)
      BY <1>1, <1>2
    <2>2. QED
      BY <2>1 DEF Change, ChatInv, RowsInv
  <1>5. RowsInv'
    BY <1>1, <1>2, <1>3, <1>4, WritingIs DEF ChatInv
  <1>6. /\ \A n : Told(n) => Told(n)'
        /\ \A n : n = [kind |-> kind, id |-> i, ver |-> new] => Told(n)'
        /\ \A j \in Message : \A v : Creates(j, v) => Creates(j, v)'
        /\ FetchInv' /\ ConvInv' /\ HeardInv' /\ ListInv'
    BY <1>1, <1>2, <1>3, <1>4, WritingKeeps
  <1>7. NoticesInv'
    <2>1. PICK n : n = [kind |-> kind, id |-> i, ver |-> new]
      OBVIOUS
    <2>2. events' = events \cup {n} /\ replies' \subseteq replies \cup {n}
      BY <1>1, <1>4, <2>1 DEF Written, Change
    <2>3. ASSUME NEW m \in events' \cup replies'  PROVE Told(m)'
      BY <1>6, <2>1, <2>2 DEF ChatInv, NoticesInv
    <2>4. \A r \in replies' : r.kind # "create"
      BY <1>3, <2>1, <2>2 DEF ChatInv, NoticesInv
    <2>5. QED
      BY <2>3, <2>4 DEF NoticesInv
  <1>8. SendsInv'
    BY <1>4, <1>6, SendsKept DEF clientVars
  <1>9. QED
    BY <1>5, <1>6, <1>7, <1>8 DEF ChatInv

\* The POST of a send is carried out.
LEMMA StoreKeeps ==
    ASSUME ClientAssumption, ChatInv, NEW s \in Temp, Store(s)
    PROVE  ChatInv'
  <1>1. PICK new : new = Clock + 1
    OBVIOUS
  <1>2. PICK i : i = Born + 1
    OBVIOUS
  <1>3. i \in Message
    BY <1>2 DEF Store, ChatInv, RowsInv, Message, ClientAssumption
  <1>4. /\ Written(i, "create", new) /\ UNCHANGED <<replies, fetch, clientVars>>
        /\ sender' \in [Message -> Temp \cup {Other}]
    BY <1>1, <1>2, <1>3 DEF Store, ChatInv, RowsInv
  <1>5. RowsInv' /\ new \in 1 .. MaxWrites
    BY <1>1, <1>2, <1>3, <1>4, WritingIs DEF ChatInv
  <1>6. /\ \A n : Told(n) => Told(n)'
        /\ \A n : n = [kind |-> "create", id |-> i, ver |-> new] => Told(n)'
        /\ \A j \in Message : \A v : Creates(j, v) => Creates(j, v)'
        /\ Creates(i, new)'
        /\ FetchInv' /\ ConvInv' /\ HeardInv' /\ ListInv'
    BY <1>1, <1>2, <1>3, <1>4, WritingKeeps
  <1>7. NoticesInv'
    <2>1. replies' = replies /\ events' = events \cup {[kind |-> "create", id |-> i, ver |-> new]}
      BY <1>1, <1>4 DEF Written
    <2>2. ASSUME NEW n \in events' \cup replies'  PROVE Told(n)'
      BY <1>6, <2>1 DEF ChatInv, NoticesInv
    <2>3. QED
      BY <2>1, <2>2 DEF ChatInv, NoticesInv
  <1>8. SendsInv'
    <2>1. /\ send \in [Temp -> Unsent \cup StoredSend] /\ conv' = conv
          /\ send' = [send EXCEPT ![s] = [pc |-> "stored", id |-> i, ver |-> new]]
      BY <1>1, <1>2, <1>4 DEF clientVars, Store, ChatInv, SendsInv
    <2>2. [pc |-> "stored", id |-> i, ver |-> new] \in StoredSend
      BY <1>3, <1>5 DEF StoredSend
    <2>3. send' \in [Temp -> Unsent \cup StoredSend]
      BY <2>1, <2>2
    <2>4. ASSUME NEW t \in Temp  PROVE (send[t].pc = "stored" => Creates(send[t].id, send[t].ver))'
      <3>1. SUFFICES ASSUME send'[t].pc = "stored"
                     PROVE  Creates(send[t].id, send[t].ver)'
        OBVIOUS
      <3>2. \E j, v : Creates(j, v)' /\ send'[t].id = j /\ send'[t].ver = v
        <4>1. CASE t = s
          BY <1>6, <2>1, <4>1
        <4>2. CASE t # s
          <5>1. send'[t] = send[t]
            BY <2>1, <4>2
          <5>2. send[t] \in StoredSend /\ Creates(send[t].id, send[t].ver)
            BY <3>1, <5>1 DEF ChatInv, SendsInv, Unsent
          <5>3. PICK j \in Message, v \in 1 .. MaxWrites : j = send[t].id /\ v = send[t].ver
            BY <5>2 DEF StoredSend
          <5>4. Creates(j, v)'
            BY <1>6, <5>2, <5>3
          <5>5. QED
            BY <5>1, <5>3, <5>4
        <4>3. QED
          BY <4>1, <4>2
      <3>3. QED
        BY <3>2
    <2>5. ASSUME NEW t \in Temp, conv.pc # "absent"
          PROVE  /\ Single(conv.items, t)
                 /\ Fates(conv.items, t) \subseteq
                      CASE send'[t].pc = "unsent" -> {} [] send'[t].pc = "over" -> {TRUE} [] OTHER -> {FALSE}
      <3>1. send[s].pc = "posting" /\ send'[s].pc = "stored" /\ \A u \in Temp \ {s} : send'[u] = send[u]
        BY <2>1 DEF Store
      <3>2. /\ Single(conv.items, t)
            /\ Fates(conv.items, t) \subseteq
                 CASE send[t].pc = "unsent" -> {} [] send[t].pc = "over" -> {TRUE} [] OTHER -> {FALSE}
        BY <2>5 DEF ChatInv, SendsInv
      <3>3. QED
        BY <3>1, <3>2
    <2>6. QED
      BY <2>1, <2>3, <2>4, <2>5 DEF SendsInv, StoredSend, Message
  <1>9. QED
    BY <1>5, <1>6, <1>7, <1>8 DEF ChatInv

-----------------------------------------------------------------------------
(* The steps of the client: the server stands still.                       *)

\* Two writes that are each the first about a message are the same.
LEMMA FirstUnique ==
    ASSUME ClientAssumption,
           RowsInv, NEW i \in Message, NEW v \in WritesOf(i), NEW w \in WritesOf(i), First(v)
    PROVE  v <= w /\ (First(w) => v = w)
  <1>1. /\ v \in 1 .. Clock /\ w \in 1 .. Clock /\ about[v] = i /\ about[w] = i
        /\ Clock \in Nat
    BY DEF WritesOf, RowsInv, Clock
  <1>2. v <= w
    BY <1>1 DEF First
  <1>3. First(w) => w <= v
    BY <1>1 DEF First
  <1>4. QED
    BY <1>1, <1>2, <1>3

\* A list that is still loading keeps what it heard, and the buffer.
LEMMA HeardKept ==
    ASSUME ClientAssumption, ChatInv, UNCHANGED serverVars, heard' = heard, conv.pc = "loading",
           conv'.pc = "loading", conv'.pending = conv.pending, fetch'["load"].pc # "idle"
    PROVE  HeardInv'
  <1>1. /\ about' = about /\ Clock' = Clock /\ \A i, v : Creates(i, v)' <=> Creates(i, v)
    BY Still DEF serverVars
  <1>2. /\ \A v \in heard : v \in 1 .. Clock /\ Creates(about[v], v)
        /\ \A t \in Temp : Fates(conv.pending, t) = {}
        /\ \A i \in Message :
            Once(conv.pending, i) /\ Vers(conv.pending, i) = {v \in heard : about[v] = i}
    BY DEF HeardInv, ChatInv
  <1>3. (\A v \in heard : v \in 1 .. Clock /\ Creates(about[v], v))'
    <2>1. ASSUME NEW v \in heard  PROVE Creates(about[v], v)'
      <3>1. PICK i : i = about[v]
        OBVIOUS
      <3>2. Creates(i, v)'
        BY <1>1, <1>2, <3>1
      <3>3. QED
        BY <1>1, <3>1, <3>2
    <2>2. QED
      BY <1>1, <1>2, <2>1
  <1>4. (/\ \A t \in Temp : Fates(conv.pending, t) = {}
         /\ \A i \in Message :
             Once(conv.pending, i) /\ Vers(conv.pending, i) = {v \in heard : about[v] = i})'
    BY <1>1, <1>2 DEF Message
  <1>5. QED
    BY <1>3, <1>4 DEF HeardInv

\* A list that stands still with the server and the events is as right as before.
LEMMA ListKept ==
    ASSUME ClientAssumption,
           ChatInv, UNCHANGED serverVars, events' = events, UNCHANGED <<conv, floor, unsure>>
    PROVE  ConvInv' /\ ListInv'
  <1>1. /\ db' = db /\ Clock' = Clock /\ \A i : WritesOf(i)' = WritesOf(i)
        /\ \A v : First(v)' <=> First(v)
    BY Still DEF serverVars
  <1>2. ConvInv'
    BY <1>1 DEF ChatInv, ConvInv, Message, LoadingConv, LoadedConv, Item
  <1>3. ASSUME NEW i \in Message, Right(conv.items, i, floor)  PROVE Right(conv.items, i, floor)'
    <2>1. Coming(i)' = Coming(i)
      BY <1>1 DEF Coming, Versions
    <2>2. QED
      BY <1>1, <1>3, <2>1 DEF Right
  <1>4. ListInv'
    BY <1>1, <1>3 DEF ChatInv, ListInv, Message
  <1>5. QED
    BY <1>2, <1>4

\* A loaded list whose flags alone change shows what it showed.
LEMMA FlagKept ==
    ASSUME ClientAssumption,
           ChatInv, UNCHANGED serverVars, events' = events, send' = send, heard' = heard,
           UNCHANGED <<floor, unsure>>, conv.pc = "loaded", NEW older \in BOOLEAN,
           conv' = [conv EXCEPT !.loadingOlder = older]
    PROVE  ConvInv' /\ ListInv' /\ SendsInv' /\ HeardInv'
  <1>1. /\ db' = db /\ Clock' = Clock /\ \A i : WritesOf(i)' = WritesOf(i)
        /\ \A v : First(v)' <=> First(v)
        /\ \A i, v : Creates(i, v)' <=> Creates(i, v)
    BY Still DEF serverVars
  <1>2. conv' \in LoadedConv /\ conv'.pc = "loaded" /\ conv'.items = conv.items
    BY DEF ChatInv, ConvInv, Absent, LoadingConv, LoadedConv
  <1>3. ConvInv'
    BY <1>1, <1>2 DEF ChatInv, ConvInv, Message, LoadingConv, LoadedConv, Item
  <1>4. ASSUME NEW i \in Message, Right(conv.items, i, floor)  PROVE Right(conv.items, i, floor)'
    <2>1. Coming(i)' = Coming(i)
      BY <1>1 DEF Coming, Versions
    <2>2. QED
      BY <1>1, <1>2, <1>4, <2>1 DEF Right
  <1>5. ListInv'
    BY <1>1, <1>2, <1>4 DEF ChatInv, ListInv, Message
  <1>6. HeardInv'
    BY <1>2 DEF ChatInv, HeardInv
  <1>7. SendsInv'
    <2>1. ASSUME NEW t \in Temp  PROVE (send[t].pc = "stored" => Creates(send[t].id, send[t].ver))'
      <3>1. PICK i, v : i = send[t].id /\ v = send[t].ver
        OBVIOUS
      <3>2. send[t].pc = "stored" => Creates(i, v)'
        BY <1>1, <3>1 DEF ChatInv, SendsInv
      <3>3. QED
        BY <3>1, <3>2
    <2>2. QED
      BY <1>2, <2>1 DEF ChatInv, SendsInv, StoredSend, Message
  <1>8. QED
    BY <1>3, <1>5, <1>6, <1>7

\* What a step of the client keeps that only takes notices away.
LEMMA QuietKeeps ==
    ASSUME ClientAssumption, ChatInv, UNCHANGED serverVars
    PROVE  /\ RowsInv'
           /\ events' \subseteq events /\ replies' \subseteq replies => NoticesInv'
           /\ fetch' = fetch => FetchInv'
           /\ send' = send /\ conv' = conv => SendsInv'
           /\ heard' = heard /\ conv' = conv /\ (conv.pc = "loading" => fetch'["load"].pc # "idle") =>
                HeardInv'
  <1>1. RowsInv' /\ \A n : Told(n)' <=> Told(n)
    BY Still DEF ChatInv
  <1>2. ASSUME events' \subseteq events, replies' \subseteq replies  PROVE NoticesInv'
    BY <1>1, <1>2 DEF ChatInv, NoticesInv
  <1>3. ASSUME fetch' = fetch  PROVE FetchInv'
    <2>1. ASSUME NEW k \in Kind  PROVE (fetch[k].pc = "read" => PageOK(fetch[k]))'
      <3>1. PICK f : f = fetch[k]
        OBVIOUS
      <3>2. f.pc = "read" => PageOK(f)'
        BY <3>1, Still DEF FetchInv, ChatInv
      <3>3. QED
        BY <1>3, <3>1, <3>2
    <2>2. QED
      BY <1>3, <2>1 DEF FetchInv, ChatInv, Message, AskedFetch, ReadFetch, Item
  <1>4. ASSUME send' = send, conv' = conv  PROVE SendsInv'
    BY <1>4, Still, SendsKept
  <1>5. ASSUME heard' = heard, conv' = conv, conv.pc = "loading" => fetch'["load"].pc # "idle"
        PROVE  HeardInv'
    <2>1. CASE conv.pc = "loading"
      BY <1>5, <2>1, HeardKept
    <2>2. CASE conv.pc # "loading"
      BY <1>5, <2>2 DEF HeardInv, ChatInv
    <2>3. QED
      BY <2>1, <2>2
  <1>6. QED
    BY <1>1, <1>2, <1>3, <1>4, <1>5

\* A list with other entries is as loaded as it was.
LEMMA OtherItems ==
    ASSUME NEW d \in LoadingConv \cup LoadedConv, NEW new \in Seq(Item),
           NEW c, c = [d EXCEPT !.items = new]
    PROVE  /\ c \in LoadingConv \cup LoadedConv /\ c.pc = d.pc /\ c.items = new
           /\ d.pc = "loading" => c.pending = d.pending
  <1>1. CASE d \in LoadingConv
    BY <1>1 DEF LoadingConv
  <1>2. CASE d \in LoadedConv
    BY <1>2 DEF LoadedConv
  <1>3. QED
    BY <1>1, <1>2

\* What an event or an answer does to the list, and to the buffer.
LEMMA ApplyShows ==
    ASSUME ClientAssumption, ChatInv, NEW n, Told(n), NEW c, c = Apply(conv, n)
    PROVE  /\ c \in {Absent} \cup LoadingConv \cup LoadedConv /\ c.pc = conv.pc
           /\ n.kind # "create" /\ conv.pc = "loading" => c.pending = conv.pending
           /\ n.kind = "create" /\ conv.pc = "loading" =>
                /\ c.items = conv.items
                /\ \A i \in Message :
                     /\ Vers(c.pending, i) =
                          IF i = n.id /\ Vers(conv.pending, i) = {} THEN {n.ver}
                          ELSE Vers(conv.pending, i)
                     /\ Once(conv.pending, i) => Once(c.pending, i)
                /\ \A t \in Temp : Fates(c.pending, t) = Fates(conv.pending, t)
           /\ (n.kind # "create" /\ conv.pc # "absent") \/ conv.pc = "loaded" =>
                /\ \A i \in Message :
                     /\ Vers(c.items, i) =
                          CASE i # n.id -> Vers(conv.items, i)
                            [] i = n.id /\ n.kind = "create" -> {n.ver}
                            [] i = n.id /\ n.kind = "update" ->
                                 IF Vers(conv.items, i) = {} THEN {} ELSE {n.ver}
                            [] i = n.id /\ n.kind = "delete" -> {}
                     /\ Once(conv.items, i) => Once(c.items, i)
                /\ \A t \in Temp :
                     /\ Fates(c.items, t) \subseteq Fates(conv.items, t)
                     /\ Single(conv.items, t) => Single(c.items, t)
  <1>1. /\ n.kind \in {"create", "update", "delete"} /\ n.id \in Message /\ n.ver \in 1 .. MaxWrites
    BY DEF Told, Notice
  <1>8. /\ conv \in {Absent} \cup LoadingConv \cup LoadedConv
        /\ conv.pc = "absent" \/ conv.pc = "loading" \/ conv.pc = "loaded"
    BY DEF ChatInv, ConvInv, Absent, LoadingConv, LoadedConv
  <1>2. CASE conv.pc = "absent"
    <2>1. c = conv
      BY <1>2 DEF Apply
    <2>2. QED
      BY <1>2, <1>8, <2>1
  <1>3. CASE conv.pc # "absent" /\ n.kind = "update"
    <2>1. PICK items : items = conv.items
      OBVIOUS
    <2>2. PICK new : new = Substitute(items, Places(items, n.id), Entry(n.id, n.ver))
      OBVIOUS
    <2>3. items \in Seq(Item) /\ c = [conv EXCEPT !.items = new]
      BY <1>3, <2>1, <2>2 DEF Apply, ChatInv, ConvInv, Absent, LoadingConv, LoadedConv
    <2>4. /\ new \in Seq(Item)
          /\ \A i \in Message :
               /\ Vers(new, i) = IF i = n.id /\ Vers(items, i) # {} THEN {n.ver} ELSE Vers(items, i)
               /\ Once(items, i) => Once(new, i)
          /\ \A t \in Temp :
               Fates(new, t) = Fates(items, t) /\ (Single(items, t) => Single(new, t))
      <3>1. items \in Seq(Item) /\ n.id \in Message /\ n.ver \in 1 .. MaxWrites
        BY <1>1, <2>3
      <3>2. QED
        <4>1. PICK j \in Message, v \in 1 .. MaxWrites : j = n.id /\ v = n.ver
          BY <3>1
        <4>2. new = Substitute(items, Places(items, j), Entry(j, v))
          BY <2>2, <4>1
        <4>3. /\ new \in Seq(Item)
              /\ \A i \in Message :
                   /\ Vers(new, i) = IF i = j /\ Vers(items, j) # {} THEN {v} ELSE Vers(items, i)
                   /\ Once(items, i) => Once(new, i)
              /\ \A t \in Temp :
                   Fates(new, t) = Fates(items, t) /\ (Single(items, t) => Single(new, t))
          <5>1. items \in Seq(Item)
            BY <3>1
          <5>2. new \in Seq(Item)
            BY <5>1, <4>2, SubstitutePlaces
          <5>3. ASSUME NEW i \in Message
                PROVE  /\ Vers(new, i) = IF i = j /\ Vers(items, j) # {} THEN {v} ELSE Vers(items, i)
                       /\ Once(items, i) => Once(new, i)
            BY <5>1, <4>2, SubstitutePlaces
          <5>4. ASSUME NEW t \in Temp
                PROVE  Fates(new, t) = Fates(items, t) /\ (Single(items, t) => Single(new, t))
            BY <5>1, <4>2, SubstitutePlaces
          <5>5. QED
            BY <5>2, <5>3, <5>4
        <4>4. QED
          BY <4>1, <4>3
    <2>5. /\ c \in LoadingConv \cup LoadedConv /\ c.pc = conv.pc /\ c.items = new
          /\ conv.pc = "loading" => c.pending = conv.pending
      <3>1. conv \in LoadingConv \cup LoadedConv
        BY <1>3, <1>8 DEF Absent
      <3>2. QED
        BY <2>3, <2>4, <3>1, OtherItems
    <2>6. QED
      BY <1>3, <2>1, <2>4, <2>5
  <1>4. CASE conv.pc # "absent" /\ n.kind = "delete"
    <2>1. PICK items : items = conv.items
      OBVIOUS
    <2>2. PICK new : new = Without(items, Places(items, n.id))
      OBVIOUS
    <2>3. items \in Seq(Item) /\ c = [conv EXCEPT !.items = new]
      BY <1>4, <2>1, <2>2 DEF Apply, ChatInv, ConvInv, Absent, LoadingConv, LoadedConv
    <2>4. /\ new \in Seq(Item)
          /\ \A i \in Message :
               /\ Vers(new, i) = IF i = n.id THEN {} ELSE Vers(items, i)
               /\ Once(items, i) => Once(new, i)
          /\ \A t \in Temp :
               Fates(new, t) = Fates(items, t) /\ (Single(items, t) => Single(new, t))
      <3>1. items \in Seq(Item) /\ n.id \in Message
        BY <1>1, <2>3
      <3>2. QED
        <4>1. PICK j \in Message : j = n.id
          BY <3>1
        <4>2. new = Without(items, Places(items, j))
          BY <2>2, <4>1
        <4>3. /\ new \in Seq(Item)
              /\ \A i \in Message :
                   /\ Vers(new, i) = IF i = j THEN {} ELSE Vers(items, i)
                   /\ Once(items, i) => Once(new, i)
              /\ \A t \in Temp :
                   Fates(new, t) = Fates(items, t) /\ (Single(items, t) => Single(new, t))
          <5>1. items \in Seq(Item)
            BY <3>1
          <5>2. new \in Seq(Item)
            BY <5>1, <4>2, WithoutMessage
          <5>3. ASSUME NEW i \in Message
                PROVE  /\ Vers(new, i) = IF i = j THEN {} ELSE Vers(items, i)
                       /\ Once(items, i) => Once(new, i)
            BY <5>1, <4>2, WithoutMessage
          <5>4. ASSUME NEW t \in Temp
                PROVE  Fates(new, t) = Fates(items, t) /\ (Single(items, t) => Single(new, t))
            BY <5>1, <4>2, WithoutMessage
          <5>5. QED
            BY <5>2, <5>3, <5>4
        <4>4. QED
          BY <4>1, <4>3
    <2>5. /\ c \in LoadingConv \cup LoadedConv /\ c.pc = conv.pc /\ c.items = new
          /\ conv.pc = "loading" => c.pending = conv.pending
      <3>1. conv \in LoadingConv \cup LoadedConv
        BY <1>4, <1>8 DEF Absent
      <3>2. QED
        BY <2>3, <2>4, <3>1, OtherItems
    <2>6. QED
      BY <1>4, <2>1, <2>4, <2>5
  <1>5. CASE conv.pc = "loaded" /\ n.kind = "create"
    <2>1. PICK items : items = conv.items
      OBVIOUS
    <2>2. PICK i, v : i = n.id /\ v = n.ver
      OBVIOUS
    <2>3. PICK new : new = Shown(items, i, v)
      OBVIOUS
    <2>4. conv \in LoadedConv /\ items \in Seq(Item)
      BY <1>5, <2>1 DEF ChatInv, ConvInv, Absent, LoadingConv, LoadedConv
    <2>5. c = [conv EXCEPT !.items = new]
      BY <1>5, <2>1, <2>2, <2>3 DEF Apply, ApplyCreate
    <2>6. i \in Message /\ v \in 1 .. MaxWrites
      BY <1>1, <2>2
    <2>7. /\ new \in Seq(Item)
          /\ \A j \in Message :
               /\ Vers(new, j) = IF j = i THEN {v} ELSE Vers(items, j)
               /\ Once(items, j) => Once(new, j)
          /\ \A t \in Temp :
               Fates(new, t) \subseteq Fates(items, t) /\ (Single(items, t) => Single(new, t))
      <3>1. CASE i \in Ids(items)
        <4>1. new = Substitute(items, Places(items, i), Entry(i, v))
          BY <2>3, <3>1 DEF Shown
        <4>2. Vers(items, i) # {}
          BY <3>1, ShowsIs
        <4>3. QED
          BY <2>4, <2>6, <4>1, <4>2, SubstitutePlaces
      <3>2. CASE i \notin Ids(items) /\ FirstMatch(items, i) # {}
        <4>1. PICK Q : Q = FirstMatch(items, i)
          OBVIOUS
        <4>2. new = Substitute(items, Q, Entry(i, v))
          BY <2>3, <3>2, <4>1 DEF Shown
        <4>3. Vers(items, i) = {}
          BY <3>2, ShowsIs
        <4>4. Q \in SUBSET (DOMAIN items)
          BY <4>1 DEF FirstMatch
        <4>5. ASSUME NEW k \in Q  PROVE items[k].id = 0
          <5>1. items[k] \in Item /\ items[k].temp # Other
            BY <2>4, <4>1, <4>5 DEF FirstMatch, Matches, IsOptimistic
          <5>2. QED
            BY <5>1, ItemIs
        <4>6. ASSUME NEW k \in Q, NEW l \in Q  PROVE k = l
          <5>1. /\ k \in 1 .. Len(items) /\ l \in 1 .. Len(items) /\ Len(items) \in Nat
            BY <2>4, <4>4
          <5>2. k \notin 1 .. l - 1 /\ l \notin 1 .. k - 1
            BY <4>1 DEF FirstMatch
          <5>3. QED
            BY <5>1, <5>2
        <4>7. /\ new \in Seq(Item)
              /\ \A j \in Message :
                   /\ Vers(new, j) = IF j = i /\ Q # {} THEN Vers(items, j) \cup {v} ELSE Vers(items, j)
                   /\ Once(items, j) /\ (j = i => Vers(items, j) = {}) => Once(new, j)
              /\ \A t \in Temp :
                   Fates(new, t) \subseteq Fates(items, t) /\ (Single(items, t) => Single(new, t))
          BY <2>4, <2>6, <4>2, <4>4, <4>5, <4>6, SubstituteWaiting
        <4>8. QED
          BY <3>2, <4>1, <4>3, <4>7
      <3>3. CASE i \notin Ids(items) /\ FirstMatch(items, i) = {}
        <4>1. PICK m : m = Entry(i, v)
          OBVIOUS
        <4>2. m \in Item /\ m.id = i /\ m.ver = v /\ m.temp = Other /\ Other \notin Temp
          BY <2>6, <4>1, ItemIs
        <4>3. new = Append(items, m)
          BY <2>3, <3>3, <4>1 DEF Shown
        <4>4. Vers(items, i) = {}
          BY <3>3, ShowsIs
        <4>5. Appended(items, m, new)
          BY <2>4, <4>2, <4>3, AppendShows
        <4>6. ASSUME NEW t \in Temp  PROVE m.temp # t
          BY <4>2
        <4>7. QED
          BY <4>2, <4>4, <4>5, <4>6 DEF Appended
      <3>4. QED
        BY <3>1, <3>2, <3>3
    <2>8. c \in LoadedConv /\ c.pc = conv.pc /\ c.items = new
      BY <2>4, <2>5, <2>7 DEF LoadedConv
    <2>9. QED
      BY <1>5, <2>1, <2>2, <2>7, <2>8
  <1>6. CASE conv.pc = "loading" /\ n.kind = "create"
    <2>1. conv \in LoadingConv
      BY <1>6 DEF ChatInv, ConvInv, Absent, LoadingConv, LoadedConv
    <2>2. PICK pending : pending = conv.pending
      OBVIOUS
    <2>3. PICK m : m = Entry(n.id, n.ver)
      OBVIOUS
    <2>4. m \in Item /\ m.id = n.id /\ m.ver = n.ver /\ m.temp = Other /\ Other \notin Temp
      BY <1>1, <2>3, ItemIs
    <2>5. pending \in Seq(Item)
      BY <2>1, <2>2 DEF LoadingConv
    <2>6. CASE n.id \in Ids(pending)
      <3>1. c = conv
        BY <1>6, <2>2, <2>6 DEF Apply, ApplyCreate
      <3>2. Vers(pending, n.id) # {}
        BY <2>6, ShowsIs
      <3>3. QED
        BY <1>6, <2>1, <2>2, <3>1, <3>2
    <2>7. CASE n.id \notin Ids(pending)
      <3>1. PICK new : new = Append(pending, m)
        OBVIOUS
      <3>2. c = [conv EXCEPT !.pending = new]
        BY <1>6, <2>2, <2>3, <2>7, <3>1 DEF Apply, ApplyCreate
      <3>3. Vers(pending, n.id) = {}
        BY <2>7, ShowsIs
      <3>4. Appended(pending, m, new)
        <4>1. m \in Item
          BY <2>4
        <4>2. QED
          BY <2>5, <3>1, <4>1, AppendShows
      <3>5. ASSUME NEW t \in Temp  PROVE m.temp # t
        BY <2>4
      <3>6. c \in LoadingConv /\ c.pc = conv.pc /\ c.pending = new /\ c.items = conv.items
        BY <2>1, <3>2, <3>4 DEF LoadingConv, Appended
      <3>7. \A j \in Message : Vers(new, j) = (IF j = n.id THEN {n.ver} ELSE Vers(pending, j))
        BY <2>4, <3>3, <3>4 DEF Appended
      <3>8. \A j \in Message : Once(pending, j) => Once(new, j)
        BY <2>4, <3>3, <3>4 DEF Appended
      <3>9. \A t \in Temp : Fates(new, t) = Fates(pending, t)
        BY <3>4, <3>5 DEF Appended
      <3>10. QED
        BY <1>6, <2>2, <3>3, <3>6, <3>7, <3>8, <3>9
    <2>8. QED
      BY <2>6, <2>7
  <1>9. QED
    BY <1>1, <1>8, <1>2, <1>3, <1>4, <1>5, <1>6

\* Once a notice is applied, the message it is about is in doubt or as right
\* as its newer writes to come; the others are as they were.
LEMMA NoticeKeeps ==
    ASSUME ClientAssumption,
           ChatInv, UNCHANGED serverVars, NEW n, Told(n), NEW c, c = Apply(conv, n),
           conv' = c, floor' = floor, send' = send, events' \subseteq events,
           Versions(events) \subseteq Versions(events') \cup {n.ver},
           unsure' = IF conv.pc = "loaded" THEN unsure \cup Overtaken(n.id, n.ver, events') ELSE {}
    PROVE  ConvInv' /\ ListInv' /\ SendsInv'
  <1>1. /\ n.id \in Message /\ n.kind \in {"create", "update", "delete"} /\ n.ver \in WritesOf(n.id)
        /\ n.ver \in 1 .. Clock /\ about[n.ver] = n.id
    BY DEF Told, Notice, WritesOf
  <1>2. /\ db' = db /\ about' = about /\ Clock' = Clock
        /\ \A i : WritesOf(i)' = WritesOf(i)
        /\ \A v : First(v)' <=> First(v)
        /\ \A i, v : Creates(i, v)' <=> Creates(i, v)
    BY Still DEF serverVars
  <1>3. /\ c \in {Absent} \cup LoadingConv \cup LoadedConv /\ c.pc = conv.pc
        /\ n.kind = "create" /\ conv.pc = "loading" => c.items = conv.items
        /\ (n.kind # "create" /\ conv.pc # "absent") \/ conv.pc = "loaded" =>
             /\ \A i \in Message :
                  /\ Vers(c.items, i) =
                       CASE i # n.id -> Vers(conv.items, i)
                         [] i = n.id /\ n.kind = "create" -> {n.ver}
                         [] i = n.id /\ n.kind = "update" ->
                              IF Vers(conv.items, i) = {} THEN {} ELSE {n.ver}
                         [] i = n.id /\ n.kind = "delete" -> {}
                  /\ Once(conv.items, i) => Once(c.items, i)
             /\ \A t \in Temp :
                  /\ Fates(c.items, t) \subseteq Fates(conv.items, t)
                  /\ Single(conv.items, t) => Single(c.items, t)
    BY ApplyShows
  <1>4. conv.pc = "absent" \/ conv.pc = "loading" \/ conv.pc = "loaded"
    BY DEF ChatInv, ConvInv, Absent, LoadingConv, LoadedConv
  <1>5. ConvInv'
    <2>1. ASSUME NEW i \in Message, conv.pc # "absent"  PROVE Vers(c.items, i) \subseteq WritesOf(i)
      <3>1. Vers(conv.items, i) \subseteq WritesOf(i)
        BY <2>1 DEF ChatInv, ConvInv
      <3>2. Vers(c.items, i) = Vers(conv.items, i) \/ (i = n.id /\ Vers(c.items, i) \subseteq {n.ver})
        <4>1. CASE n.kind = "create" /\ conv.pc = "loading"
          BY <1>3, <4>1
        <4>2. CASE ~(n.kind = "create" /\ conv.pc = "loading")
          BY <1>1, <1>3, <1>4, <2>1, <4>2
        <4>3. QED
          BY <4>1, <4>2
      <3>3. QED
        BY <1>1, <3>1, <3>2
    <2>2. unsure' \subseteq 1 .. Clock
      <3>1. ASSUME NEW w \in Overtaken(n.id, n.ver, events')  PROVE w \in 1 .. Clock
        <4>1. Clock \in Nat
          BY DEF ChatInv, RowsInv, Clock
        <4>2. QED
          BY <1>1, <3>1, <4>1 DEF Overtaken
      <3>2. unsure \subseteq 1 .. Clock
        BY DEF ChatInv, ConvInv
      <3>3. QED
        BY <3>1, <3>2
    <2>3. floor' \in Message
      BY DEF ChatInv, ConvInv
    <2>4. (conv.pc # "absent" => \A i \in Message : Vers(conv.items, i) \subseteq WritesOf(i))'
      BY <1>2, <1>3, <2>1 DEF Message
    <2>5. QED
      BY <1>2, <1>3, <2>2, <2>3, <2>4 DEF ConvInv, Message, LoadingConv, LoadedConv, Item
  <1>6. ListInv'
    <2>1. ASSUME conv.pc = "loaded", NEW i \in Message, WritesOf(i) \cap unsure' = {}
          PROVE  /\ Once(c.items, i)
                 /\ Coming(i)' = {} => Vers(c.items, i) \subseteq {db[i]}
                 /\ floor <= i /\ db[i] > 0 /\ (\A v \in Coming(i)' : ~First(v)) => Vers(c.items, i) # {}
      <3>1. Right(conv.items, i, floor)
        BY <2>1 DEF ChatInv, ListInv
      <3>2. Once(c.items, i)
        BY <1>3, <2>1, <3>1 DEF Right
      <3>3. Coming(i)' \subseteq Coming(i) /\ Coming(i) \subseteq Coming(i)' \cup {n.ver}
        <4>1. Versions(events)' \subseteq Versions(events)
          BY DEF Versions
        <4>2. Versions(events)' = Versions(events')
          BY DEF Versions
        <4>3. QED
          BY <1>2, <4>1, <4>2 DEF Coming
      <3>4. CASE i # n.id
        <4>1. Vers(c.items, i) = Vers(conv.items, i)
          BY <1>3, <2>1, <3>4
        <4>2. n.ver \notin Coming(i)
          BY <1>1, <3>4 DEF Coming, WritesOf
        <4>3. Coming(i)' = Coming(i)
          BY <3>3, <4>2
        <4>4. QED
          BY <3>1, <3>2, <4>1, <4>3 DEF Right
      <3>5. CASE i = n.id
        <4>1. /\ n.kind = "create" => Vers(c.items, i) = {n.ver}
              /\ n.kind = "update" => Vers(c.items, i) = IF Vers(conv.items, i) = {} THEN {} ELSE {n.ver}
              /\ n.kind = "delete" => Vers(c.items, i) = {}
          BY <1>3, <2>1, <3>5
        <4>2. ASSUME Coming(i)' = {}  PROVE Vers(c.items, i) \subseteq {db[i]}
          <5>1. ASSUME NEW w \in 1 .. Clock, n.ver < w, about[w] = i  PROVE FALSE
            <6>1. w \in WritesOf(i) /\ w \notin unsure'
              BY <2>1, <5>1 DEF WritesOf
            <6>2. w \notin Overtaken(n.id, n.ver, events')
              BY <2>1, <6>1
            <6>3. w \in n.ver + 1 .. Clock
              BY <1>1, <5>1 DEF ChatInv, RowsInv, Clock
            <6>4. w \in Versions(events')
              BY <3>5, <5>1, <6>2, <6>3 DEF Overtaken
            <6>5. w \in Coming(i)'
              BY <1>2, <6>1, <6>4 DEF Coming, Versions
            <6>6. QED
              BY <4>2, <6>5
          <5>2. Last(n.ver)
            BY <1>1, <3>5, <5>1 DEF Last
          <5>3. n.kind # "delete" => db[i] = n.ver
            BY <3>5, <5>2 DEF Told
          <5>4. QED
            BY <1>1, <4>1, <5>3
        <4>3. ASSUME floor <= i, db[i] > 0, \A v \in Coming(i)' : ~First(v)
              PROVE  Vers(c.items, i) # {}
          <5>1. n.kind # "delete"
            BY <3>5, <4>3 DEF Told
          <5>2. n.kind = "update" => Vers(conv.items, i) # {}
            <6>1. SUFFICES ASSUME n.kind = "update"
                           PROVE  Vers(conv.items, i) # {}
              OBVIOUS
            <6>2. ~First(n.ver)
              BY <6>1 DEF Told
            <6>3. \A v \in Coming(i) : ~First(v)
              BY <3>3, <4>3, <6>2
            <6>4. QED
              BY <3>1, <4>3, <6>3 DEF Right
          <5>3. QED
            BY <1>1, <4>1, <5>1, <5>2
        <4>4. QED
          BY <3>2, <4>2, <4>3
      <3>6. QED
        BY <3>4, <3>5
    <2>2. (conv.pc = "loaded" =>
             \A i \in Message : WritesOf(i) \cap unsure = {} => Right(conv.items, i, floor))'
      <3>1. ASSUME conv.pc = "loaded", NEW i \in Message, WritesOf(i)' \cap unsure' = {}
            PROVE  Right(conv.items, i, floor)'
        BY <1>2, <2>1, <3>1 DEF Right
      <3>2. QED
        BY <1>3, <3>1 DEF Message
    <2>3. QED
      BY <2>2 DEF ListInv
  <1>7. SendsInv'
    <2>1. ASSUME NEW t \in Temp, conv.pc # "absent"
          PROVE  /\ Single(c.items, t)
                 /\ Fates(c.items, t) \subseteq
                      CASE send[t].pc = "unsent" -> {} [] send[t].pc = "over" -> {TRUE} [] OTHER -> {FALSE}
      <3>1. /\ Single(conv.items, t)
            /\ Fates(conv.items, t) \subseteq
                 CASE send[t].pc = "unsent" -> {} [] send[t].pc = "over" -> {TRUE} [] OTHER -> {FALSE}
        BY <2>1 DEF ChatInv, SendsInv
      <3>2. c.items = conv.items \/
              (Fates(c.items, t) \subseteq Fates(conv.items, t) /\ (Single(conv.items, t) => Single(c.items, t)))
        BY <1>3, <1>4, <2>1
      <3>3. QED
        BY <3>1, <3>2
    <2>2. ASSUME NEW t \in Temp  PROVE (send[t].pc = "stored" => Creates(send[t].id, send[t].ver))'
      <3>1. PICK i, v : i = send[t].id /\ v = send[t].ver
        OBVIOUS
      <3>2. send[t].pc = "stored" => Creates(i, v)'
        BY <1>2, <3>1 DEF ChatInv, SendsInv
      <3>3. QED
        BY <3>1, <3>2
    <2>3. QED
      BY <1>3, <2>1, <2>2 DEF ChatInv, SendsInv, StoredSend, Message
  <1>8. QED
    BY <1>5, <1>6, <1>7

\* An event is dispatched: a list that is loaded shows it, one that is loading buffers it.
LEMMA DispatchKeeps ==
    ASSUME ClientAssumption, ChatInv, NEW e \in events, Dispatch(e)
    PROVE  ChatInv'
  <1>1. /\ UNCHANGED serverVars /\ replies' = replies /\ fetch' = fetch /\ send' = send /\ floor' = floor
        /\ events' = events \ {e} /\ Told(e)
        /\ heard' = IF conv.pc = "loading" /\ e.kind = "create" THEN heard \cup {e.ver} ELSE heard
    BY DEF Dispatch, ChatInv, NoticesInv
  <1>2. RowsInv' /\ NoticesInv' /\ FetchInv'
    BY <1>1, QuietKeeps
  <1>3. PICK c : c = Apply(conv, e)
    OBVIOUS
  <1>4. conv' = c
    BY <1>3 DEF Dispatch
  <1>5. Versions(events) \subseteq Versions(events') \cup {e.ver}
    BY <1>1 DEF Versions
  <1>6. unsure' = IF conv.pc = "loaded" THEN unsure \cup Overtaken(e.id, e.ver, events') ELSE {}
    BY <1>1 DEF Dispatch, Doubt
  <1>7. ConvInv' /\ ListInv' /\ SendsInv'
    <2>1. events' \subseteq events
      BY <1>1
    <2>2. QED
      BY <1>1, <1>3, <1>4, <1>5, <1>6, <2>1, NoticeKeeps
  <1>8. HeardInv'
    <2>1. /\ c.pc = conv.pc
          /\ e.kind # "create" /\ conv.pc = "loading" => c.pending = conv.pending
          /\ e.kind = "create" /\ conv.pc = "loading" =>
               /\ \A i \in Message :
                    /\ Vers(c.pending, i) =
                         IF i = e.id /\ Vers(conv.pending, i) = {} THEN {e.ver}
                         ELSE Vers(conv.pending, i)
                    /\ Once(conv.pending, i) => Once(c.pending, i)
               /\ \A t \in Temp : Fates(c.pending, t) = Fates(conv.pending, t)
      BY <1>1, <1>3, ApplyShows
    <2>2. /\ about' = about /\ Clock' = Clock /\ \A i, v : Creates(i, v)' <=> Creates(i, v)
      BY <1>1, Still DEF serverVars
    <2>3. CASE conv.pc = "loading" /\ e.kind = "create"
      <3>1. /\ fetch["load"].pc # "idle"
            /\ \A v \in heard : v \in 1 .. Clock /\ Creates(about[v], v)
            /\ \A t \in Temp : Fates(conv.pending, t) = {}
            /\ \A i \in Message :
                Once(conv.pending, i) /\ Vers(conv.pending, i) = {v \in heard : about[v] = i}
        BY <2>3 DEF HeardInv, ChatInv
      <3>2. /\ e.ver \in WritesOf(e.id) /\ First(e.ver) /\ (Last(e.ver) => db[e.id] = e.ver)
            /\ e.ver \in 1 .. Clock /\ about[e.ver] = e.id /\ e.id \in Message
        BY <1>1, <2>3 DEF Told, WritesOf, Notice
      <3>3. heard' = heard \cup {e.ver}
        BY <1>1, <2>3
      <3>4. ASSUME NEW v \in heard'  PROVE v \in 1 .. Clock /\ Creates(about[v], v)
        <4>1. Creates(about[e.ver], e.ver)
          BY <3>2 DEF Creates
        <4>2. QED
          BY <3>1, <3>2, <3>3, <4>1
      <3>5. ASSUME NEW i \in Message
            PROVE  Once(c.pending, i) /\ Vers(c.pending, i) = {v \in heard' : about[v] = i}
        <4>1. CASE i # e.id
          <5>1. {v \in heard' : about[v] = i} = {v \in heard : about[v] = i}
            BY <3>2, <3>3, <4>1
          <5>2. QED
            BY <2>1, <2>3, <3>1, <4>1, <5>1
        <4>2. CASE i = e.id /\ Vers(conv.pending, i) = {}
          <5>1. {v \in heard' : about[v] = i} = {e.ver}
            BY <3>1, <3>2, <3>3, <4>2
          <5>2. QED
            BY <2>1, <2>3, <3>1, <4>2, <5>1
        <4>3. CASE i = e.id /\ Vers(conv.pending, i) # {}
          <5>1. PICK v \in heard : about[v] = i
            BY <3>1, <4>3
          <5>2. v \in WritesOf(i) /\ First(v)
            BY <3>1, <5>1 DEF Creates
          <5>3. v = e.ver
            BY <3>2, <4>3, <5>2, FirstUnique DEF ChatInv
          <5>4. heard' = heard
            BY <3>3, <5>3
          <5>5. QED
            BY <2>1, <2>3, <3>1, <4>3, <5>4
        <4>4. QED
          BY <4>1, <4>2, <4>3
      <3>6. (\A v \in heard : v \in 1 .. Clock /\ Creates(about[v], v))'
        <4>1. ASSUME NEW v \in heard'  PROVE (v \in 1 .. Clock /\ Creates(about[v], v))'
          <5>1. PICK i : i = about[v]
            OBVIOUS
          <5>2. Creates(i, v)'
            BY <2>2, <3>4, <4>1, <5>1
          <5>3. QED
            BY <2>2, <3>4, <4>1, <5>1, <5>2
        <4>2. QED
          BY <4>1
      <3>7. (/\ \A t \in Temp : Fates(conv.pending, t) = {}
             /\ \A i \in Message :
                 Once(conv.pending, i) /\ Vers(conv.pending, i) = {v \in heard : about[v] = i})'
        BY <1>4, <2>1, <2>2, <2>3, <3>1, <3>5 DEF Message
      <3>8. conv'.pc = "loading" /\ fetch'["load"].pc # "idle"
        BY <1>1, <1>4, <2>1, <2>3, <3>1
      <3>9. QED
        BY <3>6, <3>7, <3>8 DEF HeardInv
    <2>4. CASE ~(conv.pc = "loading" /\ e.kind = "create")
      <3>1. heard' = heard
        BY <1>1, <2>4
      <3>2. CASE conv.pc # "loading"
        BY <1>4, <2>1, <3>1, <3>2 DEF HeardInv, ChatInv
      <3>3. CASE conv.pc = "loading"
        <4>1. conv'.pc = "loading" /\ conv'.pending = conv.pending
          BY <1>4, <2>1, <2>4, <3>3
        <4>2. fetch'["load"].pc # "idle"
          BY <1>1, <3>3 DEF HeardInv, ChatInv
        <4>3. QED
          BY <1>1, <3>1, <3>3, <4>1, <4>2, HeardKept
      <3>4. QED
        BY <3>2, <3>3
    <2>5. QED
      BY <2>3, <2>4
  <1>9. QED
    BY <1>2, <1>7, <1>8 DEF ChatInv

\* An event is lost, and with it only what is said of its message.
LEMMA LoseKeeps ==
    ASSUME ClientAssumption, ChatInv, NEW e \in events, Lose(e)
    PROVE  ChatInv'
  <1>1. /\ UNCHANGED serverVars /\ UNCHANGED <<replies, conv, fetch, send, floor, heard>>
        /\ events' = events \ {e} /\ Told(e)
        /\ unsure' = IF conv.pc = "loaded" THEN unsure \cup {e.ver} ELSE {}
    BY DEF Lose, Doubt, ChatInv, NoticesInv
  <1>2. RowsInv' /\ NoticesInv' /\ FetchInv' /\ SendsInv' /\ HeardInv'
    <2>1. conv.pc = "loading" => fetch["load"].pc # "idle"
      BY DEF ChatInv, HeardInv
    <2>2. QED
      BY <1>1, <2>1, QuietKeeps
  <1>3. /\ db' = db /\ Clock' = Clock /\ \A i : WritesOf(i)' = WritesOf(i)
        /\ \A v : First(v)' <=> First(v)
    BY <1>1, Still DEF serverVars
  <1>4. e.ver \in 1 .. Clock
    BY <1>1 DEF Told, WritesOf
  <1>5. ConvInv'
    BY <1>1, <1>3, <1>4 DEF ChatInv, ConvInv, Message, LoadingConv, LoadedConv, Item
  <1>6. ListInv'
    <2>1. ASSUME conv'.pc = "loaded", NEW i \in Message, WritesOf(i)' \cap unsure' = {}
          PROVE  Right(conv.items, i, floor)'
      <3>1. conv.pc = "loaded" /\ WritesOf(i) \cap unsure = {} /\ e.ver \notin WritesOf(i)
        BY <1>1, <1>3, <2>1
      <3>2. Right(conv.items, i, floor)
        BY <3>1 DEF ChatInv, ListInv
      <3>3. Coming(i)' = Coming(i)
        <4>1. Coming(i)' = WritesOf(i) \cap {d.ver : d \in events \ {e}}
          BY <1>1, <1>3 DEF Coming, Versions
        <4>2. QED
          BY <3>1, <4>1 DEF Coming, Versions
      <3>4. QED
        BY <1>1, <1>3, <3>2, <3>3 DEF Right
    <2>2. QED
      BY <2>1 DEF ListInv, Message
  <1>7. QED
    BY <1>2, <1>5, <1>6 DEF ChatInv

\* An edit or a deletion of the client's own is answered.
LEMMA ReplyKeeps ==
    ASSUME ClientAssumption, ChatInv, NEW r \in replies, Reply(r)
    PROVE  ChatInv'
  <1>1. /\ UNCHANGED serverVars /\ UNCHANGED <<events, fetch, send, floor, heard>>
        /\ replies' = replies \ {r} /\ Told(r) /\ r.kind # "create"
        /\ conv.pc = "loading" => fetch["load"].pc # "idle"
    BY DEF Reply, ChatInv, NoticesInv, HeardInv
  <1>2. RowsInv' /\ NoticesInv' /\ FetchInv'
    BY <1>1, QuietKeeps
  <1>3. CASE conv' = Apply(conv, r) /\ Doubt(Overtaken(r.id, r.ver, events))
    <2>1. PICK c : c = Apply(conv, r)
      OBVIOUS
    <2>2. /\ conv' = c /\ floor' = floor /\ send' = send /\ events' = events /\ heard' = heard
          /\ fetch' = fetch
      BY <1>1, <1>3, <2>1
    <2>3. unsure' = IF conv.pc = "loaded" THEN unsure \cup Overtaken(r.id, r.ver, events') ELSE {}
      BY <1>3, <2>2 DEF Doubt
    <2>4. events' \subseteq events /\ Versions(events) \subseteq Versions(events') \cup {r.ver}
      BY <2>2
    <2>5. ConvInv' /\ ListInv' /\ SendsInv'
      BY <1>1, <2>1, <2>2, <2>3, <2>4, NoticeKeeps
    <2>6. c.pc = conv.pc /\ (conv.pc = "loading" => c.pending = conv.pending)
      BY <1>1, <2>1, ApplyShows
    <2>7. HeardInv'
      <3>1. CASE conv.pc = "loading"
        BY <1>1, <2>2, <2>6, <3>1, HeardKept
      <3>2. CASE conv.pc # "loading"
        BY <2>2, <2>6, <3>2 DEF HeardInv, ChatInv
      <3>3. QED
        BY <3>1, <3>2
    <2>8. QED
      BY <1>2, <2>5, <2>7 DEF ChatInv
  <1>4. CASE UNCHANGED <<conv, unsure>>
    <2>1. SendsInv' /\ HeardInv'
      BY <1>1, <1>4, QuietKeeps
    <2>2. ConvInv' /\ ListInv'
      BY <1>1, <1>4, ListKept
    <2>3. QED
      BY <1>2, <2>1, <2>2 DEF ChatInv
  <1>5. QED
    BY <1>3, <1>4 DEF Reply

-----------------------------------------------------------------------------
(* The fetches.                                                            *)

\* A request under way is what it was asked for, and its answer is right.
LEMMA FetchSet ==
    ASSUME ClientAssumption, ChatInv, UNCHANGED serverVars, NEW k \in Kind, NEW f,
           fetch' = [fetch EXCEPT ![k] = f], f \in {Idle} \cup AskedFetch \cup ReadFetch,
           f.pc # "idle" => IF k = "older" THEN f.before \in Message ELSE f.before = 0,
           f.pc = "read" => PageOK(f)
    PROVE  FetchInv' /\ fetch'[k] = f /\ \A j \in Kind \ {k} : fetch'[j] = fetch[j]
  <1>1. fetch \in [Kind -> {Idle} \cup AskedFetch \cup ReadFetch]
    BY DEF ChatInv, FetchInv
  <1>2. fetch'[k] = f /\ \A j \in Kind \ {k} : fetch'[j] = fetch[j]
    BY <1>1
  <1>3. fetch' \in [Kind -> {Idle} \cup AskedFetch \cup ReadFetch]
    BY <1>1
  <1>4. ASSUME NEW j \in Kind
        PROVE  /\ fetch'[j].pc # "idle" =>
                    IF j = "older" THEN fetch'[j].before \in Message ELSE fetch'[j].before = 0
               /\ (fetch[j].pc = "read" => PageOK(fetch[j]))'
    <2>1. PICK g : g = fetch'[j]
      OBVIOUS
    <2>2. g.pc = "read" => PageOK(g)
      BY <1>2, <1>4, <2>1 DEF ChatInv, FetchInv
    <2>3. g.pc = "read" => PageOK(g)'
      BY <2>2, Still
    <2>4. fetch'[j].pc # "idle" => IF j = "older" THEN fetch'[j].before \in Message ELSE fetch'[j].before = 0
      BY <1>2, <1>4 DEF ChatInv, FetchInv
    <2>5. QED
      BY <2>1, <2>3, <2>4
  <1>5. QED
    BY <1>2, <1>3, <1>4 DEF FetchInv, Message, AskedFetch, ReadFetch, Item

\* The page that is read is right.
LEMMA ReadKeeps ==
    ASSUME ClientAssumption, ChatInv, NEW k \in Kind, Read(k)
    PROVE  ChatInv'
  <1>1. /\ UNCHANGED serverVars /\ events' = events /\ replies' = replies /\ send' = send
        /\ conv' = conv /\ floor' = floor /\ heard' = heard /\ unsure' = unsure
        /\ fetch[k].pc = "asked"
    BY DEF Read, clientVars
  <1>2. PICK before : before = fetch[k].before
    OBVIOUS
  <1>3. PICK page : page = Newest(before)
    OBVIOUS
  <1>4. PICK f : f = [pc |-> "read", page |-> page, at |-> Clock, before |-> before]
    OBVIOUS
  <1>5. fetch' = [fetch EXCEPT ![k] = f]
    BY <1>2, <1>3, <1>4 DEF Read
  <1>6. /\ MaxMessages \in Nat \ {0} /\ PageSize \in Nat \ {0} /\ Other \notin Temp
        /\ Message \subseteq Nat \ {0} /\ 1 \in Message
    BY ItemIs DEF ClientAssumption, Message
  <1>7. before \in Nat /\ (IF k = "older" THEN before \in Message ELSE before = 0)
    <2>1. IF k = "older" THEN before \in Message ELSE before = 0
      BY <1>1, <1>2 DEF ChatInv, FetchInv
    <2>2. \A i \in Message : i \in Nat
      BY <1>6
    <2>3. CASE k = "older"
      BY <2>1, <2>2, <2>3
    <2>4. CASE k # "older"
      BY <2>1, <2>4
    <2>5. QED
      BY <2>3, <2>4
  <1>8. /\ db \in [Message -> 0 .. MaxWrites] /\ Clock \in Nat
        /\ \A i \in Message : db[i] > 0 => db[i] \in WritesOf(i)
    BY DEF ChatInv, RowsInv, Clock
  <1>9. /\ page \in Seq(Item) /\ Len(page) <= PageSize
        /\ \A l \in DOMAIN page :
             /\ page[l].id \in Message /\ page[l].temp = Other
             /\ page[l].ver = db[page[l].id] /\ db[page[l].id] > 0
             /\ before = 0 \/ page[l].id < before
        /\ \A l, m \in DOMAIN page : l < m => page[l].id < page[m].id
        /\ \A i \in Message \ Ids(page) :
             db[i] > 0 /\ (before = 0 \/ i < before) => ~(Floor(page) <= i)
    <2>1. db \in [Message -> 0 .. MaxWrites] /\ before \in Nat
      BY <1>7, <1>8
    <2>2. QED
      BY <1>3, <2>1, NewestIs
  <1>10. f.page = page /\ f.at = Clock /\ f.before = before /\ f.pc = "read"
    BY <1>4
  <1>11. PageOK(f)
    <2>1. Floor(page) \in Message
      <3>1. CASE Full(page)
        <4>1. 1 \in DOMAIN page
          BY <1>6, <1>9, <3>1 DEF Full
        <4>2. QED
          BY <1>9, <3>1, <4>1 DEF Floor
      <3>2. CASE ~Full(page)
        BY <1>6, <3>2 DEF Floor
      <3>3. QED
        BY <3>1, <3>2
    <2>2. ASSUME NEW t \in Temp  PROVE Fates(page, t) = {}
      <3>1. ASSUME NEW l \in Waiting(page, t)  PROVE FALSE
        BY <1>6, <1>9, <3>1 DEF Waiting
      <3>2. QED
        BY <3>1 DEF Fates
    <2>3. ASSUME NEW i \in Message, NEW v \in Vers(page, i)
          PROVE  /\ v \in WritesOf(i) /\ v <= Clock /\ db[i] = v
                 /\ before = 0 \/ i < before
      <3>1. PICK l \in DOMAIN page : page[l].id = i /\ page[l].ver = v
        BY <2>3 DEF Vers, Places
      <3>2. db[i] = v /\ db[i] > 0 /\ (before = 0 \/ i < before)
        BY <1>9, <3>1
      <3>3. v \in WritesOf(i)
        BY <1>8, <3>2
      <3>4. v <= Clock
        BY <1>8, <3>3 DEF WritesOf
      <3>5. QED
        BY <3>2, <3>3, <3>4
    <2>4. ASSUME NEW i \in Message  PROVE Once(page, i)
      <3>1. ASSUME NEW l \in Places(page, i), NEW m \in Places(page, i)  PROVE l = m
        <4>1. /\ l \in DOMAIN page /\ m \in DOMAIN page /\ page[l].id = i /\ page[m].id = i
              /\ l \in Nat /\ m \in Nat
          BY <1>9, <3>1 DEF Places
        <4>2. ~(i < i)
          BY <1>6, <2>4
        <4>3. ~(l < m) /\ ~(m < l)
          BY <1>9, <4>1, <4>2
        <4>4. QED
          BY <4>1, <4>3
      <3>2. QED
        BY <3>1 DEF Once
    <2>5. ASSUME NEW i \in Message
          PROVE  /\ before # 0 /\ before <= i => Vers(page, i) = {}
                 /\ Vers(page, i) = {} /\ Floor(page) <= i /\ (before = 0 \/ i < before) =>
                      db[i] = 0 /\ \A w \in WritesOf(i) : w <= Clock
      <3>1. before # 0 /\ before <= i => Vers(page, i) = {}
        <4>1. before # 0 /\ before <= i => ~(before = 0 \/ i < before)
          BY <1>6, <1>7
        <4>2. QED
          BY <2>3, <4>1
      <3>2. ASSUME Vers(page, i) = {}, Floor(page) <= i, before = 0 \/ i < before
            PROVE  db[i] = 0
        <4>1. i \notin Ids(page)
          BY <3>2, ShowsIs
        <4>2. ~(db[i] > 0)
          BY <1>9, <3>2, <4>1
        <4>3. db[i] \in Nat
          BY <1>8 DEF ClientAssumption
        <4>4. QED
          BY <4>2, <4>3
      <3>3. \A w \in WritesOf(i) : w <= Clock
        BY <1>8 DEF WritesOf
      <3>4. QED
        BY <3>1, <3>2, <3>3
    <2>6. Clock \in 0 .. Clock
      BY <1>8
    <2>7. QED
      BY <1>9, <1>10, <2>1, <2>2, <2>3, <2>4, <2>5, <2>6 DEF PageOK
  <1>12. f \in ReadFetch
    BY <1>4, <1>7, <1>8, <1>9 DEF ReadFetch
  <1>13. FetchInv' /\ fetch'[k] = f /\ \A j \in Kind \ {k} : fetch'[j] = fetch[j]
    BY <1>1, <1>5, <1>7, <1>10, <1>11, <1>12, FetchSet
  <1>14. RowsInv' /\ NoticesInv' /\ SendsInv' /\ HeardInv'
    <2>1. "load" \in Kind
      BY DEF Kind
    <2>2. conv.pc = "loading" => fetch'["load"].pc # "idle"
      BY <1>10, <1>13, <2>1 DEF ChatInv, HeardInv
    <2>3. QED
      BY <1>1, <2>2, QuietKeeps
  <1>15. ConvInv' /\ ListInv'
    BY <1>1, ListKept
  <1>16. QED
    BY <1>13, <1>14, <1>15 DEF ChatInv

\* A fetch fails: the list is absent again, or as it was.
LEMMA FetchFailsKeeps ==
    ASSUME ClientAssumption, ChatInv, NEW k \in Kind, FetchFails(k)
    PROVE  ChatInv'
  <1>1. /\ UNCHANGED serverVars /\ events' = events /\ replies' = replies /\ send' = send
        /\ fetch' = [fetch EXCEPT ![k] = Idle]
    BY DEF FetchFails
  <1>2. FetchInv' /\ fetch'[k] = Idle /\ \A j \in Kind \ {k} : fetch'[j] = fetch[j]
    <2>1. PICK f : f = Idle
      OBVIOUS
    <2>2. f \in {Idle} \cup AskedFetch \cup ReadFetch /\ f.pc = "idle"
      BY <2>1 DEF Idle
    <2>3. QED
      BY <1>1, <2>1, <2>2, FetchSet
  <1>3. CASE k = "load"
    <2>1. conv' = Absent /\ floor' = 1 /\ heard' = {} /\ unsure' = {}
      BY <1>3 DEF FetchFails
    <2>2. Absent.pc = "absent" /\ 1 \in Message
      BY DEF Absent, Message, ClientAssumption
    <2>3. RowsInv' /\ NoticesInv'
      BY <1>1, QuietKeeps
    <2>4. ConvInv'
      BY <2>1, <2>2 DEF ConvInv, Message, LoadingConv, LoadedConv, Item
    <2>5. ListInv' /\ HeardInv'
      BY <2>1, <2>2 DEF ListInv, HeardInv
    <2>6. SendsInv'
      <3>1. ASSUME NEW t \in Temp  PROVE (send[t].pc = "stored" => Creates(send[t].id, send[t].ver))'
        <4>1. PICK i, v : i = send[t].id /\ v = send[t].ver
          OBVIOUS
        <4>2. send[t].pc = "stored" => Creates(i, v)'
          BY <1>1, <4>1, Still DEF ChatInv, SendsInv
        <4>3. QED
          BY <1>1, <4>1, <4>2
      <3>2. QED
        BY <1>1, <2>1, <2>2, <3>1 DEF ChatInv, SendsInv, StoredSend, Message
    <2>7. QED
      BY <1>2, <2>3, <2>4, <2>5, <2>6 DEF ChatInv
  <1>4. CASE k # "load"
    <2>1. floor' = floor /\ heard' = heard /\ unsure' = unsure /\ fetch'["load"] = fetch["load"]
      BY <1>2, <1>4 DEF FetchFails, Kind
    <2>2. RowsInv' /\ NoticesInv'
      BY <1>1, QuietKeeps
    <2>3. CASE k = "older" /\ conv.pc = "loaded"
      <3>1. conv' = [conv EXCEPT !.loadingOlder = FALSE]
        BY <2>3 DEF FetchFails
      <3>2. ConvInv' /\ ListInv' /\ SendsInv' /\ HeardInv'
        BY <1>1, <2>1, <2>3, <3>1, FlagKept
      <3>3. QED
        BY <1>2, <2>2, <3>2 DEF ChatInv
    <2>4. CASE ~(k = "older" /\ conv.pc = "loaded")
      <3>1. conv' = conv
        BY <1>4, <2>4 DEF FetchFails
      <3>2. SendsInv' /\ HeardInv'
        <4>1. conv.pc = "loading" => fetch'["load"].pc # "idle"
          BY <2>1 DEF ChatInv, HeardInv
        <4>2. QED
          BY <1>1, <2>1, <3>1, <4>1, QuietKeeps
      <3>3. ConvInv' /\ ListInv'
        BY <1>1, <2>1, <3>1, ListKept
      <3>4. QED
        BY <1>2, <2>2, <3>2, <3>3 DEF ChatInv
    <2>5. QED
      BY <2>3, <2>4
  <1>5. QED
    BY <1>3, <1>4

\* A resync is asked for.
LEMMA ReconnectKeeps ==
    ASSUME ClientAssumption, ChatInv, Reconnect
    PROVE  ChatInv'
  <1>1. /\ UNCHANGED serverVars /\ events' = events /\ replies' = replies /\ send' = send
        /\ conv' = conv /\ floor' = floor /\ heard' = heard /\ unsure' = unsure
    BY DEF Reconnect, clientVars
  <1>2. PICK f : f = Asked(0)
    OBVIOUS
  <1>3. f \in AskedFetch /\ f.pc = "asked" /\ f.before = 0
    BY <1>2 DEF Asked, AskedFetch
  <1>4. "resync" \in Kind /\ "load" \in Kind \ {"resync"}
    BY DEF Kind
  <1>5. FetchInv' /\ \A j \in Kind \ {"resync"} : fetch'[j] = fetch[j]
    <2>1. fetch' = [fetch EXCEPT !["resync"] = f]
      BY <1>2 DEF Reconnect
    <2>2. QED
      BY <1>1, <1>3, <1>4, <2>1, FetchSet
  <1>6. RowsInv' /\ NoticesInv' /\ SendsInv' /\ HeardInv'
    <2>1. conv.pc = "loading" => fetch'["load"].pc # "idle"
      BY <1>4, <1>5 DEF ChatInv, HeardInv
    <2>2. QED
      BY <1>1, <2>1, QuietKeeps
  <1>7. ConvInv' /\ ListInv'
    BY <1>1, ListKept
  <1>8. QED
    BY <1>5, <1>6, <1>7 DEF ChatInv

\* The list is asked for: it shows nothing, and has heard nothing.
LEMMA LoadKeeps ==
    ASSUME ClientAssumption, ChatInv, Load
    PROVE  ChatInv'
  <1>1. /\ UNCHANGED serverVars /\ events' = events /\ replies' = replies /\ send' = send
        /\ floor' = floor /\ heard' = heard /\ unsure' = unsure /\ conv.pc = "absent"
    BY DEF Load, Absent
  <1>2. PICK f : f = Asked(0)
    OBVIOUS
  <1>3. f \in AskedFetch /\ f.pc = "asked" /\ f.before = 0
    BY <1>2 DEF Asked, AskedFetch
  <1>4. FetchInv' /\ fetch'["load"] = f
    <2>1. fetch' = [fetch EXCEPT !["load"] = f] /\ "load" \in Kind
      BY <1>2 DEF Load, Kind
    <2>2. QED
      BY <1>1, <1>3, <2>1, FetchSet
  <1>5. RowsInv' /\ NoticesInv'
    BY <1>1, QuietKeeps
  <1>6. /\ conv' \in LoadingConv /\ conv'.pc = "loading"
        /\ conv'.items = <<>> /\ conv'.pending = <<>>
    BY DEF Load, Loading, LoadingConv
  <1>7. /\ \A i : Vers(<<>>, i) = {} /\ Once(<<>>, i)
        /\ \A t : Fates(<<>>, t) = {} /\ Single(<<>>, t)
    BY DEF Vers, Once, Fates, Single, Places, Waiting
  <1>8. heard = {}
    BY <1>1 DEF ChatInv, HeardInv
  <1>9. Clock' = Clock /\ \A i, v : Creates(i, v)' <=> Creates(i, v)
    BY <1>1, Still
  <1>10. ConvInv'
    BY <1>1, <1>6, <1>7, <1>9 DEF ChatInv, ConvInv, Message, LoadingConv, LoadedConv, Item
  <1>11. ListInv'
    BY <1>6 DEF ListInv
  <1>12. HeardInv'
    BY <1>1, <1>3, <1>4, <1>6, <1>7, <1>8 DEF HeardInv, Message
  <1>13. SendsInv'
    <2>1. ASSUME NEW t \in Temp  PROVE (send[t].pc = "stored" => Creates(send[t].id, send[t].ver))'
      <3>1. PICK i, v : i = send[t].id /\ v = send[t].ver
        OBVIOUS
      <3>2. send[t].pc = "stored" => Creates(i, v)'
        BY <1>9, <3>1 DEF ChatInv, SendsInv
      <3>3. QED
        BY <1>1, <3>1, <3>2
    <2>2. QED
      BY <1>1, <1>6, <1>7, <2>1 DEF ChatInv, SendsInv, StoredSend, Message
  <1>14. QED
    BY <1>4, <1>5, <1>10, <1>11, <1>12, <1>13 DEF ChatInv

\* An older page is asked for, before the first message that is shown.
LEMMA LoadOlderKeeps ==
    ASSUME ClientAssumption, ChatInv, LoadOlder
    PROVE  ChatInv'
  <1>1. /\ UNCHANGED serverVars /\ events' = events /\ replies' = replies /\ send' = send
        /\ floor' = floor /\ heard' = heard /\ unsure' = unsure /\ conv.pc = "loaded"
        /\ conv' = [conv EXCEPT !.loadingOlder = TRUE]
    BY DEF LoadOlder
  <1>2. PICK k \in DOMAIN conv.items : /\ ~IsOptimistic(conv.items[k])
                                       /\ fetch' = [fetch EXCEPT !["older"] = Asked(conv.items[k].id)]
    BY DEF LoadOlder
  <1>3. PICK f : f = Asked(conv.items[k].id)
    OBVIOUS
  <1>4. conv.items[k].id \in Message
    <2>1. conv.items \in Seq(Item)
      BY <1>1 DEF ChatInv, ConvInv, LoadedConv, LoadingConv, Absent
    <2>2. conv.items[k] \in Item /\ conv.items[k].temp = Other
      BY <1>2, <2>1 DEF IsOptimistic
    <2>3. QED
      BY <2>2, ItemIs
  <1>5. f \in AskedFetch /\ f.pc = "asked" /\ f.before \in Message
    BY <1>3, <1>4, ItemIs DEF Asked, AskedFetch
  <1>6. "older" \in Kind /\ "load" \in Kind \ {"older"}
    BY DEF Kind
  <1>7. FetchInv' /\ \A j \in Kind \ {"older"} : fetch'[j] = fetch[j]
    <2>1. fetch' = [fetch EXCEPT !["older"] = f]
      BY <1>2, <1>3
    <2>2. QED
      BY <1>1, <1>5, <1>6, <2>1, FetchSet
  <1>8. RowsInv' /\ NoticesInv'
    BY <1>1, QuietKeeps
  <1>9. ConvInv' /\ ListInv' /\ SendsInv' /\ HeardInv'
    BY <1>1, FlagKept
  <1>10. QED
    BY <1>7, <1>8, <1>9 DEF ChatInv

\* A list made of a page and of what was heard while it was fetched is right
\* about a message whose writes the page or the client knows, or are to come.
LEMMA PageRight ==
    ASSUME ClientAssumption,
           RowsInv, NEW f, PageOK(f), f.before = 0, NEW H, NEW i \in Message, NEW items,
           \A v \in H : v \in 1 .. Clock /\ Creates(about[v], v),
           Once(items, i),
           Vers(items, i) =
               IF Vers(f.page, i) # {} THEN Vers(f.page, i) ELSE {v \in H : about[v] = i},
           \A w \in WritesOf(i) : w <= f.at \/ w \in Versions(events) \/ w \in H,
           \A v \in H : about[v] = i => \A w \in WritesOf(i) : v < w => w \in Versions(events)
    PROVE  Right(items, i, Floor(f.page))
  <1>1. /\ \A v \in Vers(f.page, i) :
            /\ v \in WritesOf(i) /\ v <= f.at
            /\ db[i] = v \/ \E w \in WritesOf(i) : w > f.at
        /\ Vers(f.page, i) = {} /\ Floor(f.page) <= i =>
            \/ \A w \in WritesOf(i) : w > f.at
            \/ db[i] = 0 /\ \A w \in WritesOf(i) : w <= f.at
        /\ f.at \in Nat /\ Clock \in Nat
    BY DEF PageOK, RowsInv, Clock
  <1>2. \A v \in WritesOf(i) : v \in 1 .. Clock /\ about[v] = i
    BY DEF WritesOf
  <1>3. \A v \in H : about[v] = i => v \in WritesOf(i) /\ First(v) /\ (Last(v) => db[i] = v)
    BY DEF Creates
  <1>4. ASSUME Coming(i) = {}, NEW v \in Vers(items, i)  PROVE v = db[i]
    <2>1. CASE Vers(f.page, i) # {}
      <3>1. v \in Vers(f.page, i) /\ v \in WritesOf(i) /\ v <= f.at
        BY <1>1, <1>4, <2>1
      <3>2. ASSUME NEW w \in WritesOf(i), w > f.at  PROVE FALSE
        <4>1. w \notin Versions(events)
          BY <1>4 DEF Coming
        <4>2. w \in H
          BY <1>1, <1>2, <3>2, <4>1
        <4>3. First(w)
          BY <1>2, <1>3, <4>2
        <4>4. w <= v
          BY <3>1, <4>3, FirstUnique
        <4>5. QED
          BY <1>1, <1>2, <3>1, <3>2, <4>4
      <3>3. QED
        BY <1>1, <3>1, <3>2
    <2>2. CASE Vers(f.page, i) = {}
      <3>1. v \in H /\ about[v] = i
        BY <1>4, <2>2
      <3>2. \A w \in WritesOf(i) : ~(v < w)
        BY <1>4, <3>1 DEF Coming
      <3>3. Last(v)
        BY <1>2, <3>1, <3>2 DEF Last, WritesOf
      <3>4. QED
        BY <1>3, <3>1, <3>3
    <2>3. QED
      BY <2>1, <2>2
  <1>5. ASSUME Floor(f.page) <= i, db[i] > 0, \A v \in Coming(i) : ~First(v)
        PROVE  Vers(items, i) # {}
    <2>1. CASE Vers(f.page, i) # {}
      BY <2>1
    <2>2. CASE Vers(f.page, i) = {}
      <3>1. db[i] # 0 /\ WritesOf(i) # {}
        BY <1>5 DEF RowsInv
      <3>2. PICK c \in WritesOf(i) : First(c)
        BY <3>1 DEF RowsInv
      <3>3. c > f.at
        BY <1>1, <1>5, <2>2, <3>1
      <3>4. c \notin Versions(events)
        BY <1>5, <3>2 DEF Coming
      <3>5. c \in H
        BY <1>1, <1>2, <3>3, <3>4
      <3>6. QED
        BY <1>2, <2>2, <3>5
    <2>3. QED
      BY <2>1, <2>2
  <1>6. QED
    BY <1>4, <1>5 DEF Right

\* The page with the other messages heard of, and the writes neither accounts for.
Fresh(f, items, H, doubts) ==
    /\ PageOK(f) /\ f.before = 0
    /\ doubts \subseteq 1 .. Clock
    /\ \A t \in Temp : Fates(items, t) = {}
    /\ \A i \in Message :
        /\ Once(items, i)
        /\ Vers(items, i) =
               IF Vers(f.page, i) # {} THEN Vers(f.page, i) ELSE {v \in H : about[v] = i}
    /\ \A w \in 1 .. Clock : w \notin doubts => w <= f.at \/ w \in Versions(events) \/ w \in H
    /\ \A v \in H, w \in 1 .. Clock :
        w \notin doubts /\ v < w /\ about[w] = about[v] => w \in Versions(events)

\* A list that is fetched takes the place of what was there.
LEMMA FreshKeeps ==
    ASSUME ClientAssumption,
           ChatInv, UNCHANGED serverVars, events' = events, replies' = replies, send' = send,
           NEW k \in {"load", "resync"}, fetch' = [fetch EXCEPT ![k] = Idle],
           NEW f, NEW items \in Seq(Item), NEW more \in BOOLEAN, NEW H \in SUBSET heard, NEW doubts,
           conv' = Loaded(items, more), floor' = Floor(f.page), heard' = {}, unsure' = doubts,
           Fresh(f, items, H, doubts)
    PROVE  ChatInv'
  <1> USE DEF Fresh
  <1>1. /\ db' = db /\ about' = about /\ Clock' = Clock /\ \A i : WritesOf(i)' = WritesOf(i)
        /\ \A v : First(v)' <=> First(v)
        /\ \A i, v : Creates(i, v)' <=> Creates(i, v)
    BY Still DEF serverVars
  <1>2. FetchInv'
    <2>1. PICK g : g = Idle
      OBVIOUS
    <2>2. g \in {Idle} \cup AskedFetch \cup ReadFetch /\ g.pc = "idle" /\ k \in Kind
      BY <2>1 DEF Idle, Kind
    <2>3. QED
      BY <2>1, <2>2, FetchSet
  <1>3. RowsInv' /\ NoticesInv'
    BY QuietKeeps
  <1>4. /\ conv' \in LoadedConv /\ conv'.pc = "loaded" /\ conv'.items = items
    BY DEF Loaded, LoadedConv
  <1>5. \A v \in H : v \in 1 .. Clock /\ Creates(about[v], v)
    BY DEF ChatInv, HeardInv
  <1>6. ASSUME NEW i \in Message  PROVE Vers(items, i) \subseteq WritesOf(i)
    <2>1. \A v \in H : about[v] = i => v \in WritesOf(i)
      BY <1>5 DEF Creates
    <2>2. Vers(f.page, i) \subseteq WritesOf(i)
      BY DEF PageOK
    <2>3. QED
      BY <2>1, <2>2
  <1>7. ConvInv'
    <2>1. floor' \in Message /\ unsure' \subseteq 1 .. Clock'
      BY <1>1 DEF PageOK
    <2>2. QED
      BY <1>1, <1>4, <1>6, <2>1 DEF ConvInv, Message, LoadingConv, LoadedConv, Item
  <1>8. HeardInv'
    BY <1>4 DEF HeardInv
  <1>9. ListInv'
    <2>1. ASSUME NEW i \in Message, WritesOf(i) \cap unsure' = {}  PROVE Right(items, i, floor')
      <3>1. \A w \in WritesOf(i) : w \in 1 .. Clock /\ about[w] = i /\ w \notin unsure'
        BY <2>1 DEF WritesOf
      <3>2. \A w \in WritesOf(i) : w <= f.at \/ w \in Versions(events) \/ w \in H
        BY <3>1
      <3>3. \A v \in H : about[v] = i => \A w \in WritesOf(i) : v < w => w \in Versions(events)
        BY <3>1
      <3>4. /\ Once(items, i)
            /\ Vers(items, i) =
                 IF Vers(f.page, i) # {} THEN Vers(f.page, i) ELSE {v \in H : about[v] = i}
        OBVIOUS
      <3>5. RowsInv
        BY DEF ChatInv
      <3>6. QED
        BY <1>5, <3>2, <3>3, <3>4, <3>5, PageRight
    <2>2. ASSUME NEW i \in Message, WritesOf(i)' \cap unsure' = {}  PROVE Right(conv.items, i, floor)'
      <3>1. Right(items, i, floor')
        BY <1>1, <2>1, <2>2
      <3>2. Coming(i)' = Coming(i)
        BY <1>1 DEF Coming, Versions
      <3>3. QED
        BY <1>1, <1>4, <3>1, <3>2 DEF Right
    <2>3. QED
      BY <2>2 DEF ListInv, Message
  <1>10. SendsInv'
    <2>1. ASSUME NEW t \in Temp  PROVE (send[t].pc = "stored" => Creates(send[t].id, send[t].ver))'
      <3>1. PICK i, v : i = send[t].id /\ v = send[t].ver
        OBVIOUS
      <3>2. send[t].pc = "stored" => Creates(i, v)'
        BY <1>1, <3>1 DEF ChatInv, SendsInv
      <3>3. QED
        BY <3>1, <3>2
    <2>2. ASSUME NEW t \in Temp  PROVE Single(items, t)
      <3>1. ASSUME NEW l \in Waiting(items, t)  PROVE FALSE
        <4>1. items[l].failed \in Fates(items, t)
          BY DEF Fates
        <4>2. QED
          BY <2>2, <4>1
      <3>2. QED
        BY <3>1 DEF Single
    <2>3. \A t \in Temp : Single(conv'.items, t) /\ Fates(conv'.items, t) = {}
      BY <1>4, <2>2
    <2>4. QED
      BY <1>4, <2>1, <2>3 DEF ChatInv, SendsInv, StoredSend, Message
  <1>11. QED
    BY <1>2, <1>3, <1>7, <1>8, <1>9, <1>10 DEF ChatInv

\* A resync takes the place of the list.
LEMMA ResyncArrivesKeeps ==
    ASSUME ClientAssumption, ChatInv, ResyncArrives
    PROVE  ChatInv'
  <1>1. PICK f : f = fetch["resync"]
    OBVIOUS
  <1>2. /\ UNCHANGED serverVars /\ events' = events /\ replies' = replies /\ send' = send
        /\ f.pc = "read" /\ conv' = Loaded(f.page, Full(f.page)) /\ floor' = Floor(f.page)
        /\ heard' = {} /\ unsure' = Unseen(f.at) /\ fetch' = [fetch EXCEPT !["resync"] = Idle]
    BY <1>1 DEF ResyncArrives
  <1>3. PageOK(f) /\ f.before = 0
    BY <1>1, <1>2 DEF ChatInv, FetchInv, Kind
  <1>4. /\ f.page \in Seq(Item) /\ f.at \in Nat /\ Clock \in Nat /\ Full(f.page) \in BOOLEAN
        /\ \A t \in Temp : Fates(f.page, t) = {}
        /\ \A i \in Message : Once(f.page, i)
    BY <1>3 DEF PageOK, ChatInv, RowsInv, Clock, Full
  <1>5. PICK more \in BOOLEAN, items \in Seq(Item) : more = Full(f.page) /\ items = f.page
    BY <1>4
  <1>6. PICK H : H = {}
    OBVIOUS
  <1>7. \A w : w \in unsure' <=> w \in f.at + 1 .. Clock /\ w \notin Versions(events)
    BY <1>2 DEF Unseen
  <1>8. unsure' \subseteq 1 .. Clock /\
        \A w \in 1 .. Clock : w \notin unsure' => w <= f.at \/ w \in Versions(events) \/ w \in H
    BY <1>4, <1>7
  <1>9. \A i \in Message :
            Vers(items, i) = IF Vers(f.page, i) # {} THEN Vers(f.page, i) ELSE {v \in H : about[v] = i}
    BY <1>5, <1>6
  <1>10. /\ H \in SUBSET heard /\ conv' = Loaded(items, more)
         /\ \A t \in Temp : Fates(items, t) = {}
         /\ \A i \in Message : Once(items, i)
         /\ \A v \in H, w \in 1 .. Clock :
               w \notin unsure' /\ v < w /\ about[w] = about[v] => w \in Versions(events)
    BY <1>2, <1>4, <1>5, <1>6
  <1>11. QED
    <2>1. PICK doubts : doubts = unsure'
      OBVIOUS
    <2>2. Fresh(f, items, H, doubts)
      BY <1>3, <1>8, <1>9, <1>10, <2>1 DEF Fresh
    <2>3. H \in SUBSET heard /\ conv' = Loaded(items, more)
      BY <1>10
    <2>4. QED
      BY <1>2, <2>1, <2>2, <2>3, FreshKeeps

\* A page arrives, and what was heard while it was fetched is put after it.
LEMMA LoadArrivesKeeps ==
    ASSUME ClientAssumption, ChatInv, LoadArrives
    PROVE  ChatInv'
  <1>1. PICK f : f = fetch["load"]
    OBVIOUS
  <1>2. PICK extra : extra = IF conv.pc = "loading" THEN Buffered(f.page, conv.pending) ELSE <<>>
    OBVIOUS
  <1>3. /\ UNCHANGED serverVars /\ events' = events /\ replies' = replies /\ send' = send
        /\ f.pc = "read" /\ conv' = Loaded(f.page \o extra, Full(f.page)) /\ floor' = Floor(f.page)
        /\ heard' = {} /\ fetch' = [fetch EXCEPT !["load"] = Idle]
        /\ unsure' = (Unseen(f.at) \ heard) \cup UNION {Overtaken(about[v], v, events) : v \in heard}
    BY <1>1, <1>2 DEF LoadArrives
  <1>4. PageOK(f) /\ f.before = 0
    BY <1>1, <1>3 DEF ChatInv, FetchInv, Kind
  <1>5. /\ f.page \in Seq(Item) /\ f.at \in Nat /\ Clock \in Nat /\ Full(f.page) \in BOOLEAN
        /\ \A t \in Temp : Fates(f.page, t) = {}
        /\ \A i \in Message : Once(f.page, i)
    BY <1>4 DEF PageOK, ChatInv, RowsInv, Clock, Full
  <1>6. /\ extra \in Seq(Item)
        /\ \A t \in Temp : Fates(extra, t) = {}
        /\ \A i \in Message :
            /\ Once(extra, i)
            /\ Vers(extra, i) = IF Vers(f.page, i) # {} THEN {} ELSE {v \in heard : about[v] = i}
    <2>1. CASE conv.pc = "loading"
      <3>1. PICK pending : pending = conv.pending
        OBVIOUS
      <3>2. /\ pending \in Seq(Item)
            /\ \A t \in Temp : Fates(pending, t) = {}
            /\ \A i \in Message : Once(pending, i) /\ Vers(pending, i) = {v \in heard : about[v] = i}
        BY <2>1, <3>1 DEF ChatInv, HeardInv, ConvInv, LoadingConv, LoadedConv, Absent
      <3>3. extra = Buffered(f.page, pending)
        BY <1>2, <2>1, <3>1
      <3>4. PICK page : page = f.page
        OBVIOUS
      <3>5. pending \in Seq(Item) /\ extra = Buffered(page, pending)
        BY <3>2, <3>3, <3>4
      <3>6. /\ extra \in Seq(Item)
            /\ \A i \in Message :
                 /\ Vers(extra, i) = IF i \in Ids(page) THEN {} ELSE Vers(pending, i)
                 /\ Once(pending, i) => Once(extra, i)
            /\ \A t \in Temp : Fates(extra, t) \subseteq Fates(pending, t)
        BY <3>5, BufferedShows
      <3>7. \A i : i \in Ids(page) <=> Vers(f.page, i) # {}
        BY <3>4, ShowsIs
      <3>8. QED
        BY <3>2, <3>6, <3>7
    <2>2. CASE conv.pc # "loading"
      <3>1. heard = {} /\ extra = <<>>
        BY <1>2, <2>2 DEF ChatInv, HeardInv
      <3>2. <<>> \in Seq(Item)
        OBVIOUS
      <3>3. \A i : Vers(<<>>, i) = {} /\ Once(<<>>, i) /\ Fates(<<>>, i) = {}
        BY DEF Vers, Once, Fates, Places, Waiting
      <3>4. QED
        BY <3>1, <3>2, <3>3
    <2>3. QED
      BY <2>1, <2>2
  <1>7. PICK items, page : page = f.page /\ items = page \o extra
    OBVIOUS
  <1>8. /\ items \in Seq(Item)
        /\ \A i \in Message :
             /\ Vers(items, i) = Vers(page, i) \cup Vers(extra, i)
             /\ Once(page, i) /\ Once(extra, i) /\ (Vers(page, i) = {} \/ Vers(extra, i) = {}) =>
                  Once(items, i)
        /\ \A t \in Temp : Fates(items, t) = Fates(page, t) \cup Fates(extra, t)
    <2>1. page \in Seq(Item) /\ extra \in Seq(Item)
      BY <1>5, <1>6, <1>7
    <2>2. QED
      <3>1. items = Prepended(page, extra)
        BY <1>7 DEF Prepended
      <3>2. QED
        BY <2>1, <3>1, JoinedShows
  <1>9. \A t \in Temp : Fates(items, t) = {}
    BY <1>5, <1>6, <1>7, <1>8
  <1>10. ASSUME NEW i \in Message
         PROVE  /\ Once(items, i)
                /\ Vers(items, i) =
                     IF Vers(f.page, i) # {} THEN Vers(f.page, i) ELSE {v \in heard : about[v] = i}
    BY <1>5, <1>6, <1>7, <1>8
  <1>11. ASSUME NEW v \in heard  PROVE v \in 1 .. Clock /\ v \in Nat
    <2>1. conv.pc = "loading"
      BY DEF ChatInv, HeardInv
    <2>2. QED
      BY <1>5, <2>1 DEF ChatInv, HeardInv
  <1>12. unsure' \subseteq 1 .. Clock
    <2>1. ASSUME NEW w \in Unseen(f.at)  PROVE w \in 1 .. Clock
      BY <1>5, <2>1 DEF Unseen
    <2>2. ASSUME NEW v \in heard, NEW w \in Overtaken(about[v], v, events)  PROVE w \in 1 .. Clock
      BY <1>5, <1>11, <2>2 DEF Overtaken
    <2>3. QED
      BY <1>3, <2>1, <2>2
  <1>13. ASSUME NEW w \in 1 .. Clock, w \notin unsure'
         PROVE  w <= f.at \/ w \in Versions(events) \/ w \in heard
    <2>1. w \notin Unseen(f.at) \/ w \in heard
      BY <1>3, <1>13
    <2>2. QED
      BY <1>5, <2>1 DEF Unseen
  <1>14. ASSUME NEW v \in heard, NEW w \in 1 .. Clock, w \notin unsure', v < w, about[w] = about[v]
         PROVE  w \in Versions(events)
    <2>1. w \notin Overtaken(about[v], v, events)
      BY <1>3, <1>14
    <2>2. w \in v + 1 .. Clock
      BY <1>5, <1>11, <1>14
    <2>3. QED
      BY <1>14, <2>1, <2>2 DEF Overtaken
  <1>15. PICK more \in BOOLEAN, H \in SUBSET heard : more = Full(f.page) /\ H = heard
    BY <1>5
  <1>16. conv' = Loaded(items, more)
    BY <1>3, <1>7, <1>15
  <1>17. QED
    <2>1. PICK doubts : doubts = unsure'
      OBVIOUS
    <2>2. Fresh(f, items, H, doubts)
      BY <1>4, <1>9, <1>10, <1>12, <1>13, <1>14, <1>15, <2>1 DEF Fresh
    <2>3. items \in Seq(Item)
      BY <1>8
    <2>4. QED
      BY <1>3, <1>16, <2>1, <2>2, <2>3, FreshKeeps

\* An older page is put before the list: a message is shown by one of them,
\* unless both show it or neither accounts for it.
LEMMA OlderArrivesKeeps ==
    ASSUME ClientAssumption, ChatInv, OlderArrives
    PROVE  ChatInv'
  <1>1. PICK f : f = fetch["older"]
    OBVIOUS
  <1>2. /\ UNCHANGED serverVars /\ events' = events /\ replies' = replies /\ send' = send
        /\ f.pc = "read" /\ fetch' = [fetch EXCEPT !["older"] = Idle]
    BY <1>1 DEF OlderArrives
  <1>3. PageOK(f) /\ f.before \in Message
    BY <1>1, <1>2 DEF ChatInv, FetchInv, Kind
  <1>4. FetchInv' /\ fetch'["load"] = fetch["load"]
    <2>1. PICK g : g = Idle
      OBVIOUS
    <2>2. g \in {Idle} \cup AskedFetch \cup ReadFetch /\ g.pc = "idle" /\ "older" \in Kind /\ "load" \in Kind
      BY <2>1 DEF Idle, Kind
    <2>3. fetch' = [fetch EXCEPT !["older"] = g]
      BY <1>2, <2>1
    <2>4. FetchInv' /\ \A j \in Kind \ {"older"} : fetch'[j] = fetch[j]
      BY <1>2, <2>2, <2>3, FetchSet
    <2>5. QED
      BY <2>2, <2>4
  <1>5. RowsInv' /\ NoticesInv'
    BY <1>2, QuietKeeps
  <1>6. /\ db' = db /\ about' = about /\ Clock' = Clock /\ \A i : WritesOf(i)' = WritesOf(i)
        /\ \A v : First(v)' <=> First(v)
        /\ \A i, v : Creates(i, v)' <=> Creates(i, v)
    BY <1>2, Still DEF serverVars
  <1>7. CASE conv.pc # "loaded"
    <2>1. conv' = conv /\ floor' = floor /\ heard' = heard /\ unsure' = unsure
      BY <1>7 DEF OlderArrives, clientVars
    <2>2. SendsInv' /\ HeardInv'
      <3>1. conv.pc = "loading" => fetch'["load"].pc # "idle"
        BY <1>4 DEF ChatInv, HeardInv
      <3>2. QED
        BY <1>2, <2>1, <3>1, QuietKeeps
    <2>3. ConvInv' /\ ListInv'
      BY <1>2, <2>1, ListKept
    <2>4. QED
      BY <1>4, <1>5, <2>2, <2>3 DEF ChatInv
  <1>8. CASE conv.pc = "loaded"
    <2>1. PICK items, page : items = conv.items /\ page = f.page
      OBVIOUS
    <2>2. items \in Seq(Item) /\ page \in Seq(Item) /\ conv \in LoadedConv
      BY <1>3, <1>8, <2>1 DEF PageOK, ChatInv, ConvInv, LoadedConv, LoadingConv, Absent
    <2>3. PICK new : new = Prepended(page, items)
      OBVIOUS
    <2>4. PICK doubtful : doubtful = {i \in Message : i \in Ids(page) \cap Ids(items)
                                                        \/ (f.before <= i /\ i < floor)}
      OBVIOUS
    <2>5. /\ conv' = [conv EXCEPT !.items = new, !.hasMore = Full(page), !.loadingOlder = FALSE]
          /\ floor' = Floor(page) /\ heard' = heard
      BY <1>1, <1>8, <2>1, <2>3 DEF OlderArrives
    <2>6. unsure' = unsure \cup {v \in Unseen(f.at) : about[v] < f.before}
                        \cup {v \in 1 .. Clock : about[v] \in doubtful}
      <3>1. \A v \in 1 .. Clock : about[v] \in Message
        BY DEF ChatInv, RowsInv, Clock
      <3>2. unsure' = unsure \cup ({v \in Unseen(f.at) : about[v] < f.before}
                        \cup {v \in 1 .. Clock : about[v] \in Ids(page) \cap Ids(items)
                                                  \/ (f.before <= about[v] /\ about[v] < floor)})
        BY <1>1, <1>8, <2>1 DEF OlderArrives, Doubt
      <3>3. QED
        BY <2>4, <3>1, <3>2
    <2>7. /\ new \in Seq(Item)
          /\ \A i \in Message :
               /\ Vers(new, i) = Vers(page, i) \cup Vers(items, i)
               /\ Once(page, i) /\ Once(items, i) /\ (Vers(page, i) = {} \/ Vers(items, i) = {}) =>
                    Once(new, i)
          /\ \A t \in Temp :
               /\ Fates(new, t) = Fates(page, t) \cup Fates(items, t)
               /\ Single(page, t) /\ Single(items, t) /\ (Fates(page, t) = {} \/ Fates(items, t) = {}) =>
                    Single(new, t)
      BY <2>2, <2>3, JoinedShows
    <2>8. conv' \in LoadedConv /\ conv'.pc = "loaded" /\ conv'.items = new
      <3>1. Full(page) \in BOOLEAN
        BY DEF Full
      <3>2. QED
        BY <2>2, <2>5, <2>7, <3>1 DEF LoadedConv
    <2>9. ConvInv'
      <3>1. \A i \in Message : Vers(new, i) \subseteq WritesOf(i)
        <4>1. \A i \in Message : Vers(page, i) \subseteq WritesOf(i) /\ Vers(items, i) \subseteq WritesOf(i)
          BY <1>3, <1>8, <2>1 DEF PageOK, ChatInv, ConvInv
        <4>2. QED
          BY <2>7, <4>1
      <3>2. unsure' \subseteq 1 .. Clock
        <4>1. ASSUME NEW w \in Unseen(f.at)  PROVE w \in 1 .. Clock
          <5>1. f.at \in Nat /\ Clock \in Nat
            BY <1>3 DEF PageOK, ChatInv, RowsInv, Clock
          <5>2. QED
            BY <4>1, <5>1 DEF Unseen
        <4>2. unsure \subseteq 1 .. Clock
          BY DEF ChatInv, ConvInv
        <4>3. QED
          BY <2>6, <4>1, <4>2
      <3>3. floor' \in Message
        BY <1>3, <2>1, <2>5 DEF PageOK
      <3>4. QED
        BY <1>6, <2>8, <3>1, <3>2, <3>3 DEF ConvInv, Message, LoadingConv, LoadedConv, Item
    <2>10. HeardInv'
      BY <1>8, <2>5, <2>8 DEF ChatInv, HeardInv
    <2>11. ASSUME NEW i \in Message, WritesOf(i) \cap unsure' = {}
           PROVE  Right(new, i, floor')
      <3>1. WritesOf(i) \cap unsure = {} /\ Right(items, i, floor)
        BY <1>8, <2>1, <2>6, <2>11 DEF ChatInv, ListInv
      <3>2. /\ Once(page, i)
            /\ f.before <= i => Vers(page, i) = {}
            /\ \A v \in Vers(page, i) :
                /\ v \in WritesOf(i) /\ v <= f.at
                /\ db[i] = v \/ \E w \in WritesOf(i) : w > f.at
            /\ Vers(page, i) = {} /\ Floor(page) <= i /\ i < f.before =>
                \/ \A w \in WritesOf(i) : w > f.at
                \/ db[i] = 0 /\ \A w \in WritesOf(i) : w <= f.at
            /\ f.at \in Nat /\ Clock \in Nat
        <4>1. f.before # 0
          BY <1>3, ItemIs
        <4>2. f.at \in Nat /\ Clock \in Nat
          BY <1>3 DEF PageOK, ChatInv, RowsInv, Clock
        <4>3. /\ Once(page, i)
              /\ f.before # 0 /\ f.before <= i => Vers(page, i) = {}
              /\ \A v \in Vers(page, i) :
                  /\ v \in WritesOf(i) /\ v <= f.at
                  /\ db[i] = v \/ \E w \in WritesOf(i) : w > f.at
              /\ Vers(page, i) = {} /\ Floor(page) <= i /\ (f.before = 0 \/ i < f.before) =>
                  \/ \A w \in WritesOf(i) : w > f.at
                  \/ db[i] = 0 /\ \A w \in WritesOf(i) : w <= f.at
          BY <1>3, <2>1 DEF PageOK
        <4>4. QED
          BY <4>1, <4>2, <4>3
      <3>3. /\ \A w \in WritesOf(i) : w \in 1 .. Clock /\ about[w] = i
            /\ i \in Nat /\ f.before \in Nat /\ floor \in Nat
        BY <1>3, ItemIs DEF WritesOf, ChatInv, ConvInv
      <3>4. Vers(items, i) \subseteq WritesOf(i) /\ Vers(page, i) \subseteq WritesOf(i)
        BY <1>8, <2>1, <3>2 DEF ChatInv, ConvInv
      <3>5. ASSUME NEW w \in WritesOf(i)  PROVE i \notin doubtful
        BY <2>6, <2>11, <3>3, <3>5
      <3>6. ASSUME NEW w \in WritesOf(i), i < f.before, w > f.at  PROVE w \in Coming(i)
        <4>1. w \notin Unseen(f.at)
          BY <2>6, <2>11, <3>3, <3>6
        <4>2. w \in f.at + 1 .. Clock
          BY <3>2, <3>3, <3>6
        <4>3. QED
          BY <3>6, <4>1, <4>2 DEF Unseen, Coming
      <3>7. Vers(page, i) = {} \/ Vers(items, i) = {}
        <4>1. SUFFICES ASSUME Vers(page, i) # {}, Vers(items, i) # {}
                       PROVE  FALSE
          OBVIOUS
        <4>2. i \in Ids(page) \cap Ids(items)
          BY <4>1, ShowsIs
        <4>3. i \in doubtful
          BY <2>4, <4>2
        <4>4. QED
          BY <3>4, <3>5, <4>1, <4>3
      <3>8. Once(new, i) /\ Vers(new, i) = Vers(page, i) \cup Vers(items, i)
        BY <2>7, <3>1, <3>2, <3>7 DEF Right
      <3>9. CASE Vers(page, i) # {}
        <4>1. i < f.before
          BY <3>2, <3>3, <3>9
        <4>2. ASSUME Coming(i) = {}, NEW v \in Vers(page, i)  PROVE v = db[i]
          BY <3>2, <3>6, <4>1, <4>2
        <4>3. QED
          BY <3>7, <3>8, <3>9, <4>2 DEF Right
      <3>10. CASE Vers(page, i) = {}
        <4>1. Vers(new, i) = Vers(items, i)
          BY <3>8, <3>10
        <4>2. ASSUME floor' <= i, db[i] > 0, \A v \in Coming(i) : ~First(v)
              PROVE  Vers(items, i) # {}
          <5>1. CASE floor <= i
            BY <3>1, <4>2, <5>1 DEF Right
          <5>2. CASE ~(floor <= i)
            <6>1. db[i] # 0 /\ WritesOf(i) # {}
              BY <4>2 DEF ChatInv, RowsInv
            <6>2. PICK c \in WritesOf(i) : First(c)
              BY <6>1 DEF ChatInv, RowsInv
            <6>3. ~(f.before <= i)
              BY <2>4, <3>3, <3>5, <5>2, <6>2
            <6>4. i < f.before
              BY <3>3, <6>3
            <6>5. c > f.at
              BY <2>1, <2>5, <3>2, <3>10, <4>2, <6>1, <6>4
            <6>6. c \in Coming(i)
              BY <3>6, <6>4, <6>5
            <6>7. QED
              BY <4>2, <6>2, <6>6
          <5>3. QED
            BY <5>1, <5>2
        <4>3. QED
          BY <3>1, <3>8, <4>1, <4>2 DEF Right
      <3>11. QED
        BY <3>9, <3>10
    <2>12. ListInv'
      <3>1. ASSUME NEW i \in Message, WritesOf(i)' \cap unsure' = {}  PROVE Right(conv.items, i, floor)'
        <4>1. Right(new, i, floor')
          BY <1>6, <2>11, <3>1
        <4>2. Coming(i)' = Coming(i)
          BY <1>2, <1>6 DEF Coming, Versions
        <4>3. QED
          BY <1>6, <2>8, <4>1, <4>2 DEF Right
      <3>2. QED
        BY <3>1 DEF ListInv, Message
    <2>13. SendsInv'
      <3>1. ASSUME NEW t \in Temp
            PROVE  Fates(new, t) = Fates(items, t) /\ (Single(items, t) => Single(new, t))
        <4>1. Fates(page, t) = {}
          BY <1>3, <2>1 DEF PageOK
        <4>2. Single(page, t)
          <5>1. ASSUME NEW l \in Waiting(page, t)  PROVE FALSE
            <6>1. page[l].failed \in Fates(page, t)
              BY DEF Fates
            <6>2. QED
              BY <4>1, <6>1
          <5>2. QED
            BY <5>1 DEF Single
        <4>3. QED
          BY <2>7, <4>1, <4>2
      <3>2. ASSUME NEW t \in Temp  PROVE (send[t].pc = "stored" => Creates(send[t].id, send[t].ver))'
        <4>1. PICK i, v : i = send[t].id /\ v = send[t].ver
          OBVIOUS
        <4>2. send[t].pc = "stored" => Creates(i, v)'
          BY <1>6, <4>1 DEF ChatInv, SendsInv
        <4>3. QED
          BY <1>2, <4>1, <4>2
      <3>3. \A t \in Temp : Fates(conv'.items, t) = Fates(conv.items, t)
                              /\ (Single(conv.items, t) => Single(conv'.items, t))
        BY <2>1, <2>8, <3>1
      <3>4. QED
        BY <1>2, <1>8, <3>2, <3>3 DEF ChatInv, SendsInv, StoredSend, Message
    <2>14. QED
      BY <1>4, <1>5, <2>9, <2>10, <2>12, <2>13 DEF ChatInv
  <1>9. QED
    BY <1>7, <1>8

-----------------------------------------------------------------------------
(* The client's own sends.                                                 *)

\* What a step of a send keeps that shows the same messages, and settles the
\* send's own entry.
LEMMA SendSet ==
    ASSUME ClientAssumption,
           ChatInv, UNCHANGED serverVars, events' = events, replies' = replies, fetch' = fetch,
           heard' = heard, floor' = floor, conv.pc # "absent",
           NEW s \in Temp, NEW new \in Seq(Item), NEW state \in Unsent,
           conv' = [conv EXCEPT !.items = new], send' = [send EXCEPT ![s] = state] \/ send' = send,
           \A t \in Temp : Single(new, t),
           Fates(new, s) \subseteq
               CASE send'[s].pc = "unsent" -> {} [] send'[s].pc = "over" -> {TRUE} [] OTHER -> {FALSE},
           \A t \in Temp \ {s} : Fates(new, t) \subseteq Fates(conv.items, t)
    PROVE  /\ RowsInv' /\ NoticesInv' /\ FetchInv' /\ HeardInv' /\ SendsInv'
           /\ conv' \in LoadingConv \cup LoadedConv /\ conv'.pc = conv.pc /\ conv'.items = new
  <1>1. conv \in LoadingConv \cup LoadedConv
    BY DEF ChatInv, ConvInv, Absent
  <1>2. /\ conv' \in LoadingConv \cup LoadedConv /\ conv'.pc = conv.pc /\ conv'.items = new
        /\ conv.pc = "loading" => conv'.pending = conv.pending
    BY <1>1 DEF LoadingConv, LoadedConv
  <1>3. RowsInv' /\ NoticesInv' /\ FetchInv'
    BY QuietKeeps
  <1>4. HeardInv'
    <2>1. CASE conv.pc = "loading"
      <3>1. fetch'["load"].pc # "idle"
        BY <2>1 DEF ChatInv, HeardInv
      <3>2. QED
        BY <1>2, <2>1, <3>1, HeardKept
    <2>2. CASE conv.pc # "loading"
      BY <1>2, <2>2 DEF ChatInv, HeardInv
    <2>3. QED
      BY <2>1, <2>2
  <1>5. send \in [Temp -> Unsent \cup StoredSend]
    BY DEF ChatInv, SendsInv
  <1>6. /\ send' \in [Temp -> Unsent \cup StoredSend]
        /\ \A t \in Temp \ {s} : send'[t] = send[t]
        /\ send'[s] = send[s] \/ send'[s].pc # "stored"
    BY <1>5 DEF Unsent
  <1>7. ASSUME NEW t \in Temp  PROVE (send[t].pc = "stored" => Creates(send[t].id, send[t].ver))'
    <2>1. PICK i, v : i = send'[t].id /\ v = send'[t].ver
      OBVIOUS
    <2>2. SUFFICES ASSUME send'[t].pc = "stored"
                   PROVE  Creates(i, v)'
      BY <2>1
    <2>3. send'[t] = send[t]
      BY <1>6, <2>2
    <2>4. Creates(i, v)
      BY <2>1, <2>2, <2>3 DEF ChatInv, SendsInv
    <2>5. QED
      BY <2>4, Still
  <1>8. ASSUME NEW t \in Temp
        PROVE  /\ Single(new, t)
               /\ Fates(new, t) \subseteq
                    CASE send'[t].pc = "unsent" -> {} [] send'[t].pc = "over" -> {TRUE} [] OTHER -> {FALSE}
    <2>1. CASE t = s
      BY <2>1
    <2>2. CASE t # s
      <3>1. send'[t] = send[t] /\ Fates(new, t) \subseteq Fates(conv.items, t)
        BY <1>6, <2>2
      <3>2. Fates(conv.items, t) \subseteq
              CASE send[t].pc = "unsent" -> {} [] send[t].pc = "over" -> {TRUE} [] OTHER -> {FALSE}
        BY DEF ChatInv, SendsInv
      <3>3. QED
        BY <3>1, <3>2
    <2>3. QED
      BY <2>1, <2>2
  <1>9. SendsInv'
    BY <1>2, <1>6, <1>7, <1>8 DEF SendsInv, StoredSend, Message
  <1>10. QED
    BY <1>2, <1>3, <1>4, <1>9

\* A list that shows the same messages is as right as before.
LEMMA SameShown ==
    ASSUME ClientAssumption,
           ChatInv, UNCHANGED serverVars, events' = events, floor' = floor, unsure' = unsure,
           conv'.pc = conv.pc, conv.pc # "absent", conv' \in LoadingConv \cup LoadedConv,
           \A i \in Message :
               /\ Vers(conv'.items, i) = Vers(conv.items, i)
               /\ Once(conv.items, i) => Once(conv'.items, i)
    PROVE  ConvInv' /\ ListInv'
  <1>1. /\ db' = db /\ Clock' = Clock /\ \A i : WritesOf(i)' = WritesOf(i)
        /\ \A v : First(v)' <=> First(v)
    BY Still DEF serverVars
  <1>2. ConvInv'
    BY <1>1 DEF ChatInv, ConvInv, Message, LoadingConv, LoadedConv, Item
  <1>3. ASSUME NEW i \in Message, Right(conv.items, i, floor)  PROVE Right(conv.items, i, floor)'
    <2>1. Coming(i)' = Coming(i)
      BY <1>1 DEF Coming, Versions
    <2>2. QED
      BY <1>1, <1>3, <2>1 DEF Right
  <1>4. ListInv'
    BY <1>1, <1>3 DEF ChatInv, ListInv, Message
  <1>5. QED
    BY <1>2, <1>4

\* A send gets its entry.
LEMMA SendKeeps ==
    ASSUME ClientAssumption, ChatInv, NEW s \in Temp, Send(s)
    PROVE  ChatInv'
  <1>1. PICK items : items = conv.items
    OBVIOUS
  <1>2. PICK new : new = Append(items, Optimistic(s))
    OBVIOUS
  <1>3. PICK state : state = [pc |-> "posting"]
    OBVIOUS
  <1>4. /\ UNCHANGED serverVars /\ events' = events /\ replies' = replies /\ fetch' = fetch
        /\ heard' = heard /\ floor' = floor /\ unsure' = unsure /\ conv.pc # "absent"
        /\ conv' = [conv EXCEPT !.items = new] /\ send' = [send EXCEPT ![s] = state]
        /\ send[s].pc = "unsent"
    BY <1>1, <1>2, <1>3 DEF Send
  <1>5. items \in Seq(Item)
    BY <1>1, <1>4 DEF ChatInv, ConvInv, Absent, LoadingConv, LoadedConv
  <1>6. \A t \in Temp : Single(items, t) /\ Fates(items, s) = {}
    BY <1>1, <1>4 DEF ChatInv, SendsInv
  <1>7. Posted(items, s, new)
    <2>1. Fates(items, s) = {}
      BY <1>6
    <2>2. Posted(items, s, Append(items, Optimistic(s)))
      BY <1>5, <2>1, AppendOptimistic
    <2>3. QED
      BY <1>2, <2>2
  <1>8. /\ new \in Seq(Item)
        /\ \A i \in Message : Vers(new, i) = Vers(items, i) /\ (Once(items, i) => Once(new, i))
    BY <1>7 DEF Posted
  <1>9. \A t \in Temp : Single(new, t)
    BY <1>6, <1>7 DEF Posted
  <1>10. Fates(new, s) = {FALSE} /\ \A t \in Temp \ {s} : Fates(new, t) \subseteq Fates(conv.items, t)
    BY <1>1, <1>7 DEF Posted
  <1>11. state \in Unsent /\ send'[s] = state /\ state.pc = "posting"
    BY <1>3, <1>4 DEF Unsent, ChatInv, SendsInv
  <1>12. Fates(new, s) \subseteq
           CASE send'[s].pc = "unsent" -> {} [] send'[s].pc = "over" -> {TRUE} [] OTHER -> {FALSE}
    BY <1>10, <1>11
  <1>13. /\ RowsInv' /\ NoticesInv' /\ FetchInv' /\ HeardInv' /\ SendsInv'
         /\ conv' \in LoadingConv \cup LoadedConv /\ conv'.pc = conv.pc /\ conv'.items = new
    BY <1>4, <1>8, <1>9, <1>10, <1>11, <1>12, SendSet
  <1>14. ConvInv' /\ ListInv'
    <2>1. \A i \in Message :
            /\ Vers(conv'.items, i) = Vers(conv.items, i)
            /\ Once(conv.items, i) => Once(conv'.items, i)
      BY <1>1, <1>8, <1>13
    <2>2. QED
      BY <1>4, <1>13, <2>1, SameShown
  <1>15. QED
    BY <1>13, <1>14 DEF ChatInv

\* A failed send loses its entry.
LEMMA DismissKeeps ==
    ASSUME ClientAssumption, ChatInv, NEW s \in Temp, Dismiss(s)
    PROVE  ChatInv'
  <1>1. PICK items : items = conv.items
    OBVIOUS
  <1>2. PICK new : new = Without(items, Waiting(items, s))
    OBVIOUS
  <1>3. /\ UNCHANGED serverVars /\ events' = events /\ replies' = replies /\ fetch' = fetch
        /\ heard' = heard /\ floor' = floor /\ unsure' = unsure /\ conv.pc # "absent"
        /\ conv' = [conv EXCEPT !.items = new] /\ send' = send
    BY <1>1, <1>2 DEF Dismiss
  <1>4. items \in Seq(Item)
    BY <1>1, <1>3 DEF ChatInv, ConvInv, Absent, LoadingConv, LoadedConv
  <1>5. /\ new \in Seq(Item)
        /\ \A i \in Message : Vers(new, i) = Vers(items, i) /\ (Once(items, i) => Once(new, i))
        /\ \A t \in Temp :
             /\ Fates(new, t) = IF t = s THEN {} ELSE Fates(items, t)
             /\ Single(items, t) => Single(new, t)
    BY <1>2, <1>4, WithoutSend
  <1>6. \A t \in Temp : Single(new, t)
    BY <1>1, <1>3, <1>5 DEF ChatInv, SendsInv
  <1>7. Fates(new, s) = {} /\ \A t \in Temp \ {s} : Fates(new, t) \subseteq Fates(conv.items, t)
    BY <1>1, <1>5
  <1>8. PICK state \in Unsent : state = [pc |-> "over"]
    BY DEF Unsent
  <1>9. /\ RowsInv' /\ NoticesInv' /\ FetchInv' /\ HeardInv' /\ SendsInv'
        /\ conv' \in LoadingConv \cup LoadedConv /\ conv'.pc = conv.pc /\ conv'.items = new
    <2>1. Fates(new, s) \subseteq
            CASE send'[s].pc = "unsent" -> {} [] send'[s].pc = "over" -> {TRUE} [] OTHER -> {FALSE}
      BY <1>7
    <2>2. QED
      BY <1>3, <1>5, <1>6, <1>7, <1>8, <2>1, SendSet
  <1>10. ConvInv' /\ ListInv'
    <2>1. \A i \in Message :
            /\ Vers(conv'.items, i) = Vers(conv.items, i)
            /\ Once(conv.items, i) => Once(conv'.items, i)
      BY <1>1, <1>5, <1>9
    <2>2. QED
      BY <1>3, <1>9, <2>1, SameShown
  <1>11. QED
    BY <1>9, <1>10 DEF ChatInv

\* What the answer of a send, or its failure, does while there is no list.
LEMMA OverWithoutList ==
    ASSUME ClientAssumption,
           ChatInv, UNCHANGED serverVars, events' = events, replies' = replies, fetch' = fetch,
           heard' = heard, floor' = floor, conv.pc = "absent", conv' = conv, unsure' \subseteq unsure,
           NEW s \in Temp, NEW state \in Unsent, send' = [send EXCEPT ![s] = state]
    PROVE  ChatInv'
  <1>1. RowsInv' /\ NoticesInv' /\ FetchInv' /\ HeardInv'
    BY QuietKeeps
  <1>2. Clock' = Clock /\ \A i, v : Creates(i, v)' <=> Creates(i, v)
    BY Still
  <1>3. ConvInv'
    BY <1>2 DEF ChatInv, ConvInv, Message, LoadingConv, LoadedConv, Item
  <1>4. ListInv'
    BY DEF ListInv
  <1>5. SendsInv'
    <2>1. send \in [Temp -> Unsent \cup StoredSend]
      BY DEF ChatInv, SendsInv
    <2>2. /\ send' \in [Temp -> Unsent \cup StoredSend]
          /\ \A t \in Temp : send'[t] = send[t] \/ send'[t].pc # "stored"
      BY <2>1 DEF Unsent
    <2>3. ASSUME NEW t \in Temp  PROVE (send[t].pc = "stored" => Creates(send[t].id, send[t].ver))'
      <3>1. PICK i, v : i = send'[t].id /\ v = send'[t].ver
        OBVIOUS
      <3>2. send'[t].pc = "stored" => Creates(i, v)'
        BY <1>2, <2>2, <3>1 DEF ChatInv, SendsInv
      <3>3. QED
        BY <3>1, <3>2
    <2>4. QED
      BY <2>2, <2>3 DEF SendsInv, StoredSend, Message
  <1>6. QED
    BY <1>1, <1>3, <1>4, <1>5 DEF ChatInv

\* A send fails, and so does its entry.
LEMMA SendFailsKeeps ==
    ASSUME ClientAssumption, ChatInv, NEW s \in Temp, SendFails(s)
    PROVE  ChatInv'
  <1>1. PICK items, gone : items = conv.items /\ gone = [Optimistic(s) EXCEPT !.failed = TRUE]
    OBVIOUS
  <1>2. PICK new : new = Substitute(items, Waiting(items, s), gone)
    OBVIOUS
  <1>3. PICK state : state = [pc |-> "over"]
    OBVIOUS
  <1>4. /\ UNCHANGED serverVars /\ events' = events /\ replies' = replies /\ fetch' = fetch
        /\ heard' = heard /\ floor' = floor /\ unsure' = unsure
        /\ conv' = (IF conv.pc = "absent" THEN conv ELSE [conv EXCEPT !.items = new])
        /\ send' = [send EXCEPT ![s] = state]
        /\ send[s].pc \in {"posting", "stored"}
    BY <1>1, <1>2, <1>3 DEF SendFails
  <1>5. state \in Unsent /\ send'[s] = state /\ state.pc = "over"
    BY <1>3, <1>4 DEF Unsent, ChatInv, SendsInv
  <1>6. CASE conv.pc = "absent"
    BY <1>4, <1>5, <1>6, OverWithoutList
  <1>7. CASE conv.pc # "absent"
    <2>1. items \in Seq(Item)
      BY <1>1, <1>7 DEF ChatInv, ConvInv, Absent, LoadingConv, LoadedConv
    <2>2. Failing(items, s, new)
      <3>1. gone \in [id : {0}, ver : {0}, temp : {s}, failed : {TRUE}]
        BY <1>1 DEF Optimistic
      <3>2. QED
        BY <1>2, <2>1, <3>1, SubstituteFailed
    <2>3. /\ new \in Seq(Item)
          /\ \A i \in Message : Vers(new, i) = Vers(items, i) /\ (Once(items, i) => Once(new, i))
          /\ \A t \in Temp : t # s => Fates(new, t) = Fates(items, t)
      BY <2>2 DEF Failing
    <2>4. \A t \in Temp : Single(new, t)
      BY <1>1, <1>7, <2>2 DEF ChatInv, SendsInv, Failing
    <2>5. Fates(new, s) \subseteq {TRUE}
      BY <2>2 DEF Failing
    <2>6. Fates(new, s) \subseteq
            CASE send'[s].pc = "unsent" -> {} [] send'[s].pc = "over" -> {TRUE} [] OTHER -> {FALSE}
      BY <1>5, <2>5
    <2>7. \A t \in Temp \ {s} : Fates(new, t) \subseteq Fates(conv.items, t)
      BY <1>1, <2>3
    <2>8. /\ RowsInv' /\ NoticesInv' /\ FetchInv' /\ HeardInv' /\ SendsInv'
          /\ conv' \in LoadingConv \cup LoadedConv /\ conv'.pc = conv.pc /\ conv'.items = new
      <3>1. conv' = [conv EXCEPT !.items = new]
        BY <1>4, <1>7
      <3>2. QED
        BY <1>4, <1>5, <1>7, <2>3, <2>4, <2>6, <2>7, <3>1, SendSet
    <2>9. ConvInv' /\ ListInv'
      <3>1. \A i \in Message :
              /\ Vers(conv'.items, i) = Vers(conv.items, i)
              /\ Once(conv.items, i) => Once(conv'.items, i)
        BY <1>1, <2>3, <2>8
      <3>2. QED
        BY <1>4, <1>7, <2>8, <3>1, SameShown
    <2>10. QED
      BY <2>8, <2>9 DEF ChatInv
  <1>8. QED
    BY <1>6, <1>7

\* A list in which a send has given way to its message, if it is not shown yet.
Answered(items, s, i, v, new) ==
    /\ new \in Seq(Item)
    /\ \A j \in Message :
         /\ Vers(items, j) \subseteq Vers(new, j)
         /\ Vers(new, j) = Vers(items, j) \/ (j = i /\ Vers(new, j) \subseteq {v})
         /\ Once(items, j) => Once(new, j)
    /\ \A t \in Temp :
         /\ Fates(new, t) \subseteq Fates(items, t)
         /\ Single(items, t) => Single(new, t)
    /\ Fates(new, s) = {}

\* An answered send gives way to its message, or goes if that is shown.
LEMMA ResolvedShows ==
    ASSUME ClientAssumption, NEW items \in Seq(Item), NEW s \in Temp, Single(items, s),
           NEW i \in Message, NEW v \in 1 .. MaxWrites,
           NEW new, new = Resolved(items, s, i, v)
    PROVE  Answered(items, s, i, v, new)
  <1>1. CASE i \in Ids(items)
    <2>1. new = Without(items, Waiting(items, s))
      BY <1>1 DEF Resolved
    <2>2. /\ new \in Seq(Item)
          /\ \A j \in Message : Vers(new, j) = Vers(items, j) /\ (Once(items, j) => Once(new, j))
          /\ \A t \in Temp :
               /\ Fates(new, t) = IF t = s THEN {} ELSE Fates(items, t)
               /\ Single(items, t) => Single(new, t)
      BY <2>1, WithoutSend
    <2>3. Fates(new, s) = {} /\ \A t \in Temp : Fates(new, t) \subseteq Fates(items, t)
      BY <2>2
    <2>4. \A j \in Message :
            /\ Vers(items, j) \subseteq Vers(new, j)
            /\ Vers(new, j) = Vers(items, j) \/ (j = i /\ Vers(new, j) \subseteq {v})
            /\ Once(items, j) => Once(new, j)
      <3>1. ASSUME NEW j \in Message
            PROVE  /\ Vers(items, j) \subseteq Vers(new, j)
                   /\ Vers(new, j) = Vers(items, j) \/ (j = i /\ Vers(new, j) \subseteq {v})
                   /\ Once(items, j) => Once(new, j)
        <4>1. Vers(new, j) = Vers(items, j) /\ (Once(items, j) => Once(new, j))
          BY <2>2
        <4>2. Vers(new, j) = Vers(items, j)
          BY <4>1
        <4>3. Vers(items, j) \subseteq Vers(new, j)
          BY <4>2
        <4>4. Once(items, j) => Once(new, j)
          BY <4>1
        <4>5. QED
          BY <4>2, <4>3, <4>4
      <3>2. QED
        BY <3>1
    <2>5. \A t \in Temp : Single(items, t) => Single(new, t)
      BY <2>2
    <2>6. QED
      BY <2>2, <2>3, <2>4, <2>5 DEF Answered
  <1>2. CASE i \notin Ids(items)
    <2>1. PICK Q : Q = Waiting(items, s)
      OBVIOUS
    <2>2. new = Substitute(items, Q, Entry(i, v)) /\ Q \in SUBSET (DOMAIN items)
      BY <1>2, <2>1 DEF Resolved, Waiting
    <2>3. Vers(items, i) = {}
      BY <1>2, ShowsIs
    <2>4. \A k \in Q : items[k].id = 0
      <3>1. ASSUME NEW k \in Q  PROVE items[k].id = 0
        <4>1. items[k] \in Item /\ items[k].temp = s /\ s # Other
          BY <2>1, ItemIs DEF Waiting
        <4>2. QED
          BY <4>1, ItemIs
      <3>2. QED
        BY <3>1
    <2>5. \A k, l \in Q : k = l
      BY <2>1 DEF Single
    <2>6. /\ new \in Seq(Item)
          /\ \A j \in Message :
               /\ Vers(new, j) = IF j = i /\ Q # {} THEN Vers(items, j) \cup {v} ELSE Vers(items, j)
               /\ Once(items, j) /\ (j = i => Vers(items, j) = {}) => Once(new, j)
          /\ \A t \in Temp :
               /\ Fates(new, t) \subseteq Fates(items, t)
               /\ Q = Waiting(items, t) => Fates(new, t) = {}
               /\ Single(items, t) => Single(new, t)
      BY <2>2, <2>4, <2>5, SubstituteWaiting
    <2>7. \A j \in Message :
            /\ Vers(items, j) \subseteq Vers(new, j)
            /\ Vers(new, j) = Vers(items, j) \/ (j = i /\ Vers(new, j) \subseteq {v})
            /\ Once(items, j) => Once(new, j)
      <3>1. ASSUME NEW j \in Message, j # i
            PROVE  Vers(new, j) = Vers(items, j) /\ (Once(items, j) => Once(new, j))
        BY <2>6, <3>1
      <3>2. Vers(new, i) \subseteq {v} /\ (Once(items, i) => Once(new, i))
        BY <2>3, <2>6
      <3>3. ASSUME NEW j \in Message
            PROVE  /\ Vers(items, j) \subseteq Vers(new, j)
                   /\ Vers(new, j) = Vers(items, j) \/ (j = i /\ Vers(new, j) \subseteq {v})
                   /\ Once(items, j) => Once(new, j)
        <4>1. CASE j = i
          BY <2>3, <3>2, <4>1
        <4>2. CASE j # i
          <5>1. Vers(new, j) = Vers(items, j) /\ (Once(items, j) => Once(new, j))
            BY <3>1, <4>2
          <5>2. Vers(new, j) = Vers(items, j)
            BY <5>1
          <5>3. Vers(items, j) \subseteq Vers(new, j)
            BY <5>2
          <5>4. Once(items, j) => Once(new, j)
            BY <5>1
          <5>5. QED
            BY <5>2, <5>3, <5>4
        <4>3. QED
          BY <4>1, <4>2
      <3>4. QED
        BY <3>3
    <2>8. Fates(new, s) = {}
      BY <2>1, <2>6
    <2>9. QED
      BY <2>6, <2>7, <2>8 DEF Answered
  <1>3. QED
    BY <1>1, <1>2

\* The answer of a send: its message is in doubt or as right as its newer
\* writes to come; the others are as they were.
LEMMA AnswerKeeps ==
    ASSUME ClientAssumption, ChatInv, NEW s \in Temp, Answer(s)
    PROVE  ChatInv'
  <1>1. PICK items, i, v : items = conv.items /\ i = send[s].id /\ v = send[s].ver
    OBVIOUS
  <1>2. PICK new : new = Resolved(items, s, i, v)
    OBVIOUS
  <1>3. PICK state : state = [pc |-> "over"]
    OBVIOUS
  <1>4. /\ UNCHANGED serverVars /\ events' = events /\ replies' = replies /\ fetch' = fetch
        /\ heard' = heard /\ floor' = floor
        /\ unsure' = (IF conv.pc = "loaded" THEN unsure \cup Overtaken(i, v, events) ELSE {})
        /\ conv' = (IF conv.pc = "absent" THEN conv ELSE [conv EXCEPT !.items = new])
        /\ send' = [send EXCEPT ![s] = state] /\ send[s].pc = "stored"
    BY <1>1, <1>2, <1>3 DEF Answer, Doubt
  <1>5. state \in Unsent /\ send'[s] = state /\ state.pc = "over"
    BY <1>3, <1>4 DEF Unsent, ChatInv, SendsInv
  <1>6. Creates(i, v) /\ i \in Message /\ v \in 1 .. MaxWrites
    BY <1>1, <1>4 DEF ChatInv, SendsInv, Unsent, StoredSend
  <1>7. CASE conv.pc = "absent"
    BY <1>4, <1>5, <1>7, OverWithoutList
  <1>8. CASE conv.pc # "absent"
    <2>1. items \in Seq(Item) /\ Single(items, s)
      <3>1. items \in Seq(Item)
        BY <1>1, <1>8 DEF ChatInv, ConvInv, Absent, LoadingConv, LoadedConv
      <3>2. Single(items, s)
        BY <1>1, <1>8 DEF ChatInv, SendsInv
      <3>3. QED
        BY <3>1, <3>2
    <2>2. Answered(items, s, i, v, new)
      BY <1>2, <1>6, <2>1, ResolvedShows
    <2>3. /\ new \in Seq(Item) /\ Fates(new, s) = {}
          /\ \A t \in Temp \ {s} : Fates(new, t) \subseteq Fates(items, t)
          /\ \A t \in Temp : Single(items, t) => Single(new, t)
      BY <2>2 DEF Answered
    <2>4. \A t \in Temp : Single(new, t)
      BY <1>1, <1>8, <2>3 DEF ChatInv, SendsInv
    <2>5. Fates(new, s) \subseteq
            CASE send'[s].pc = "unsent" -> {} [] send'[s].pc = "over" -> {TRUE} [] OTHER -> {FALSE}
      BY <2>3
    <2>6. conv' = [conv EXCEPT !.items = new] /\ \A t \in Temp \ {s} : Fates(new, t) \subseteq Fates(conv.items, t)
      BY <1>1, <1>4, <1>8, <2>3
    <2>7. /\ RowsInv' /\ NoticesInv' /\ FetchInv' /\ HeardInv' /\ SendsInv'
          /\ conv' \in LoadingConv \cup LoadedConv /\ conv'.pc = conv.pc /\ conv'.items = new
      BY <1>4, <1>5, <1>8, <2>3, <2>4, <2>5, <2>6, SendSet
    <2>8. /\ db' = db /\ about' = about /\ Clock' = Clock /\ \A j : WritesOf(j)' = WritesOf(j)
          /\ \A w : First(w)' <=> First(w)
      BY <1>4, Still DEF serverVars
    <2>9. v \in WritesOf(i) /\ v \in 1 .. Clock /\ Clock \in Nat /\ (Last(v) => db[i] = v)
      BY <1>6 DEF Creates, WritesOf, ChatInv, RowsInv, Clock
    <2>10. ConvInv'
      <3>1. ASSUME NEW j \in Message  PROVE Vers(new, j) \subseteq WritesOf(j)
        <4>1. Vers(items, j) \subseteq WritesOf(j)
          BY <1>1, <1>8 DEF ChatInv, ConvInv
        <4>2. Vers(new, j) = Vers(items, j) \/ (j = i /\ Vers(new, j) \subseteq {v})
          BY <2>2 DEF Answered
        <4>3. QED
          BY <2>9, <4>1, <4>2
      <3>2. unsure' \subseteq 1 .. Clock
        <4>1. ASSUME NEW w \in Overtaken(i, v, events)  PROVE w \in 1 .. Clock
          BY <2>9, <4>1 DEF Overtaken
        <4>2. unsure \subseteq 1 .. Clock
          BY DEF ChatInv, ConvInv
        <4>3. QED
          BY <1>4, <4>1, <4>2
      <3>3. (conv.pc # "absent" => \A j \in Message : Vers(conv.items, j) \subseteq WritesOf(j))'
        BY <2>7, <2>8, <3>1 DEF Message
      <3>4. floor' \in Message
        BY <1>4 DEF ChatInv, ConvInv
      <3>5. QED
        BY <2>7, <2>8, <3>2, <3>3, <3>4 DEF ConvInv, Message, LoadingConv, LoadedConv, Item
    <2>11. ListInv'
      <3>1. ASSUME conv.pc = "loaded", NEW j \in Message, WritesOf(j) \cap unsure' = {}
            PROVE  /\ Once(new, j)
                   /\ Coming(j) = {} => Vers(new, j) \subseteq {db[j]}
                   /\ floor <= j /\ db[j] > 0 /\ (\A w \in Coming(j) : ~First(w)) => Vers(new, j) # {}
        <4>1. unsure' = unsure \cup Overtaken(i, v, events)
          BY <1>4, <3>1
        <4>2. Right(items, j, floor)
          BY <1>1, <3>1, <4>1 DEF ChatInv, ListInv
        <4>3. /\ Vers(items, j) \subseteq Vers(new, j)
              /\ Vers(new, j) = Vers(items, j) \/ (j = i /\ Vers(new, j) \subseteq {v})
              /\ Once(items, j) => Once(new, j)
          BY <2>2 DEF Answered
        <4>4. ASSUME Coming(j) = {}, j = i  PROVE db[j] = v
          <5>1. ASSUME NEW w \in 1 .. Clock, v < w, about[w] = i  PROVE FALSE
            <6>1. w \in WritesOf(j) /\ w \notin Overtaken(i, v, events)
              BY <3>1, <4>1, <4>4, <5>1 DEF WritesOf
            <6>2. w \in v + 1 .. Clock
              BY <2>9, <5>1
            <6>3. w \in Versions(events)
              BY <5>1, <6>1, <6>2 DEF Overtaken
            <6>4. QED
              BY <4>4, <6>1, <6>3 DEF Coming
          <5>2. about[v] = i
            BY <2>9 DEF WritesOf
          <5>3. QED
            BY <2>9, <4>4, <5>1, <5>2 DEF Last
        <4>5. Coming(j) = {} => Vers(new, j) \subseteq {db[j]}
          BY <4>2, <4>3, <4>4 DEF Right
        <4>6. QED
          BY <4>2, <4>3, <4>5 DEF Right
      <3>2. ASSUME conv.pc = "loaded", NEW j \in Message, WritesOf(j)' \cap unsure' = {}
            PROVE  Right(conv.items, j, floor)'
        <4>1. Coming(j)' = Coming(j)
          BY <1>4, <2>8 DEF Coming, Versions
        <4>2. WritesOf(j) \cap unsure' = {}
          BY <2>8, <3>2
        <4>3. /\ Once(new, j)
              /\ Coming(j) = {} => Vers(new, j) \subseteq {db[j]}
              /\ floor <= j /\ db[j] > 0 /\ (\A w \in Coming(j) : ~First(w)) => Vers(new, j) # {}
          BY <3>1, <3>2, <4>2
        <4>4. QED
          BY <1>4, <2>7, <2>8, <4>1, <4>3 DEF Right
      <3>3. QED
        BY <2>7, <3>2 DEF ListInv, Message
    <2>12. QED
      BY <2>7, <2>10, <2>11 DEF ChatInv
  <1>9. QED
    BY <1>7, <1>8

-----------------------------------------------------------------------------
(* The invariant, and what follows from it.                                *)

\* At first there is nothing.
LEMMA ChatStarts ==
    ASSUME ClientAssumption, Init
    PROVE  ChatInv
  <1>1. /\ db = [i \in Message |-> 0] /\ sender = [i \in Message |-> Other]
        /\ about = <<>> /\ events = {} /\ replies = {}
        /\ conv = Absent /\ fetch = [k \in Kind |-> Idle]
        /\ send = [t \in Temp |-> [pc |-> "unsent"]]
        /\ floor = 1 /\ heard = {} /\ unsure = {}
    BY DEF Init
  <1>2. Clock = 0 /\ \A i : WritesOf(i) = {}
    BY <1>1 DEF Clock, WritesOf
  <1>3. Born = 0
    <2>1. {i \in Message : \E v \in 1 .. Clock : about[v] = i} = {}
      BY <1>2
    <2>2. QED
      BY <2>1, FS_EmptySet DEF Born
  <1>4. Message = 1 .. MaxMessages /\ MaxMessages \in Nat \ {0} /\ MaxWrites \in Nat
    BY DEF Message, ClientAssumption
  <1>5. RowsInv
    BY <1>1, <1>2, <1>3, <1>4 DEF RowsInv
  <1>6. NoticesInv
    BY <1>1 DEF NoticesInv
  <1>7. FetchInv
    BY <1>1 DEF FetchInv, Idle
  <1>8. ConvInv
    BY <1>1, <1>4 DEF ConvInv, Absent
  <1>9. HeardInv
    BY <1>1 DEF HeardInv, Absent
  <1>10. SendsInv
    BY <1>1 DEF SendsInv, Absent, Unsent
  <1>11. ListInv
    BY <1>1 DEF ListInv, Absent
  <1>12. QED
    BY <1>5, <1>6, <1>7, <1>8, <1>9, <1>10, <1>11 DEF ChatInv

\* Every step keeps the invariant.
LEMMA ChatSteps ==
    ASSUME ClientAssumption, ChatInv, Next
    PROVE  ChatInv'
  <1>1. CASE Create
    BY <1>1, CreateKeeps
  <1>2. ASSUME NEW i \in Message, NEW kind \in {"update", "delete"}, NEW own \in BOOLEAN, Change(i, kind, own)
        PROVE  ChatInv'
    BY <1>2, ChangeKeeps
  <1>3. ASSUME NEW t \in Temp, Send(t) \/ Store(t) \/ Answer(t) \/ SendFails(t) \/ Dismiss(t)
        PROVE  ChatInv'
    BY <1>3, SendKeeps, StoreKeeps, AnswerKeeps, SendFailsKeeps, DismissKeeps
  <1>4. ASSUME NEW k \in Kind, Read(k) \/ FetchFails(k)
        PROVE  ChatInv'
    BY <1>4, ReadKeeps, FetchFailsKeeps
  <1>5. ASSUME NEW e \in events, Dispatch(e) \/ Lose(e)
        PROVE  ChatInv'
    BY <1>5, DispatchKeeps, LoseKeeps
  <1>6. ASSUME NEW r \in replies, Reply(r)
        PROVE  ChatInv'
    BY <1>6, ReplyKeeps
  <1>7. CASE Load \/ LoadArrives \/ LoadOlder \/ OlderArrives \/ ResyncArrives \/ Reconnect
    BY <1>7, LoadKeeps, LoadArrivesKeeps, LoadOlderKeeps, OlderArrivesKeeps, ResyncArrivesKeeps,
       ReconnectKeeps
  <1>8. QED
    BY <1>1, <1>2, <1>3, <1>4, <1>5, <1>6, <1>7 DEF Next

\* A step of something else.
LEMMA ChatStands ==
    ASSUME ClientAssumption, ChatInv, UNCHANGED vars
    PROVE  ChatInv'
  <1>1. /\ UNCHANGED serverVars /\ events' = events /\ replies' = replies /\ fetch' = fetch
        /\ send' = send /\ heard' = heard /\ conv' = conv /\ floor' = floor /\ unsure' = unsure
    BY DEF vars, serverVars
  <1>2. RowsInv' /\ NoticesInv' /\ FetchInv' /\ SendsInv'
    BY <1>1, QuietKeeps
  <1>3. HeardInv'
    <2>1. conv.pc = "loading" => fetch'["load"].pc # "idle"
      BY <1>1 DEF ChatInv, HeardInv
    <2>2. QED
      BY <1>1, <2>1, QuietKeeps
  <1>4. ConvInv' /\ ListInv'
    BY <1>1, ListKept
  <1>5. QED
    BY <1>2, <1>3, <1>4 DEF ChatInv

\* The invariant is stronger than the types.
LEMMA ChatTypes ==
    ASSUME ClientAssumption, ChatInv
    PROVE  TypeOK
  <1>1. /\ db \in [Message -> 0 .. MaxWrites] /\ sender \in [Message -> Temp \cup {Other}]
        /\ Clock <= MaxWrites /\ about \in Seq(Message)
    BY DEF ChatInv, RowsInv
  <1>2. \A v \in 1 .. Clock : about[v] \in Message
    BY <1>1 DEF Clock
  <1>3. events \subseteq Notice /\ replies \subseteq Notice
    BY DEF ChatInv, NoticesInv, Told
  <1>4. conv.pc # "absent" => \A k \in DOMAIN conv.items : conv.items[k] \in Item
    <2>1. SUFFICES ASSUME conv.pc # "absent"
                   PROVE  \A k \in DOMAIN conv.items : conv.items[k] \in Item
      OBVIOUS
    <2>2. PICK items : items = conv.items
      OBVIOUS
    <2>3. items \in Seq(Item)
      BY <2>1, <2>2 DEF ChatInv, ConvInv, Absent, LoadingConv, LoadedConv
    <2>4. \A k \in DOMAIN items : items[k] \in Item
      BY <2>3
    <2>5. QED
      BY <2>2, <2>4
  <1>5. \A k \in Kind : fetch[k].pc \in {"idle", "asked", "read"}
    BY DEF ChatInv, FetchInv, Idle, AskedFetch, ReadFetch
  <1>6. \A k \in Kind : fetch[k].pc = "read" => Len(fetch[k].page) <= PageSize
    BY DEF ChatInv, FetchInv, PageOK
  <1>7. conv.pc = "loading" => fetch["load"].pc # "idle"
    BY DEF ChatInv, HeardInv
  <1>8. \A t \in Temp : send[t].pc \in {"unsent", "posting", "stored", "over"}
    BY DEF ChatInv, SendsInv, Unsent, StoredSend
  <1>9. floor \in 1 .. MaxMessages /\ heard \cup unsure \subseteq 1 .. Clock
    BY DEF ChatInv, ConvInv, HeardInv, Message
  <1>10. QED
    BY <1>1, <1>2, <1>3, <1>4, <1>5, <1>6, <1>7, <1>8, <1>9 DEF TypeOK

\* A message without an event to come, and not in doubt, is shown as it is stored.
LEMMA ChatListRight ==
    ASSUME ClientAssumption, ChatInv
    PROVE  ListIsRight
  <1>1. SUFFICES ASSUME conv.pc = "loaded", NEW i \in Message, floor <= i, ~Disturbed(i)
                 PROVE  IF i \in Stored
                        THEN \E k \in DOMAIN conv.items : Showing(i) = {k} /\ conv.items[k].ver = db[i]
                        ELSE Showing(i) = {}
    BY DEF ListIsRight
  <1>2. WritesOf(i) \cap unsure = {} /\ Coming(i) = {}
    BY <1>1 DEF Disturbed, WritesOf, Coming
  <1>3. Right(conv.items, i, floor)
    BY <1>1, <1>2 DEF ChatInv, ListInv
  <1>4. /\ Once(conv.items, i) /\ Vers(conv.items, i) \subseteq {db[i]}
        /\ db[i] > 0 => Vers(conv.items, i) # {}
    BY <1>1, <1>2, <1>3 DEF Right
  <1>5. Showing(i) = Places(conv.items, i) /\ Places(conv.items, i) \subseteq DOMAIN conv.items
    BY DEF Showing, Places
  <1>6. CASE i \in Stored
    <2>1. Vers(conv.items, i) # {}
      BY <1>4, <1>6 DEF Stored
    <2>2. PICK k \in Places(conv.items, i) : conv.items[k].ver = db[i]
      BY <1>4, <2>1 DEF Vers
    <2>3. Places(conv.items, i) = {k}
      BY <1>4, <2>2 DEF Once
    <2>4. QED
      BY <1>5, <1>6, <2>2, <2>3
  <1>7. CASE i \notin Stored
    <2>1. db[i] = 0
      BY <1>7 DEF Stored, ChatInv, RowsInv
    <2>2. Vers(conv.items, i) \subseteq 1 .. Clock
      BY <1>1 DEF ChatInv, ConvInv, WritesOf
    <2>3. Vers(conv.items, i) = {}
      BY <1>4, <2>1, <2>2
    <2>4. QED
      BY <1>5, <1>7, <2>3 DEF Vers
  <1>8. QED
    BY <1>6, <1>7

\* The entry of a send that is over has failed, and there is one at most.
LEMMA ChatSendsSettle ==
    ASSUME ClientAssumption, ChatInv
    PROVE  SendsSettle
  <1>1. SUFFICES ASSUME conv.pc # "absent", NEW t \in Temp
                 PROVE  /\ Cardinality(Waiting(conv.items, t)) <= 1
                        /\ send[t].pc = "over" =>
                             \A k \in Waiting(conv.items, t) : conv.items[k].failed
    BY DEF SendsSettle
  <1>2. /\ Single(conv.items, t)
        /\ Fates(conv.items, t) \subseteq
             CASE send[t].pc = "unsent" -> {} [] send[t].pc = "over" -> {TRUE} [] OTHER -> {FALSE}
    BY <1>1 DEF ChatInv, SendsInv
  <1>3. Cardinality(Waiting(conv.items, t)) <= 1
    <2>1. CASE Waiting(conv.items, t) = {}
      BY <2>1, FS_EmptySet
    <2>2. CASE Waiting(conv.items, t) # {}
      <3>1. PICK k : k \in Waiting(conv.items, t)
        BY <2>2
      <3>2. Waiting(conv.items, t) = {k}
        BY <1>2, <3>1 DEF Single
      <3>3. Cardinality({k}) = 1
        BY FS_Singleton
      <3>4. QED
        BY <3>2, <3>3
    <2>3. QED
      BY <2>1, <2>2
  <1>4. ASSUME send[t].pc = "over", NEW k \in Waiting(conv.items, t)
        PROVE  conv.items[k].failed
    <2>1. Fates(conv.items, t) \subseteq {TRUE}
      BY <1>2, <1>4
    <2>2. conv.items[k].failed \in {TRUE}
      BY <1>4, <2>1 DEF Fates
    <2>3. QED
      BY <2>2
  <1>5. QED
    BY <1>3, <1>4

\* A step that does not fetch the list again takes no message away but one that is deleted.
LEMMA ChatShownStays ==
    ASSUME ClientAssumption,
           ChatInv, Next \/ UNCHANGED vars, conv.pc = "loaded", conv'.pc = "loaded", ~Refetched,
           NEW i \in Ids(conv.items) \ {0}, db'[i] > 0
    PROVE  i \in Ids(conv'.items)
  <1>1. PICK items : items = conv.items
    OBVIOUS
  <1>2. PICK c : c = conv'
    OBVIOUS
  <1>3. conv \in LoadedConv /\ items \in Seq(Item)
    BY <1>1 DEF ChatInv, ConvInv, Absent, LoadingConv, LoadedConv
  <1>4. i \in Message
    <2>1. PICK k \in DOMAIN items : items[k].id = i
      BY <1>1 DEF Ids
    <2>2. items[k] \in Item
      BY <1>3, <2>1
    <2>3. QED
      BY <2>1, <2>2, ItemIs
  <1>5. Vers(items, i) # {}
    BY <1>1, ShowsIs
  <1>6. SUFFICES Vers(c.items, i) # {}
    BY <1>2, ShowsIs
  <1>7. CASE c.items = items
    BY <1>5, <1>7
  <1>8. ASSUME NEW n, Told(n), c = Apply(conv, n), db' = db
        PROVE  Vers(c.items, i) # {}
    <2>1. Vers(c.items, i) = CASE i # n.id -> Vers(conv.items, i)
                               [] i = n.id /\ n.kind = "create" -> {n.ver}
                               [] i = n.id /\ n.kind = "update" ->
                                    IF Vers(conv.items, i) = {} THEN {} ELSE {n.ver}
                               [] i = n.id /\ n.kind = "delete" -> {}
      BY <1>4, <1>8, ApplyShows
    <2>2. i = n.id => n.kind # "delete"
      BY <1>4, <1>8 DEF Told, ChatInv, RowsInv
    <2>3. n.kind \in {"create", "update", "delete"}
      BY <1>8 DEF Told, Notice
    <2>4. CASE i # n.id
      BY <1>1, <1>5, <2>1, <2>4
    <2>5. CASE i = n.id /\ n.kind = "create"
      BY <2>1, <2>5
    <2>6. CASE i = n.id /\ n.kind = "update"
      BY <1>1, <1>5, <2>1, <2>6
    <2>7. QED
      BY <2>2, <2>3, <2>4, <2>5, <2>6
  <1>9. CASE UNCHANGED vars
    BY <1>1, <1>2, <1>7, <1>9 DEF vars
  <1>10. CASE Create \/ (\E k \in Kind : Read(k)) \/ Reconnect \/ \E t \in Temp : Store(t)
    BY <1>1, <1>2, <1>7, <1>10 DEF Create, Read, Reconnect, Store, clientVars
  <1>11. ASSUME NEW j \in Message, NEW kind \in {"update", "delete"}, NEW own \in BOOLEAN, Change(j, kind, own)
         PROVE  Vers(c.items, i) # {}
    BY <1>1, <1>2, <1>7, <1>11 DEF Change, clientVars
  <1>12. ASSUME NEW t \in Temp, Send(t)
         PROVE  Vers(c.items, i) # {}
    <2>1. PICK new : new = Append(items, Optimistic(t))
      OBVIOUS
    <2>2. c = [conv EXCEPT !.items = new]
      BY <1>1, <1>2, <1>12, <2>1 DEF Send
    <2>3. c.items = new
      BY <1>3, <2>2 DEF LoadedConv
    <2>4. Fates(items, t) = {}
      BY <1>1, <1>12 DEF Send, ChatInv, SendsInv
    <2>5. Posted(items, t, Append(items, Optimistic(t)))
      BY <1>3, <2>4, AppendOptimistic
    <2>6. Posted(items, t, new)
      BY <2>1, <2>5
    <2>7. Vers(new, i) = Vers(items, i)
      BY <1>4, <2>6 DEF Posted
    <2>8. QED
      BY <1>5, <2>3, <2>7
  <1>13. ASSUME NEW t \in Temp, Dismiss(t)
         PROVE  Vers(c.items, i) # {}
    <2>1. PICK new : new = Without(items, Waiting(items, t))
      OBVIOUS
    <2>2. c = [conv EXCEPT !.items = new]
      BY <1>1, <1>2, <1>13, <2>1 DEF Dismiss
    <2>3. c.items = new
      BY <1>3, <2>2 DEF LoadedConv
    <2>4. Vers(new, i) = Vers(items, i)
      BY <1>3, <1>4, <2>1, WithoutSend
    <2>5. QED
      BY <1>5, <2>3, <2>4
  <1>14. ASSUME NEW t \in Temp, SendFails(t)
         PROVE  Vers(c.items, i) # {}
    <2>1. PICK gone : gone = [Optimistic(t) EXCEPT !.failed = TRUE]
      OBVIOUS
    <2>2. PICK new : new = Substitute(items, Waiting(items, t), gone)
      OBVIOUS
    <2>3. c = [conv EXCEPT !.items = new]
      BY <1>1, <1>2, <1>14, <2>1, <2>2 DEF SendFails
    <2>4. c.items = new
      BY <1>3, <2>3 DEF LoadedConv
    <2>5. gone \in [id : {0}, ver : {0}, temp : {t}, failed : {TRUE}]
      BY <2>1 DEF Optimistic
    <2>6. Failing(items, t, new)
      BY <1>3, <2>2, <2>5, SubstituteFailed
    <2>7. Vers(new, i) = Vers(items, i)
      BY <1>4, <2>6 DEF Failing
    <2>8. QED
      BY <1>5, <2>4, <2>7
  <1>15. ASSUME NEW t \in Temp, Answer(t)
         PROVE  Vers(c.items, i) # {}
    <2>1. PICK j, v : j = send[t].id /\ v = send[t].ver
      OBVIOUS
    <2>2. PICK new : new = Resolved(items, t, j, v)
      OBVIOUS
    <2>3. c = [conv EXCEPT !.items = new]
      BY <1>1, <1>2, <1>15, <2>1, <2>2 DEF Answer
    <2>4. c.items = new
      BY <1>3, <2>3 DEF LoadedConv
    <2>5. j \in Message /\ v \in 1 .. MaxWrites
      BY <1>15, <2>1 DEF Answer, ChatInv, SendsInv, Unsent, StoredSend
    <2>6. Single(items, t)
      BY <1>1 DEF ChatInv, SendsInv
    <2>7. Answered(items, t, j, v, new)
      BY <1>3, <2>2, <2>5, <2>6, ResolvedShows
    <2>8. Vers(items, i) \subseteq Vers(new, i)
      BY <1>4, <2>7 DEF Answered
    <2>9. QED
      BY <1>5, <2>4, <2>8
  <1>16. ASSUME NEW k \in Kind, FetchFails(k)
         PROVE  Vers(c.items, i) # {}
    <2>1. CASE k = "load"
      BY <1>16, <2>1 DEF FetchFails, Absent
    <2>2. CASE k = "older"
      <3>1. c = [conv EXCEPT !.loadingOlder = FALSE]
        BY <1>2, <1>16, <2>2 DEF FetchFails
      <3>2. QED
        BY <1>1, <1>3, <1>7, <3>1 DEF LoadedConv
    <2>3. CASE k = "resync"
      BY <1>1, <1>2, <1>7, <1>16, <2>3 DEF FetchFails
    <2>4. QED
      BY <2>1, <2>2, <2>3 DEF Kind
  <1>17. ASSUME NEW e \in events, Dispatch(e) \/ Lose(e)
         PROVE  Vers(c.items, i) # {}
    <2>1. CASE Dispatch(e)
      BY <1>2, <1>8, <2>1 DEF Dispatch, serverVars, ChatInv, NoticesInv
    <2>2. CASE Lose(e)
      BY <1>1, <1>2, <1>7, <2>2 DEF Lose
    <2>3. QED
      BY <1>17, <2>1, <2>2
  <1>18. ASSUME NEW r \in replies, Reply(r)
         PROVE  Vers(c.items, i) # {}
    <2>1. CASE conv' = Apply(conv, r)
      BY <1>2, <1>8, <1>18, <2>1 DEF Reply, serverVars, ChatInv, NoticesInv
    <2>2. CASE conv' = conv
      BY <1>1, <1>2, <1>7, <2>2
    <2>3. QED
      BY <1>18, <2>1, <2>2 DEF Reply
  <1>19. CASE Load
    BY <1>19 DEF Load, Absent
  <1>20. CASE LoadOlder
    <2>1. c = [conv EXCEPT !.loadingOlder = TRUE]
      BY <1>2, <1>20 DEF LoadOlder
    <2>2. QED
      BY <1>1, <1>3, <1>7, <2>1 DEF LoadedConv
  <1>21. CASE OlderArrives
    <2>1. PICK f : f = fetch["older"]
      OBVIOUS
    <2>2. PICK p, more : p = f.page /\ more = Full(f.page)
      OBVIOUS
    <2>3. PICK new : new = Prepended(p, items)
      OBVIOUS
    <2>4. c = [conv EXCEPT !.items = new, !.hasMore = more, !.loadingOlder = FALSE]
      BY <1>1, <1>2, <1>21, <2>1, <2>2, <2>3 DEF OlderArrives
    <2>5. c.items = new
      BY <1>3, <2>4 DEF LoadedConv
    <2>6. p \in Seq(Item)
      BY <1>21, <2>1, <2>2 DEF OlderArrives, ChatInv, FetchInv, PageOK, Kind
    <2>7. Vers(new, i) = Vers(p, i) \cup Vers(items, i)
      BY <1>3, <1>4, <2>3, <2>6, JoinedShows
    <2>8. QED
      BY <1>5, <2>5, <2>7
  <1>22. CASE LoadArrives \/ ResyncArrives
    <2>1. fetch \in [Kind -> {Idle} \cup AskedFetch \cup ReadFetch]
      BY DEF ChatInv, FetchInv
    <2>2. \E k \in {"load", "resync"} : fetch[k].pc = "read" /\ fetch'[k] = Idle
      BY <1>22, <2>1 DEF LoadArrives, ResyncArrives, Kind
    <2>3. Refetched
      BY <2>2 DEF Refetched, Idle
    <2>4. QED
      BY <2>3
  <1>23. QED
    BY <1>9, <1>10, <1>11, <1>12, <1>13, <1>14, <1>15, <1>16, <1>17, <1>18, <1>19, <1>20, <1>21, <1>22
    DEF Next

\* Whatever order events, answers, pages and reconnects come in, pages are right
\* from their floor on, sends have one entry, and a list not in doubt shows what
\* the table holds (chatStore.js; message_handlers.go).
THEOREM ChatInvariant ==
    ASSUME ClientAssumption
    PROVE  Spec => []ChatInv
  <1>1. Init => ChatInv
    BY ChatStarts
  <1>2. ChatInv /\ [Next]_vars => ChatInv'
    BY ChatSteps, ChatStands
  <1>3. QED
    BY <1>1, <1>2, PTL DEF Spec

\* The types hold of every behaviour.
LEMMA ListTypes ==
    ASSUME ClientAssumption
    PROVE  Spec => []TypeOK
  <1>1. ChatInv => TypeOK
    BY ChatTypes
  <1>2. QED
    BY <1>1, ChatInvariant, PTL

\* The list agrees with the table on every message it accounts for, unless a
\* write about it is on its way, was lost or is in doubt (chatStore.js,
\* applyMessageCreate, loadMessages, loadOlder, resync).
THEOREM TheListIsRight ==
    ASSUME ClientAssumption
    PROVE  Spec => []ListIsRight
  <1>1. ChatInv => ListIsRight
    BY ChatListRight
  <1>2. QED
    BY <1>1, ChatInvariant, PTL

\* A send leaves one entry at most, and none that is pending once it is over,
\* whether its answer or its event comes first (chatStore.js, resolveOptimistic).
THEOREM EverySendSettles ==
    ASSUME ClientAssumption
    PROVE  Spec => []SendsSettle
  <1>1. ChatInv => SendsSettle
    BY ChatSendsSettle
  <1>2. QED
    BY <1>1, ChatInvariant, PTL

\* No answer, event or older page takes a message away that is not deleted
\* (chatStore.js, loadOlder, applyMessageCreate, resolveOptimistic).
THEOREM WhatIsShownStays ==
    ASSUME ClientAssumption
    PROVE  Spec => ShownStays
  <1>1. ChatInv /\ [Next]_vars =>
          [conv.pc = "loaded" /\ conv'.pc = "loaded" /\ ~Refetched =>
             \A i \in Ids(conv.items) \ {0} : db'[i] > 0 => i \in Ids(conv'.items)]_vars
    BY ChatShownStays
  <1>2. QED
    BY <1>1, ChatInvariant, PTL DEF Spec, ShownStays

=============================================================================
