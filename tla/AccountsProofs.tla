--------------------------- MODULE AccountsProofs ---------------------------
(***************************************************************************)
(* For any number of users, addresses, names and concurrent requests:      *)
(* accounts keep their address, and as long as no user's renames overlap   *)
(* they keep their name.  Both follow from who owns a reservation while a  *)
(* request relies on it: a request only ever deletes what is its own.      *)
(* And no reservation outlives what it is for, but for the crashes and the *)
(* overlaps that the code cannot repair.                                   *)
(*                                                                         *)
(* For any limit, window, delay, skew and number of requests: what the     *)
(* rate limiter promises (the last part of the module).                    *)
(***************************************************************************)
EXTENDS MCAdmission, FiniteSets, FiniteSetTheorems, TLAPS

Maps(table, k, v) == k \in DOMAIN table /\ table[k] = v

\* The stages of a registration that rely on each reservation.
HoldsEmail == {"emailed", "named", "undoEmail", "undoBoth"}
HoldsName == {"named", "undoBoth", "undoName"}

EmailsReserved ==
    \A u \in User : reg[u].pc \in HoldsEmail => Maps(byEmail, reg[u].email, u)

RowsExist == \A u \in User : reg[u] = Created => u \in DOMAIN users

RenamersExist == \A p \in Patch : patch[p] # Idle => reg[patch[p].user] = Created

EmailInv ==
    /\ TypeOK
    /\ EmailsReserved
    /\ RowsExist
    /\ RenamersExist
    /\ EmailsHeld

-----------------------------------------------------------------------------
(* Tables, registrations and renames.                                      *)

\* A table is a function whose keys and values come from the two sets.
LEMMA TableMember ==
    ASSUME NEW K, NEW V, NEW f
    PROVE  f \in Table(K, V) <=> DOMAIN f \subseteq K /\ f \in [DOMAIN f -> V]
  <1>1. ASSUME f \in Table(K, V)  PROVE  DOMAIN f \subseteq K /\ f \in [DOMAIN f -> V]
    <2>1. PICK D \in SUBSET K : f \in [D -> V]
      BY <1>1 DEF Table
    <2>2. QED
      BY <2>1
  <1>2. ASSUME DOMAIN f \subseteq K, f \in [DOMAIN f -> V]  PROVE  f \in Table(K, V)
    BY <1>2 DEF Table
  <1>3. QED
    BY <1>1, <1>2

\* Inserting a key and a value of the right kind gives a table.
LEMMA InsertTyped ==
    ASSUME NEW K, NEW V, NEW f, f \in Table(K, V), NEW k, k \in K, NEW v, v \in V
    PROVE  Insert(f, k, v) \in Table(K, V)
  <1> DEFINE g == Insert(f, k, v)
  <1>1. DOMAIN f \subseteq K /\ f \in [DOMAIN f -> V]
    BY TableMember
  <1>2. DOMAIN g = DOMAIN f \cup {k} /\ g = [x \in DOMAIN g |-> g[x]]
    BY DEF Insert
  <1>3. \A x \in DOMAIN g : g[x] = IF x = k THEN v ELSE f[x]
    BY DEF Insert
  <1>4. g \in [DOMAIN g -> V]
    BY <1>1, <1>2, <1>3
  <1>5. QED
    BY <1>1, <1>2, <1>4, TableMember

\* So does deleting one.
LEMMA DeleteTyped ==
    ASSUME NEW K, NEW V, NEW f, f \in Table(K, V), NEW k
    PROVE  Delete(f, k) \in Table(K, V)
  <1> DEFINE g == Delete(f, k)
  <1>1. DOMAIN f \subseteq K /\ f \in [DOMAIN f -> V]
    BY TableMember
  <1>2. g = [x \in DOMAIN f \ {k} |-> f[x]]
    BY DEF Delete, Restrict
  <1>3. g \in [DOMAIN g -> V] /\ DOMAIN g = DOMAIN f \ {k}
    BY <1>1, <1>2
  <1>4. QED
    BY <1>1, <1>3, TableMember

\* What an insert or a delete does to each table.
LEMMA EmailInserted ==
    ASSUME byEmail \in Table(Email, User), NEW k \in Email, NEW v \in User,
           byEmail' = Insert(byEmail, k, v)
    PROVE  /\ byEmail' \in Table(Email, User)
           /\ DOMAIN byEmail' = DOMAIN byEmail \cup {k}
           /\ byEmail'[k] = v
           /\ \A x \in DOMAIN byEmail : x # k => byEmail'[x] = byEmail[x]
  <1>1. byEmail' \in Table(Email, User)
    BY InsertTyped
  <1>2. /\ DOMAIN byEmail' = DOMAIN byEmail \cup {k}
        /\ byEmail'[k] = v
        /\ \A x \in DOMAIN byEmail : x # k => byEmail'[x] = byEmail[x]
    BY DEF Insert
  <1>3. QED
    BY <1>1, <1>2

LEMMA NameInserted ==
    ASSUME byName \in Table(Name, User), NEW k \in Name, NEW v \in User,
           byName' = Insert(byName, k, v)
    PROVE  /\ byName' \in Table(Name, User)
           /\ DOMAIN byName' = DOMAIN byName \cup {k}
           /\ byName'[k] = v
           /\ \A x \in DOMAIN byName : x # k => byName'[x] = byName[x]
  <1>1. byName' \in Table(Name, User)
    BY InsertTyped
  <1>2. /\ DOMAIN byName' = DOMAIN byName \cup {k}
        /\ byName'[k] = v
        /\ \A x \in DOMAIN byName : x # k => byName'[x] = byName[x]
    BY DEF Insert
  <1>3. QED
    BY <1>1, <1>2

LEMMA UserInserted ==
    ASSUME users \in Table(User, Row), NEW k \in User, NEW v \in Row,
           users' = Insert(users, k, v)
    PROVE  /\ users' \in Table(User, Row)
           /\ DOMAIN users' = DOMAIN users \cup {k}
           /\ users'[k] = v
           /\ \A x \in DOMAIN users : x # k => users'[x] = users[x]
  <1>1. users' \in Table(User, Row)
    BY InsertTyped
  <1>2. /\ DOMAIN users' = DOMAIN users \cup {k}
        /\ users'[k] = v
        /\ \A x \in DOMAIN users : x # k => users'[x] = users[x]
    BY DEF Insert
  <1>3. QED
    BY <1>1, <1>2

LEMMA EmailDeleted ==
    ASSUME byEmail \in Table(Email, User), NEW k, byEmail' = Delete(byEmail, k)
    PROVE  /\ byEmail' \in Table(Email, User)
           /\ DOMAIN byEmail' = DOMAIN byEmail \ {k}
           /\ \A x \in DOMAIN byEmail \ {k} : byEmail'[x] = byEmail[x]
  <1>1. byEmail' \in Table(Email, User)
    BY DeleteTyped
  <1>2. /\ DOMAIN byEmail' = DOMAIN byEmail \ {k}
        /\ \A x \in DOMAIN byEmail \ {k} : byEmail'[x] = byEmail[x]
    BY DEF Delete, Restrict
  <1>3. QED
    BY <1>1, <1>2

LEMMA NameDeleted ==
    ASSUME byName \in Table(Name, User), NEW k, byName' = Delete(byName, k)
    PROVE  /\ byName' \in Table(Name, User)
           /\ DOMAIN byName' = DOMAIN byName \ {k}
           /\ \A x \in DOMAIN byName \ {k} : byName'[x] = byName[x]
  <1>1. byName' \in Table(Name, User)
    BY DeleteTyped
  <1>2. /\ DOMAIN byName' = DOMAIN byName \ {k}
        /\ \A x \in DOMAIN byName \ {k} : byName'[x] = byName[x]
    BY DEF Delete, Restrict
  <1>3. QED
    BY <1>1, <1>2

\* A registration under way is a record with an address and a name.
LEMMA UnderWay ==
    ASSUME TypeOK, NEW u \in User, reg[u].pc \in HoldsEmail \cup HoldsName
    PROVE  /\ reg[u] \in Registering
           /\ reg[u].email \in Email /\ reg[u].name \in Name
  BY DEF TypeOK, HoldsEmail, HoldsName, Registering, Fresh, Created, Refused

\* Moving a registration on changes its stage and nothing else of it.
LEMMA GotoRegEffect ==
    ASSUME TypeOK, NEW u \in User, reg[u].pc \in HoldsEmail \cup HoldsName,
           NEW pc \in {"emailed", "named", "undoEmail", "undoBoth", "undoName"},
           GotoReg(u, pc)
    PROVE  /\ reg' \in [User -> Registering \cup {Fresh, Created, Refused}]
           /\ reg'[u].pc = pc
           /\ reg'[u].email = reg[u].email /\ reg'[u].name = reg[u].name
           /\ reg'[u] # Created /\ reg[u] # Created
           /\ \A v \in User \ {u} : reg'[v] = reg[v]
  <1>1. reg[u] \in Registering
    BY UnderWay
  <1>2. reg' = [reg EXCEPT ![u] = [reg[u] EXCEPT !.pc = pc]]
    BY DEF GotoReg
  <1>3. [reg[u] EXCEPT !.pc = pc] \in Registering
    BY <1>1 DEF Registering
  <1>4. /\ [reg[u] EXCEPT !.pc = pc].pc = pc
        /\ [reg[u] EXCEPT !.pc = pc].email = reg[u].email
        /\ [reg[u] EXCEPT !.pc = pc].name = reg[u].name
    BY <1>1 DEF Registering
  <1>5. reg \in [User -> Registering \cup {Fresh, Created, Refused}]
    BY DEF TypeOK
  <1>6. reg'[u] = [reg[u] EXCEPT !.pc = pc] /\ \A v \in User \ {u} : reg'[v] = reg[v]
    BY <1>2, <1>5
  <1>7. reg' \in [User -> Registering \cup {Fresh, Created, Refused}]
    BY <1>2, <1>3, <1>5
  <1>8. \A r \in Registering : r.pc # "created"
    BY DEF Registering
  <1>9. reg'[u] # Created /\ reg[u] # Created
    BY <1>1, <1>3, <1>6, <1>8 DEF Created
  <1>10. QED
    BY <1>4, <1>6, <1>7, <1>9

\* Ending a registration.
LEMMA EndEffect ==
    ASSUME TypeOK, NEW u \in User, NEW outcome \in {Created, Refused}, End(u, outcome)
    PROVE  /\ reg' \in [User -> Registering \cup {Fresh, Created, Refused}]
           /\ reg'[u] = outcome
           /\ reg'[u].pc \notin HoldsEmail \cup HoldsName
           /\ \A v \in User \ {u} : reg'[v] = reg[v]
  BY DEF TypeOK, End, HoldsEmail, HoldsName, Created, Refused

\* A rename under way.
LEMMA PatchUnderWay ==
    ASSUME TypeOK, NEW p \in Patch, patch[p] # Idle
    PROVE  /\ patch[p] \in Renaming
           /\ patch[p].pc \in {"reserving", "updating", "deleting"}
           /\ patch[p].user \in User /\ patch[p].old \in Name /\ patch[p].new \in Name
  BY DEF TypeOK, Renaming

\* A rename that has a stage is under way.
LEMMA UnderIsNotIdle ==
    ASSUME NEW p \in Patch, NEW pc \in {"reserving", "updating", "deleting"}, Under(p, pc)
    PROVE  patch[p] # Idle
  BY DEF Under, Idle

\* Moving a rename on changes its stage and nothing else of it.
LEMMA GotoPatchEffect ==
    ASSUME TypeOK, NEW p \in Patch, patch[p] # Idle,
           NEW pc \in {"reserving", "updating", "deleting"}, GotoPatch(p, pc)
    PROVE  /\ patch' \in [Patch -> Renaming \cup {Idle}]
           /\ patch'[p] # Idle
           /\ patch'[p].pc = pc
           /\ patch'[p].user = patch[p].user
           /\ patch'[p].old = patch[p].old /\ patch'[p].new = patch[p].new
           /\ \A q \in Patch \ {p} : patch'[q] = patch[q]
  <1>1. patch[p] \in Renaming
    BY PatchUnderWay
  <1>2. patch' = [patch EXCEPT ![p] = [patch[p] EXCEPT !.pc = pc]]
    BY DEF GotoPatch
  <1> DEFINE r == [patch[p] EXCEPT !.pc = pc]
  <1>3. r \in Renaming
    BY <1>1 DEF Renaming
  <1>4. /\ r.pc = pc /\ r.user = patch[p].user
        /\ r.old = patch[p].old /\ r.new = patch[p].new
    BY <1>1 DEF Renaming
  <1>5. patch \in [Patch -> Renaming \cup {Idle}]
    BY DEF TypeOK
  <1>6. patch'[p] = r /\ \A q \in Patch \ {p} : patch'[q] = patch[q]
    BY <1>2, <1>5
  <1>7. patch' \in [Patch -> Renaming \cup {Idle}]
    BY <1>2, <1>3, <1>5
  <1>8. r # Idle
    BY <1>4 DEF Idle
  <1>9. QED
    BY <1>4, <1>6, <1>7, <1>8

\* Returning from a rename.
LEMMA ReturnEffect ==
    ASSUME TypeOK, NEW p \in Patch, Return(p)
    PROVE  /\ patch' \in [Patch -> Renaming \cup {Idle}]
           /\ patch'[p] = Idle
           /\ \A q \in Patch \ {p} : patch'[q] = patch[q]
  BY DEF TypeOK, Return

-----------------------------------------------------------------------------
(* Accounts keep their address.                                            *)

\* The actions of Create, one for each statement.
LEMMA CreateKeepsEmailInv ==
    ASSUME EmailInv, NEW u \in User, Create(u)
    PROVE  EmailInv'
  <1> USE DEF Maps
  <1>1. TypeOK /\ EmailsReserved /\ RowsExist /\ RenamersExist /\ EmailsHeld
    BY DEF EmailInv
  <1>2. /\ byEmail \in Table(Email, User) /\ byName \in Table(Name, User)
        /\ users \in Table(User, Row)
        /\ patch \in [Patch -> Renaming \cup {Idle}]
        /\ leaked \in BOOLEAN /\ overlapped \in BOOLEAN
    BY <1>1 DEF TypeOK
  <1>3. Fresh.pc \notin HoldsEmail \cup HoldsName /\ Fresh # Created
    BY DEF Fresh, Created, HoldsEmail, HoldsName
  <1>4. \A p \in Patch : patch[p] # Idle => patch[p].user \in User
    BY <1>1, PatchUnderWay
  <1>5. ASSUME NEW e \in Email, NEW n \in Name, ReserveEmail(u, e, n)  PROVE EmailInv'
    <2>1. CASE e \in DOMAIN byEmail
      <3>1. End(u, Refused) /\ reg[u] = Fresh
            /\ UNCHANGED <<byEmail, byName, users, patch, leaked, overlapped>>
        BY <1>5, <2>1 DEF ReserveEmail
      <3>2. reg' \in [User -> Registering \cup {Fresh, Created, Refused}]
            /\ reg'[u].pc \notin HoldsEmail /\ reg'[u] # Created
            /\ \A v \in User \ {u} : reg'[v] = reg[v]
        BY <1>1, <3>1, EndEffect DEF Refused, Created
      <3>3. QED
        BY <1>1, <1>2, <1>3, <1>4, <3>1, <3>2
           DEF EmailInv, TypeOK, EmailsReserved, RowsExist, RenamersExist, EmailsHeld
    <2>2. CASE e \notin DOMAIN byEmail
      <3> DEFINE r == [pc |-> "emailed", email |-> e, name |-> n]
      <3>1. /\ byEmail' = Insert(byEmail, e, u) /\ reg[u] = Fresh
            /\ reg' = [reg EXCEPT ![u] = r]
            /\ UNCHANGED <<byName, users, patch, leaked, overlapped>>
        BY <1>5, <2>2 DEF ReserveEmail
      <3>2. byEmail' \in Table(Email, User) /\ DOMAIN byEmail' = DOMAIN byEmail \cup {e}
            /\ byEmail'[e] = u /\ \A x \in DOMAIN byEmail : byEmail'[x] = byEmail[x]
        BY <1>2, <2>2, <3>1, EmailInserted
      <3>3. r \in Registering /\ r # Created /\ r.email = e
        BY DEF Registering, Created
      <3>4. reg' \in [User -> Registering \cup {Fresh, Created, Refused}]
            /\ reg'[u] = r /\ \A v \in User \ {u} : reg'[v] = reg[v]
        BY <1>1, <3>1, <3>3 DEF TypeOK
      <3>5. TypeOK'
        BY <1>2, <3>1, <3>2, <3>4 DEF TypeOK
      <3>6. EmailsReserved' /\ EmailsHeld' /\ RowsExist'
        BY <1>1, <3>1, <3>2, <3>3, <3>4 DEF EmailsReserved, EmailsHeld, RowsExist
      <3>7. RenamersExist'
        BY <1>1, <1>3, <1>4, <3>1, <3>4 DEF RenamersExist
      <3>8. QED
        BY <3>5, <3>6, <3>7 DEF EmailInv
    <2>3. QED
      BY <2>1, <2>2
  <1>6. ASSUME NEW e \in Email, ReserveEmailFails(u, e)  PROVE EmailInv'
    <2>1. End(u, Refused) /\ reg[u] = Fresh /\ leaked' = TRUE
          /\ UNCHANGED <<byName, users, patch, overlapped>>
      BY <1>6 DEF ReserveEmailFails
    <2>2. reg' \in [User -> Registering \cup {Fresh, Created, Refused}]
          /\ reg'[u].pc \notin HoldsEmail /\ reg'[u] # Created
          /\ \A v \in User \ {u} : reg'[v] = reg[v]
      BY <1>1, <2>1, EndEffect DEF Refused, Created
    <2>3. /\ byEmail' \in Table(Email, User) /\ DOMAIN byEmail \subseteq DOMAIN byEmail'
          /\ \A x \in DOMAIN byEmail : byEmail'[x] = byEmail[x]
      <3>1. CASE UNCHANGED byEmail
        BY <1>2, <3>1
      <3>2. CASE e \notin DOMAIN byEmail /\ byEmail' = Insert(byEmail, e, u)
        BY <1>2, <3>2, EmailInserted
      <3>3. QED
        BY <1>6, <3>1, <3>2 DEF ReserveEmailFails
    <2>4. TypeOK'
      BY <1>2, <2>1, <2>2, <2>3 DEF TypeOK
    <2>5. EmailsReserved' /\ EmailsHeld' /\ RowsExist'
      BY <1>1, <2>1, <2>2, <2>3 DEF EmailsReserved, EmailsHeld, RowsExist
    <2>6. RenamersExist'
      BY <1>1, <1>3, <1>4, <2>1, <2>2 DEF RenamersExist
    <2>7. QED
      BY <2>4, <2>5, <2>6 DEF EmailInv
  <1>7. ASSUME ReserveName(u) \/ ReserveNameFails(u)  PROVE EmailInv'
    <2>1. reg[u].pc \in HoldsEmail /\ UNCHANGED <<byEmail, users, patch, overlapped>>
          /\ leaked' \in BOOLEAN
      BY <1>2, <1>7 DEF ReserveName, ReserveNameFails, HoldsEmail
    <2>2. PICK pc \in {"named", "undoEmail"} : GotoReg(u, pc)
      BY <1>7 DEF ReserveName, ReserveNameFails
    <2>3. reg[u].name \in Name
      BY <1>1, <2>1, UnderWay
    <2>4. byName' \in Table(Name, User)
      <3>1. byName' = byName \/ byName' = Insert(byName, reg[u].name, u)
        BY <1>7 DEF ReserveName, ReserveNameFails
      <3>2. QED
        BY <1>2, <2>3, <3>1, NameInserted
    <2>5. reg' \in [User -> Registering \cup {Fresh, Created, Refused}]
          /\ reg'[u].email = reg[u].email /\ reg'[u] # Created /\ reg[u] # Created
          /\ \A v \in User \ {u} : reg'[v] = reg[v]
      BY <1>1, <2>1, <2>2, GotoRegEffect
    <2>6. TypeOK'
      BY <1>2, <2>1, <2>4, <2>5 DEF TypeOK
    <2>7. EmailsReserved' /\ EmailsHeld' /\ RowsExist'
      BY <1>1, <2>1, <2>5 DEF EmailsReserved, EmailsHeld, RowsExist
    <2>8. RenamersExist'
      BY <1>1, <1>4, <2>1, <2>5 DEF RenamersExist
    <2>9. QED
      BY <2>6, <2>7, <2>8 DEF EmailInv
  <1>8. ASSUME InsertUser(u)  PROVE EmailInv'
    <2> DEFINE row == [email |-> reg[u].email, name |-> reg[u].name]
    <2>1. /\ reg[u].pc = "named" /\ users' = Insert(users, u, row) /\ End(u, Created)
          /\ UNCHANGED <<byEmail, byName, patch, leaked, overlapped>>
      BY <1>8 DEF InsertUser
    <2>2. reg[u].pc \in HoldsEmail
      BY <2>1 DEF HoldsEmail
    <2>3. row \in Row /\ row.email = reg[u].email
      BY <1>1, <2>2, UnderWay DEF Row
    <2>4. users' \in Table(User, Row) /\ DOMAIN users' = DOMAIN users \cup {u}
          /\ users'[u] = row /\ \A v \in DOMAIN users : v # u => users'[v] = users[v]
      BY <1>2, <2>1, <2>3, UserInserted
    <2>5. reg' \in [User -> Registering \cup {Fresh, Created, Refused}]
          /\ reg'[u] = Created /\ reg'[u].pc \notin HoldsEmail
          /\ \A v \in User \ {u} : reg'[v] = reg[v]
      BY <1>1, <2>1, EndEffect
    <2>6. TypeOK'
      BY <1>2, <2>1, <2>4, <2>5 DEF TypeOK
    <2>7. EmailsReserved' /\ RowsExist'
      BY <1>1, <2>1, <2>4, <2>5 DEF EmailsReserved, RowsExist
    <2>8. EmailsHeld'
      <3>1. reg[u].email \in DOMAIN byEmail /\ byEmail[reg[u].email] = u
        BY <1>1, <2>2 DEF EmailsReserved
      <3>2. \A v \in User \ {u} : reg'[v] = Created =>
              users'[v] = users[v] /\ users[v].email \in DOMAIN byEmail
              /\ byEmail[users[v].email] = v
        BY <1>1, <2>4, <2>5 DEF EmailsHeld, RowsExist
      <3>3. QED
        BY <2>1, <2>3, <2>4, <3>1, <3>2 DEF EmailsHeld
    <2>9. RenamersExist'
      BY <1>1, <1>4, <2>1, <2>5 DEF RenamersExist
    <2>10. QED
      BY <2>6, <2>7, <2>8, <2>9 DEF EmailInv
  <1>9. ASSUME InsertUserFails(u)  PROVE EmailInv'
    <2> DEFINE row == [email |-> reg[u].email, name |-> reg[u].name]
    <2>1. /\ reg[u].pc = "named" /\ GotoReg(u, "undoBoth")
          /\ UNCHANGED <<byEmail, byName, patch, leaked, overlapped>>
      BY <1>9 DEF InsertUserFails
    <2>2. reg[u].pc \in HoldsEmail
      BY <2>1 DEF HoldsEmail
    <2>3. row \in Row
      BY <1>1, <2>2, UnderWay DEF Row
    <2>4. users' \in Table(User, Row) /\ DOMAIN users \subseteq DOMAIN users'
          /\ \A v \in DOMAIN users : v # u => users'[v] = users[v]
      <3>1. CASE UNCHANGED users
        BY <1>2, <3>1
      <3>2. CASE users' = Insert(users, u, row)
        BY <1>2, <2>3, <3>2, UserInserted
      <3>3. QED
        BY <1>9, <3>1, <3>2 DEF InsertUserFails
    <2>5. reg' \in [User -> Registering \cup {Fresh, Created, Refused}]
          /\ reg'[u].email = reg[u].email /\ reg'[u] # Created /\ reg[u] # Created
          /\ \A v \in User \ {u} : reg'[v] = reg[v]
      BY <1>1, <2>1, <2>2, GotoRegEffect
    <2>6. TypeOK'
      BY <1>2, <2>1, <2>4, <2>5 DEF TypeOK
    <2>7. EmailsReserved' /\ RowsExist'
      BY <1>1, <2>1, <2>2, <2>4, <2>5 DEF EmailsReserved, RowsExist
    <2>8. EmailsHeld'
      BY <1>1, <2>1, <2>4, <2>5 DEF EmailsHeld, RowsExist
    <2>9. RenamersExist'
      BY <1>1, <1>4, <2>1, <2>5 DEF RenamersExist
    <2>10. QED
      BY <2>6, <2>7, <2>8, <2>9 DEF EmailInv
  <1>10. ASSUME ReleaseEmail(u)  PROVE EmailInv'
    <2>1. /\ reg[u].pc \in {"undoEmail", "undoBoth"}
          /\ byEmail' = Delete(byEmail, reg[u].email)
          /\ AfterEmail(u)
          /\ UNCHANGED <<byName, users, patch, leaked, overlapped>>
      BY <1>10 DEF ReleaseEmail
    <2>2. reg[u].pc \in HoldsEmail
      BY <2>1 DEF HoldsEmail
    <2>3. reg[u].email \in DOMAIN byEmail /\ byEmail[reg[u].email] = u
      BY <1>1, <2>2 DEF EmailsReserved
    <2>4. byEmail' \in Table(Email, User) /\ DOMAIN byEmail' = DOMAIN byEmail \ {reg[u].email}
          /\ \A x \in DOMAIN byEmail \ {reg[u].email} : byEmail'[x] = byEmail[x]
      BY <1>2, <2>1, EmailDeleted
    <2>5. reg' \in [User -> Registering \cup {Fresh, Created, Refused}]
          /\ reg'[u].pc \notin HoldsEmail /\ reg'[u] # Created /\ reg[u] # Created
          /\ \A v \in User \ {u} : reg'[v] = reg[v]
      <3>1. CASE GotoReg(u, "undoName")
        BY <1>1, <2>2, <3>1, GotoRegEffect DEF HoldsEmail
      <3>2. CASE End(u, Refused)
        BY <1>1, <2>1, <3>2, EndEffect DEF Refused, Created
      <3>3. QED
        BY <2>1, <3>1, <3>2 DEF AfterEmail
    <2>6. TypeOK'
      BY <1>2, <2>1, <2>4, <2>5 DEF TypeOK
    <2>7. EmailsReserved' /\ EmailsHeld' /\ RowsExist'
      BY <1>1, <2>1, <2>3, <2>4, <2>5 DEF EmailsReserved, EmailsHeld, RowsExist
    <2>8. RenamersExist'
      BY <1>1, <1>4, <2>1, <2>5 DEF RenamersExist
    <2>9. QED
      BY <2>6, <2>7, <2>8 DEF EmailInv
  <1>11. ASSUME ReleaseName(u) \/ ReleaseFails(u)  PROVE EmailInv'
    <2>1. /\ reg[u].pc \in {"undoEmail", "undoBoth", "undoName"}
          /\ leaked' \in BOOLEAN
          /\ UNCHANGED <<byEmail, users, patch, overlapped>>
      BY <1>2, <1>11 DEF ReleaseName, ReleaseFails
    <2>2. byName' \in Table(Name, User)
      <3>1. byName' = byName \/ byName' = Delete(byName, reg[u].name)
        BY <1>11 DEF ReleaseName, ReleaseFails
      <3>2. QED
        BY <1>2, <3>1, NameDeleted
    <2>3. reg' \in [User -> Registering \cup {Fresh, Created, Refused}]
          /\ reg'[u].pc \notin HoldsEmail /\ reg'[u] # Created /\ reg[u] # Created
          /\ \A v \in User \ {u} : reg'[v] = reg[v]
      <3>1. CASE GotoReg(u, "undoName")
        BY <1>1, <2>1, <3>1, GotoRegEffect DEF HoldsEmail, HoldsName
      <3>2. CASE End(u, Refused)
        BY <1>1, <2>1, <3>2, EndEffect DEF Refused, Created
      <3>3. QED
        BY <1>11, <3>1, <3>2 DEF ReleaseName, ReleaseFails, AfterEmail
    <2>4. TypeOK'
      BY <1>2, <2>1, <2>2, <2>3 DEF TypeOK
    <2>5. EmailsReserved' /\ EmailsHeld' /\ RowsExist'
      BY <1>1, <2>1, <2>3 DEF EmailsReserved, EmailsHeld, RowsExist
    <2>6. RenamersExist'
      BY <1>1, <1>4, <2>1, <2>3 DEF RenamersExist
    <2>7. QED
      BY <2>4, <2>5, <2>6 DEF EmailInv
  <1>12. QED
    BY <1>5, <1>6, <1>7, <1>8, <1>9, <1>10, <1>11 DEF Create

\* The actions of UpdateUsername: none of them touches users_by_email.
LEMMA RenameKeepsEmailInv ==
    ASSUME EmailInv, NEW p \in Patch, UpdateUsername(p)
    PROVE  EmailInv'
  <1>1. TypeOK /\ EmailsReserved /\ RowsExist /\ RenamersExist /\ EmailsHeld
    BY DEF EmailInv
  <1>2. /\ byEmail \in Table(Email, User) /\ byName \in Table(Name, User)
        /\ users \in Table(User, Row)
        /\ reg \in [User -> Registering \cup {Fresh, Created, Refused}]
        /\ leaked \in BOOLEAN /\ overlapped \in BOOLEAN
    BY <1>1 DEF TypeOK
  <1>3. UNCHANGED <<byEmail, reg>> /\ leaked' \in BOOLEAN
    BY <1>2 DEF UpdateUsername, StartRename, ReserveNew, ReserveNewFails,
                UpdateName, UpdateNameFails, DeleteOld, DeleteOldFails
  <1>4. ASSUME NEW u \in User, NEW n \in Name, StartRename(p, u, n)  PROVE EmailInv'
    <2> DEFINE r == [pc |-> "reserving", user |-> u, old |-> users[u].name, new |-> n]
    <2>1. /\ reg[u] = Created /\ patch' = [patch EXCEPT ![p] = r]
          /\ UNCHANGED <<byName, users>>
      BY <1>4 DEF StartRename
    <2>2. users[u].name \in Name
      <3>1. users \in [DOMAIN users -> Row]
        BY <1>2, TableMember
      <3>2. users[u] \in Row
        BY <1>1, <2>1, <3>1 DEF RowsExist
      <3>3. QED
        BY <3>2 DEF Row
    <2>3. r \in Renaming /\ r.user = u
      BY <2>2 DEF Renaming
    <2>4. /\ patch' \in [Patch -> Renaming \cup {Idle}]
          /\ patch'[p] = r /\ \A q \in Patch \ {p} : patch'[q] = patch[q]
      BY <1>1, <2>1, <2>3 DEF TypeOK
    <2>5. overlapped' \in BOOLEAN
      BY <1>2, <1>4 DEF StartRename
    <2>6. TypeOK'
      BY <1>2, <1>3, <2>1, <2>4, <2>5 DEF TypeOK
    <2>7. EmailsReserved' /\ RowsExist' /\ EmailsHeld'
      BY <1>1, <1>3, <2>1 DEF EmailsReserved, RowsExist, EmailsHeld, Maps
    <2>8. RenamersExist'
      BY <1>1, <1>3, <2>1, <2>3, <2>4 DEF RenamersExist
    <2>9. QED
      BY <2>6, <2>7, <2>8 DEF EmailInv
  <1>5. ASSUME NEW pc \in {"reserving", "updating", "deleting"}, Under(p, pc),
               UNCHANGED overlapped,
               byName' \in Table(Name, User),
               \/ UNCHANGED users
               \/ users' = [users EXCEPT ![patch[p].user].name = patch[p].new],
               Return(p) \/ \E to \in {"updating", "deleting"} : GotoPatch(p, to)
        PROVE  EmailInv'
    <2>1. patch[p] # Idle
      BY <1>5, UnderIsNotIdle
    <2>2. reg[patch[p].user] = Created /\ patch[p].user \in User /\ patch[p].new \in Name
      BY <1>1, <2>1, PatchUnderWay DEF RenamersExist
    <2>3. /\ patch' \in [Patch -> Renaming \cup {Idle}]
          /\ \A q \in Patch : patch'[q] # Idle =>
                patch[q] # Idle /\ patch'[q].user = patch[q].user
      <3>1. CASE Return(p)
        BY <1>1, <3>1, ReturnEffect
      <3>2. CASE \E to \in {"updating", "deleting"} : GotoPatch(p, to)
        BY <1>1, <2>1, <3>2, GotoPatchEffect
      <3>3. QED
        BY <1>5, <3>1, <3>2
    <2>4. /\ users' \in Table(User, Row) /\ DOMAIN users' = DOMAIN users
          /\ \A u \in DOMAIN users : users'[u].email = users[u].email
      <3>1. CASE UNCHANGED users
        BY <1>2, <3>1
      <3>2. CASE users' = [users EXCEPT ![patch[p].user].name = patch[p].new]
        <4>1. DOMAIN users \subseteq User /\ users \in [DOMAIN users -> Row]
          BY <1>2, TableMember
        <4>2. \A row \in Row : [row EXCEPT !.name = patch[p].new] \in Row
                              /\ [row EXCEPT !.name = patch[p].new].email = row.email
          BY <2>2 DEF Row
        <4>3. users' \in [DOMAIN users -> Row] /\ DOMAIN users' = DOMAIN users
          BY <3>2, <4>1, <4>2
        <4>4. \A u \in DOMAIN users : users'[u].email = users[u].email
          BY <3>2, <4>1, <4>2
        <4>5. QED
          BY <4>1, <4>3, <4>4, TableMember
      <3>3. QED
        BY <1>5, <3>1, <3>2
    <2>5. TypeOK'
      BY <1>2, <1>3, <1>5, <2>3, <2>4 DEF TypeOK
    <2>6. EmailsReserved' /\ RowsExist' /\ EmailsHeld'
      BY <1>1, <1>3, <2>4 DEF EmailsReserved, RowsExist, EmailsHeld, Maps
    <2>7. RenamersExist'
      BY <1>1, <1>3, <2>3 DEF RenamersExist
    <2>8. QED
      BY <2>5, <2>6, <2>7 DEF EmailInv
  <1>6. ASSUME ReserveNew(p) \/ ReserveNewFails(p)  PROVE EmailInv'
    <2>1. /\ Under(p, "reserving") /\ UNCHANGED <<overlapped, users>>
          /\ byName' = byName \/ byName' = Insert(byName, patch[p].new, patch[p].user)
          /\ Return(p) \/ GotoPatch(p, "updating")
      BY <1>6 DEF ReserveNew, ReserveNewFails
    <2>2. patch[p].user \in User /\ patch[p].new \in Name
      BY <1>1, <2>1, UnderIsNotIdle, PatchUnderWay
    <2>3. byName' \in Table(Name, User)
      BY <1>2, <2>1, <2>2, NameInserted
    <2>4. QED
      BY <1>5, <2>1, <2>3
  <1>7. ASSUME UpdateName(p) \/ UpdateNameFails(p)  PROVE EmailInv'
    <2>1. /\ Under(p, "updating") /\ UNCHANGED <<overlapped, byName>>
          /\ \/ UNCHANGED users
             \/ users' = [users EXCEPT ![patch[p].user].name = patch[p].new]
          /\ Return(p) \/ GotoPatch(p, "deleting")
      BY <1>7 DEF UpdateName, UpdateNameFails
    <2>2. QED
      BY <1>2, <1>5, <2>1
  <1>8. ASSUME DeleteOld(p) \/ DeleteOldFails(p)  PROVE EmailInv'
    <2>1. /\ Under(p, "deleting") /\ UNCHANGED <<overlapped, users>>
          /\ byName' = byName \/ byName' = Delete(byName, patch[p].old)
          /\ Return(p)
      BY <1>8 DEF DeleteOld, DeleteOldFails
    <2>2. byName' \in Table(Name, User)
      BY <1>2, <2>1, NameDeleted
    <2>3. QED
      BY <1>5, <2>1, <2>2
  <1>9. QED
    BY <1>4, <1>6, <1>7, <1>8 DEF UpdateUsername

\* The invariant of the first half of the module.
THEOREM EmailInvariant == Spec => []EmailInv
  <1>1. Init => EmailInv
    <2> SUFFICES ASSUME Init PROVE EmailInv
      OBVIOUS
    <2>1. byEmail = <<>> /\ byName = <<>> /\ users = <<>>
      BY DEF Init
    <2>2. <<>> \in [{} -> User] /\ <<>> \in [{} -> Row] /\ DOMAIN <<>> = {}
      OBVIOUS
    <2>3. <<>> \in Table(Email, User) /\ <<>> \in Table(Name, User) /\ <<>> \in Table(User, Row)
      BY <2>2 DEF Table
    <2>4. QED
      BY <2>1, <2>3 DEF Init, EmailInv, TypeOK, EmailsReserved, RowsExist, RenamersExist,
                        EmailsHeld, HoldsEmail, Fresh, Created
  <1>2. EmailInv /\ [Next]_vars => EmailInv'
    <2> SUFFICES ASSUME EmailInv, [Next]_vars PROVE EmailInv'
      OBVIOUS
    <2>1. CASE Next
      BY <2>1, CreateKeepsEmailInv, RenameKeepsEmailInv DEF Next
    <2>2. CASE UNCHANGED vars
      BY <2>2 DEF vars, EmailInv, TypeOK, EmailsReserved, RowsExist, RenamersExist,
                  EmailsHeld, Maps
    <2>3. QED
      BY <2>1, <2>2
  <1>3. QED
    BY <1>1, <1>2, PTL DEF Spec

\* TypeOK of every reachable state.
THEOREM AccountsTypes == Spec => []TypeOK
  <1>1. EmailInv => TypeOK
    BY DEF EmailInv
  <1>2. QED
    BY <1>1, EmailInvariant, PTL

\* EmailsHeld: no rollback, rename or failure takes the address of an account
\* that was created.
THEOREM AddressesStay == Spec => []EmailsHeld
  <1>1. EmailInv => EmailsHeld
    BY DEF EmailInv
  <1>2. QED
    BY <1>1, EmailInvariant, PTL

-----------------------------------------------------------------------------
(* Accounts keep their name while no user's renames overlap.               *)

NamesReserved ==
    \A u \in User : reg[u].pc \in HoldsName => Maps(byName, reg[u].name, u)

NamesMapped == \A u \in User : reg[u] = Created => Maps(byName, users[u].name, u)

RenamesApart ==
    \A p, q \in Patch :
        (p # q /\ patch[p] # Idle /\ patch[q] # Idle) => patch[p].user # patch[q].user

\* What a rename knows of its user: the row still holds the old name until the
\* update, the new one afterwards, and the names it is about to use are its own.
Consistent(r) ==
    /\ r.old # r.new
    /\ r.pc \in {"reserving", "updating"} => users[r.user].name = r.old
    /\ r.pc = "updating" => Maps(byName, r.new, r.user)
    /\ r.pc = "deleting" => /\ users[r.user].name = r.new
                            /\ Maps(byName, r.old, r.user)

RenamesConsistent == \A p \in Patch : patch[p] # Idle => Consistent(patch[p])

NamesOwned == NamesReserved /\ NamesMapped /\ RenamesApart /\ RenamesConsistent

NameInv == EmailInv /\ (~overlapped => NamesOwned)

\* The actions of Create.  Only ReleaseName removes a name, and it is its own.
LEMMA CreateKeepsNames ==
    ASSUME EmailInv, NamesOwned, NEW u \in User, Create(u)
    PROVE  NamesOwned'
  <1>1. TypeOK /\ RowsExist /\ RenamersExist
    BY DEF EmailInv
  <1>2. /\ byName \in Table(Name, User) /\ users \in Table(User, Row)
        /\ reg \in [User -> Registering \cup {Fresh, Created, Refused}]
    BY <1>1 DEF TypeOK
  <1>3. NamesReserved /\ NamesMapped /\ RenamesApart /\ RenamesConsistent
    BY DEF NamesOwned
  <1>4. /\ Fresh # Created /\ Fresh.pc \notin HoldsName
        /\ Created.pc \notin HoldsName /\ Refused.pc \notin HoldsName /\ Refused # Created
    BY DEF Fresh, Created, Refused, HoldsName
  <1>5. \A p \in Patch : patch[p] # Idle =>
          patch[p].user \in User /\ reg[patch[p].user] = Created
    BY <1>1, PatchUnderWay DEF RenamersExist
  <1>6. UNCHANGED patch
    BY DEF Create, ReserveEmail, ReserveEmailFails, ReserveName, ReserveNameFails,
           InsertUser, InsertUserFails, ReleaseEmail, ReleaseName, ReleaseFails
  \* Enough: the other users' rows, stages and reservations are as they were, and
  \* u owns the name it relies on or goes by.
  <1>7. ASSUME reg[u] # Created,
               \A v \in User \ {u} : reg'[v] = reg[v],
               \A v \in DOMAIN users \ {u} : users'[v] = users[v],
               \A n \in DOMAIN byName : byName[n] # u => Maps(byName', n, byName[n]),
               reg'[u].pc \in HoldsName => Maps(byName', reg'[u].name, u),
               reg'[u] = Created => Maps(byName', users'[u].name, u)
        PROVE  NamesOwned'
    <2>1. NamesReserved'
      BY <1>3, <1>7 DEF NamesReserved, Maps
    <2>2. NamesMapped'
      BY <1>1, <1>3, <1>7 DEF NamesMapped, RowsExist, Maps
    <2>3. RenamesApart'
      BY <1>3, <1>6 DEF RenamesApart
    <2>4. RenamesConsistent'
      <3> SUFFICES ASSUME NEW p \in Patch, patch'[p] # Idle  PROVE Consistent(patch[p])'
        BY DEF RenamesConsistent
      <3>1. patch[p] # Idle /\ Consistent(patch[p])
        BY <1>3, <1>6 DEF RenamesConsistent
      <3>2. patch[p].user \in User /\ patch[p].user # u /\ reg[patch[p].user] = Created
        BY <1>5, <1>7, <3>1
      <3>3. users'[patch[p].user] = users[patch[p].user]
        BY <1>1, <1>7, <3>2 DEF RowsExist
      <3>4. \A n : Maps(byName, n, patch[p].user) => Maps(byName', n, patch[p].user)
        BY <1>7, <3>2 DEF Maps
      <3>5. QED
        BY <1>6, <3>1, <3>3, <3>4 DEF Consistent
    <2>5. QED
      BY <2>1, <2>2, <2>3, <2>4 DEF NamesOwned
  <1>8. ASSUME NEW e \in Email, NEW n \in Name, ReserveEmail(u, e, n)  PROVE NamesOwned'
    <2> DEFINE r == [pc |-> "emailed", email |-> e, name |-> n]
    <2>1. reg[u] = Fresh /\ UNCHANGED <<byName, users>>
      BY <1>8 DEF ReserveEmail
    <2>2. r.pc \notin HoldsName /\ r # Created
      BY DEF HoldsName, Created
    <2>3. /\ reg'[u] = Refused \/ reg'[u] = r
          /\ \A v \in User \ {u} : reg'[v] = reg[v]
      BY <1>2, <1>8 DEF ReserveEmail, End
    <2>4. QED
      BY <1>4, <1>7, <2>1, <2>2, <2>3 DEF Maps
  <1>9. ASSUME NEW e \in Email, ReserveEmailFails(u, e)  PROVE NamesOwned'
    <2>1. /\ reg[u] = Fresh /\ UNCHANGED <<byName, users>>
          /\ reg'[u] = Refused /\ \A v \in User \ {u} : reg'[v] = reg[v]
      BY <1>2, <1>9 DEF ReserveEmailFails, End
    <2>2. QED
      BY <1>4, <1>7, <2>1 DEF Maps
  <1>10. ASSUME ReserveName(u) \/ ReserveNameFails(u)  PROVE NamesOwned'
    <2>1. reg[u].pc \in HoldsEmail \cup HoldsName /\ UNCHANGED users
      BY <1>10 DEF ReserveName, ReserveNameFails, HoldsEmail
    <2>2. reg[u].name \in Name
      BY <1>1, <2>1, UnderWay
    <2>3. \/ GotoReg(u, "undoEmail") /\ UNCHANGED byName
          \/ /\ GotoReg(u, "undoEmail") \/ GotoReg(u, "named")
             /\ reg[u].name \notin DOMAIN byName
             /\ byName' = Insert(byName, reg[u].name, u)
      BY <1>10 DEF ReserveName, ReserveNameFails
    <2>4. /\ reg[u] # Created /\ reg'[u] # Created /\ reg'[u].name = reg[u].name
          /\ \A v \in User \ {u} : reg'[v] = reg[v]
      BY <1>1, <2>1, <2>3, GotoRegEffect
    <2>5. CASE GotoReg(u, "undoEmail") /\ UNCHANGED byName
      <3>1. reg'[u].pc = "undoEmail"
        BY <1>1, <2>1, <2>5, GotoRegEffect
      <3>2. reg'[u].pc \notin HoldsName
        BY <3>1 DEF HoldsName
      <3>3. QED
        BY <1>7, <2>1, <2>4, <2>5, <3>2 DEF Maps
    <2>6. CASE /\ reg[u].name \notin DOMAIN byName
               /\ byName' = Insert(byName, reg[u].name, u)
      <3>1. /\ DOMAIN byName' = DOMAIN byName \cup {reg[u].name}
            /\ byName'[reg[u].name] = u
            /\ \A n \in DOMAIN byName : byName'[n] = byName[n]
        BY <1>2, <2>2, <2>6, NameInserted
      <3>2. QED
        BY <1>7, <2>1, <2>4, <3>1 DEF Maps
    <2>7. QED
      BY <2>3, <2>5, <2>6
  <1>11. ASSUME InsertUser(u)  PROVE NamesOwned'
    <2> DEFINE row == [email |-> reg[u].email, name |-> reg[u].name]
    <2>1. /\ reg[u].pc = "named" /\ users' = Insert(users, u, row) /\ UNCHANGED byName
          /\ End(u, Created)
      BY <1>11 DEF InsertUser
    <2>2. reg[u].pc \in HoldsEmail \cap HoldsName
      BY <2>1 DEF HoldsEmail, HoldsName
    <2>3. row \in Row /\ row.name = reg[u].name
      BY <1>1, <2>2, UnderWay DEF Row
    <2>4. users'[u] = row /\ \A v \in DOMAIN users \ {u} : users'[v] = users[v]
      BY <1>2, <2>1, <2>3, UserInserted
    <2>5. reg'[u] = Created /\ \A v \in User \ {u} : reg'[v] = reg[v]
      BY <1>1, <2>1, EndEffect
    <2>6. reg[u] # Created
      BY <1>4, <2>2
    <2>7. Maps(byName, reg[u].name, u)
      BY <1>3, <2>2 DEF NamesReserved
    <2>8. QED
      BY <1>4, <1>7, <2>1, <2>3, <2>4, <2>5, <2>6, <2>7 DEF Maps
  <1>12. ASSUME InsertUserFails(u)  PROVE NamesOwned'
    <2> DEFINE row == [email |-> reg[u].email, name |-> reg[u].name]
    <2>1. reg[u].pc = "named" /\ GotoReg(u, "undoBoth") /\ UNCHANGED byName
      BY <1>12 DEF InsertUserFails
    <2>2. reg[u].pc \in HoldsEmail \cap HoldsName
      BY <2>1 DEF HoldsEmail, HoldsName
    <2>3. row \in Row
      BY <1>1, <2>2, UnderWay DEF Row
    <2>4. \A v \in DOMAIN users \ {u} : users'[v] = users[v]
      <3>1. CASE UNCHANGED users
        BY <3>1
      <3>2. CASE users' = Insert(users, u, row)
        BY <1>2, <2>3, <3>2, UserInserted
      <3>3. QED
        BY <1>12, <3>1, <3>2 DEF InsertUserFails
    <2>5. /\ reg[u] # Created /\ reg'[u] # Created /\ reg'[u].name = reg[u].name
          /\ \A v \in User \ {u} : reg'[v] = reg[v]
      BY <1>1, <2>1, <2>2, GotoRegEffect
    <2>6. Maps(byName, reg[u].name, u)
      BY <1>3, <2>2 DEF NamesReserved
    <2>7. QED
      BY <1>7, <2>1, <2>4, <2>5, <2>6 DEF Maps
  <1>13. ASSUME ReleaseEmail(u) \/ ReleaseFails(u)  PROVE NamesOwned'
    <2>1. /\ reg[u].pc \in {"undoEmail", "undoBoth", "undoName"}
          /\ UNCHANGED <<byName, users>>
      BY <1>13 DEF ReleaseEmail, ReleaseFails
    <2>2. reg[u].pc \in HoldsEmail \cup HoldsName
      BY <2>1 DEF HoldsEmail, HoldsName
    <2>3. (reg[u].pc = "undoBoth" /\ GotoReg(u, "undoName")) \/ End(u, Refused)
      BY <1>13 DEF ReleaseEmail, ReleaseFails, AfterEmail
    <2>4. CASE End(u, Refused)
      <3>1. reg'[u] = Refused /\ \A v \in User \ {u} : reg'[v] = reg[v]
        BY <1>1, <2>4, EndEffect
      <3>2. reg[u] # Created
        BY <2>1 DEF Created
      <3>3. QED
        BY <1>4, <1>7, <2>1, <3>1, <3>2 DEF Maps
    <2>5. CASE reg[u].pc = "undoBoth" /\ GotoReg(u, "undoName")
      <3>1. /\ reg[u] # Created /\ reg'[u] # Created /\ reg'[u].name = reg[u].name
            /\ \A v \in User \ {u} : reg'[v] = reg[v]
        BY <1>1, <2>2, <2>5, GotoRegEffect
      <3>2. Maps(byName, reg[u].name, u)
        BY <1>3, <2>5 DEF NamesReserved, HoldsName
      <3>3. QED
        BY <1>7, <2>1, <3>1, <3>2 DEF Maps
    <2>6. QED
      BY <2>3, <2>4, <2>5
  <1>14. ASSUME ReleaseName(u)  PROVE NamesOwned'
    <2>1. /\ reg[u].pc = "undoName" /\ byName' = Delete(byName, reg[u].name)
          /\ End(u, Refused) /\ UNCHANGED users
      BY <1>14 DEF ReleaseName
    <2>2. Maps(byName, reg[u].name, u) /\ reg[u] # Created
      BY <1>3, <2>1 DEF NamesReserved, HoldsName, Created
    <2>3. /\ DOMAIN byName' = DOMAIN byName \ {reg[u].name}
          /\ \A n \in DOMAIN byName \ {reg[u].name} : byName'[n] = byName[n]
      BY <1>2, <2>1, NameDeleted
    <2>4. reg'[u] = Refused /\ \A v \in User \ {u} : reg'[v] = reg[v]
      BY <1>1, <2>1, EndEffect
    <2>5. QED
      BY <1>4, <1>7, <2>1, <2>2, <2>3, <2>4 DEF Maps
  <1>15. QED
    BY <1>8, <1>9, <1>10, <1>11, <1>12, <1>13, <1>14 DEF Create

\* The actions of UpdateUsername, when they leave no two renames of a user under way.
LEMMA RenameKeepsNames ==
    ASSUME EmailInv, NamesOwned, NEW p \in Patch, UpdateUsername(p), ~overlapped'
    PROVE  NamesOwned'
  <1>1. TypeOK /\ RowsExist /\ RenamersExist
    BY DEF EmailInv
  <1>2. /\ byName \in Table(Name, User) /\ users \in Table(User, Row)
        /\ patch \in [Patch -> Renaming \cup {Idle}]
    BY <1>1 DEF TypeOK
  <1>3. NamesReserved /\ NamesMapped /\ RenamesApart /\ RenamesConsistent
    BY DEF NamesOwned
  <1>4. UNCHANGED reg
    BY DEF UpdateUsername, StartRename, ReserveNew, ReserveNewFails,
           UpdateName, UpdateNameFails, DeleteOld, DeleteOldFails
  <1>5. ASSUME NEW q \in Patch, patch[q] # Idle
        PROVE  /\ patch[q].user \in User /\ reg[patch[q].user] = Created
               /\ patch[q].old \in Name /\ patch[q].new \in Name
               /\ patch[q].user \in DOMAIN users /\ Consistent(patch[q])
               /\ Maps(byName, users[patch[q].user].name, patch[q].user)
    <2>1. patch[q].user \in User /\ patch[q].old \in Name /\ patch[q].new \in Name
      BY <1>1, <1>5, PatchUnderWay
    <2>2. reg[patch[q].user] = Created
      BY <1>1, <1>5 DEF RenamersExist
    <2>3. QED
      BY <1>1, <1>3, <1>5, <2>1, <2>2 DEF RowsExist, RenamesConsistent, NamesMapped
  <1>6. Created.pc \notin HoldsName
    BY DEF Created, HoldsName
  <1>7. ASSUME NEW u \in User, NEW n \in Name, StartRename(p, u, n)  PROVE NamesOwned'
    <2> DEFINE r == [pc |-> "reserving", user |-> u, old |-> users[u].name, new |-> n]
    <2>1. /\ reg[u] = Created /\ n # users[u].name /\ patch' = [patch EXCEPT ![p] = r]
          /\ UNCHANGED <<byName, users>>
          /\ \A q \in Patch : patch[q] # Idle => patch[q].user # u
      BY <1>7 DEF StartRename
    <2>2. patch'[p] = r /\ \A q \in Patch \ {p} : patch'[q] = patch[q]
      BY <1>2, <2>1
    <2>3. NamesReserved' /\ NamesMapped'
      BY <1>3, <1>4, <2>1 DEF NamesReserved, NamesMapped, Maps
    <2>4. RenamesApart'
      BY <1>3, <2>1, <2>2 DEF RenamesApart
    <2>5. ASSUME NEW q \in Patch \ {p}, patch'[q] # Idle  PROVE Consistent(patch[q])'
      <3>1. patch'[q] = patch[q] /\ Consistent(patch[q])
        BY <1>3, <2>2, <2>5 DEF RenamesConsistent
      <3>2. QED
        BY <2>1, <3>1 DEF Consistent, Maps
    <2>6. Consistent(patch[p])'
      <3>1. patch'[p].user = u /\ patch'[p].old = users[u].name /\ patch'[p].new = n
            /\ patch'[p].pc = "reserving"
        BY <2>2
      <3>2. QED
        BY <2>1, <3>1 DEF Consistent
    <2>7. RenamesConsistent'
      <3> SUFFICES ASSUME NEW q \in Patch, patch'[q] # Idle  PROVE Consistent(patch[q])'
        BY DEF RenamesConsistent
      <3>1. QED
        BY <2>5, <2>6
    <2>8. QED
      BY <2>3, <2>4, <2>7 DEF NamesOwned
  \* Enough for the steps of a rename under way: names of other users stay as they
  \* are, what its user goes by is reserved, and the rename stays consistent.
  <1>8. ASSUME patch[p] # Idle,
               \A q \in Patch \ {p} : patch'[q] = patch[q],
               patch'[p] # Idle =>
                    patch'[p].user = patch[p].user /\ Consistent(patch[p])',
               \A v \in DOMAIN users : v # patch[p].user => users'[v] = users[v],
               \A n \in DOMAIN byName :
                    byName[n] # patch[p].user => Maps(byName', n, byName[n]),
               Maps(byName', users'[patch[p].user].name, patch[p].user)
        PROVE  NamesOwned'
    <2>1. reg[patch[p].user] = Created
      BY <1>5, <1>8
    <2>2. NamesReserved'
      BY <1>3, <1>4, <1>6, <1>8, <2>1 DEF NamesReserved, Maps
    <2>3. NamesMapped'
      BY <1>1, <1>3, <1>4, <1>8 DEF NamesMapped, RowsExist, Maps
    <2>4. RenamesApart'
      <3>1. \A q \in Patch : patch'[q] # Idle =>
                patch[q] # Idle /\ patch'[q].user = patch[q].user
        BY <1>8
      <3>2. QED
        BY <1>3, <3>1 DEF RenamesApart
    <2>5. RenamesConsistent'
      <3> SUFFICES ASSUME NEW q \in Patch, patch'[q] # Idle  PROVE Consistent(patch[q])'
        BY DEF RenamesConsistent
      <3>1. CASE q = p
        BY <1>8, <3>1
      <3>2. CASE q # p
        <4>1. patch'[q] = patch[q] /\ patch[q] # Idle
          BY <1>8, <3>2
        <4>2. patch[q].user # patch[p].user
          BY <1>3, <1>8, <3>2, <4>1 DEF RenamesApart
        <4>3. patch[q].user \in DOMAIN users /\ Consistent(patch[q])
          BY <1>5, <4>1
        <4>4. users'[patch[q].user] = users[patch[q].user]
          BY <1>8, <4>2, <4>3
        <4>5. \A n : Maps(byName, n, patch[q].user) => Maps(byName', n, patch[q].user)
          BY <1>8, <4>2 DEF Maps
        <4>6. QED
          BY <4>1, <4>3, <4>4, <4>5 DEF Consistent
      <3>3. QED
        BY <3>1, <3>2
    <2>6. QED
      BY <2>2, <2>3, <2>4, <2>5 DEF NamesOwned
  <1>9. ASSUME ReserveNew(p) \/ ReserveNewFails(p)  PROVE NamesOwned'
    <2>1. /\ Under(p, "reserving") /\ UNCHANGED users
          /\ \/ Return(p) /\ UNCHANGED byName
             \/ /\ Return(p) \/ GotoPatch(p, "updating")
                /\ patch[p].new \notin DOMAIN byName
                /\ byName' = Insert(byName, patch[p].new, patch[p].user)
      BY <1>9 DEF ReserveNew, ReserveNewFails
    <2>2. patch[p] # Idle /\ patch[p].pc = "reserving"
      BY <2>1, UnderIsNotIdle DEF Under
    <2>3. /\ patch[p].user \in User /\ patch[p].new \in Name
          /\ Consistent(patch[p]) /\ Maps(byName, users[patch[p].user].name, patch[p].user)
      BY <1>5, <2>2
    <2>4. CASE Return(p) /\ UNCHANGED byName
      BY <1>1, <1>8, <2>1, <2>2, <2>3, <2>4, ReturnEffect DEF Maps
    <2>5. CASE /\ Return(p) \/ GotoPatch(p, "updating")
               /\ patch[p].new \notin DOMAIN byName
               /\ byName' = Insert(byName, patch[p].new, patch[p].user)
      <3>1. /\ DOMAIN byName' = DOMAIN byName \cup {patch[p].new}
            /\ byName'[patch[p].new] = patch[p].user
            /\ \A n \in DOMAIN byName : byName'[n] = byName[n]
        BY <1>2, <2>3, <2>5, NameInserted
      <3>2. /\ \A n \in DOMAIN byName : Maps(byName', n, byName[n])
            /\ Maps(byName', users'[patch[p].user].name, patch[p].user)
            /\ Maps(byName', patch[p].new, patch[p].user)
        BY <2>1, <2>3, <3>1 DEF Maps
      <3>3. CASE Return(p)
        BY <1>1, <1>8, <2>1, <2>2, <3>2, <3>3, ReturnEffect
      <3>4. CASE GotoPatch(p, "updating")
        <4>1. /\ \A q \in Patch \ {p} : patch'[q] = patch[q]
              /\ patch'[p].pc = "updating" /\ patch'[p].user = patch[p].user
              /\ patch'[p].old = patch[p].old /\ patch'[p].new = patch[p].new
          BY <1>1, <2>2, <3>4, GotoPatchEffect
        <4>2. Consistent(patch[p])'
          BY <2>1, <2>2, <2>3, <3>2, <4>1 DEF Consistent
        <4>3. QED
          BY <1>8, <2>1, <2>2, <3>2, <4>1, <4>2
      <3>5. QED
        BY <2>5, <3>3, <3>4
    <2>6. QED
      BY <2>1, <2>4, <2>5
  <1>10. ASSUME UpdateName(p) \/ UpdateNameFails(p)  PROVE NamesOwned'
    <2>1. /\ Under(p, "updating") /\ UNCHANGED byName
          /\ \/ Return(p) /\ UNCHANGED users
             \/ /\ Return(p) \/ GotoPatch(p, "deleting")
                /\ users' = [users EXCEPT ![patch[p].user].name = patch[p].new]
      BY <1>10 DEF UpdateName, UpdateNameFails
    <2>2. patch[p] # Idle /\ patch[p].pc = "updating"
      BY <2>1, UnderIsNotIdle DEF Under
    <2>3. /\ patch[p].user \in DOMAIN users /\ Consistent(patch[p])
          /\ Maps(byName, users[patch[p].user].name, patch[p].user)
      BY <1>5, <2>2
    <2>4. CASE Return(p) /\ UNCHANGED users
      BY <1>1, <1>8, <2>1, <2>2, <2>3, <2>4, ReturnEffect DEF Maps
    <2>5. CASE /\ Return(p) \/ GotoPatch(p, "deleting")
               /\ users' = [users EXCEPT ![patch[p].user].name = patch[p].new]
      <3>1. users \in [DOMAIN users -> Row]
        BY <1>2, TableMember
      <3>2. users[patch[p].user] \in Row
        BY <2>3, <3>1
      <3>3. /\ users'[patch[p].user].name = patch[p].new
            /\ \A v \in DOMAIN users : v # patch[p].user => users'[v] = users[v]
        BY <2>3, <2>5, <3>1, <3>2 DEF Row
      <3>4. /\ \A n \in DOMAIN byName : Maps(byName', n, byName[n])
            /\ Maps(byName', users'[patch[p].user].name, patch[p].user)
        BY <2>1, <2>2, <2>3, <3>3 DEF Consistent, Maps
      <3>5. CASE Return(p)
        BY <1>1, <1>8, <2>2, <3>3, <3>4, <3>5, ReturnEffect
      <3>6. CASE GotoPatch(p, "deleting")
        <4>1. /\ \A q \in Patch \ {p} : patch'[q] = patch[q]
              /\ patch'[p].pc = "deleting" /\ patch'[p].user = patch[p].user
              /\ patch'[p].old = patch[p].old /\ patch'[p].new = patch[p].new
          BY <1>1, <2>2, <3>6, GotoPatchEffect
        <4>2. Consistent(patch[p])'
          BY <2>1, <2>2, <2>3, <3>3, <4>1 DEF Consistent, Maps
        <4>3. QED
          BY <1>8, <2>2, <3>3, <3>4, <4>1, <4>2
      <3>7. QED
        BY <2>5, <3>5, <3>6
    <2>6. QED
      BY <2>1, <2>4, <2>5
  <1>11. ASSUME DeleteOld(p) \/ DeleteOldFails(p)  PROVE NamesOwned'
    <2>1. /\ Under(p, "deleting") /\ UNCHANGED users /\ Return(p)
          /\ byName' = byName \/ byName' = Delete(byName, patch[p].old)
      BY <1>11 DEF DeleteOld, DeleteOldFails
    <2>2. patch[p] # Idle /\ patch[p].pc = "deleting"
      BY <2>1, UnderIsNotIdle DEF Under
    <2>3. /\ patch[p].old # users[patch[p].user].name
          /\ Maps(byName, patch[p].old, patch[p].user)
          /\ Maps(byName, users[patch[p].user].name, patch[p].user)
      BY <1>5, <2>2 DEF Consistent
    <2>4. \A n \in DOMAIN byName : n # patch[p].old => Maps(byName', n, byName[n])
      <3>1. CASE byName' = byName
        BY <3>1 DEF Maps
      <3>2. CASE byName' = Delete(byName, patch[p].old)
        <4>1. /\ DOMAIN byName' = DOMAIN byName \ {patch[p].old}
              /\ \A n \in DOMAIN byName \ {patch[p].old} : byName'[n] = byName[n]
          BY <1>2, <3>2, NameDeleted
        <4>2. QED
          BY <4>1 DEF Maps
      <3>3. QED
        BY <2>1, <3>1, <3>2
    <2>5. /\ \A n \in DOMAIN byName :
                byName[n] # patch[p].user => Maps(byName', n, byName[n])
          /\ Maps(byName', users'[patch[p].user].name, patch[p].user)
      BY <2>1, <2>3, <2>4 DEF Maps
    <2>6. QED
      BY <1>1, <1>8, <2>1, <2>2, <2>5, ReturnEffect
  <1>12. QED
    BY <1>7, <1>9, <1>10, <1>11 DEF UpdateUsername

\* The invariant of the second half of the module.
THEOREM NameInvariant == Spec => []NameInv
  <1>1. Init => (~overlapped => NamesOwned)
    BY DEF Init, NamesOwned, NamesReserved, NamesMapped, RenamesApart, RenamesConsistent,
           HoldsName, Fresh, Created
  <1>2. EmailInv /\ (~overlapped => NamesOwned) /\ [Next]_vars => (~overlapped => NamesOwned)'
    <2> SUFFICES ASSUME EmailInv, ~overlapped => NamesOwned, [Next]_vars, ~overlapped'
                 PROVE  NamesOwned'
      OBVIOUS
    <2>1. ~overlapped
      BY DEF Next, Create, ReserveEmail, ReserveEmailFails, ReserveName, ReserveNameFails,
             InsertUser, InsertUserFails, ReleaseEmail, ReleaseName, ReleaseFails,
             UpdateUsername, StartRename, ReserveNew, ReserveNewFails, UpdateName,
             UpdateNameFails, DeleteOld, DeleteOldFails, vars
    <2>2. CASE Next
      BY <2>1, <2>2, CreateKeepsNames, RenameKeepsNames DEF Next
    <2>3. CASE UNCHANGED vars
      BY <2>1, <2>3 DEF vars, NamesOwned, NamesReserved, NamesMapped, RenamesApart,
                        RenamesConsistent, Consistent, Maps
    <2>4. QED
      BY <2>2, <2>3
  <1>3. QED
    BY <1>1, <1>2, EmailInvariant, PTL DEF Spec, NameInv

\* NamesHeld: while no user's renames overlap, no registration, rename or
\* rollback takes the name of an account, whatever statements fail.
THEOREM NamesStay == Spec => []NamesHeld
  <1>1. NameInv => NamesHeld
    BY DEF NameInv, NamesOwned, NamesMapped, NamesHeld, Maps
  <1>2. QED
    BY <1>1, NameInvariant, PTL

-----------------------------------------------------------------------------
(* Accounts implements Directory.                                          *)

\* The accounts a client knows of stay if they and their rows do.
LEMMA AccountsUnchanged ==
    ASSUME \A u \in User : reg'[u] = Created <=> reg[u] = Created,
           \A u \in User : reg[u] = Created => users'[u] = users[u]
    PROVE  accounts' = accounts
  <1>1. {v \in User : reg'[v] = Created} = {v \in User : reg[v] = Created}
    OBVIOUS
  <1>2. \A u \in {v \in User : reg[v] = Created} : users'[u] = users[u]
    OBVIOUS
  <1>3. QED
    BY <1>1, <1>2, Zenon DEF accounts

\* What accounts is, without its set-builder.
LEMMA AccountsAre ==
    /\ \A u : u \in DOMAIN accounts <=> u \in User /\ reg[u] = Created
    /\ \A u \in DOMAIN accounts : accounts[u] = users[u]
  BY DEF accounts

\* A new row of an account that exists from now on.
LEMMA AccountSet ==
    ASSUME NEW u \in User, NEW e, NEW n,
           reg'[u] = Created, users'[u] = [email |-> e, name |-> n],
           \A v \in User : v # u => (reg'[v] = Created <=> reg[v] = Created),
           \A v \in User : v # u /\ reg[v] = Created => users'[v] = users[v]
    PROVE  Promised!Set(u, e, n)
  <1> DEFINE D == {v \in User : reg[v] = Created}
             E == {v \in User : reg'[v] = Created}
             g == [v \in DOMAIN accounts \cup {u} |->
                      IF v = u THEN [email |-> e, name |-> n] ELSE accounts[v]]
  <1>1. DOMAIN accounts = D /\ \A v \in D : accounts[v] = users[v]
    BY DEF accounts
  <1>2. E = D \cup {u}
    OBVIOUS
  <1>3. accounts' = [v \in E |-> users'[v]]
    BY DEF accounts
  <1>4. \A v \in E : users'[v] = IF v = u THEN [email |-> e, name |-> n] ELSE accounts[v]
    BY <1>1, <1>2
  <1>5. g = [v \in E |-> IF v = u THEN [email |-> e, name |-> n] ELSE accounts[v]]
    BY <1>1, <1>2
  <1>6. [v \in E |-> users'[v]] = [v \in E |-> IF v = u THEN [email |-> e, name |-> n] ELSE accounts[v]]
    BY <1>4
  <1>7. accounts' = g
    BY <1>3, <1>5, <1>6
  <1>8. QED
    BY <1>7 DEF Promised!Set

\* Of the statements of a registration only a successful insert into users is
\* seen: it adds an account whose address and name are reserved for it.
LEMMA CreateIsAllowed ==
    ASSUME NameInv, NEW u \in User, Create(u)
    PROVE  [Promised!Next]_(Promised!vars)
  <1>1. TypeOK /\ EmailInv /\ overlapped' = overlapped
    BY DEF NameInv, EmailInv, Create, ReserveEmail, ReserveEmailFails, ReserveName,
           ReserveNameFails, InsertUser, InsertUserFails, ReleaseEmail, ReleaseName, ReleaseFails
  <1>2. reg \in [User -> Registering \cup {Fresh, Created, Refused}] /\ users \in Table(User, Row)
    BY <1>1 DEF TypeOK
  <1>3. Fresh # Created /\ Refused # Created /\ \A r \in Registering : r # Created
    BY DEF Fresh, Refused, Created, Registering
  <1>4. CASE InsertUser(u)
    <2> DEFINE e == reg[u].email
               n == reg[u].name
    <2>1. reg[u].pc = "named" /\ End(u, Created) /\ users' = Insert(users, u, [email |-> e, name |-> n])
      BY <1>4 DEF InsertUser
    <2>2. reg[u] \in Registering /\ e \in Email /\ n \in Name
      BY <1>1, <2>1, UnderWay DEF HoldsEmail
    <2>3. reg'[u] = Created /\ \A v \in User \ {u} : reg'[v] = reg[v]
      BY <1>1, <2>1, EndEffect
    <2>4. /\ users'[u] = [email |-> e, name |-> n]
          /\ \A v \in DOMAIN users : v # u => users'[v] = users[v]
      BY <2>1 DEF Insert
    <2>5. \A v \in User : reg[v] = Created => v \in DOMAIN users
      BY <1>1 DEF EmailInv, RowsExist
    <2>6. Promised!Set(u, e, n)
      BY <2>3, <2>4, <2>5, AccountSet
    <2>7. Promised!EmailFree(e)
      <3>1. Maps(byEmail, e, u)
        BY <1>1, <2>1 DEF EmailInv, EmailsReserved, HoldsEmail
      <3>2. \A v \in User : reg[v] = Created => byEmail[users[v].email] = v
        BY <1>1 DEF EmailInv, EmailsHeld
      <3>3. \A v \in User : reg[v] = Created => users[v].email # e
        BY <1>3, <2>2, <3>1, <3>2 DEF Maps
      <3>4. QED
        BY <3>3, AccountsAre DEF Promised!EmailFree
    <2>8. Promised!NameFree(n)
      <3>1. CASE ~overlapped
        <4>1. Maps(byName, n, u)
          BY <2>1, <3>1 DEF NameInv, NamesOwned, NamesReserved, HoldsName
        <4>2. \A v \in User : reg[v] = Created => Maps(byName, users[v].name, v)
          BY <3>1 DEF NameInv, NamesOwned, NamesMapped
        <4>3. \A v \in User : reg[v] = Created => users[v].name # n
          BY <1>3, <2>2, <4>1, <4>2 DEF Maps
        <4>4. QED
          BY <4>3, AccountsAre DEF Promised!NameFree
      <3>2. QED
        BY <3>1 DEF Promised!NameFree
    <2>9. u \notin DOMAIN accounts
      BY <1>3, <2>2, AccountsAre
    <2>10. Promised!Add(u, e, n)
      BY <1>1, <2>6, <2>7, <2>8, <2>9 DEF Promised!Add
    <2>11. QED
      BY <2>2, <2>10 DEF Promised!Next
  <1>5. CASE ~InsertUser(u)
    <2>1. reg[u] # Created /\ reg'[u] # Created /\ \A v \in User \ {u} : reg'[v] = reg[v]
      <3>1. CASE reg[u] = Fresh
        <4>1. \/ End(u, Refused)
              \/ \E e \in Email, n \in Name :
                    reg' = [reg EXCEPT ![u] = [pc |-> "emailed", email |-> e, name |-> n]]
          BY <3>1 DEF Fresh, Create, ReserveEmail, ReserveEmailFails, ReserveName,
             ReserveNameFails, InsertUser, InsertUserFails, ReleaseEmail, ReleaseName,
             ReleaseFails
        <4>2. QED
          BY <1>2, <1>3, <3>1, <4>1 DEF End, Created
      <3>2. CASE reg[u] # Fresh
        <4>1. /\ reg[u].pc \in HoldsEmail \cup HoldsName
              /\ \/ End(u, Refused)
                 \/ \E pc \in {"emailed", "named", "undoEmail", "undoBoth", "undoName"} : GotoReg(u, pc)
          BY <1>5, <3>2 DEF HoldsEmail, HoldsName, Create, ReserveEmail, ReserveEmailFails,
             ReserveName, ReserveNameFails, InsertUserFails, ReleaseEmail, ReleaseName,
             ReleaseFails, AfterEmail
        <4>2. reg[u] # Created
          BY <1>1, <1>3, <4>1, UnderWay
        <4>3. QED
          BY <1>1, <1>3, <4>1, <4>2, GotoRegEffect, EndEffect
      <3>3. QED
        BY <3>1, <3>2
    <2>2. users' = users \/ users' = Insert(users, u, [email |-> reg[u].email, name |-> reg[u].name])
      BY <1>5 DEF Create, ReserveEmail, ReserveEmailFails, ReserveName, ReserveNameFails,
         InsertUserFails, ReleaseEmail, ReleaseName, ReleaseFails
    <2>3. \A v \in User : reg[v] = Created => users'[v] = users[v]
      BY <1>1, <2>1, <2>2 DEF Insert, EmailInv, RowsExist
    <2>4. accounts' = accounts
      BY <2>1, <2>3, AccountsUnchanged
    <2>5. QED
      BY <1>1, <2>4 DEF Promised!vars
  <1>6. QED
    BY <1>4, <1>5

\* Of a rename the update of the row is seen, which gives the account a name
\* that is free, and the start of a rename that meets another.
LEMMA RenameIsAllowed ==
    ASSUME NameInv, NEW p \in Patch, UpdateUsername(p)
    PROVE  [Promised!Next]_(Promised!vars)
  <1>1. TypeOK /\ EmailInv /\ reg' = reg
    BY DEF NameInv, EmailInv, UpdateUsername, StartRename, ReserveNew, ReserveNewFails,
           UpdateName, UpdateNameFails, DeleteOld, DeleteOldFails
  <1>2. CASE users' = users
    <2>1. accounts' = accounts
      BY <1>1, <1>2, AccountsUnchanged
    <2>2. overlapped' = overlapped \/ overlapped' = TRUE
      <3>1. \A x : overlapped' = (overlapped \/ x) => overlapped' = overlapped \/ overlapped' = TRUE
        BY <1>1, Zenon DEF TypeOK
      <3>2. CASE \E u \in User, n \in Name : StartRename(p, u, n)
        BY <3>1, <3>2, Zenon DEF StartRename
      <3>3. CASE ~\E u \in User, n \in Name : StartRename(p, u, n)
        BY <3>3 DEF UpdateUsername, ReserveNew, ReserveNewFails,
                    UpdateName, UpdateNameFails, DeleteOld, DeleteOldFails
      <3>4. QED
        BY <3>2, <3>3
    <2>3. QED
      BY <2>1, <2>2 DEF Promised!Next, Promised!Race, Promised!vars
  <1>3. CASE users' # users
    <2> DEFINE u == patch[p].user
               n == patch[p].new
    <2>1. /\ Under(p, "updating") /\ overlapped' = overlapped
          /\ users' = [users EXCEPT ![u].name = n]
      BY <1>3 DEF UpdateUsername, StartRename, ReserveNew, ReserveNewFails,
                  UpdateName, UpdateNameFails, DeleteOld, DeleteOldFails
    <2>2. patch[p] # Idle /\ patch[p].pc = "updating"
      BY <2>1, UnderIsNotIdle DEF Under
    <2>3. u \in User /\ n \in Name /\ reg[u] = Created /\ u \in DOMAIN users
      BY <1>1, <2>2, PatchUnderWay DEF EmailInv, RenamersExist, RowsExist
    <2>4. users \in [DOMAIN users -> Row]
      BY <1>1, TableMember DEF TypeOK
    <2>5. users'[u] = [email |-> users[u].email, name |-> n]
      BY <2>1, <2>3, <2>4 DEF Row
    <2>6. \A v \in DOMAIN users : v # u => users'[v] = users[v]
      BY <2>1
    <2>7. Promised!Set(u, users[u].email, n)
      BY <1>1, <2>3, <2>5, <2>6, AccountSet DEF EmailInv, RowsExist
    <2>8. u \in DOMAIN accounts /\ accounts[u].email = users[u].email
      BY <2>3, AccountsAre
    <2>9. Promised!NameFree(n)
      <3>1. CASE ~overlapped
        <4>1. Maps(byName, n, u) /\ n # users[u].name
          BY <2>2, <3>1 DEF NameInv, NamesOwned, RenamesConsistent, Consistent
        <4>2. \A v \in User : reg[v] = Created => Maps(byName, users[v].name, v)
          BY <3>1 DEF NameInv, NamesOwned, NamesMapped
        <4>3. \A v \in User : reg[v] = Created => users[v].name # n
          BY <4>1, <4>2 DEF Maps
        <4>4. QED
          BY <4>3, AccountsAre DEF Promised!NameFree
      <3>2. QED
        BY <3>1 DEF Promised!NameFree
    <2>10. Promised!Rename(u, n)
      BY <2>1, <2>7, <2>8, <2>9 DEF Promised!Rename
    <2>11. QED
      BY <2>3, <2>10 DEF Promised!Next
  <1>4. QED
    BY <1>2, <1>3

\* ImplementsDirectory: whatever statements fail and requests interleave, a
\* client sees accounts added and renamed one at a time, each with an address
\* of its own and, until two renames of one account race, a name of its own.
THEOREM DirectoryImplemented == Spec => ImplementsDirectory
  <1>1. Init => Promised!Init
    <2> SUFFICES ASSUME Init  PROVE Promised!Init
      OBVIOUS
    <2>1. \A u \in User : reg[u] # Created
      BY DEF Init, Fresh, Created
    <2>2. accounts = [u \in {} |-> users[u]]
      BY <2>1 DEF accounts
    <2>3. accounts = <<>>
      BY <2>2
    <2>4. QED
      BY <2>3 DEF Init, Promised!Init
  <1>2. NameInv /\ [Next]_vars => [Promised!Next]_(Promised!vars)
    <2> SUFFICES ASSUME NameInv, [Next]_vars  PROVE [Promised!Next]_(Promised!vars)
      OBVIOUS
    <2>1. CASE Next
      BY <2>1, CreateIsAllowed, RenameIsAllowed DEF Next
    <2>2. CASE UNCHANGED vars
      BY <2>2 DEF vars, accounts, Promised!vars
    <2>3. QED
      BY <2>1, <2>2
  <1>3. QED
    BY <1>1, <1>2, NameInvariant, PTL DEF Spec, ImplementsDirectory, Promised!Spec

-----------------------------------------------------------------------------
(* Nothing is burned.                                                      *)

\* Who may own a reservation: an account or a registration that relies on it, or,
\* for a name, the rename that reserved or is to delete it.
OwnsEmail(u, e) ==
    \/ reg[u] = Created /\ users[u].email = e
    \/ reg[u].pc \in HoldsEmail /\ reg[u].email = e
OwnsName(u, n) ==
    \/ reg[u] = Created /\ users[u].name = n
    \/ reg[u].pc \in HoldsName /\ reg[u].name = n
    \/ \E p \in Patch :
        /\ patch[p].pc \in {"updating", "deleting"} /\ patch[p].user = u
        /\ n = IF patch[p].pc = "updating" THEN patch[p].new ELSE patch[p].old

EmailsOwned == \A e \in DOMAIN byEmail : OwnsEmail(byEmail[e], e)
NamesUsed == \A n \in DOMAIN byName : OwnsName(byName[n], n)

BurnInv == ~leaked => EmailsOwned /\ (~overlapped => NamesUsed)

\* The actions of Create: what they insert, delete or stop relying on is u's own.
LEMMA CreateBurnsNothing ==
    ASSUME NameInv, BurnInv, NEW u \in User, Create(u)
    PROVE  BurnInv'
  <1>1. TypeOK /\ RowsExist /\ RenamersExist
    BY DEF NameInv, EmailInv
  <1>2. /\ byEmail \in Table(Email, User) /\ byName \in Table(Name, User) /\ users \in Table(User, Row)
        /\ reg \in [User -> Registering \cup {Fresh, Created, Refused}]
    BY <1>1 DEF TypeOK
  <1>3. /\ \A e \in DOMAIN byEmail : byEmail[e] \in User
        /\ \A n \in DOMAIN byName : byName[n] \in User
    BY <1>2, TableMember
  <1>4. /\ \A o \in {Fresh, Refused} : o # Created /\ o.pc \notin HoldsEmail \cup HoldsName
        /\ Created.pc \notin HoldsEmail \cup HoldsName
    BY DEF Fresh, Created, Refused, HoldsEmail, HoldsName
  <1>5. UNCHANGED <<patch, overlapped>>
    BY DEF Create, ReserveEmail, ReserveEmailFails, ReserveName, ReserveNameFails,
           InsertUser, InsertUserFails, ReleaseEmail, ReleaseName, ReleaseFails
  <1>6. \A p \in Patch : patch[p].pc \in {"updating", "deleting"} => reg[patch[p].user] = Created
    BY <1>1 DEF RenamersExist, Idle
  \* Enough: the others are as they were, and what is mapped to u is still its own.
  <1>7. ASSUME ~leaked, reg[u] # Created,
               \A v \in User \ {u} : reg'[v] = reg[v],
               \A v \in DOMAIN users \ {u} : users'[v] = users[v],
               \A e \in DOMAIN byEmail' :
                    \/ e \in DOMAIN byEmail /\ byEmail'[e] = byEmail[e] /\ byEmail[e] # u
                    \/ byEmail'[e] = u /\ OwnsEmail(u, e)',
               ~overlapped => \A n \in DOMAIN byName' :
                    \/ n \in DOMAIN byName /\ byName'[n] = byName[n] /\ byName[n] # u
                    \/ byName'[n] = u /\ OwnsName(u, n)'
        PROVE  BurnInv'
    <2>1. ASSUME NEW v \in User \ {u}
          PROVE  /\ \A e : OwnsEmail(v, e) => OwnsEmail(v, e)'
                 /\ \A n : OwnsName(v, n) => OwnsName(v, n)'
      <3>1. reg'[v] = reg[v] /\ (reg[v] = Created => users'[v] = users[v])
        BY <1>1, <1>7 DEF RowsExist
      <3>2. QED
        BY <1>5, <3>1 DEF OwnsEmail, OwnsName
    <2>2. EmailsOwned'
      BY <1>3, <1>7, <2>1 DEF BurnInv, EmailsOwned
    <2>3. ~overlapped => NamesUsed'
      BY <1>3, <1>7, <2>1 DEF BurnInv, NamesUsed
    <2>4. QED
      BY <1>5, <2>2, <2>3 DEF BurnInv
  \* Before the step, what is mapped to u is what it relies on.
  <1>8. ASSUME ~leaked, reg[u] # Created
        PROVE  /\ \A e \in DOMAIN byEmail : byEmail[e] = u => reg[u].pc \in HoldsEmail /\ reg[u].email = e
               /\ ~overlapped => \A n \in DOMAIN byName :
                    byName[n] = u => reg[u].pc \in HoldsName /\ reg[u].name = n
    BY <1>6, <1>8 DEF BurnInv, EmailsOwned, NamesUsed, OwnsEmail, OwnsName
  <1>9. ASSUME NEW e \in Email, NEW n \in Name, ReserveEmail(u, e, n)  PROVE BurnInv'
    <2> DEFINE r == [pc |-> "emailed", email |-> e, name |-> n]
    <2>1. reg[u] = Fresh /\ UNCHANGED <<byName, users, leaked>>
      BY <1>9 DEF ReserveEmail
    <2>2. \/ reg'[u] = Refused /\ UNCHANGED byEmail
          \/ reg'[u] = r /\ byEmail' = Insert(byEmail, e, u)
      BY <1>2, <1>9 DEF ReserveEmail, End
    <2>3. \A v \in User \ {u} : reg'[v] = reg[v]
      BY <1>2, <1>9 DEF ReserveEmail, End
    <2>4. r.pc \in HoldsEmail /\ r.email = e
      BY DEF HoldsEmail
    <2>5. CASE UNCHANGED byEmail
      BY <1>4, <1>7, <1>8, <2>1, <2>3, <2>5 DEF BurnInv
    <2>6. CASE reg'[u] = r /\ byEmail' = Insert(byEmail, e, u)
      <3>1. /\ DOMAIN byEmail' = DOMAIN byEmail \cup {e} /\ byEmail'[e] = u
            /\ \A x \in DOMAIN byEmail : x # e => byEmail'[x] = byEmail[x]
        BY <1>2, <2>6, EmailInserted
      <3>2. OwnsEmail(u, e)'
        BY <2>4, <2>6 DEF OwnsEmail
      <3>3. QED
        BY <1>4, <1>7, <1>8, <2>1, <2>3, <3>1, <3>2 DEF BurnInv
    <2>7. QED
      BY <2>2, <2>5, <2>6
  <1>10. ASSUME ReserveName(u)  PROVE BurnInv'
    <2>1. reg[u].pc = "emailed" /\ UNCHANGED <<byEmail, users, leaked>>
      BY <1>10 DEF ReserveName
    <2>2. reg[u].pc \in HoldsEmail /\ reg[u].pc \notin HoldsName /\ reg[u] # Created
      BY <2>1 DEF HoldsEmail, HoldsName, Created
    <2>3. reg[u].name \in Name
      BY <1>1, <2>2, UnderWay
    <2>4. \/ GotoReg(u, "undoEmail") /\ UNCHANGED byName
          \/ GotoReg(u, "named") /\ byName' = Insert(byName, reg[u].name, u)
      BY <1>10 DEF ReserveName
    <2>5. /\ reg'[u].pc \in {"undoEmail", "named"}
          /\ reg'[u].email = reg[u].email /\ reg'[u].name = reg[u].name
          /\ \A v \in User \ {u} : reg'[v] = reg[v]
      BY <1>1, <2>2, <2>4, GotoRegEffect
    <2>6. reg'[u].pc \in HoldsEmail
      BY <2>5 DEF HoldsEmail
    <2>7. \A e : reg[u].email = e => OwnsEmail(u, e)'
      BY <2>5, <2>6 DEF OwnsEmail
    <2>8. CASE UNCHANGED byName
      BY <1>7, <1>8, <2>1, <2>2, <2>5, <2>7, <2>8 DEF BurnInv
    <2>9. CASE GotoReg(u, "named") /\ byName' = Insert(byName, reg[u].name, u)
      <3>1. /\ DOMAIN byName' = DOMAIN byName \cup {reg[u].name} /\ byName'[reg[u].name] = u
            /\ \A x \in DOMAIN byName : x # reg[u].name => byName'[x] = byName[x]
        BY <1>2, <2>3, <2>9, NameInserted
      <3>2. reg'[u].pc = "named"
        BY <1>1, <2>2, <2>9, GotoRegEffect
      <3>3. OwnsName(u, reg[u].name)'
        BY <2>5, <3>2 DEF OwnsName, HoldsName
      <3>4. QED
        BY <1>7, <1>8, <2>1, <2>2, <2>5, <2>7, <3>1, <3>3 DEF BurnInv
    <2>10. QED
      BY <2>4, <2>8, <2>9
  <1>11. ASSUME InsertUser(u)  PROVE BurnInv'
    <2> DEFINE row == [email |-> reg[u].email, name |-> reg[u].name]
    <2>1. /\ reg[u].pc = "named" /\ users' = Insert(users, u, row)
          /\ UNCHANGED <<byEmail, byName, leaked>> /\ End(u, Created)
      BY <1>11 DEF InsertUser
    <2>2. reg[u].pc \in HoldsEmail \cap HoldsName /\ reg[u] # Created
      BY <2>1 DEF HoldsEmail, HoldsName, Created
    <2>3. row \in Row /\ row.email = reg[u].email /\ row.name = reg[u].name
      BY <1>1, <2>2, UnderWay DEF Row
    <2>4. users'[u] = row /\ \A v \in DOMAIN users \ {u} : users'[v] = users[v]
      BY <1>2, <2>1, <2>3, UserInserted
    <2>5. reg'[u] = Created /\ \A v \in User \ {u} : reg'[v] = reg[v]
      BY <1>1, <2>1, EndEffect
    <2>6. /\ \A e : reg[u].email = e => OwnsEmail(u, e)'
          /\ \A n : reg[u].name = n => OwnsName(u, n)'
      BY <2>3, <2>4, <2>5 DEF OwnsEmail, OwnsName
    <2>7. QED
      BY <1>7, <1>8, <2>1, <2>2, <2>4, <2>5, <2>6 DEF BurnInv
  <1>12. ASSUME InsertUserFails(u)  PROVE BurnInv'
    <2> DEFINE row == [email |-> reg[u].email, name |-> reg[u].name]
    <2>1. reg[u].pc = "named" /\ GotoReg(u, "undoBoth") /\ UNCHANGED <<byEmail, byName, leaked>>
      BY <1>12 DEF InsertUserFails
    <2>2. reg[u].pc \in HoldsEmail \cap HoldsName /\ reg[u] # Created
      BY <2>1 DEF HoldsEmail, HoldsName, Created
    <2>3. \A v \in DOMAIN users \ {u} : users'[v] = users[v]
      <3>1. row \in Row
        BY <1>1, <2>2, UnderWay DEF Row
      <3>2. UNCHANGED users \/ users' = Insert(users, u, row)
        BY <1>12 DEF InsertUserFails
      <3>3. QED
        BY <1>2, <3>1, <3>2, UserInserted
    <2>4. /\ reg'[u].pc = "undoBoth" /\ reg'[u].email = reg[u].email /\ reg'[u].name = reg[u].name
          /\ \A v \in User \ {u} : reg'[v] = reg[v]
      BY <1>1, <2>1, <2>2, GotoRegEffect
    <2>5. reg'[u].pc \in HoldsEmail \cap HoldsName
      BY <2>4 DEF HoldsEmail, HoldsName
    <2>6. /\ \A e : reg[u].email = e => OwnsEmail(u, e)'
          /\ \A n : reg[u].name = n => OwnsName(u, n)'
      BY <2>4, <2>5 DEF OwnsEmail, OwnsName
    <2>7. QED
      BY <1>7, <1>8, <2>1, <2>2, <2>3, <2>4, <2>6 DEF BurnInv
  <1>13. ASSUME ReleaseEmail(u)  PROVE BurnInv'
    <2>1. /\ reg[u].pc \in {"undoEmail", "undoBoth"} /\ UNCHANGED <<byName, users, leaked>>
          /\ byEmail' = Delete(byEmail, reg[u].email)
          /\ (reg[u].pc = "undoBoth" /\ GotoReg(u, "undoName")) \/ (reg[u].pc = "undoEmail" /\ End(u, Refused))
      BY <1>13 DEF ReleaseEmail, AfterEmail
    <2>2. reg[u].pc \in HoldsEmail /\ reg[u] # Created
      BY <2>1 DEF HoldsEmail, Created
    <2>3. /\ DOMAIN byEmail' = DOMAIN byEmail \ {reg[u].email}
          /\ \A e \in DOMAIN byEmail' : byEmail'[e] = byEmail[e]
      BY <1>2, <2>1, EmailDeleted
    <2>4. CASE reg[u].pc = "undoBoth" /\ GotoReg(u, "undoName")
      <3>1. /\ reg'[u].pc = "undoName" /\ reg'[u].name = reg[u].name
            /\ \A v \in User \ {u} : reg'[v] = reg[v]
        BY <1>1, <2>2, <2>4, GotoRegEffect
      <3>2. OwnsName(u, reg[u].name)'
        BY <3>1 DEF OwnsName, HoldsName
      <3>3. QED
        BY <1>7, <1>8, <2>1, <2>2, <2>3, <3>1, <3>2 DEF BurnInv
    <2>5. CASE reg[u].pc = "undoEmail" /\ End(u, Refused)
      <3>1. \A v \in User \ {u} : reg'[v] = reg[v]
        BY <1>1, <2>5, EndEffect
      <3>2. reg[u].pc \notin HoldsName
        BY <2>5 DEF HoldsName
      <3>3. QED
        BY <1>7, <1>8, <2>1, <2>2, <2>3, <3>1, <3>2 DEF BurnInv
    <2>6. QED
      BY <2>1, <2>4, <2>5
  <1>14. ASSUME ReleaseName(u)  PROVE BurnInv'
    <2>1. /\ reg[u].pc = "undoName" /\ UNCHANGED <<byEmail, users, leaked>>
          /\ byName' = Delete(byName, reg[u].name) /\ End(u, Refused)
      BY <1>14 DEF ReleaseName
    <2>2. reg[u].pc \notin HoldsEmail /\ reg[u] # Created
      BY <2>1 DEF HoldsEmail, Created
    <2>3. /\ DOMAIN byName' = DOMAIN byName \ {reg[u].name}
          /\ \A n \in DOMAIN byName' : byName'[n] = byName[n]
      BY <1>2, <2>1, NameDeleted
    <2>4. \A v \in User \ {u} : reg'[v] = reg[v]
      BY <1>1, <2>1, EndEffect
    <2>5. QED
      BY <1>7, <1>8, <2>1, <2>2, <2>3, <2>4 DEF BurnInv
  <1>15. ASSUME leaked'  PROVE BurnInv'
    BY <1>15 DEF BurnInv
  <1>16. QED
    BY <1>9, <1>10, <1>11, <1>12, <1>13, <1>14, <1>15
       DEF Create, ReserveEmailFails, ReserveNameFails, ReleaseFails

\* The actions of UpdateUsername: the name its row leaves is the one it deletes.
LEMMA RenameBurnsNothing ==
    ASSUME NameInv, BurnInv, NEW p \in Patch, UpdateUsername(p)
    PROVE  BurnInv'
  <1>1. TypeOK /\ RowsExist /\ RenamersExist
    BY DEF NameInv, EmailInv
  <1>2. /\ byName \in Table(Name, User) /\ users \in Table(User, Row)
        /\ byEmail \in Table(Email, User) /\ patch \in [Patch -> Renaming \cup {Idle}]
    BY <1>1 DEF TypeOK
  <1>3. /\ \A e \in DOMAIN byEmail : byEmail[e] \in User
        /\ \A n \in DOMAIN byName : byName[n] \in User
        /\ users \in [DOMAIN users -> Row]
    BY <1>2, TableMember
  <1>4. UNCHANGED <<reg, byEmail>>
    BY DEF UpdateUsername, StartRename, ReserveNew, ReserveNewFails,
           UpdateName, UpdateNameFails, DeleteOld, DeleteOldFails
  <1>5. ASSUME patch[p] # Idle
        PROVE  /\ patch[p].user \in User /\ reg[patch[p].user] = Created
               /\ patch[p].user \in DOMAIN users
               /\ patch[p].old \in Name /\ patch[p].new \in Name
               /\ ~overlapped => Consistent(patch[p])
    BY <1>1, <1>5, PatchUnderWay DEF RenamersExist, RowsExist, NameInv, NamesOwned, RenamesConsistent
  \* Enough: the rows keep their addresses, and each name left is owned as before,
  \* but those of the user of this rename, which are owned anew.
  <1>6. ASSUME ~leaked, ~overlapped' => ~overlapped,
               \A v \in DOMAIN users : users'[v].email = users[v].email,
               \A q \in Patch \ {p} : patch'[q] = patch[q],
               NEW u,
               patch[p].pc \in {"updating", "deleting"} => patch[p].user = u,
               \A v \in DOMAIN users : v # u => users'[v] = users[v],
               ~overlapped => \A n \in DOMAIN byName' :
                    \/ n \in DOMAIN byName /\ byName'[n] = byName[n] /\ byName[n] # u
                    \/ \E v \in User : byName'[n] = v /\ OwnsName(v, n)'
        PROVE  BurnInv'
    <2>1. ASSUME NEW v \in User, NEW e, OwnsEmail(v, e)  PROVE  OwnsEmail(v, e)'
      BY <1>1, <1>4, <1>6, <2>1 DEF OwnsEmail, RowsExist
    <2>2. ASSUME NEW v \in User, v # u, NEW n, OwnsName(v, n)  PROVE  OwnsName(v, n)'
      <3>1. reg'[v] = reg[v] /\ (reg[v] = Created => users'[v] = users[v])
        BY <1>1, <1>4, <1>6, <2>2 DEF RowsExist
      <3>2. \A q \in Patch : patch[q].pc \in {"updating", "deleting"} /\ patch[q].user = v =>
                patch'[q] = patch[q]
        BY <1>6, <2>2
      <3>3. QED
        BY <2>2, <3>1, <3>2 DEF OwnsName
    <2>3. EmailsOwned'
      BY <1>3, <1>4, <1>6, <2>1 DEF BurnInv, EmailsOwned
    <2>4. ~overlapped' => NamesUsed'
      BY <1>3, <1>6, <2>2 DEF BurnInv, NamesUsed
    <2>5. QED
      BY <2>3, <2>4 DEF BurnInv
  <1>7. ASSUME NEW u \in User, NEW n \in Name, StartRename(p, u, n)  PROVE BurnInv'
    <2> DEFINE r == [pc |-> "reserving", user |-> u, old |-> users[u].name, new |-> n]
    <2>1. /\ patch[p] = Idle /\ patch' = [patch EXCEPT ![p] = r]
          /\ UNCHANGED <<byName, users, leaked>>
      BY <1>7 DEF StartRename
    <2>2. overlapped' = (overlapped \/ \E q \in Patch : patch[q] # Idle /\ patch[q].user = u)
      BY <1>7 DEF StartRename
    <2>3. ~overlapped' => ~overlapped
      BY <2>2, Zenon
    <2>4. patch'[p].pc = "reserving" /\ \A q \in Patch \ {p} : patch'[q] = patch[q]
      BY <1>2, <2>1
    <2>5. patch[p].pc = "idle"
      BY <2>1 DEF Idle
    <2>6. ASSUME NEW v \in User, NEW m  PROVE  OwnsName(v, m) => OwnsName(v, m)'
      BY <1>4, <2>1, <2>4, <2>5 DEF OwnsName
    <2>7. ASSUME ~leaked, ~overlapped, NEW m \in DOMAIN byName'  PROVE  \E v \in User : byName'[m] = v /\ OwnsName(v, m)'
      <3>1. byName[m] \in User /\ OwnsName(byName[m], m) /\ byName' = byName
        BY <1>3, <2>1, <2>7 DEF BurnInv, NamesUsed
      <3>2. QED
        BY <2>6, <3>1
    <2>8. QED
      BY <1>6, <2>1, <2>3, <2>4, <2>5, <2>7 DEF BurnInv
  <1>8. ASSUME ReserveNew(p)  PROVE BurnInv'
    <2>1. /\ Under(p, "reserving") /\ UNCHANGED <<users, leaked, overlapped>>
          /\ \/ Return(p) /\ UNCHANGED byName
             \/ GotoPatch(p, "updating") /\ byName' = Insert(byName, patch[p].new, patch[p].user)
      BY <1>8 DEF ReserveNew
    <2>2. patch[p] # Idle /\ patch[p].pc = "reserving"
      BY <2>1, UnderIsNotIdle DEF Under
    <2>3. /\ \A q \in Patch \ {p} : patch'[q] = patch[q]
          /\ \/ patch'[p] = Idle
             \/ /\ patch'[p].pc = "updating" /\ patch'[p].user = patch[p].user
                /\ patch'[p].new = patch[p].new /\ patch'[p].old = patch[p].old
      BY <1>1, <2>1, <2>2, ReturnEffect, GotoPatchEffect
    <2>4. ASSUME NEW v \in User, NEW m  PROVE  OwnsName(v, m) => OwnsName(v, m)'
      BY <1>4, <2>1, <2>2, <2>3 DEF OwnsName
    <2>5. ASSUME ~leaked, ~overlapped, NEW m \in DOMAIN byName'  PROVE  \E v \in User : byName'[m] = v /\ OwnsName(v, m)'
      <3>1. CASE m \in DOMAIN byName /\ byName'[m] = byName[m]
        <4>1. byName[m] \in User /\ OwnsName(byName[m], m)
          BY <1>3, <2>5, <3>1 DEF BurnInv, NamesUsed
        <4>2. QED
          BY <2>4, <3>1, <4>1
      <3>2. CASE GotoPatch(p, "updating") /\ m = patch[p].new /\ byName'[m] = patch[p].user
        <4>1. patch'[p].pc = "updating" /\ patch'[p].user = patch[p].user /\ patch'[p].new = patch[p].new
          BY <1>1, <2>2, <3>2, GotoPatchEffect
        <4>2. \A v : v = patch[p].user => OwnsName(v, patch[p].new)'
          BY <4>1 DEF OwnsName
        <4>3. QED
          BY <1>5, <2>2, <3>2, <4>1, <4>2
      <3>3. CASE UNCHANGED byName
        BY <2>5, <3>1, <3>3
      <3>4. CASE GotoPatch(p, "updating") /\ byName' = Insert(byName, patch[p].new, patch[p].user)
        <4>1. /\ DOMAIN byName' = DOMAIN byName \cup {patch[p].new}
              /\ byName'[patch[p].new] = patch[p].user
              /\ \A x \in DOMAIN byName : x # patch[p].new => byName'[x] = byName[x]
          BY <1>2, <1>5, <2>2, <3>4, NameInserted
        <4>2. QED
          BY <2>5, <3>1, <3>2, <3>4, <4>1
      <3>5. QED
        BY <2>1, <3>3, <3>4
    <2>6. QED
      BY <1>6, <2>1, <2>2, <2>3, <2>5 DEF BurnInv
  <1>9. ASSUME UpdateName(p)  PROVE BurnInv'
    <2>0. PICK u : u = patch[p].user
      OBVIOUS
    <2>1. /\ Under(p, "updating") /\ UNCHANGED <<byName, leaked, overlapped>>
          /\ GotoPatch(p, "deleting")
          /\ users' = [users EXCEPT ![patch[p].user].name = patch[p].new]
      BY <1>9 DEF UpdateName
    <2>2. patch[p] # Idle /\ patch[p].pc = "updating"
      BY <2>1, UnderIsNotIdle DEF Under
    <2>3. /\ \A q \in Patch \ {p} : patch'[q] = patch[q]
          /\ patch'[p].pc = "deleting" /\ patch'[p].user = u
          /\ patch'[p].new = patch[p].new /\ patch'[p].old = patch[p].old
      BY <1>1, <2>0, <2>1, <2>2, GotoPatchEffect
    <2>4. users[u] \in Row /\ u \in DOMAIN users /\ u \in User /\ reg[u] = Created
      BY <1>3, <1>5, <2>0, <2>2
    <2>5. /\ users'[u].name = patch[p].new /\ users'[u].email = users[u].email
          /\ \A v \in DOMAIN users : v # u => users'[v] = users[v]
      BY <1>3, <2>0, <2>1, <2>4 DEF Row
    <2>6. ASSUME ~overlapped, NEW m, OwnsName(u, m)  PROVE  OwnsName(u, m)'
      <3>1. Consistent(patch[p])
        BY <1>5, <2>2, <2>6
      <3>2. CASE m = users[u].name
        BY <2>0, <2>2, <2>3, <3>1, <3>2 DEF OwnsName, Consistent
      <3>3. CASE m = patch[p].new
        BY <1>4, <2>4, <2>5, <3>3 DEF OwnsName
      <3>4. CASE m # users[u].name /\ m # patch[p].new
        <4>1. reg[u].pc \notin HoldsName
          BY <2>4 DEF Created, HoldsName
        <4>2. PICK q \in Patch :
                  /\ patch[q].pc \in {"updating", "deleting"} /\ patch[q].user = u
                  /\ m = IF patch[q].pc = "updating" THEN patch[q].new ELSE patch[q].old
          BY <2>6, <3>4, <4>1 DEF OwnsName
        <4>3. q # p
          BY <2>2, <3>4, <4>2
        <4>4. QED
          BY <2>3, <4>2, <4>3 DEF OwnsName
      <3>5. QED
        BY <3>2, <3>3, <3>4
    <2>7. ASSUME ~leaked, ~overlapped, NEW m \in DOMAIN byName', byName[m] = u
          PROVE  byName'[m] = u /\ OwnsName(u, m)'
      BY <2>1, <2>6, <2>7 DEF BurnInv, NamesUsed
    <2>8. \A v \in DOMAIN users : users'[v].email = users[v].email
      BY <2>5
    <2>9. QED
      BY <1>6, <2>0, <2>1, <2>3, <2>4, <2>5, <2>7, <2>8 DEF BurnInv
  <1>10. ASSUME DeleteOld(p)  PROVE BurnInv'
    <2>0. PICK u : u = patch[p].user
      OBVIOUS
    <2>1. /\ Under(p, "deleting") /\ UNCHANGED <<users, leaked, overlapped>> /\ Return(p)
          /\ byName' = Delete(byName, patch[p].old)
      BY <1>10 DEF DeleteOld
    <2>2. patch[p].pc = "deleting"
      BY <2>1 DEF Under
    <2>3. patch'[p] = Idle /\ \A q \in Patch \ {p} : patch'[q] = patch[q]
      BY <1>1, <2>1, ReturnEffect
    <2>4. /\ DOMAIN byName' = DOMAIN byName \ {patch[p].old}
          /\ \A n \in DOMAIN byName' : byName'[n] = byName[n]
      BY <1>2, <2>1, NameDeleted
    <2>5. ASSUME NEW m, m # patch[p].old, OwnsName(u, m)  PROVE  OwnsName(u, m)'
      BY <1>4, <2>0, <2>1, <2>2, <2>3, <2>5 DEF OwnsName
    <2>6. ASSUME ~leaked, ~overlapped, NEW m \in DOMAIN byName', byName[m] = u
          PROVE  byName'[m] = u /\ OwnsName(u, m)'
      BY <2>4, <2>5, <2>6 DEF BurnInv, NamesUsed
    <2>7. QED
      BY <1>5, <1>6, <2>0, <2>1, <2>2, <2>3, <2>4, <2>6 DEF BurnInv, Idle
  <1>11. ASSUME leaked'  PROVE BurnInv'
    BY <1>11 DEF BurnInv
  <1>12. QED
    BY <1>7, <1>8, <1>9, <1>10, <1>11
       DEF UpdateUsername, ReserveNewFails, UpdateNameFails, DeleteOldFails

THEOREM BurnInvariant == Spec => []BurnInv
  <1>1. Init => BurnInv
    BY DEF Init, BurnInv, EmailsOwned, NamesUsed
  <1>2. NameInv /\ BurnInv /\ [Next]_vars => BurnInv'
    <2> SUFFICES ASSUME NameInv, BurnInv, [Next]_vars  PROVE BurnInv'
      OBVIOUS
    <2>1. CASE Next
      BY <2>1, CreateBurnsNothing, RenameBurnsNothing DEF Next
    <2>2. CASE UNCHANGED vars
      BY <2>2 DEF vars, BurnInv, EmailsOwned, NamesUsed, OwnsEmail, OwnsName
    <2>3. QED
      BY <2>1, <2>2
  <1>3. QED
    BY <1>1, <1>2, NameInvariant, PTL DEF Spec

\* NothingBurned: unless a statement failed whose effect nothing undoes, every
\* reserved address and, while no user's renames overlap, every reserved name
\* belongs to an account that uses it or to a request that is still under way.
THEOREM NoNameOrAddressIsBurned == Spec => []NothingBurned
  <1>1. ASSUME NameInv, BurnInv  PROVE NothingBurned
    <2>1. TypeOK
      BY <1>1 DEF NameInv, EmailInv
    <2>2. /\ \A e \in DOMAIN byEmail : byEmail[e] \in User
          /\ \A n \in DOMAIN byName : byName[n] \in User
      BY <2>1, TableMember DEF TypeOK
    <2>3. ASSUME NEW u \in User, NEW e, OwnsEmail(u, e)
          PROVE  \/ reg[u] = Created /\ users[u].email = e
                 \/ reg[u] \in Registering /\ reg[u].email = e
      BY <2>1, <2>3, UnderWay DEF OwnsEmail
    <2>4. ASSUME NEW u \in User, NEW n, OwnsName(u, n)  PROVE  Uses(u, n)
      BY <2>1, <2>4, UnderWay DEF OwnsName, Uses, Idle
    <2>5. QED
      BY <1>1, <2>2, <2>3, <2>4 DEF BurnInv, EmailsOwned, NamesUsed, NothingBurned
  <1>2. QED
    BY <1>1, NameInvariant, BurnInvariant, PTL

-----------------------------------------------------------------------------
(* The rate limiter.  A key of a window may be made more than once; the    *)
(* requests it counts in one making get different numbers, and a window    *)
(* passes from one making to the next.                                     *)

Start(w) == w * Window

RequestState ==
    [pc : {"idle", "asked", "counted", "admitted", "refused", "open"},
     at : Nat, w : Nat, n : Nat, born : Nat]
KeyState == [n : Nat, left : Nat, born : Nat]

LimiterTyped ==
    /\ now \in Window .. MaxTime
    /\ keys \in [Limiter!Windows -> KeyState]
    /\ req \in [Request -> RequestState]

\* What a request's stage says of its number, and the clocks of when it came.
RequestOK(q, t) ==
    /\ q.pc \in {"idle", "asked"} => q.n = 0
    /\ q.pc \in {"counted", "admitted", "refused"} => q.n > 0
    /\ q.pc = "admitted" => q.n <= Limit
    /\ q.pc = "refused" => q.n > Limit
    /\ q.pc \in {"asked", "counted"} => t <= q.at + Delay
    /\ q.pc # "idle" =>
        /\ q.w \in Limiter!Windows /\ q.at <= t
        /\ Start(q.w) <= q.at + Skew /\ q.at < Start(q.w) + Window + Skew
    /\ q.n > 0 =>
        /\ q.born <= t /\ q.born <= q.at + Delay /\ Start(q.w) <= q.born + Skew
        /\ q.n = 1 => q.at <= q.born

\* A key lasts for a window at least.
KeyOK(w, k, t) ==
    /\ k.left <= Limiter!Forever
    /\ k.n = 0 <=> k.left = 0
    /\ k.n > 0 =>
        k.born <= t /\ k.born + Window <= t + k.left /\ Start(w) <= k.born + Skew

\* A request was counted by the present key of its window, or by an earlier one.
CountedBy(q, k, t) ==
    /\ k.n > 0 => \/ q.born = k.born /\ q.n <= k.n
                  \/ q.born + Window <= k.born /\ q.at <= k.born
    /\ k.n = 0 => q.born + Window <= t

Apart(p, q) ==
    /\ p.born = q.born => p.n # q.n
    /\ p.born < q.born => p.born + Window <= q.born /\ p.at <= q.born

CountedIn(w) == {r \in Request : req[r].n > 0 /\ req[r].w = w}

Tallies ==
    \A w \in Limiter!Windows :
        /\ IsFiniteSet(CountedIn(w)) /\ keys[w].n <= Cardinality(CountedIn(w))
        /\ \A r \in CountedIn(w) : req[r].n <= Cardinality(CountedIn(w))

LastingKeysLost ==
    \A w \in Limiter!Windows : keys[w].left = Limiter!Forever =>
        \E r \in Request : req[r].w = w /\ req[r].pc \in {"counted", "open"}

LimiterInv ==
    /\ LimiterTyped
    /\ \A r \in Request : RequestOK(req[r], now)
    /\ \A w \in Limiter!Windows : KeyOK(w, keys[w], now)
    /\ \A r \in Request : req[r].n > 0 => CountedBy(req[r], keys[req[r].w], now)
    /\ \A q, r \in Request :
        q # r /\ req[q].n > 0 /\ req[r].n > 0 /\ req[q].w = req[r].w => Apart(req[q], req[r])
    /\ Tallies
    /\ LastingKeysLost

LEMMA LimiterConstants ==
    /\ Limit \in Nat /\ Window \in Nat /\ Delay \in Nat /\ Skew \in Nat /\ MaxTime \in Nat
    /\ Limit > 0 /\ Delay + 2 * Skew < Window /\ Window <= MaxTime
    /\ Limiter!Forever = Window + 1
    /\ Limiter!Absent = [n |-> 0, left |-> 0, born |-> 0]
  BY LimiterIsSound DEF Limiter!LimiterAssumption, Limiter!Forever, Limiter!Absent

\* The window of a clock.
LEMMA WindowOfClock ==
    ASSUME NEW clock \in Nat, clock <= MaxTime + Skew
    PROVE  LET w == clock \div Window
           IN  w \in Nat /\ w \in Limiter!Windows /\ Start(w) <= clock /\ clock < Start(w) + Window
  <1> DEFINE w == clock \div Window
  <1>1. Window \in Nat /\ Window > 0 /\ MaxTime + Skew \in Nat
    BY LimiterConstants
  <1>2. /\ w \in Nat /\ w * Window <= clock /\ clock < w * Window + Window
        /\ w <= (MaxTime + Skew) \div Window
    BY <1>1
  <1>3. QED
    BY <1>1, <1>2 DEF Start, Limiter!Windows

LEMMA StartsApart ==
    \A v, w \in Nat : Start(v) \in Nat /\ (v < w => Start(v) + Window <= Start(w))
  <1> SUFFICES ASSUME NEW v \in Nat, NEW w \in Nat
               PROVE  Start(v) \in Nat /\ (v < w => Start(v) + Window <= Start(w))
    OBVIOUS
  <1>1. Window \in Nat
    BY LimiterConstants
  <1>2. ASSUME v < w  PROVE  v * Window + Window <= w * Window
    <2>1. PICK d \in Nat : w = v + 1 + d
      <3>1. w - v - 1 \in Nat /\ w = v + 1 + (w - v - 1)
        BY <1>2
      <3>2. QED
        BY <3>1
    <2>2. w * Window = v * Window + Window + d * Window
      BY <1>1, <2>1
    <2>3. d * Window \in Nat
      BY <1>1
    <2>4. QED
      BY <1>1, <2>2, <2>3
  <1>3. v * Window \in Nat
    BY <1>1
  <1>4. QED
    BY <1>2, <1>3 DEF Start

LEMMA LimiterInit ==
    Limiter!Init => LimiterInv
  <1> SUFFICES ASSUME Limiter!Init  PROVE  LimiterInv
    OBVIOUS
  <1>1. /\ now = Window /\ keys = [w \in Limiter!Windows |-> [n |-> 0, left |-> 0, born |-> 0]]
        /\ req = [r \in Request |-> [pc |-> "idle", at |-> 0, w |-> 0, n |-> 0, born |-> 0]]
    BY LimiterConstants DEF Limiter!Init
  <1>2. LimiterTyped
    BY <1>1, LimiterConstants DEF LimiterTyped, KeyState, RequestState
  <1>3. /\ \A r \in Request : RequestOK(req[r], now) /\ req[r].n = 0
        /\ \A w \in Limiter!Windows : KeyOK(w, keys[w], now) /\ keys[w].n = 0 /\ keys[w].left = 0
    BY <1>1, LimiterConstants DEF RequestOK, KeyOK
  <1>4. \A w \in Limiter!Windows : CountedIn(w) = {}
    BY <1>3 DEF CountedIn
  <1>5. Tallies
    BY <1>3, <1>4, FS_EmptySet DEF Tallies
  <1>6. LastingKeysLost
    BY <1>3, LimiterConstants DEF LastingKeysLost
  <1>7. QED
    BY <1>2, <1>3, <1>5, <1>6 DEF LimiterInv

\* A step that changes neither what is counted nor the keys' times: the request r
\* goes to another stage, and the keys may last longer.
LEMMA StageStep ==
    ASSUME LimiterInv, NEW r \in Request, NEW x \in RequestState,
           req' = [req EXCEPT ![r] = x], now' = now,
           x.n = req[r].n, x.w = req[r].w \/ x.n = 0,
           x.n > 0 => x.at = req[r].at /\ x.born = req[r].born,
           RequestOK(x, now),
           keys' \in [Limiter!Windows -> KeyState],
           \A w \in Limiter!Windows :
                /\ keys'[w].n = keys[w].n /\ keys'[w].born = keys[w].born
                /\ KeyOK(w, keys'[w], now),
           LastingKeysLost'
    PROVE  LimiterInv'
  <1>1. LimiterTyped /\ req \in [Request -> RequestState] /\ now \in Nat
    BY LimiterConstants DEF LimiterInv, LimiterTyped
  <1>2. req' \in [Request -> RequestState] /\ req'[r] = x /\ \A q \in Request : q # r => req'[q] = req[q]
    BY <1>1
  <1>3. LimiterTyped'
    BY <1>1, <1>2 DEF LimiterTyped
  <1>4. \A q \in Request : RequestOK(req'[q], now')
    BY <1>2 DEF LimiterInv
  <1>5. \A q \in Request :
            /\ req'[q].n = req[q].n
            /\ req[q].n > 0 =>
                /\ req'[q].at = req[q].at /\ req'[q].w = req[q].w /\ req'[q].born = req[q].born
                /\ req[q].w \in Limiter!Windows
    <2>1. \A q \in Request : req[q].n > 0 => req[q].w \in Limiter!Windows
      BY <1>1 DEF LimiterInv, RequestOK, RequestState
    <2>2. x.n \in Nat
      BY DEF RequestState
    <2>3. QED
      BY <1>2, <2>1, <2>2
  <1>6. \A q \in Request : req'[q].n > 0 => CountedBy(req'[q], keys'[req'[q].w], now')
    BY <1>5 DEF LimiterInv, CountedBy
  <1>7. \A p, q \in Request :
            p # q /\ req'[p].n > 0 /\ req'[q].n > 0 /\ req'[p].w = req'[q].w => Apart(req'[p], req'[q])
    BY <1>5 DEF LimiterInv, Apart
  <1>8. Tallies'
    <2>1. ASSUME NEW w  PROVE  CountedIn(w)' = CountedIn(w)
      BY <1>5 DEF CountedIn
    <2>2. QED
      BY <1>5, <2>1 DEF LimiterInv, Tallies
  <1>9. \A w \in Limiter!Windows : KeyOK(w, keys'[w], now')
    OBVIOUS
  <1>10. QED
    BY <1>3, <1>4, <1>6, <1>7, <1>8, <1>9 DEF LimiterInv

\* The request that keeps a key for good is still there.
LEMMA StillLost ==
    ASSUME LimiterInv, NEW r \in Request, NEW x \in RequestState, req' = [req EXCEPT ![r] = x],
           keys' = keys, req[r].pc = "counted" => x.pc = "open" /\ x.w = req[r].w,
           req[r].pc # "open"
    PROVE  LastingKeysLost'
  <1>1. req'[r] = x /\ \A q \in Request : q # r => req'[q] = req[q]
    BY DEF LimiterInv, LimiterTyped
  <1>2. ASSUME NEW w \in Limiter!Windows, keys[w].left = Limiter!Forever
        PROVE  \E q \in Request : req'[q].w = w /\ req'[q].pc \in {"counted", "open"}
    <2>1. PICK q \in Request : req[q].w = w /\ req[q].pc \in {"counted", "open"}
      BY <1>2 DEF LimiterInv, LastingKeysLost
    <2>2. QED
      BY <1>1, <2>1
  <1>3. QED
    BY <1>2 DEF LastingKeysLost

LEMMA AllowKeeps ==
    ASSUME LimiterInv, NEW r \in Request, Limiter!Allow(r)
    PROVE  LimiterInv'
  <1>1. LimiterTyped /\ req[r] \in RequestState /\ now \in Nat /\ now <= MaxTime /\ Window <= now
    BY LimiterConstants DEF LimiterInv, LimiterTyped
  <1>2. PICK clock \in now - Skew .. now + Skew :
            req' = [req EXCEPT ![r] = [pc |-> "asked", at |-> now, w |-> clock \div Window,
                                       n |-> 0, born |-> 0]]
    BY DEF Limiter!Allow
  <1> DEFINE x == [pc |-> "asked", at |-> now, w |-> clock \div Window, n |-> 0, born |-> 0]
  <1>3. clock \in Nat /\ clock <= MaxTime + Skew /\ clock <= now + Skew /\ now <= clock + Skew
    BY <1>1, LimiterConstants
  <1>4. /\ x.w \in Nat /\ x.w \in Limiter!Windows /\ Start(x.w) \in Nat
        /\ Start(x.w) <= clock /\ clock < Start(x.w) + Window
    BY <1>3, WindowOfClock, StartsApart
  <1>5. x \in RequestState
    BY <1>1, <1>4 DEF RequestState
  <1>6. req[r].pc = "idle" /\ req[r].n = 0 /\ UNCHANGED <<now, keys>>
    BY DEF Limiter!Allow, LimiterInv, RequestOK
  <1>7. RequestOK(x, now)
    BY <1>1, <1>3, <1>4, LimiterConstants DEF RequestOK
  <1>8. LastingKeysLost'
    BY <1>2, <1>5, <1>6, StillLost
  <1>9. x.n = req[r].n /\ x.n = 0 /\ ~(x.n > 0)
    BY <1>6
  <1>10. /\ keys' \in [Limiter!Windows -> KeyState] /\ now' = now
         /\ \A w \in Limiter!Windows :
                keys'[w].n = keys[w].n /\ keys'[w].born = keys[w].born /\ KeyOK(w, keys'[w], now)
    BY <1>1, <1>6 DEF LimiterInv, LimiterTyped
  <1> HIDE DEF x
  <1>11. req' = [req EXCEPT ![r] = x]
    BY <1>2 DEF x
  <1>12. QED
    BY <1>5, <1>7, <1>8, <1>9, <1>10, <1>11, StageStep

LEMMA FailsKeeps ==
    ASSUME LimiterInv, NEW r \in Request, Limiter!Fails(r)
    PROVE  LimiterInv'
  <1> DEFINE x == [req[r] EXCEPT !.pc = "open"]
  <1>1. LimiterTyped /\ req[r] \in RequestState /\ RequestOK(req[r], now)
    BY DEF LimiterInv, LimiterTyped
  <1>2. x \in RequestState /\ x.pc = "open" /\ x.at = req[r].at /\ x.w = req[r].w /\ x.n = req[r].n
        /\ x.born = req[r].born
    BY <1>1 DEF RequestState
  <1>3. req' = [req EXCEPT ![r] = x] /\ UNCHANGED <<now, keys>> /\ req[r].pc \in {"asked", "counted"}
    BY DEF Limiter!Fails, Limiter!Move
  <1> HIDE DEF x
  <1>4. RequestOK(x, now)
    BY <1>1, <1>2, <1>3 DEF RequestOK
  <1>5. LastingKeysLost'
    BY <1>2, <1>3, StillLost
  <1>6. keys' \in [Limiter!Windows -> KeyState] /\ \A w \in Limiter!Windows : KeyOK(w, keys'[w], now)
    BY <1>1, <1>3 DEF LimiterInv, LimiterTyped
  <1>7. QED
    BY <1>2, <1>3, <1>4, <1>5, <1>6, StageStep

LEMMA ExpireKeeps ==
    ASSUME LimiterInv, NEW r \in Request, Limiter!Expire(r)
    PROVE  LimiterInv'
  <1> DEFINE w == req[r].w
             left == IF keys[w].n = 0 THEN 0 ELSE Window
             key == [keys[w] EXCEPT !.left = left]
  <1>1. LimiterTyped /\ req[r] \in RequestState /\ RequestOK(req[r], now) /\ req[r].pc = "counted"
        /\ now \in Nat
    BY LimiterConstants DEF LimiterInv, LimiterTyped, Limiter!Expire
  <1>2. w \in Limiter!Windows /\ req[r].n > 0
    BY <1>1 DEF RequestOK
  <1>3. PICK verdict \in {Limiter!Judge(r), "open"} : req' = [req EXCEPT ![r].pc = verdict]
    BY DEF Limiter!Expire, Limiter!Move
  <1> DEFINE x == [req[r] EXCEPT !.pc = verdict]
  <1>4. verdict = "open" \/ (verdict = "admitted" /\ req[r].n <= Limit)
          \/ (verdict = "refused" /\ ~(req[r].n <= Limit))
    BY DEF Limiter!Judge
  <1>5. x \in RequestState /\ x.pc = verdict /\ x.at = req[r].at /\ x.w = w /\ x.n = req[r].n
        /\ x.born = req[r].born /\ x.n \in Nat
    BY <1>1, <1>4 DEF RequestState
  <1>6. req' = [req EXCEPT ![r] = x] /\ now' = now
    BY <1>3 DEF Limiter!Expire
  <1>7. RequestOK(x, now)
    BY <1>1, <1>4, <1>5, LimiterConstants DEF RequestOK
  <1>8. key \in KeyState /\ key.n = keys[w].n /\ key.born = keys[w].born /\ key.left = left
        /\ keys[w] \in KeyState
    BY <1>1, <1>2, LimiterConstants DEF LimiterTyped, KeyState
  <1>9. keys' = [keys EXCEPT ![w] = key]
    BY <1>1, <1>2 DEF Limiter!Expire
  <1> HIDE DEF x, key
  <1>10. /\ keys' \in [Limiter!Windows -> KeyState]
         /\ keys'[w] = key /\ \A v \in Limiter!Windows : v # w => keys'[v] = keys[v]
    BY <1>1, <1>2, <1>8, <1>9 DEF LimiterTyped
  <1>11. KeyOK(w, key, now)
    <2>1. KeyOK(w, keys[w], now) /\ keys[w].n \in Nat /\ keys[w].born \in Nat
      BY <1>2, <1>8 DEF LimiterInv, KeyState
    <2>2. QED
      BY <1>1, <1>8, <2>1, LimiterConstants DEF KeyOK
  <1>12. \A v \in Limiter!Windows :
            /\ keys'[v].n = keys[v].n /\ keys'[v].born = keys[v].born /\ KeyOK(v, keys'[v], now)
    BY <1>8, <1>10, <1>11 DEF LimiterInv
  <1>13. LastingKeysLost'
    <2>1. req'[r] = x /\ \A q \in Request : q # r => req'[q] = req[q]
      BY <1>1, <1>5, <1>6 DEF LimiterTyped
    <2>2. ASSUME NEW v \in Limiter!Windows, keys'[v].left = Limiter!Forever
          PROVE  \E q \in Request : req'[q].w = v /\ req'[q].pc \in {"counted", "open"}
      <3>1. v # w
        BY <1>8, <1>10, <2>2, LimiterConstants
      <3>2. PICK q \in Request : req[q].w = v /\ req[q].pc \in {"counted", "open"}
        BY <1>10, <2>2, <3>1 DEF LimiterInv, LastingKeysLost
      <3>3. QED
        BY <2>1, <3>1, <3>2
    <2>3. QED
      BY <2>2 DEF LastingKeysLost
  <1>14. QED
    BY <1>5, <1>6, <1>7, <1>10, <1>12, <1>13, StageStep

\* The request that makes a key, or is its next.
LEMMA IncrKeeps ==
    ASSUME LimiterInv, NEW r \in Request, Limiter!Incr(r)
    PROVE  LimiterInv'
  <1> DEFINE w == req[r].w
             born == IF keys[w].n = 0 THEN now ELSE keys[w].born
             left == IF keys[w].n = 0 THEN Limiter!Forever ELSE keys[w].left
             k == [n |-> keys[w].n + 1, born |-> born, left |-> left]
             x == [req[r] EXCEPT !.pc = "counted", !.n = keys[w].n + 1, !.born = born]
  <1>1. LimiterTyped /\ req[r] \in RequestState /\ RequestOK(req[r], now) /\ req[r].pc = "asked"
        /\ now \in Nat
    BY LimiterConstants DEF LimiterInv, LimiterTyped, Limiter!Incr
  <1>2. w \in Limiter!Windows /\ req[r].n = 0 /\ w \in Nat
    BY <1>1 DEF RequestOK, RequestState
  <1>3. keys[w] \in KeyState /\ KeyOK(w, keys[w], now) /\ keys[w].n \in Nat /\ keys[w].left \in Nat
        /\ keys[w].born \in Nat
    BY <1>1, <1>2 DEF LimiterInv, LimiterTyped, KeyState
  <1>4. keys' = [keys EXCEPT ![w] = k] /\ req' = [req EXCEPT ![r] = x] /\ now' = now
    BY <1>1 DEF Limiter!Incr, LimiterTyped
  <1>5. /\ x \in RequestState /\ x.pc = "counted" /\ x.at = req[r].at /\ x.w = w
        /\ x.n = keys[w].n + 1 /\ x.born = born /\ x.n \in Nat /\ x.n > 0 /\ x.born \in Nat
    <2>1. born \in Nat /\ keys[w].n + 1 \in Nat /\ keys[w].n + 1 > 0
      BY <1>1, <1>3
    <2> HIDE DEF born
    <2>2. QED
      BY <1>1, <2>1 DEF RequestState
  <1>6. k \in KeyState /\ k.n = keys[w].n + 1 /\ k.born = born /\ k.left = left
    BY <1>1, <1>3, LimiterConstants DEF KeyState
  <1> HIDE DEF x, k
  <1>7. /\ req' \in [Request -> RequestState]
        /\ req'[r] = x /\ \A q \in Request : q # r => req'[q] = req[q]
    BY <1>1, <1>4, <1>5 DEF LimiterTyped
  <1>8. /\ keys' \in [Limiter!Windows -> KeyState]
        /\ keys'[w] = k /\ \A v \in Limiter!Windows : v # w => keys'[v] = keys[v]
    BY <1>1, <1>2, <1>4, <1>6 DEF LimiterTyped
  <1>9. LimiterTyped'
    BY <1>1, <1>4, <1>7, <1>8 DEF LimiterTyped
  <1>10. RequestOK(x, now)
    <2>1. Start(w) \in Nat /\ req[r].at \in Nat
      BY <1>1, <1>2, StartsApart DEF RequestState
    <2>2. QED
      BY <1>1, <1>2, <1>3, <1>5, <2>1, LimiterConstants DEF RequestOK, KeyOK
  <1>11. KeyOK(w, k, now)
    <2>1. Start(w) \in Nat /\ req[r].at \in Nat
      BY <1>1, <1>2, StartsApart DEF RequestState
    <2>2. QED
      BY <1>1, <1>2, <1>3, <1>6, <2>1, LimiterConstants DEF RequestOK, KeyOK
  \* Who was counted in this window before has a smaller number or an earlier key.
  <1>12. ASSUME NEW q \in Request, req[q].n > 0, req[q].w = w
         PROVE  /\ q # r /\ req[q].n \in Nat /\ req[q].born \in Nat
                /\ \/ req[q].born = born /\ req[q].n <= keys[w].n /\ keys[w].n > 0
                   \/ req[q].born + Window <= born /\ req[q].at <= born
    <2>1. q # r
      BY <1>2, <1>12
    <2>2. req[q] \in RequestState /\ RequestOK(req[q], now) /\ CountedBy(req[q], keys[w], now)
      BY <1>1, <1>12 DEF LimiterInv, LimiterTyped
    <2>3. req[q].n \in Nat /\ req[q].born \in Nat /\ req[q].at <= now
      BY <1>12, <2>2 DEF RequestState, RequestOK
    <2>4. QED
      BY <1>3, <2>1, <2>2, <2>3 DEF CountedBy
  <1>13. \A q \in Request : RequestOK(req'[q], now')
    BY <1>4, <1>7, <1>10 DEF LimiterInv
  <1>14. \A v \in Limiter!Windows : KeyOK(v, keys'[v], now')
    BY <1>4, <1>8, <1>11 DEF LimiterInv
  <1>15. ASSUME NEW q \in Request, req'[q].n > 0
         PROVE  CountedBy(req'[q], keys'[req'[q].w], now')
    <2>1. CASE q = r
      BY <1>5, <1>6, <1>7, <1>8, <1>3, <2>1 DEF CountedBy
    <2>2. CASE q # r /\ req[q].w = w
      BY <1>3, <1>6, <1>7, <1>8, <1>12, <1>15, <2>2 DEF CountedBy
    <2>3. CASE q # r /\ req[q].w # w
      <3>1. req[q].w \in Limiter!Windows /\ req'[q] = req[q]
        BY <1>7, <1>15, <2>3 DEF LimiterInv, RequestOK
      <3>2. QED
        BY <1>4, <1>8, <1>15, <2>3, <3>1 DEF LimiterInv
    <2>4. QED
      BY <2>1, <2>2, <2>3
  <1>16. ASSUME NEW p \in Request, NEW q \in Request,
                p # q, req'[p].n > 0, req'[q].n > 0, req'[p].w = req'[q].w
         PROVE  Apart(req'[p], req'[q])
    <2>1. CASE p # r /\ q # r
      BY <1>7, <1>16, <2>1 DEF LimiterInv
    <2>2. CASE p = r
      <3>1. /\ q # r /\ req'[q] = req[q] /\ req'[p] = x /\ req[q].w = w /\ req[q].n > 0
        BY <1>5, <1>7, <1>16, <2>2
      <3>2. QED
        BY <1>3, <1>5, <1>12, <3>1, LimiterConstants DEF Apart
    <2>3. CASE q = r
      <3>1. /\ p # r /\ req'[p] = req[p] /\ req'[q] = x /\ req[p].w = w /\ req[p].n > 0
        BY <1>5, <1>7, <1>16, <2>3
      <3>2. QED
        BY <1>3, <1>5, <1>12, <3>1, LimiterConstants DEF Apart
    <2>4. QED
      BY <2>1, <2>2, <2>3
  <1>17. Tallies'
    <2>1. /\ IsFiniteSet(CountedIn(w)) /\ keys[w].n <= Cardinality(CountedIn(w))
          /\ Cardinality(CountedIn(w)) \in Nat
      BY <1>2, FS_CardinalityType DEF LimiterInv, Tallies
    <2>2. \A v : CountedIn(v)' = IF v = w THEN CountedIn(w) \cup {r} ELSE CountedIn(v)
      BY <1>2, <1>5, <1>7 DEF CountedIn
    <2>3. r \notin CountedIn(w)
      BY <1>2 DEF CountedIn
    <2>4. /\ IsFiniteSet(CountedIn(w) \cup {r})
          /\ Cardinality(CountedIn(w) \cup {r}) = Cardinality(CountedIn(w)) + 1
      BY <2>1, <2>3, FS_AddElement
    <2>5. ASSUME NEW v \in Limiter!Windows
          PROVE  IsFiniteSet(CountedIn(v)') /\ keys'[v].n <= Cardinality(CountedIn(v)')
      <3>1. CASE v = w
        <4>1. CountedIn(v)' = CountedIn(w) \cup {r} /\ keys'[v].n = keys[w].n + 1
          BY <1>6, <1>8, <2>2, <3>1
        <4>2. QED
          BY <1>3, <2>1, <2>4, <4>1
      <3>2. CASE v # w
        BY <1>8, <2>2, <3>2 DEF LimiterInv, Tallies
      <3>3. QED
        BY <3>1, <3>2
    <2>6. ASSUME NEW v \in Limiter!Windows, NEW q \in CountedIn(v)'
          PROVE  req'[q].n <= Cardinality(CountedIn(v)')
      <3>1. CASE q = r
        <4>1. v = w /\ req'[q].n = keys[w].n + 1
          BY <1>5, <1>7, <3>1 DEF CountedIn
        <4>2. CountedIn(v)' = CountedIn(w) \cup {r}
          BY <2>2, <4>1
        <4>3. QED
          BY <1>3, <2>1, <2>4, <4>1, <4>2
      <3>2. CASE q # r
        <4>1. q \in CountedIn(v) /\ req'[q] = req[q] /\ req[q].n \in Nat
          BY <1>1, <1>7, <2>2, <3>2 DEF CountedIn, LimiterTyped, RequestState
        <4>2. req[q].n <= Cardinality(CountedIn(v))
          BY <4>1 DEF LimiterInv, Tallies
        <4>3. CASE v = w
          BY <2>1, <2>2, <2>4, <4>1, <4>2, <4>3
        <4>4. CASE v # w
          BY <2>2, <4>1, <4>2, <4>4
        <4>5. QED
          BY <4>3, <4>4
      <3>3. QED
        BY <3>1, <3>2
    <2>7. QED
      BY <2>5, <2>6 DEF Tallies
  <1>18. LastingKeysLost'
    <2>1. ASSUME NEW v \in Limiter!Windows, keys'[v].left = Limiter!Forever
          PROVE  \E q \in Request : req'[q].w = v /\ req'[q].pc \in {"counted", "open"}
      <3>1. CASE v = w
        BY <1>5, <1>7, <3>1
      <3>2. CASE v # w
        <4>1. PICK q \in Request : req[q].w = v /\ req[q].pc \in {"counted", "open"}
          BY <1>8, <2>1, <3>2 DEF LimiterInv, LastingKeysLost
        <4>2. q # r
          BY <1>1, <4>1
        <4>3. QED
          BY <1>7, <4>1, <4>2
      <3>3. QED
        BY <3>1, <3>2
    <2>2. QED
      BY <2>1 DEF LastingKeysLost
  <1>19. QED
    BY <1>9, <1>13, <1>14, <1>15, <1>16, <1>17, <1>18 DEF LimiterInv

\* Time passes: a key that ends was made a window ago.
LEMMA TickKeeps ==
    ASSUME LimiterInv, Limiter!Tick
    PROVE  LimiterInv'
  <1>1. LimiterTyped /\ now \in Nat /\ now' = now + 1 /\ req' = req /\ now < MaxTime
    BY LimiterConstants DEF LimiterInv, LimiterTyped, Limiter!Tick
  <1>2. ASSUME NEW w \in Limiter!Windows
        PROVE  /\ keys[w] \in KeyState /\ keys[w].n \in Nat /\ keys[w].left \in Nat /\ keys[w].born \in Nat
               /\ \/ keys[w].left \in {0, 1} /\ keys'[w] = Limiter!Absent
                  \/ keys[w].left = Limiter!Forever /\ keys'[w] = keys[w]
                  \/ keys[w].left \notin {0, 1, Limiter!Forever}
                        /\ keys'[w] = [keys[w] EXCEPT !.left = keys[w].left - 1]
    <2>1. keys[w] \in KeyState
      BY <1>1 DEF LimiterTyped
    <2>2. keys'[w] = IF Limiter!Ending(keys[w]) THEN Limiter!Absent
                     ELSE IF keys[w].left = Limiter!Forever THEN keys[w]
                     ELSE [keys[w] EXCEPT !.left = @ - 1]
      BY DEF Limiter!Tick
    <2>3. QED
      BY <2>1, <2>2 DEF KeyState, Limiter!Ending
  <1>3. ASSUME NEW w \in Limiter!Windows
        PROVE  /\ keys'[w] \in KeyState /\ KeyOK(w, keys'[w], now + 1)
               /\ keys'[w].n \in {0, keys[w].n}
               /\ keys'[w].n > 0 => keys'[w].born = keys[w].born /\ keys'[w].n = keys[w].n
               /\ keys'[w].n = 0 /\ keys[w].n > 0 => keys[w].born + Window <= now + 1
               /\ keys'[w].left = Limiter!Forever => keys[w].left = Limiter!Forever
    <2>1. KeyOK(w, keys[w], now)
      BY DEF LimiterInv
    <2>2. CASE keys[w].left \in {0, 1} /\ keys'[w] = Limiter!Absent
      BY <1>1, <1>2, <2>1, <2>2, LimiterConstants DEF KeyOK, KeyState
    <2>3. CASE keys[w].left = Limiter!Forever /\ keys'[w] = keys[w]
      <3> DEFINE k == keys[w]
      <3>1. k \in KeyState /\ k.n \in Nat /\ k.left \in Nat /\ k.born \in Nat /\ k.left = Limiter!Forever
        BY <1>2, <2>3
      <3>2. KeyOK(w, k, now)
        BY <2>1
      <3>3. keys'[w] = k
        BY <2>3
      <3> HIDE DEF k
      <3>4. k.n > 0 /\ k.born <= now /\ Start(w) <= k.born + Skew /\ Limiter!Forever = Window + 1
        BY <3>1, <3>2, LimiterConstants DEF KeyOK, Limiter!Forever
      <3>5. KeyOK(w, k, now + 1)
        BY <1>1, <3>1, <3>2, <3>4, LimiterConstants DEF KeyOK
      <3>6. /\ keys'[w] \in KeyState /\ KeyOK(w, keys'[w], now + 1)
            /\ keys'[w].n = k.n /\ keys'[w].born = k.born /\ k.n > 0
        BY <3>1, <3>3, <3>4, <3>5
      <3>7. QED
        BY <3>1, <3>4, <3>6 DEF k
    <2>4. CASE /\ keys[w].left \notin {0, 1, Limiter!Forever}
               /\ keys'[w] = [keys[w] EXCEPT !.left = keys[w].left - 1]
      <3>1. /\ keys'[w] \in KeyState /\ keys'[w].n = keys[w].n /\ keys'[w].born = keys[w].born
            /\ keys'[w].left = keys[w].left - 1
        BY <1>2, <2>4 DEF KeyState
      <3>2. QED
        BY <1>1, <1>2, <2>1, <2>4, <3>1, LimiterConstants DEF KeyOK
    <2>5. QED
      BY <1>2, <2>2, <2>3, <2>4
  <1>4. LimiterTyped'
    <2>1. keys' \in [Limiter!Windows -> KeyState]
      <3>1. keys' = [w \in Limiter!Windows |-> keys'[w]]
        BY DEF Limiter!Tick
      <3>2. QED
        BY <1>3, <3>1
    <2>2. QED
      BY <1>1, <2>1, LimiterConstants DEF LimiterTyped
  <1>5. \A r \in Request : RequestOK(req'[r], now')
    <2> SUFFICES ASSUME NEW r \in Request  PROVE RequestOK(req[r], now + 1)
      BY <1>1
    <2>1. RequestOK(req[r], now) /\ req[r] \in RequestState
      BY <1>1 DEF LimiterInv, LimiterTyped
    <2>2. req[r].pc \in {"asked", "counted"} => now < req[r].at + Delay
      BY DEF Limiter!Tick
    <2>3. QED
      BY <1>1, <2>1, <2>2, LimiterConstants DEF RequestOK, RequestState
  <1>6. \A w \in Limiter!Windows : KeyOK(w, keys'[w], now')
    BY <1>1, <1>3
  <1>7. ASSUME NEW r \in Request, req[r].n > 0  PROVE  CountedBy(req[r], keys'[req[r].w], now + 1)
    <2>1. /\ req[r].w \in Limiter!Windows /\ req[r].born \in Nat /\ req[r].n \in Nat
          /\ CountedBy(req[r], keys[req[r].w], now)
      BY <1>1, <1>7 DEF LimiterInv, LimiterTyped, RequestState, RequestOK
    <2>2. keys[req[r].w].n > 0 => keys[req[r].w].born <= now
      BY <2>1 DEF LimiterInv, KeyOK
    <2>3. CASE keys'[req[r].w].n > 0
      BY <1>1, <1>2, <1>3, <2>1, <2>3 DEF CountedBy
    <2>4. CASE ~(keys'[req[r].w].n > 0)
      <3>1. req[r].born + Window <= now + 1
        <4>1. CASE keys[req[r].w].n > 0
          <5>1. keys'[req[r].w].n = 0
            BY <1>3, <2>1, <2>4, <4>1
          <5>2. keys[req[r].w].born + Window <= now + 1
            BY <1>3, <2>1, <4>1, <5>1
          <5>3. keys[req[r].w].born \in Nat
            BY <1>2, <2>1
          <5>4. QED
            BY <1>1, <2>1, <2>2, <4>1, <5>2, <5>3, LimiterConstants DEF CountedBy
        <4>2. CASE ~(keys[req[r].w].n > 0)
          <5> DEFINE w == req[r].w
          <5>0. keys[w].n \in Nat
            <6>1. w \in Limiter!Windows
              BY <2>1
            <6> HIDE DEF w
            <6>2. QED
              BY <1>2, <6>1
          <5>1. keys[req[r].w].n = 0
            BY <4>2, <5>0
          <5>2. QED
            BY <1>1, <2>1, <5>1, LimiterConstants DEF CountedBy
        <4>3. QED
          BY <4>1, <4>2
      <3>2. QED
        BY <2>4, <3>1 DEF CountedBy
    <2>5. QED
      BY <2>3, <2>4
  <1>8. Tallies'
    <2>1. \A w : CountedIn(w)' = CountedIn(w)
      BY <1>1 DEF CountedIn
    <2>2. ASSUME NEW w \in Limiter!Windows
          PROVE  IsFiniteSet(CountedIn(w)) /\ keys'[w].n <= Cardinality(CountedIn(w))
      <3>1. IsFiniteSet(CountedIn(w)) /\ keys[w].n <= Cardinality(CountedIn(w))
            /\ Cardinality(CountedIn(w)) \in Nat
        BY FS_CardinalityType DEF LimiterInv, Tallies
      <3>2. QED
        BY <1>2, <1>3, <3>1
    <2>3. QED
      BY <1>1, <2>1, <2>2 DEF LimiterInv, Tallies
  <1>9. LastingKeysLost'
    BY <1>1, <1>3 DEF LimiterInv, LastingKeysLost
  <1>10. QED
    BY <1>1, <1>4, <1>5, <1>6, <1>7, <1>8, <1>9 DEF LimiterInv

LEMMA LimiterAlways ==
    PartSpec => []LimiterInv
  <1>1. PartInit => LimiterInv
    BY LimiterInit DEF PartInit
  <1>2. ASSUME LimiterInv, [PartNext]_<<part, vars, limiterVars>>  PROVE  LimiterInv'
    <2>1. CASE Limiter!Next
      BY <2>1, AllowKeeps, IncrKeeps, ExpireKeeps, FailsKeeps, TickKeeps, <1>2 DEF Limiter!Next
    <2>2. CASE UNCHANGED limiterVars
      BY <1>2, <2>2 DEF limiterVars, LimiterInv, LimiterTyped, Tallies, CountedIn, LastingKeysLost
    <2>3. QED
      BY <1>2, <2>1, <2>2 DEF PartNext
  <1>3. QED
    BY <1>1, <1>2, PTL DEF PartSpec

\* Those let in who came in the stretch from t on.
LetIn(t) == {r \in Limiter!CameIn(t) : req[r].pc = "admitted"}

LEMMA LetInFacts ==
    ASSUME LimiterInv, NEW t \in Window .. MaxTime
    PROVE  /\ \A r \in LetIn(t) :
                /\ r \in Request /\ req[r].n \in 1 .. Limit
                /\ req[r].at \in Nat /\ req[r].w \in Nat /\ req[r].born \in Nat
                /\ t <= req[r].at /\ req[r].at < t + Window - Delay - 2 * Skew
                /\ req[r].born <= req[r].at + Delay /\ Start(req[r].w) <= req[r].born + Skew
                /\ Start(req[r].w) <= req[r].at + Skew
                /\ req[r].at < Start(req[r].w) + Window + Skew
                /\ req[r].n = 1 => req[r].at <= req[r].born
           /\ \A q, r \in LetIn(t) : req[q].w = req[r].w =>
                /\ req[q].born = req[r].born /\ req[q].n = req[r].n => q = r
                /\ req[q].born < req[r].born =>
                    req[q].born + Window <= req[r].born /\ req[q].at <= req[r].born
  <1>1. ASSUME NEW r \in LetIn(t)
        PROVE  /\ r \in Request /\ req[r] \in RequestState /\ req[r].pc = "admitted"
               /\ RequestOK(req[r], now)
               /\ t <= req[r].at /\ req[r].at < t + Window - Delay - 2 * Skew
    <2>1. r \in Request /\ req[r].pc = "admitted" /\ req[r].at \in t .. t + Limiter!Stretch - 1
      BY DEF LetIn, Limiter!CameIn
    <2>2. req[r] \in RequestState /\ RequestOK(req[r], now)
      BY <2>1 DEF LimiterInv, LimiterTyped
    <2>3. QED
      BY <2>1, <2>2, LimiterConstants DEF Limiter!Stretch, RequestState
  <1>2. ASSUME NEW r \in LetIn(t)
        PROVE  /\ req[r].n \in 1 .. Limit
               /\ req[r].at \in Nat /\ req[r].w \in Nat /\ req[r].born \in Nat
               /\ req[r].born <= req[r].at + Delay /\ Start(req[r].w) <= req[r].born + Skew
               /\ Start(req[r].w) <= req[r].at + Skew
               /\ req[r].at < Start(req[r].w) + Window + Skew
               /\ req[r].n = 1 => req[r].at <= req[r].born
    BY <1>1, LimiterConstants DEF RequestState, RequestOK
  <1>3. ASSUME NEW q \in LetIn(t), NEW r \in LetIn(t), req[q].w = req[r].w
        PROVE  /\ req[q].born = req[r].born /\ req[q].n = req[r].n => q = r
               /\ req[q].born < req[r].born =>
                   req[q].born + Window <= req[r].born /\ req[q].at <= req[r].born
    <2>1. req[q].n > 0 /\ req[r].n > 0 /\ q \in Request /\ r \in Request /\ req[q].born \in Nat
      BY <1>1, <1>2, LimiterConstants
    <2>2. CASE q = r
      BY <2>1, <2>2
    <2>3. CASE q # r
      <3>1. Apart(req[q], req[r])
        BY <1>3, <2>1, <2>3 DEF LimiterInv
      <3>2. QED
        BY <3>1, <2>3 DEF Apart
    <2>4. QED
      BY <2>2, <2>3
  <1>4. QED
    BY <1>1, <1>2, <1>3

\* A stretch meets two windows at most.
LEMMA StretchMeetsTwo ==
    ASSUME LimiterInv, NEW t \in Window .. MaxTime, NEW q \in LetIn(t), NEW r \in LetIn(t),
           req[q].w < req[r].w
    PROVE  req[r].w = req[q].w + 1
  <1> DEFINE v == req[q].w
             w == req[r].w
  <1>1. v \in Nat /\ w \in Nat /\ req[q].at \in Nat /\ req[r].at \in Nat
    BY LetInFacts
  <1>2. /\ req[q].at < Start(v) + Window + Skew /\ Start(w) <= req[r].at + Skew
        /\ t <= req[q].at /\ req[r].at < t + Window - Delay - 2 * Skew
    BY LetInFacts
  <1>3. SUFFICES ASSUME w # v + 1  PROVE FALSE
    OBVIOUS
  <1>4. v < v + 1 /\ v + 1 < w /\ v + 1 \in Nat
    BY <1>1, <1>3
  <1>5. Start(v) + Window <= Start(v + 1) /\ Start(v + 1) + Window <= Start(w)
        /\ Start(v) \in Nat /\ Start(v + 1) \in Nat /\ Start(w) \in Nat
    BY <1>1, <1>4, StartsApart
  <1>6. t \in Nat
    BY LimiterConstants
  <1> HIDE DEF v, w
  <1>7. QED
    BY <1>1, <1>2, <1>5, <1>6, LimiterConstants

\* When it meets two keys of one window, the first had been made before the
\* stretch began, there is no third, and the window is the earlier one.
LEMMA TwoMakings ==
    ASSUME LimiterInv, NEW t \in Window .. MaxTime, NEW q \in LetIn(t), NEW r \in LetIn(t),
           req[q].w = req[r].w, req[q].born < req[r].born
    PROVE  /\ \A p \in LetIn(t) : req[p].w = req[q].w =>
                req[p].born = req[r].born \/ (req[p].born = req[q].born /\ req[p].n > 1)
           /\ \A p \in LetIn(t) : req[p].w >= req[q].w
  <1> DEFINE v == req[q].w
             b == req[q].born
             c == req[r].born
  <1>1. /\ b \in Nat /\ c \in Nat /\ v \in Nat /\ b + Window <= c /\ req[q].at <= c
        /\ req[q].at \in Nat /\ req[r].at \in Nat /\ c <= req[r].at + Delay
        /\ Start(v) <= b + Skew /\ t <= req[q].at /\ req[r].at < t + Window - Delay - 2 * Skew
    BY LetInFacts
  <1>2. t \in Nat /\ Start(v) \in Nat
    BY <1>1, LimiterConstants, StartsApart
  <1>3. ASSUME NEW p \in LetIn(t), req[p].w = v
        PROVE  req[p].born = c \/ (req[p].born = b /\ req[p].n > 1)
    <2> DEFINE d == req[p].born
               e == req[p].at
    <2>1. /\ d \in Nat /\ e \in Nat /\ d <= e + Delay /\ t <= e
          /\ e < t + Window - Delay - 2 * Skew
          /\ req[p].n \in 1 .. Limit /\ (req[p].n = 1 => e <= d)
      BY LetInFacts
    <2>2. /\ d < b => d + Window <= b /\ e <= b
          /\ b < d => b + Window <= d /\ req[q].at <= d
          /\ c < d => c + Window <= d
          /\ d < c => d + Window <= c /\ e <= c
      BY LetInFacts, <1>3
    <2> HIDE DEF v, b, c, d, e
    <2>3. ~(c < d)
      BY <1>1, <1>2, <2>1, <2>2, LimiterConstants
    <2>4. ~(b < d /\ d < c)
      BY <1>1, <1>2, <2>1, <2>2, LimiterConstants
    <2>5. ~(d < b)
      BY <1>1, <1>2, <2>1, <2>2, LimiterConstants
    <2>6. d = b => req[p].n # 1
      BY <1>1, <1>2, <2>1, LimiterConstants
    <2>7. d = c \/ d = b
      <3>1. b \in Nat /\ c \in Nat /\ d \in Nat
        BY <1>1, <2>1
      <3>2. QED
        BY <3>1, <2>3, <2>4, <2>5
    <2>8. req[p].n # 1 => req[p].n > 1
      <3>1. req[p].n \in 1 .. Limit
        BY <2>1
      <3>2. QED
        BY <3>1, LimiterConstants
    <2>9. d = c \/ (d = b /\ req[p].n > 1)
      BY <2>6, <2>7, <2>8
    <2>10. QED
      BY <2>9 DEF d
  <1>4. ASSUME NEW p \in LetIn(t), req[p].w < v  PROVE FALSE
    <2> DEFINE u == req[p].w
    <2>1. /\ u \in Nat /\ req[p].at \in Nat /\ t <= req[p].at
          /\ req[p].at < Start(u) + Window + Skew
      BY LetInFacts
    <2>2. Start(u) + Window <= Start(v) /\ Start(u) \in Nat
      BY <1>1, <1>4, <2>1, StartsApart
    <2> HIDE DEF u, v, b, c
    <2>3. QED
      BY <1>1, <1>2, <2>1, <2>2, LimiterConstants
  <1>5. QED
    <2>1. \A p \in LetIn(t) : req[p].w \in Nat
      BY LetInFacts
    <2>2. QED
      BY <1>1, <1>3, <1>4, <2>1

\* What follows numbers those let in, each differently, from 1 to 3 * Limit - 1.
LEMMA Numbered ==
    ASSUME LimiterInv, NEW t \in Window .. MaxTime,
           NEW number \in [LetIn(t) -> 1 .. 3 * Limit - 1],
           \A q, r \in LetIn(t) : number[q] = number[r] => q = r
    PROVE  Cardinality(LetIn(t)) < 3 * Limit
  <1> DEFINE A == LetIn(t)
             B == 1 .. 3 * Limit - 1
  <1>1. number \in Injection(A, B)
    BY DEF Injection, IsInjective
  <1>2. IsFiniteSet(B) /\ Cardinality(B) = 3 * Limit - 1
    <2>1. 3 * Limit - 1 \in Int /\ 1 \in Int /\ ~(1 > 3 * Limit - 1)
      BY LimiterConstants
    <2>2. Cardinality(B) = (3 * Limit - 1) - 1 + 1 /\ IsFiniteSet(B)
      BY <2>1, FS_Interval
    <2>3. QED
      BY <2>2, LimiterConstants
  <1> HIDE DEF A, B
  <1>3. IsFiniteSet(A) /\ Cardinality(A) <= Cardinality(B)
    BY <1>1, <1>2, FS_Injection
  <1>4. Cardinality(A) \in Nat
    BY <1>3, FS_CardinalityType
  <1>5. QED
    BY <1>2, <1>3, <1>4, LimiterConstants DEF A

\* The earlier of the windows it meets.
LEMMA SmallestWindow ==
    ASSUME LimiterInv, NEW t \in Window .. MaxTime, LetIn(t) # {}
    PROVE  \E p \in LetIn(t) : \A q \in LetIn(t) : req[q].w >= req[p].w
  <1>1. PICK p \in LetIn(t) : TRUE
    OBVIOUS
  <1>2. \A r \in LetIn(t) : req[r].w \in Nat
    BY LetInFacts
  <1>3. CASE \A q \in LetIn(t) : req[q].w >= req[p].w
    BY <1>1, <1>3
  <1>4. ASSUME NEW q \in LetIn(t), ~(req[q].w >= req[p].w)
        PROVE  \A r \in LetIn(t) : req[r].w >= req[q].w
    <2> SUFFICES ASSUME NEW r \in LetIn(t), ~(req[r].w >= req[q].w)  PROVE FALSE
      OBVIOUS
    <2>1. req[q].w \in Nat /\ req[p].w \in Nat /\ req[r].w \in Nat
      BY <1>2
    <2>2. req[p].w = req[q].w + 1 /\ req[q].w = req[r].w + 1 /\ req[p].w = req[r].w + 1
      BY <1>4, <2>1, StretchMeetsTwo
    <2>3. QED
      BY <2>1, <2>2
  <1>5. QED
    BY <1>3, <1>4

\* In a stretch that meets each window with one key, two requests of a window
\* have different numbers.
LEMMA FewWithoutARemake ==
    ASSUME LimiterInv, NEW t \in Window .. MaxTime,
           \A q, r \in LetIn(t) : req[q].w = req[r].w => req[q].born = req[r].born
    PROVE  Cardinality(LetIn(t)) < 3 * Limit
  <1> DEFINE A == LetIn(t)
  <1>1. CASE A = {}
    BY <1>1, LimiterConstants, FS_EmptySet
  <1>2. CASE A # {}
    <2>1. PICK p \in A : \A q \in A : req[q].w >= req[p].w
      BY <1>2, SmallestWindow
    <2> DEFINE v == req[p].w
               number == [r \in A |-> IF req[r].w = v THEN req[r].n ELSE Limit + req[r].n]
    <2>2. ASSUME NEW r \in A
          PROVE  /\ req[r].n \in 1 .. Limit /\ req[r].w \in Nat
                 /\ req[r].w = v \/ req[r].w = v + 1
      <3>1. req[r].n \in 1 .. Limit /\ req[r].w \in Nat /\ v \in Nat
        BY LetInFacts
      <3>2. req[r].w > v => req[r].w = v + 1
        BY <3>1, StretchMeetsTwo
      <3>3. QED
        BY <2>1, <3>1, <3>2
    <2>3. number \in [A -> 1 .. 3 * Limit - 1]
      BY <2>2, LimiterConstants
    <2>4. ASSUME NEW q \in A, NEW r \in A, number[q] = number[r]  PROVE q = r
      <3>1. req[q].w = req[r].w /\ req[q].n = req[r].n
        BY <2>2, <2>4, LimiterConstants
      <3>2. QED
        BY <3>1, LetInFacts
    <2> HIDE DEF number
    <2>5. QED
      BY <2>3, <2>4, Numbered
  <1>3. QED
    BY <1>1, <1>2

\* In one that meets two keys of a window, those the first key counted have a
\* number above 1, and those of the window after it have one key.
LEMMA FewWithARemake ==
    ASSUME LimiterInv, NEW t \in Window .. MaxTime, NEW p \in LetIn(t), NEW s \in LetIn(t),
           req[p].w = req[s].w, req[p].born < req[s].born
    PROVE  Cardinality(LetIn(t)) < 3 * Limit
  <1> DEFINE A == LetIn(t)
             v == req[p].w
             number == [r \in A |->
                           IF req[r].w # v THEN 2 * Limit - 1 + req[r].n
                           ELSE IF req[r].born = req[s].born THEN req[r].n
                           ELSE Limit - 1 + req[r].n]
  <1>1. ASSUME NEW r \in A
        PROVE  /\ req[r].n \in 1 .. Limit /\ req[r].w \in Nat
               /\ req[r].w = v \/ req[r].w = v + 1
               /\ req[r].w = v =>
                   req[r].born = req[s].born \/ (req[r].born = req[p].born /\ req[r].n > 1)
    <2>1. req[r].n \in 1 .. Limit /\ req[r].w \in Nat /\ v \in Nat
      BY LetInFacts
    <2>2. req[r].w >= v
      BY TwoMakings
    <2>3. req[r].w > v => req[r].w = v + 1
      BY <2>1, StretchMeetsTwo
    <2>4. req[r].w = v =>
            req[r].born = req[s].born \/ (req[r].born = req[p].born /\ req[r].n > 1)
      BY TwoMakings
    <2>5. QED
      BY <2>1, <2>2, <2>3, <2>4
  <1>2. number \in [A -> 1 .. 3 * Limit - 1]
    <2>1. ASSUME NEW r \in A  PROVE number[r] \in 1 .. 3 * Limit - 1
      BY <1>1, LimiterConstants
    <2>2. QED
      BY <2>1
  <1>3. ASSUME NEW q \in A, NEW r \in A, req[q].w # v, req[q].w = req[r].w
        PROVE  req[q].born = req[r].born
    <2>1. req[q].born \in Nat /\ req[r].born \in Nat
      BY LetInFacts
    <2>2. ~(req[q].born < req[r].born)
      <3>1. SUFFICES ASSUME req[q].born < req[r].born  PROVE req[p].w >= req[q].w
        BY <1>1, <1>3
      <3>2. QED
        BY <1>3, <3>1, TwoMakings
    <2>3. ~(req[r].born < req[q].born)
      <3>1. SUFFICES ASSUME req[r].born < req[q].born  PROVE req[p].w >= req[r].w
        BY <1>1, <1>3
      <3>2. QED
        BY <1>3, <3>1, TwoMakings
    <2>4. QED
      BY <2>1, <2>2, <2>3
  <1>4. ASSUME NEW q \in A, NEW r \in A, number[q] = number[r]  PROVE q = r
    <2>1. CASE req[q].w # v /\ req[r].w # v
      <3>1. req[q].w = req[r].w /\ req[q].n = req[r].n
        BY <1>1, <1>4, <2>1, LimiterConstants
      <3>2. QED
        BY <1>3, <2>1, <3>1, LetInFacts
    <2>2. CASE req[q].w = v /\ req[r].w = v
      <3>1. req[q].born = req[r].born /\ req[q].n = req[r].n
        BY <1>1, <1>4, <2>2, LimiterConstants
      <3>2. QED
        BY <2>2, <3>1, LetInFacts
    <2>3. CASE req[q].w # v /\ req[r].w = v
      BY <1>1, <1>4, <2>3, LimiterConstants
    <2>4. CASE req[q].w = v /\ req[r].w # v
      BY <1>1, <1>4, <2>4, LimiterConstants
    <2>5. QED
      BY <2>1, <2>2, <2>3, <2>4
  <1> HIDE DEF number
  <1>5. QED
    BY <1>2, <1>4, Numbered

\* In a stretch of a little less than a window fewer than three times the limit are
\* let in, errors aside; who is refused was preceded by a full number in the window;
\* and a key without an expiry is the work of a request whose EXPIRE was lost
\* (ratelimit.go: the window by the replica's clock, INCR and EXPIRE in a pipeline).
THEOREM LimiterHolds == PartSpec => []LimitHolds
  <1>1. LimiterInv => LimitHolds
    <2> SUFFICES ASSUME LimiterInv  PROVE LimitHolds
      OBVIOUS
    <2>1. ASSUME NEW t \in Window .. MaxTime
          PROVE  Cardinality({r \in Limiter!CameIn(t) : req[r].pc = "admitted"}) < 3 * Limit
      <3>1. Cardinality(LetIn(t)) < 3 * Limit
        <4>1. CASE \A q, r \in LetIn(t) : req[q].w = req[r].w => req[q].born = req[r].born
          BY <4>1, FewWithoutARemake
        <4>2. CASE ~\A q, r \in LetIn(t) : req[q].w = req[r].w => req[q].born = req[r].born
          <5>1. PICK q \in LetIn(t), r \in LetIn(t) :
                    req[q].w = req[r].w /\ req[q].born # req[r].born
            BY <4>2
          <5>2. req[q].born \in Nat /\ req[r].born \in Nat
            BY LetInFacts
          <5>3. CASE req[q].born < req[r].born
            BY <5>1, <5>3, FewWithARemake
          <5>4. CASE req[r].born < req[q].born
            BY <5>1, <5>4, FewWithARemake
          <5>5. QED
            BY <5>1, <5>2, <5>3, <5>4
        <4>3. QED
          BY <4>1, <4>2
      <3>2. QED
        BY <3>1 DEF LetIn
    <2>2. ASSUME NEW r \in Request, req[r].pc = "refused"
          PROVE  Cardinality({q \in Request : req[q].n > 0 /\ req[q].w = req[r].w}) > Limit
      <3>1. /\ req[r].n > Limit /\ req[r].n > 0 /\ req[r].w \in Limiter!Windows
            /\ req[r].n \in Nat
        BY <2>2 DEF LimiterInv, LimiterTyped, RequestOK, RequestState
      <3>2. r \in CountedIn(req[r].w)
        BY <3>1 DEF CountedIn
      <3>3. req[r].n <= Cardinality(CountedIn(req[r].w)) /\ IsFiniteSet(CountedIn(req[r].w))
        BY <3>1, <3>2 DEF LimiterInv, Tallies
      <3>4. Cardinality(CountedIn(req[r].w)) \in Nat
        BY <3>3, FS_CardinalityType
      <3>5. Cardinality(CountedIn(req[r].w)) > Limit
        BY <3>1, <3>3, <3>4, LimiterConstants
      <3>6. QED
        BY <3>5 DEF CountedIn
    <2>3. LastingKeysLost
      BY DEF LimiterInv
    <2>4. \A S : Limiter!Cardinality(S) = Cardinality(S)
      BY Zenon DEF Limiter!Cardinality, Cardinality
    <2>5. Limiter!LimitHolds
      BY <2>1, <2>2, <2>3, <2>4 DEF Limiter!LimitHolds, LastingKeysLost
    <2>6. QED
      BY Zenon, <2>5 DEF LimitHolds
  <1>2. QED
    BY <1>1, LimiterAlways, PTL

=============================================================================
