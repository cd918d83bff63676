------------------------------- MODULE Accounts -------------------------------
(***************************************************************************)
(* Registration and renaming: Users.Create and Users.UpdateUsername        *)
(* (store/users.go) over the tables users, users_by_email and              *)
(* users_by_username, as called by handleRegister and handlePatchMe.       *)
(*                                                                         *)
(* Each statement sent to ScyllaDB is a step, so requests of any replicas  *)
(* interleave between statements.  A statement may fail, and a failed      *)
(* write may have been applied all the same (a timeout): a request never   *)
(* knows.  An api crash is a request that takes no further step.           *)
(*                                                                         *)
(* A definition Name_Variant is Name with a bug put in; only the mutation  *)
(* runs use it.                                                            *)
(***************************************************************************)
EXTENDS Functions

CONSTANTS
    User,     \* user ids; handleRegister draws a new one for each request
    Email,    \* normalised addresses
    Name,     \* valid usernames
    Patch     \* PATCH /users/@me requests that may be under way at once

VARIABLES
    byEmail,     \* users_by_email: email -> user_id
    byName,      \* users_by_username: username -> user_id
    users,       \* users: user_id -> the columns used here
    reg,         \* the registration that drew each id
    patch,       \* the rename each request is at
    leaked,      \* a failed statement has left or may have left a row behind (history)
    overlapped   \* two renames of one user have been under way at once (history)

vars == <<byEmail, byName, users, reg, patch, leaked, overlapped>>

(***************************************************************************)
(* emailed    users_by_email is reserved                                   *)
(* named      users_by_username is reserved too                            *)
(* undoEmail  the username is taken: the email is to be released           *)
(* undoBoth   the insert failed: email, then username, are to be released  *)
(* undoName   the email has been released                                  *)
(***************************************************************************)
Registering ==
    [pc : {"emailed", "named", "undoEmail", "undoBoth", "undoName"}, email : Email, name : Name]
Fresh == [pc |-> "new"]
Created == [pc |-> "created"]        \* 201: the client holds tokens
Refused == [pc |-> "refused"]        \* 409 or 500

Renaming ==
    [pc : {"reserving", "updating", "deleting"}, user : User, old : Name, new : Name]
Idle == [pc |-> "idle"]

Row == [email : Email, name : Name]
Table(K, V) == UNION {[D -> V] : D \in SUBSET K}

TypeOK ==
    /\ byEmail \in Table(Email, User)
    /\ byName \in Table(Name, User)
    /\ users \in Table(User, Row)
    /\ reg \in [User -> Registering \cup {Fresh, Created, Refused}]
    /\ patch \in [Patch -> Renaming \cup {Idle}]
    /\ leaked \in BOOLEAN
    /\ overlapped \in BOOLEAN

Init ==
    /\ byEmail = <<>> /\ byName = <<>> /\ users = <<>>
    /\ reg = [u \in User |-> Fresh]
    /\ patch = [p \in Patch |-> Idle]
    /\ leaked = FALSE
    /\ overlapped = FALSE

Insert(table, k, v) ==
    [x \in DOMAIN table \cup {k} |-> IF x = k THEN v ELSE table[x]]
Delete(table, k) == Restrict(table, DOMAIN table \ {k})

-----------------------------------------------------------------------------
(* Users.Create                                                            *)

GotoReg(u, pc) == reg' = [reg EXCEPT ![u].pc = pc]
End(u, outcome) == reg' = [reg EXCEPT ![u] = outcome]

ReserveEmail_NoLWT(u, e, n) ==
    /\ reg[u] = Fresh
    /\ byEmail' = Insert(byEmail, e, u)
    /\ reg' = [reg EXCEPT ![u] = [pc |-> "emailed", email |-> e, name |-> n]]
    /\ UNCHANGED <<byName, users, patch, leaked, overlapped>>

\* INSERT INTO users_by_email ... IF NOT EXISTS.
ReserveEmail(u, e, n) ==
    /\ reg[u] = Fresh
    /\ IF e \in DOMAIN byEmail
       THEN /\ End(u, Refused)
            /\ UNCHANGED byEmail
       ELSE /\ byEmail' = Insert(byEmail, e, u)
            /\ reg' = [reg EXCEPT ![u] = [pc |-> "emailed", email |-> e, name |-> n]]
    /\ UNCHANGED <<byName, users, patch, leaked, overlapped>>

ReserveEmailFails(u, e) ==
    /\ reg[u] = Fresh
    /\ \/ UNCHANGED byEmail
       \/ e \notin DOMAIN byEmail /\ byEmail' = Insert(byEmail, e, u)
    /\ End(u, Refused)
    /\ leaked' = TRUE
    /\ UNCHANGED <<byName, users, patch, overlapped>>

ReserveName_NoRollback(u) ==
    /\ reg[u].pc = "emailed"
    /\ IF reg[u].name \in DOMAIN byName
       THEN /\ End(u, Refused)
            /\ UNCHANGED byName
       ELSE /\ byName' = Insert(byName, reg[u].name, u)
            /\ GotoReg(u, "named")
    /\ UNCHANGED <<byEmail, users, patch, leaked, overlapped>>

\* INSERT INTO users_by_username ... IF NOT EXISTS.
ReserveName(u) ==
    /\ reg[u].pc = "emailed"
    /\ IF reg[u].name \in DOMAIN byName
       THEN /\ GotoReg(u, "undoEmail")
            /\ UNCHANGED byName
       ELSE /\ byName' = Insert(byName, reg[u].name, u)
            /\ GotoReg(u, "named")
    /\ UNCHANGED <<byEmail, users, patch, leaked, overlapped>>

ReserveNameFails(u) ==
    /\ reg[u].pc = "emailed"
    /\ \/ UNCHANGED byName
       \/ reg[u].name \notin DOMAIN byName /\ byName' = Insert(byName, reg[u].name, u)
    /\ GotoReg(u, "undoEmail")
    /\ leaked' = TRUE
    /\ UNCHANGED <<byEmail, users, patch, overlapped>>

InsertUser(u) ==
    /\ reg[u].pc = "named"
    /\ users' = Insert(users, u, [email |-> reg[u].email, name |-> reg[u].name])
    /\ End(u, Created)
    /\ UNCHANGED <<byEmail, byName, patch, leaked, overlapped>>

InsertUserFails(u) ==
    /\ reg[u].pc = "named"
    /\ \/ UNCHANGED users
       \/ users' = Insert(users, u, [email |-> reg[u].email, name |-> reg[u].name])
    /\ GotoReg(u, "undoBoth")
    /\ UNCHANGED <<byEmail, byName, patch, leaked, overlapped>>

\* The rollbacks: DELETE ... IF EXISTS, whoever the row names; errors are ignored.
AfterEmail(u) ==
    IF reg[u].pc = "undoBoth" THEN GotoReg(u, "undoName") ELSE End(u, Refused)

ReleaseEmail(u) ==
    /\ reg[u].pc \in {"undoEmail", "undoBoth"}
    /\ byEmail' = Delete(byEmail, reg[u].email)
    /\ AfterEmail(u)
    /\ UNCHANGED <<byName, users, patch, leaked, overlapped>>

ReleaseName(u) ==
    /\ reg[u].pc = "undoName"
    /\ byName' = Delete(byName, reg[u].name)
    /\ End(u, Refused)
    /\ UNCHANGED <<byEmail, users, patch, leaked, overlapped>>

ReleaseFails(u) ==
    /\ leaked' = TRUE
    /\ \/ reg[u].pc \in {"undoEmail", "undoBoth"} /\ AfterEmail(u)
       \/ reg[u].pc = "undoName" /\ End(u, Refused)
    /\ UNCHANGED <<byEmail, byName, users, patch, overlapped>>

-----------------------------------------------------------------------------
(* handlePatchMe and Users.UpdateUsername                                  *)

Under(p, pc) == patch[p].pc = pc
GotoPatch(p, pc) == patch' = [patch EXCEPT ![p].pc = pc]
Return(p) == patch' = [patch EXCEPT ![p] = Idle]

\* currentUser reads the row; the old name is the one it holds now.
StartRename(p, u, n) ==
    /\ patch[p] = Idle
    /\ reg[u] = Created
    /\ n # users[u].name
    /\ patch' = [patch EXCEPT ![p] =
                    [pc |-> "reserving", user |-> u, old |-> users[u].name, new |-> n]]
    /\ overlapped' = (overlapped \/ \E q \in Patch : patch[q] # Idle /\ patch[q].user = u)
    /\ UNCHANGED <<byEmail, byName, users, reg, leaked>>

ReserveNew(p) ==
    /\ Under(p, "reserving")
    /\ IF patch[p].new \in DOMAIN byName
       THEN /\ Return(p)
            /\ UNCHANGED byName
       ELSE /\ byName' = Insert(byName, patch[p].new, patch[p].user)
            /\ GotoPatch(p, "updating")
    /\ UNCHANGED <<byEmail, users, reg, leaked, overlapped>>

ReserveNewFails(p) ==
    /\ Under(p, "reserving")
    /\ \/ UNCHANGED byName
       \/ /\ patch[p].new \notin DOMAIN byName
          /\ byName' = Insert(byName, patch[p].new, patch[p].user)
    /\ Return(p)
    /\ leaked' = TRUE
    /\ UNCHANGED <<byEmail, users, reg, overlapped>>

UpdateName(p) ==
    /\ Under(p, "updating")
    /\ users' = [users EXCEPT ![patch[p].user].name = patch[p].new]
    /\ GotoPatch(p, "deleting")
    /\ UNCHANGED <<byEmail, byName, reg, leaked, overlapped>>

UpdateNameFails_ReleasesNew(p) ==
    /\ Under(p, "updating")
    /\ \/ UNCHANGED users
       \/ users' = [users EXCEPT ![patch[p].user].name = patch[p].new]
    /\ byName' = Delete(byName, patch[p].new)
    /\ Return(p)
    /\ leaked' = TRUE
    /\ UNCHANGED <<byEmail, reg, overlapped>>

UpdateNameFails(p) ==
    /\ Under(p, "updating")
    /\ \/ UNCHANGED users
       \/ users' = [users EXCEPT ![patch[p].user].name = patch[p].new]
    /\ Return(p)
    /\ leaked' = TRUE
    /\ UNCHANGED <<byEmail, byName, reg, overlapped>>

\* DELETE FROM users_by_username, whoever the row names.
DeleteOld(p) ==
    /\ Under(p, "deleting")
    /\ byName' = Delete(byName, patch[p].old)
    /\ Return(p)
    /\ UNCHANGED <<byEmail, users, reg, leaked, overlapped>>

DeleteOldFails(p) ==
    /\ Under(p, "deleting")
    /\ Return(p)
    /\ leaked' = TRUE
    /\ UNCHANGED <<byEmail, byName, users, reg, overlapped>>

-----------------------------------------------------------------------------
Create(u) ==
    \/ \E e \in Email : ReserveEmailFails(u, e) \/ \E n \in Name : ReserveEmail(u, e, n)
    \/ ReserveName(u) \/ ReserveNameFails(u)
    \/ InsertUser(u) \/ InsertUserFails(u)
    \/ ReleaseEmail(u) \/ ReleaseName(u) \/ ReleaseFails(u)

UpdateUsername(p) ==
    \/ \E u \in User, n \in Name : StartRename(p, u, n)
    \/ ReserveNew(p) \/ ReserveNewFails(p)
    \/ UpdateName(p) \/ UpdateNameFails(p)
    \/ DeleteOld(p) \/ DeleteOldFails(p)

Next == (\E u \in User : Create(u)) \/ (\E p \in Patch : UpdateUsername(p))

Spec == Init /\ [][Next]_vars

-----------------------------------------------------------------------------
(* Properties.                                                             *)

\* An account that was created can always log in: whatever fails and whoever
\* else registers, renames or rolls back, its email still resolves to it
\* (GetByEmail), so no two accounts share an address.
EmailsHeld ==
    \A u \in User : reg[u] = Created =>
        /\ users[u].email \in DOMAIN byEmail
        /\ byEmail[users[u].email] = u

\* The name an account goes by is reserved for it, so no two accounts share one,
\* whatever fails: as long as no user's renames overlap.
NamesHeld ==
    ~overlapped =>
        \A u \in User : reg[u] = Created =>
            /\ users[u].name \in DOMAIN byName
            /\ byName[users[u].name] = u

\* No address and no name is burned: unless a statement failed whose effect is
\* not undone, each reservation belongs to an account that uses it or to a
\* request that is still under way ("Roll back the email reservation so the
\* address is not burned").  A failed insert into users is undone.
Uses(u, n) ==
    \/ reg[u] = Created /\ users[u].name = n
    \/ reg[u] \in Registering /\ reg[u].name = n
    \/ \E p \in Patch : patch[p] # Idle /\ patch[p].user = u /\ n \in {patch[p].old, patch[p].new}

NothingBurned ==
    ~leaked =>
        /\ \A e \in DOMAIN byEmail :
              LET u == byEmail[e]
              IN  \/ reg[u] = Created /\ users[u].email = e
                  \/ reg[u] \in Registering /\ reg[u].email = e
        /\ ~overlapped => \A n \in DOMAIN byName : Uses(byName[n], n)

\* ARCHITECTURE.md: "Uniqueness of email/username enforced with LWT": no two
\* accounts go by the same name.
UniqueUsernames ==
    \A u, v \in User :
        (reg[u] = Created /\ reg[v] = Created /\ users[u].name = users[v].name) => u = v

-----------------------------------------------------------------------------
(* The accounts that clients know of.                                      *)

accounts == [u \in {v \in User : reg[v] = Created} |-> users[u]]

Promised == INSTANCE Directory WITH racing <- overlapped

\* Seen from outside, each statement adds one account with an address and a
\* name of its own, gives one account another free name, or does nothing.
ImplementsDirectory == Promised!Spec

=============================================================================
