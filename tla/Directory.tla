------------------------------- MODULE Directory -------------------------------
(***************************************************************************)
(* What registration and renaming promise, without tables, statements or   *)
(* failures: accounts are added one at a time, each with an address and a  *)
(* name nobody else has; an account keeps its address and never goes away; *)
(* a rename takes a name nobody else has.  Names are promised as long as   *)
(* no two renames of one account race.  Accounts implements this.          *)
(***************************************************************************)
CONSTANTS User, Email, Name

VARIABLES
    accounts,    \* user id -> [email, name], for those that exist
    racing       \* two renames of one account have raced

vars == <<accounts, racing>>

Init == accounts = <<>> /\ racing = FALSE

EmailFree(e) == \A v \in DOMAIN accounts : accounts[v].email # e
NameFree(n) == racing \/ \A v \in DOMAIN accounts : accounts[v].name # n

\* The account of u is as given, the others are as they were.
Set(u, e, n) ==
    accounts' = [v \in DOMAIN accounts \cup {u} |->
                    IF v = u THEN [email |-> e, name |-> n] ELSE accounts[v]]

Add(u, e, n) ==
    /\ u \notin DOMAIN accounts /\ EmailFree(e) /\ NameFree(n)
    /\ Set(u, e, n)
    /\ UNCHANGED racing

Rename(u, n) ==
    /\ u \in DOMAIN accounts /\ NameFree(n)
    /\ Set(u, accounts[u].email, n)
    /\ UNCHANGED racing

Race == racing' = TRUE /\ UNCHANGED accounts

Next ==
    \/ \E u \in User, e \in Email, n \in Name : Add(u, e, n)
    \/ \E u \in User, n \in Name : Rename(u, n)
    \/ Race

Spec == Init /\ [][Next]_vars

=============================================================================
