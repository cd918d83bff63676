------------------------------ MODULE MCAccounts ------------------------------
(* Registrations with few addresses and names, and two renames at a time.  *)
EXTENDS Accounts, TLC

Symmetry ==
    Permutations(User) \cup Permutations(Email) \cup Permutations(Name) \cup Permutations(Patch)

\* The lost name needs no failure: the run of UniqueUsernames explores only
\* behaviours in which no statement fails.
NothingFailed == ~leaked /\ \A u \in User : reg[u].pc \notin {"undoBoth", "undoName"}

=============================================================================
