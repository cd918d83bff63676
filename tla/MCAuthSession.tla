----------------------------- MODULE MCAuthSession -----------------------------
(* What a browser holds of its account, in one run: either the refresh      *)
(* tokens of two tabs move (one login and two rotations, or two logins), or *)
(* the user's record and its cache, or the record and the screen.  (Neither *)
(* cache nor screen reads the other, so they are checked one at a time.)    *)
EXTENDS AuthSession, TLC

CONSTANTS Ttl, MaxWrites, MaxReadies

VARIABLES
    part,       \* which of the three moves
    row, wanted, reqs, cache, lookup, user, card, ready, fetch, apart, cardApart, overlap,
    writes, readies

recordVars ==
    <<row, wanted, reqs, cache, lookup, user, card, ready, fetch, apart, cardApart, overlap,
      writes, readies>>

Profiles == INSTANCE Profile

ASSUME ProfileIsSound == Profiles!ProfileAssumption

Symmetry == Permutations(Tab)

PartInit == Init /\ Profiles!Init /\ part \in {"tokens", "served", "shown"}

PartNext ==
    /\ \/ part = "tokens" /\ Next /\ UNCHANGED recordVars
       \/ part = "served" /\ (Profiles!Change \/ Profiles!Serve) /\ UNCHANGED vars
       \/ part = "shown" /\ (Profiles!Change \/ Profiles!Show) /\ UNCHANGED vars
    /\ UNCHANGED part

PartSpec == PartInit /\ [][PartNext]_<<part, vars, recordVars>>

AllTypesOK == IF part = "tokens" THEN TypeOK ELSE Profiles!TypeOK
ProfileShown == Profiles!ProfileShown
ServedIsFresh == Profiles!ServedIsFresh

=============================================================================
