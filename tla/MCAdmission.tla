------------------------------ MODULE MCAdmission ------------------------------
(* What the api lets in, in one run: either accounts are registered and     *)
(* renamed, or requests are counted against a limit.                        *)
EXTENDS MCAccounts

CONSTANTS Request, Limit, Window, Delay, Skew, MaxTime

VARIABLES
    part,       \* which of the two moves
    now, keys, req

limiterVars == <<now, keys, req>>

Limiter == INSTANCE RateLimit

ASSUME LimiterIsSound == Limiter!LimiterAssumption

PartInit == Init /\ Limiter!Init /\ part \in {"accounts", "limiter"}

PartNext ==
    /\ \/ part = "accounts" /\ Next /\ UNCHANGED limiterVars
       \/ part = "limiter" /\ Limiter!Next /\ UNCHANGED vars
    /\ UNCHANGED part

PartSpec == PartInit /\ [][PartNext]_<<part, vars, limiterVars>>

LimitHolds == Limiter!LimitHolds

=============================================================================
