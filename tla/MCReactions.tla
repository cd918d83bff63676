------------------------------ MODULE MCReactions ------------------------------
(* Me and two others react to a message that is edited.                     *)
EXTENDS Reactions

CONSTANTS me, u1, u2

MCOther == {u1, u2}

=============================================================================
