-------------------------------- MODULE MCVoice --------------------------------
(* Two overlapping clicks on voice channels and nothing but the answers to  *)
(* them: no toggles and no other participant.                               *)
EXTENDS Voice

CONSTANTS v1, v2, c1, c2

MCChannel == {v1, v2}
MCCaller == {c1, c2}
MCMedia == {"mic", "screen"}

=============================================================================
