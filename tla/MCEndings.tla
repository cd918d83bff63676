------------------------------ MODULE MCEndings ------------------------------
(* Two things that must come to an end, in one run: the shutdown of a       *)
(* gateway, and the effects on a client's screen.                           *)
EXTENDS MCGateway

CONSTANTS None, Lightning, Life, MaxPlays, MaxMounts

VARIABLES
    part,       \* which of the two moves
    mounted, stormMode, lastEffect, effects, layer, raf, ink, shake, shakeTimer, reduced,
    audio, echoes, plays, mounts

screenVars ==
    <<mounted, stormMode, lastEffect, effects, layer, raf, ink, shake, shakeTimer, reduced,
      audio, echoes, plays, mounts>>

\* Lightning is the one effect that shakes; the others differ in how long they last.
MCLife == [type \in {Lightning, "confetti"} |-> IF type = Lightning THEN 1 ELSE 2]

Screen == INSTANCE Effects

ASSUME ScreenAssumption == Screen!LifeAssumption

\* Which storm mode and motion a screen starts with matters to a screen only.
PartInit ==
    /\ Init /\ Screen!Init
    /\ part \in {"shutdown", "screen"}
    /\ part # "screen" => ~stormMode /\ ~reduced

Shut(A) == part = "shutdown" /\ A /\ UNCHANGED <<part, screenVars>>
Play(A) == part = "screen" /\ A /\ UNCHANGED <<part, vars>>

PartNext == Shut(Next) \/ Play(Screen!Next)

partVars == <<part, vars, screenVars>>

PartSpec ==
    /\ PartInit /\ [][PartNext]_partVars
    /\ \A s \in Session :
        /\ WF_partVars(Shut(SessionStep(s)))
        /\ WF_partVars(Shut(closed[s] # "open" /\ WriterStops(s)))
        /\ SF_partVars(Shut(~writing[s] /\ ReadError(s)))
        /\ WF_partVars(Shut(DispatchTo(s)))
        /\ WF_partVars(Shut(DropSession(s)))
        /\ WF_partVars(Shut(ShutdownSession(s)))
    /\ WF_partVars(Shut(TakeEvent))
    /\ WF_partVars(Shut(DropAllSessions))
    /\ WF_partVars(Shut(Exit))
    /\ WF_partVars(Play(Screen!Frame(1)))
    /\ WF_partVars(Play(Screen!ShakeEnds))

AllTypesOK == TypeOK /\ Screen!TypeOK
ScreenRight == Screen!ScreenRight
EffectsEnd == Screen!EffectsEnd

=============================================================================
