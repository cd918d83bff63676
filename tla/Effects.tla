-------------------------------- MODULE Effects --------------------------------
(***************************************************************************)
(* The broadcast effects of one client: the store that plays and sends     *)
(* them (store/effectsStore.js, the EFFECT case of store/chatStore.js,     *)
(* httpapi/effect_handlers.go) and the overlay that draws them             *)
(* (components/EffectsOverlay.jsx with the engine of lib/effects.js).      *)
(*                                                                         *)
(* What an effect looks like is left out; it has an age, and something of  *)
(* it is to be seen until its life is over: the last frame draws it with   *)
(* no opacity left, or not at all.                                         *)
(*                                                                         *)
(* A definition Name_Variant is Name with a bug put in; only the mutation  *)
(* runs use it.                                                            *)
(***************************************************************************)
EXTENDS Integers, FiniteSets

CONSTANTS
    Life,        \* type of effect -> the age it reaches; a frame adds 0 or 1 to it
    Lightning, None,
    MaxPlays, MaxMounts   \* bounds

EFFECT_TYPES == DOMAIN Life

LifeAssumption ==
    Lightning \in EFFECT_TYPES /\ None \notin EFFECT_TYPES
    /\ \A t \in EFFECT_TYPES : Life[t] \in Nat \ {0}
    /\ MaxPlays \in Nat /\ MaxMounts \in Nat

VARIABLES
    mounted,     \* the overlay is
    stormMode, lastEffect,   \* the store
    effects,     \* effectsRef: the effects being played
    layer,       \* stormRef is not null
    raf,         \* a frame is requested
    ink,         \* the canvas shows something
    shake, shakeTimer,       \* the shell shakes; a timer will end it
    reduced,     \* prefersReducedMotion
    audio,       \* there is an audio context
    echoes,      \* own broadcasts on their way back
    plays, mounts            \* numbers of each so far (bounds)

storeVars == <<stormMode, lastEffect, echoes>>
screenVars == <<effects, layer, raf, ink>>
thunderVars == <<shake, shakeTimer, audio>>
vars == <<mounted, storeVars, screenVars, thunderVars, reduced, plays, mounts>>

TypeOK ==
    /\ {mounted, stormMode, layer, raf, ink, shake, shakeTimer, reduced, audio} \subseteq BOOLEAN
    /\ lastEffect \in EFFECT_TYPES \cup {None}
    /\ \A e \in effects : e.type \in EFFECT_TYPES /\ e.age \in 0 .. Life[e.type] - 1
    /\ echoes \in 0 .. MaxPlays /\ plays \in 0 .. MaxPlays /\ mounts \in 0 .. MaxMounts

\* loadStorm may find either.
Init ==
    /\ mounted = FALSE /\ stormMode \in BOOLEAN /\ lastEffect = None
    /\ effects = {} /\ layer = FALSE /\ raf = FALSE /\ ink = FALSE
    /\ shake = FALSE /\ shakeTimer = FALSE /\ reduced \in BOOLEAN /\ audio = FALSE
    /\ echoes = 0 /\ plays = 0 /\ mounts = 0

-----------------------------------------------------------------------------
(* The overlay.                                                            *)

\* The one-shot hook: makeEffect, thunder if the browser lets it, and the shake.
Thunder(type) ==
    IF type # Lightning THEN UNCHANGED thunderVars
    ELSE /\ audio' \in {audio, TRUE}
         /\ IF reduced THEN UNCHANGED <<shake, shakeTimer>>
            ELSE shake' = TRUE /\ shakeTimer' = TRUE

\* The frame hook and the storm hook run before it; the last effect is
\* played once more.
Mount ==
    /\ ~mounted /\ mounts < MaxMounts
    /\ mounted' = TRUE /\ mounts' = mounts + 1
    /\ layer' = stormMode
    /\ effects' = IF lastEffect = None THEN {}
                  ELSE {[n |-> 0, type |-> lastEffect, age |-> 0]}
    /\ raf' = (stormMode \/ lastEffect # None)
    /\ Thunder(lastEffect)
    /\ UNCHANGED <<storeVars, ink, reduced, plays>>

\* The cleanups; the canvas goes with the overlay.
Unmount ==
    /\ mounted /\ mounted' = FALSE
    /\ raf' = FALSE /\ effects' = {} /\ layer' = FALSE /\ ink' = FALSE
    /\ shake' = FALSE /\ shakeTimer' = FALSE /\ audio' = FALSE
    /\ UNCHANGED <<storeVars, reduced, plays, mounts>>

Aged(dt) ==
    {e \in {[o EXCEPT !.age = @ + dt] : o \in effects} : e.age < Life[e.type]}

\* The canvas is cleared and drawn; the loop goes on while there is anything
\* to draw.  Two frames may have the same time.
Frame_NeverStops(dt) ==
    /\ raf
    /\ effects' = {[e EXCEPT !.age = (@ + dt) % Life[e.type]] : e \in effects}
    /\ ink' = (effects' # {} \/ layer)
    /\ raf' = (effects' # {} \/ layer)
    /\ UNCHANGED <<mounted, storeVars, layer, thunderVars, reduced, plays, mounts>>

Frame(dt) ==
    /\ raf
    /\ effects' = Aged(dt)
    /\ ink' = (effects' # {} \/ layer)
    /\ raf' = (effects' # {} \/ layer)
    /\ UNCHANGED <<mounted, storeVars, layer, thunderVars, reduced, plays, mounts>>

ShakeEnds ==
    /\ shakeTimer /\ shakeTimer' = FALSE /\ shake' = FALSE
    /\ UNCHANGED <<mounted, storeVars, screenVars, reduced, audio, plays, mounts>>

\* Setting its size clears the canvas.
Resize ==
    /\ mounted /\ ink' = FALSE
    /\ UNCHANGED <<mounted, storeVars, effects, layer, raf, thunderVars, reduced, plays, mounts>>

-----------------------------------------------------------------------------
(* The store.                                                              *)

\* playLocal, and the hook that follows it.
Play(type) ==
    /\ mounted /\ plays < MaxPlays /\ plays' = plays + 1
    /\ lastEffect' = type
    /\ effects' = effects \cup {[n |-> plays + 1, type |-> type, age |-> 0]}
    /\ raf' = TRUE
    /\ Thunder(type)
    /\ UNCHANGED <<mounted, stormMode, layer, ink, reduced, mounts>>

\* The button or Alt+L; the broadcast may fail or be turned down as one too many.
Trigger(type) ==
    /\ Play(type)
    /\ echoes' \in {echoes, echoes + 1}

\* EFFECT of somebody else in the guild on the screen.
Receive(type) == Play(type) /\ UNCHANGED echoes

\* EFFECT of mine, or of another guild: it was played, or is not to be.
Echo ==
    /\ echoes > 0 /\ echoes' = echoes - 1
    /\ UNCHANGED <<mounted, stormMode, lastEffect, screenVars, thunderVars, reduced, plays, mounts>>

StormChanges_StopsLoop ==
    /\ layer' = stormMode'
    /\ raf' = (stormMode' \/ effects # {})

\* The storm hook: ensureLoop when it begins.  When it ends the loop goes on
\* by itself for the frame that clears the canvas.
StormChanges ==
    /\ layer' = stormMode'
    /\ raf' = (raf \/ stormMode')

ToggleStorm ==
    /\ mounted
    /\ stormMode' = ~stormMode
    /\ StormChanges
    /\ UNCHANGED <<mounted, lastEffect, echoes, effects, ink, thunderVars, reduced, plays, mounts>>

Next ==
    \/ Mount \/ Unmount \/ ShakeEnds \/ Resize \/ Echo \/ ToggleStorm
    \/ \E dt \in 0 .. 1 : Frame(dt)
    \/ \E type \in EFFECT_TYPES : Trigger(type) \/ Receive(type)

Spec == Init /\ [][Next]_vars

Fairness == WF_vars(Frame(1)) /\ WF_vars(ShakeEnds)
FairSpec == Spec /\ Fairness

-----------------------------------------------------------------------------
(* Properties.                                                             *)

\* Frames are requested while there is something to draw, and when they stop
\* nothing is left on the canvas; a shake has a timer that ends it, and an
\* overlay that is gone leaves nothing behind, however effects, storms, resizes
\* and remounts follow each other.
ScreenRight ==
    /\ effects # {} \/ layer => raf
    /\ ink => raf
    /\ shake => shakeTimer
    /\ mounted => layer = stormMode
    /\ ~mounted => ~raf /\ ~shake /\ ~shakeTimer /\ ~audio

\* "Effects are ephemeral" (effectsStore.js:19): each ends, and its shake too.
EffectsEnd == <>[](effects = {} /\ ~shake)

=============================================================================
