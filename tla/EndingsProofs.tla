---------------------------- MODULE EndingsProofs ----------------------------
(***************************************************************************)
(* Proofs about Effects, for effects that last as long as they like and    *)
(* any number of plays and mounts, and the types of the composition        *)
(* MCEndings.                                                              *)
(***************************************************************************)
EXTENDS MCEndings, GatewayProofs

EffectType == Screen!EFFECT_TYPES
Effect == [n : 0 .. MaxPlays, type : EffectType, age : Nat]

\* ScreenRight is inductive by itself; the types need that every echo is of a play.
ScreenInv ==
    /\ effects \subseteq Effect
    /\ echoes <= plays
    /\ Screen!TypeOK
    /\ Screen!ScreenRight

-----------------------------------------------------------------------------
(* What the actions have in common.                                        *)

LEMMA Bounds ==
    /\ MaxPlays \in Nat /\ MaxMounts \in Nat
    /\ \A t \in EffectType : Life[t] \in Nat \ {0}
    /\ None \notin EffectType
  BY ScreenAssumption DEF Screen!LifeAssumption, EffectType

\* Thunder leaves a shake with the timer that ends it.
LEMMA ThunderRight ==
    ASSUME NEW type, Screen!Thunder(type), {shake, shakeTimer, reduced, audio} \subseteq BOOLEAN,
           shake => shakeTimer
    PROVE  /\ {shake', shakeTimer', audio'} \subseteq BOOLEAN
           /\ shake' => shakeTimer'
  BY DEF Screen!Thunder, Screen!thunderVars

\* A new effect is at the start of its life.
LEMMA NewEffect ==
    ASSUME NEW k \in 0 .. MaxPlays, NEW type \in EffectType
    PROVE  LET e == [n |-> k, type |-> type, age |-> 0]
           IN  e \in Effect /\ e.type \in EffectType /\ e.age \in 0 .. Life[e.type] - 1
  BY Bounds DEF Effect

\* What a frame leaves of the effects is older, and not at its end.
LEMMA AgedEffects ==
    ASSUME NEW dt \in 0 .. 1, effects \subseteq Effect
    PROVE  /\ Screen!Aged(dt) \subseteq Effect
           /\ \A e \in Screen!Aged(dt) : e.type \in EffectType /\ e.age \in 0 .. Life[e.type] - 1
  <1>1. ASSUME NEW o \in Effect
        PROVE  LET e == [o EXCEPT !.age = @ + dt]
               IN  e \in Effect /\ e.type = o.type /\ e.age \in Nat
    BY DEF Effect
  <1>2. ASSUME NEW e \in Screen!Aged(dt)
        PROVE  e \in Effect /\ e.type \in EffectType /\ e.age \in Nat /\ e.age < Life[e.type]
    <2>1. PICK o \in effects : e = [o EXCEPT !.age = @ + dt] /\ e.age < Life[e.type]
      BY DEF Screen!Aged
    <2>2. o \in Effect /\ o.type \in EffectType
      BY DEF Effect
    <2>3. QED
      BY <1>1, <2>1, <2>2
  <1>3. ASSUME NEW e \in Screen!Aged(dt)  PROVE  e.age \in 0 .. Life[e.type] - 1
    BY <1>2, Bounds
  <1>4. QED
    BY <1>2, <1>3

-----------------------------------------------------------------------------
(* The screen.                                                             *)

LEMMA ScreenInit ==
    Screen!Init => ScreenInv
  <1> SUFFICES ASSUME Screen!Init  PROVE  ScreenInv
    OBVIOUS
  <1>1. Screen!TypeOK
    <2>1. {mounted, stormMode, layer, raf, ink, shake, shakeTimer, reduced, audio} \subseteq BOOLEAN
      BY Zenon DEF Screen!Init
    <2>2. effects = {} /\ lastEffect = None /\ echoes = 0 /\ plays = 0 /\ mounts = 0
      BY DEF Screen!Init
    <2>3. QED
      BY <2>1, <2>2, Bounds DEF Screen!TypeOK
  <1>2. Screen!ScreenRight
    BY DEF Screen!Init, Screen!ScreenRight
  <1>3. QED
    BY <1>1, <1>2 DEF Screen!Init, ScreenInv

LEMMA MountKeeps ==
    ASSUME ScreenInv, Screen!Mount
    PROVE  ScreenInv'
  <1> USE DEF ScreenInv, EffectType
  <1>1. mounted' = TRUE /\ layer' = stormMode /\ raf' = (stormMode \/ lastEffect # None)
        /\ mounts' = mounts + 1 /\ mounts < MaxMounts
        /\ UNCHANGED <<stormMode, lastEffect, echoes, ink, reduced, plays>>
    BY DEF Screen!Mount, Screen!storeVars
  <1>2. {shake', shakeTimer', audio'} \subseteq BOOLEAN /\ (shake' => shakeTimer')
    BY ThunderRight DEF Screen!Mount, Screen!TypeOK, Screen!ScreenRight
  <1>3. \/ lastEffect = None /\ effects' = {}
        \/ lastEffect \in EffectType /\ effects' = {[n |-> 0, type |-> lastEffect, age |-> 0]}
    BY DEF Screen!Mount, Screen!TypeOK
  <1>4. effects' \subseteq Effect /\ \A e \in effects' : e.type \in EffectType /\ e.age \in 0 .. Life[e.type] - 1
    BY <1>3, Bounds, NewEffect
  <1>5. effects' # {} => lastEffect # None
    BY <1>3, Bounds
  <1>6. Screen!TypeOK'
    BY <1>1, <1>2, <1>4, Bounds DEF Screen!TypeOK
  <1>7. Screen!ScreenRight'
    <2>1. ~ink'
      BY <1>1 DEF Screen!TypeOK, Screen!ScreenRight, Screen!Mount
    <2>2. effects' # {} \/ layer' => raf'
      BY <1>1, <1>5
    <2>3. QED
      BY <1>1, <1>2, <2>1, <2>2 DEF Screen!ScreenRight
  <1>8. QED
    BY <1>1, <1>4, <1>6, <1>7

LEMMA PlayKeeps ==
    ASSUME ScreenInv, NEW type \in EffectType, Screen!Play(type),
           echoes' \in {echoes, echoes + 1}
    PROVE  ScreenInv'
  <1> USE DEF ScreenInv, EffectType
  <1>1. mounted /\ lastEffect' = type /\ raf' = TRUE /\ plays < MaxPlays /\ plays' = plays + 1
        /\ effects' = effects \cup {[n |-> plays + 1, type |-> type, age |-> 0]}
        /\ UNCHANGED <<mounted, stormMode, layer, ink, reduced, mounts>>
    BY DEF Screen!Play
  <1>2. {shake', shakeTimer', audio'} \subseteq BOOLEAN /\ (shake' => shakeTimer')
    BY ThunderRight DEF Screen!Play, Screen!TypeOK, Screen!ScreenRight
  <1>3. plays + 1 \in 0 .. MaxPlays /\ echoes' \in 0 .. MaxPlays /\ echoes' <= plays'
    BY <1>1, Bounds DEF Screen!TypeOK
  <1>4. effects' \subseteq Effect /\ \A e \in effects' : e.type \in EffectType /\ e.age \in 0 .. Life[e.type] - 1
    BY <1>1, <1>3, NewEffect DEF Screen!TypeOK
  <1>5. Screen!TypeOK'
    BY <1>1, <1>2, <1>3, <1>4, Bounds DEF Screen!TypeOK
  <1>6. Screen!ScreenRight'
    BY <1>1, <1>2 DEF Screen!TypeOK, Screen!ScreenRight
  <1>7. QED
    BY <1>3, <1>4, <1>5, <1>6

LEMMA ScreenStep ==
    ASSUME ScreenInv, [Screen!Next]_screenVars
    PROVE  ScreenInv'
  <1> USE DEF ScreenInv, EffectType
  <1>1. CASE Screen!Mount
    BY <1>1, MountKeeps
  <1>2. CASE Screen!Unmount
    BY <1>2 DEF Screen!Unmount, Screen!TypeOK, Screen!ScreenRight, Screen!storeVars
  <1>3. CASE Screen!ShakeEnds
    BY <1>3 DEF Screen!ShakeEnds, Screen!TypeOK, Screen!ScreenRight, Screen!storeVars, Screen!screenVars
  <1>4. CASE Screen!Resize
    BY <1>4 DEF Screen!Resize, Screen!TypeOK, Screen!ScreenRight, Screen!storeVars, Screen!thunderVars
  <1>5. CASE Screen!Echo
    <2>1. echoes' \in 0 .. MaxPlays /\ echoes' <= plays
      BY <1>5, Bounds DEF Screen!Echo, Screen!TypeOK
    <2>2. QED
      BY <1>5, <2>1 DEF Screen!Echo, Screen!TypeOK, Screen!ScreenRight, Screen!screenVars, Screen!thunderVars
  <1>6. CASE Screen!ToggleStorm
    BY <1>6 DEF Screen!ToggleStorm, Screen!StormChanges, Screen!TypeOK, Screen!ScreenRight, Screen!thunderVars
  <1>7. ASSUME NEW dt \in 0 .. 1, Screen!Frame(dt)  PROVE  ScreenInv'
    <2>1. /\ effects' \subseteq Effect
          /\ \A e \in effects' : e.type \in EffectType /\ e.age \in 0 .. Life[e.type] - 1
      BY <1>7, AgedEffects DEF Screen!Frame
    <2>2. UNCHANGED <<mounted, stormMode, lastEffect, echoes, layer, shake, shakeTimer, audio,
                      reduced, plays, mounts>>
      BY <1>7 DEF Screen!Frame, Screen!storeVars, Screen!thunderVars
    <2>3. Screen!TypeOK'
      BY <1>7, <2>1, <2>2 DEF Screen!TypeOK, Screen!Frame
    <2>4. Screen!ScreenRight'
      <3>1. raf /\ mounted
        BY <1>7 DEF Screen!ScreenRight, Screen!TypeOK, Screen!Frame
      <3>2. (raf' <=> effects' # {} \/ layer') /\ (ink' => raf')
        <4>1. raf' = (effects' # {} \/ layer) /\ ink' = (effects' # {} \/ layer) /\ layer' = layer
          BY <1>7, <2>2 DEF Screen!Frame
        <4>2. QED
          BY <4>1, Zenon
      <3>3. QED
        BY <2>2, <3>1, <3>2 DEF Screen!ScreenRight
    <2>5. QED
      BY <2>1, <2>2, <2>3, <2>4
  <1>8. ASSUME NEW type \in EffectType, Screen!Trigger(type) \/ Screen!Receive(type)
        PROVE  ScreenInv'
    BY <1>8, PlayKeeps DEF Screen!Trigger, Screen!Receive
  <1>9. CASE UNCHANGED screenVars
    BY <1>9 DEF screenVars, Screen!TypeOK, Screen!ScreenRight
  <1>10. QED
    BY <1>1, <1>2, <1>3, <1>4, <1>5, <1>6, <1>7, <1>8, <1>9 DEF Screen!Next

\* However effects, storms, resizes and remounts follow each other, there are
\* frames while there is something to draw and nothing is left when they stop.
THEOREM ScreenStaysRight ==
    PartSpec => []ScreenRight
  <1>1. PartInit => ScreenInv
    BY ScreenInit DEF PartInit
  <1>2. ScreenInv /\ [PartNext]_partVars => ScreenInv'
    <2>1. [PartNext]_partVars => [Screen!Next]_screenVars
      BY DEF PartNext, Shut, Play, partVars
    <2>2. QED
      BY <2>1, ScreenStep
  <1>3. ScreenInv => ScreenRight
    BY DEF ScreenInv, ScreenRight
  <1>4. QED
    BY <1>1, <1>2, <1>3, PTL DEF PartSpec

\* Every variable of the gateway and of the screen keeps its type.
THEOREM EndingsTypes ==
    PartSpec => []AllTypesOK
  <1>1. PartInit => ScreenInv /\ FeedInv /\ Drained
    BY ScreenInit, FeedInit DEF PartInit
  <1>2. ScreenInv /\ FeedInv /\ Drained /\ [PartNext]_partVars => (ScreenInv /\ FeedInv /\ Drained)'
    <2>1. [PartNext]_partVars => [Screen!Next]_screenVars /\ [Next]_vars
      BY DEF PartNext, Shut, Play, partVars
    <2>2. QED
      BY <2>1, ScreenStep, FeedStep
  <1>3. ScreenInv /\ FeedInv => AllTypesOK
    BY DEF ScreenInv, FeedInv, AllTypesOK
  <1>4. QED
    BY <1>1, <1>2, <1>3, PTL DEF PartSpec

=============================================================================
