------------------------------- MODULE MCSockets -------------------------------
(* The connections of a user, in one run: the presence of two sockets on    *)
(* two gateways, the client that makes such sockets, or the client's voice  *)
(* calls move.                                                              *)
EXTENDS MCPresence

CONSTANTS Conn, None, MaxMounts, MaxFaults, Channel, Caller, Media, MaxRooms, MaxChanges

VARIABLES
    part,       \* which of the three moves
    \* GatewayClient
    mounted, stopped, ws, retry, opens, sock, quiet, beat, again, online, retried, behind,
    crossed, mounts, faults,
    \* Voice
    room, rooms, ui, call, changes, overlapping

clientVars ==
    <<mounted, stopped, ws, retry, opens, sock, quiet, beat, again, online, retried, behind,
      crossed, mounts, faults>>
voiceVars == <<room, rooms, ui, call, changes, overlapping>>

Client == INSTANCE GatewayClient WITH timer <- retry
Calls == INSTANCE Voice WITH crossed <- overlapping

ASSUME ClientAssumption == Client!ConstantsAssumption
ASSUME CallsAssumption == Calls!ConstantsAssumption

PartInit == Init /\ Client!Init /\ Calls!Init /\ part \in {"presence", "client", "calls"}

Present(A) == part = "presence" /\ A /\ UNCHANGED <<part, clientVars, voiceVars>>
Connecting(A) == part = "client" /\ A /\ UNCHANGED <<part, vars, voiceVars>>
Calling(A) == part = "calls" /\ A /\ UNCHANGED <<part, vars, clientVars>>

PartNext == Present(Next) \/ Connecting(Client!Next) \/ Calling(Calls!Next)

partVars == <<part, vars, clientVars, voiceVars>>

\* The fairness of Presence and of GatewayClient.
PartSpec ==
    /\ PartInit /\ [][PartNext]_partVars
    /\ WF_partVars(Present(Tick))
    /\ \A s \in Session : WF_partVars(Present(Progress(s)))
    /\ WF_partVars(Connecting(Client!TimerFires))
    /\ WF_partVars(Connecting(Client!TokenHad \/ Client!TokenNotHad))
    /\ \A s \in Conn :
        /\ WF_partVars(Connecting(Client!Hello(s)))
        /\ WF_partVars(Connecting(Client!Ready(s)))
        /\ WF_partVars(Connecting(Client!HeartbeatFails(s)))
        /\ WF_partVars(Connecting(Client!Closed(s)))

AllTypesOK == TypeOK /\ Client!TypeOK /\ Calls!TypeOK
OneAttempt == Client!OneAttempt
ResyncsEveryGap == Client!ResyncsEveryGap
ComesBack == Client!ComesBack
ShowsTheCall == Calls!ShowsTheCall

=============================================================================
