------------------------------ MODULE MCGateway ------------------------------
(* One socket or two of bob, who founded guild g or may join it.           *)
EXTENDS Gateway

CONSTANTS s1, s2, bob, g

OneSession == {s1}
TwoSessions == {s1, s2}
MCUser == {bob}
MCGuild == {g}
MCHolder == [s \in Session |-> bob]
NoFounder == [u \in MCUser |-> {}]
BobFounded == [u \in MCUser |-> {g}]

=============================================================================
