---------------------------- MODULE MCGatewayClient ----------------------------
(* One login whose first attempt to connect may fail.                       *)
EXTENDS GatewayClient

CONSTANTS c1, c2

MCConn == {c1, c2}

=============================================================================
