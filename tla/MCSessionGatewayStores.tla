----------------------- MODULE MCSessionGatewayStores -----------------------
(* The small instances of the gateway, and what its handlers leave in the stores. *)
EXTENDS MCSessionGateway, SessionGatewayStores
=============================================================================
