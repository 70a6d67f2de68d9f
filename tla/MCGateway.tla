----------------------------- MODULE MCGateway -----------------------------
(* The gateway with a few requests and reconnections.                      *)
EXTENDS GatewayService
============================================================================
