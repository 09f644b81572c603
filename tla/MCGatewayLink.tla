---------------------------- MODULE MCGatewayLink ----------------------------
(* Small instances of GatewayLink for TLC: the bounds come from the cfg.    *)
EXTENDS GatewayLink
==============================================================================
