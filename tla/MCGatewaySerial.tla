---------------------------- MODULE MCGatewaySerial ----------------------------
(* Frames of the shortest kinds: a reset, a local request whose reserved    *)
(* byte may be the start byte, and a radio request.  StartByte is scaled    *)
(* down to a number above the lengths and beside the codes, so that one     *)
(* taken for a length swallows no more than two requests.                   *)
EXTENDS GatewaySerial

MCRequests == {<<RESET_REQ, <<0>>>>, <<PAN_ID_REQ, <<StartByte>>>>, <<EP_LIST_REQ, <<1>>>>}
================================================================================
