----------------------------- MODULE MCProtoHw ------------------------------
(* ProtoHw with a buffer of three bytes and payloads of at most two.  Length *)
(* 4 is cut to MAX_PAYLOAD, and length 0 is a command without a payload.     *)
EXTENDS ProtoHw
=============================================================================
