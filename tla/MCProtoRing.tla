---------------------------- MODULE MCProtoRing -----------------------------
(* ProtoRing with three slots and five commands between resets: the command  *)
(* ring fills and wraps, and the completion log overwrites its oldest        *)
(* entries.  Length 5 is cut to MAX_PAYLOAD.                                 *)
EXTENDS ProtoRing
=============================================================================
