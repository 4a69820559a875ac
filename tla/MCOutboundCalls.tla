-------------------------- MODULE MCOutboundCalls --------------------------
(* Instances of OutboundCalls for TLC; its configurations give the bounds. *)
EXTENDS OutboundCallsProperties

CONSTANTS i1, i2        \* two identities

\* The pinned identity's key before and after a rotation, and another identity's.
MCBundles == {[id |-> i1, epoch |-> 1], [id |-> i1, epoch |-> 2], [id |-> i2, epoch |-> 1]}
=============================================================================
