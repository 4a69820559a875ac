----------------------------- MODULE MCHandleDO -----------------------------
(* Small instances of the handle object for TLC. *)
EXTENDS HandleDOProperties

OneCall  == {1}
TwoCalls == {1, 2}

\* No override: the relay's own limits bound every call.
NoTimeout      == [c \in Calls |-> MailboxTtl + RelayCallTimeout]
\* The first call's socket asks for less than the second's.
UnevenTimeouts == [c \in Calls |-> c]
NoOverride     == [s \in 0..MaxSessions |-> RelayCallTimeout]
\* The listener that comes back has other leases and more time to execute.
UnevenSessions == [s \in 0..MaxSessions |-> IF s = 1 THEN 1 ELSE 2]
=============================================================================
