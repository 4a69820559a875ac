--------------------------- MODULE CallLifecycle ---------------------------
(***************************************************************************)
(* What the relay promises of every call, whatever carries it: a phase     *)
(* that only moves forward, one end, and an audit trail that records each  *)
(* transition in the same atomic step that makes it.                       *)
(* (apps/relay/src/call-lifecycle.ts, docs/site/reference/audit-events.mdx)*)
(***************************************************************************)
CONSTANT Calls

VARIABLES phase,       \* of each call, "none" before and "gone" after its record
          trail        \* the audit events each call has given rise to

LivePhases == {"ringing", "answered", "working"}

\* The terminal states and the events that may record them.
EndEvents == [completed |-> {"complete"}, failed |-> {"fail", "timeout"},
              canceled |-> {"cancel"}, rejected |-> {"fail"}]
Ends == DOMAIN EndEvents

Init == /\ phase = [c \in Calls |-> "none"]
        /\ trail = [c \in Calls |-> {}]

Move(c, p, events) == /\ phase' = [phase EXCEPT ![c] = p]
                      /\ trail' = [trail EXCEPT ![c] = @ \cup events]

\* beginAuthorizedCall
Begin(c) == phase[c] = "none" /\ Move(c, "ringing", {"submit"})

\* advanceAuthorizedCall: never backward; work implies acceptance
Accept(c) == phase[c] = "ringing" /\ Move(c, "answered", {"accept"})
Start(c)  == phase[c] \in {"ringing", "answered"} /\ Move(c, "working", {"accept"})

\* terminateAuthorizedCall: only once
End(c, p) == /\ phase[c] \in LivePhases
             /\ \E e \in EndEvents[p] : Move(c, p, {e})

\* A synchronous call's record goes at its deadline, ended or not; a durable
\* one's only after its end.
Forget(c) == phase[c] \in Ends /\ Move(c, "gone", {})
Expire(c) == phase[c] \in LivePhases /\ Move(c, "gone", {"timeout"})

Next == \E c \in Calls :
          \/ Begin(c) \/ Accept(c) \/ Start(c) \/ Forget(c) \/ Expire(c)
          \/ \E p \in Ends : End(c, p)

Spec == Init /\ [][Next]_<<phase, trail>>
=============================================================================
