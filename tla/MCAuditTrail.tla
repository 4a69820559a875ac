---------------------------- MODULE MCAuditTrail ----------------------------
(* A small instance of the audit trail for TLC. *)
EXTENDS AuditTrailProperties, TLC

\* One historical roster event, of the time of the first events.
RosterHistory == {[ledger |-> "roster", id |-> 1, at |-> 0]}
Symmetry == Permutations(Admins) \cup Permutations(PolicyRequests)
              \cup Permutations(HoldRequests) \cup Permutations(ReleaseRequests)
=============================================================================
