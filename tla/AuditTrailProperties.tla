------------------------ MODULE AuditTrailProperties ------------------------
(***************************************************************************)
(* What the audit trail's export, policy and holds must keep true.         *)
(***************************************************************************)
EXTENDS AuditTrail

\* An export that ends with a receipt handed out the ledgers of its checkpoint:
\* every row once and in order, though events came, and the trim took some,
\* between its pages (audit.ts:614-616 "a deletion after this check is caught by
\* the next page, while a final page already contains every remaining
\* checkpointed row").
ExportExact ==
    \A x \in Exporters : export[x].pc = "done" =>
      export[x].out = Ordered(export[x].all)

\* What a retention run may delete has been exported in full by an
\* administrator who said so (audit-retention.ts:67 "fail-closed"), and an
\* organization that is "ready" has no older row that was not.
EligibleExported ==
    \A t \in 0..now :
      /\ Eligible(t) \subseteq exported
      /\ Readiness(t) = "ready" => \A e \in Rows : Old(t, e) => e \in exported

\* A change of the policy, a hold and a release have their audit event, and no
\* event tells of a change that was not made, whichever requests race, are
\* repeated, fail, or use one id for two changes (events.ts:28 "a failed
\* mutation cannot leave behind evidence that it succeeded").  A hold and a
\* release have exactly one; a change of the policy whose batch comes late has
\* another when the trim took the first, but never two at once.
Once(k) == \E n \in logged[k] : logged[k] = {n}
ChangesAudited ==
    /\ policy.version = Cardinality(requests)
    /\ policy.last # None =>
         [id |-> policy.last, version |-> policy.version, days |-> policy.days] \in requests
    /\ \A q \in PolicyRequests : logged[q] # {} <=> PolicyRow(q) # {}
    /\ \A h \in HoldRequests : IF holds[h].created THEN Once(h) ELSE logged[h] = {}
    /\ \A q \in ReleaseRequests :
         IF ReleasedBy(q) # {} THEN Once(q) ELSE logged[q] = {}
    /\ \A k \in Keys : \A e, f \in org : {e.id, f.id} \subseteq logged[k] => e.id = f.id

\* data-residency.md:75 "One monotonic row per organization": a receipt that is
\* late or comes again never takes an acknowledgement back.
AcknowledgedNeverBack ==
    [][ack # <<>> => /\ ack' # <<>>
                     /\ ack'[1].org >= ack[1].org /\ ack'[1].roster >= ack[1].roster]_vars

(* What the documentation says and the code does not keep. *)

\* audit-retention.md:43 "accepts versioned tenant overrides [...] Updates use
\* caller-supplied idempotency keys and optimistic versions": the batch of an
\* update that expects the policy's version, and is not refused, changes it.
UpdateTakesEffect ==
    [][\A a \in Admins :
         Update(a) /\ req[a].what.expected = policy.version => policy' # policy]_vars
-----------------------------------------------------------------------------
(* The inductive invariant of the controls and the acknowledgements.        *)

Checkpoints == [org : Nat, orgCount : Nat, roster : Nat, rosterCount : Nat]
\* A request on its way asks for what its kind asks.
Asks(r) ==
    /\ r.id \in Requests
    /\ r.id \in PolicyRequests => r.what \in [days : Days, expected : Nat]
    /\ r.id \in ReleaseRequests => r.what \in HoldRequests
\* An export is what StartExport makes, with a checkpoint that was captured.
Exporting(e) == "c" \in DOMAIN e /\ e.c \in Checkpoints
\* The relay's rows and the handlers' memory keep their types.
TypeOK ==
    /\ now \in Nat /\ nextId \in Nat \ {0} /\ faults \in Nat
    /\ org \in SUBSET [ledger : {"org"}, id : Nat, at : Nat] /\ IsFiniteSet(org)
    /\ logged \in [Keys -> SUBSET Nat]
    /\ policy \in [days : Days \cup {DefaultDays}, version : Nat,
                   last : PolicyRequests \cup {None}]
    /\ requests \in SUBSET [id : PolicyRequests, version : Nat, days : Days]
    /\ IsFiniteSet(requests)
    /\ holds \in [HoldRequests -> [created : BOOLEAN, by : ReleaseRequests \cup {None}]]
    /\ ack \in Seq(Checkpoints) /\ Len(ack) <= 1
    /\ req \in [Admins -> [pc : {"none", "find", "version", "active", "hold", "batch"},
                          id : Requests \cup {None},
                          what : [days : Days, expected : Nat] \cup HoldRequests \cup {None}]]
    /\ \A a \in Admins : req[a].pc # "none" => Asks(req[a])
    /\ export = [x \in Exporters |-> export[x]]
    /\ \A x \in Exporters : Exporting(export[x])
    /\ \A t \in receipts : t.c \in Checkpoints
\* The trim keeps the newest event, which carries the last id given out.
NewestKept ==
    /\ \A e \in org : e.id < nextId
    /\ org # {} => \E e \in org : e.id = nextId - 1
\* The ids of a key's events were given out before the next one.
KeysGiven == \A k \in Keys : \A n \in logged[k] : n < nextId
AuditInv == NewestKept /\ KeysGiven /\ ChangesAudited

-----------------------------------------------------------------------------
(* Why exports are exact: the inductive invariant of pages and receipts.    *)

Row == [ledger : {"org", "roster"}, id : Nat, at : Nat]
ExportRecord == [pc : {"none", "page", "check", "done"}, c : Checkpoints,
                 position : SUBSET Row, rows : SUBSET Row, out : Seq(Row), all : SUBSET Row]
\* The rows of the checkpoint up to the position, which is that of one of them.
Passed(e) == {r \in e.all : \E p \in e.position : r = p \/ Before(r, p)}
\* What the ledgers still have of a checkpoint is part of what it counted: ids
\* are given out in order, and the trim only takes.
Captured(e) ==
    /\ IsFiniteSet(e.all) /\ e.c.org < nextId /\ Within(e.c) \subseteq e.all
    /\ e.c.orgCount = Cardinality({r \in e.all : r.ledger = "org"})
    /\ e.c.rosterCount = Cardinality({r \in e.all : r.ledger = "roster"})
\* A page that waits for its check was read from at least what is still there.
WasRead(e) ==
    \E S \in SUBSET e.all :
      /\ Within(e.c) \subseteq S
      /\ e.rows = FirstRows({r \in S : After(e.position, r)}, PageSize + 1)
PageInv(e) ==
    /\ e \in ExportRecord
    /\ e.pc # "none" => Captured(e)
    /\ e.pc \in {"page", "check"} =>
         /\ e.position = {} \/ \E r \in e.all : e.position = {r}
         /\ e.out = Ordered(Passed(e))
    /\ e.pc = "check" => WasRead(e)
    /\ e.pc = "done" => e.out = Ordered(e.all)
PagesInv == \A x \in Exporters : PageInv(export[x])
\* A receipt has what is left of its checkpoint, and so has the acknowledgement.
Contents(s) == {s[i] : i \in 1..Len(s)}
ReceiptsInv ==
    \A t \in receipts : t.c.org < nextId /\ Within(t.c) \subseteq Contents(t.out)
AckedInv ==
    \A i \in DOMAIN ack : ack[i].org < nextId /\ Within(ack[i]) \subseteq exported
ExportInv == PagesInv /\ ReceiptsInv /\ AckedInv
=============================================================================
