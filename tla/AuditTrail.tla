------------------------------ MODULE AuditTrail ------------------------------
(***************************************************************************)
(* An organization's audit trail at the relay: the ledgers and their trim  *)
(* (events.ts), the checkpointed export and its acknowledgement, the       *)
(* retention policy and legal holds (audit.ts), and what a retention run   *)
(* may delete (audit-retention.ts).  A handler interleaves with others     *)
(* between its D1 calls; a batch may fail, rolled back or committed.       *)
(*                                                                         *)
(* A request id may come again, for the same change or for another.  A     *)
(* hold is named by the request that creates it, an audit event by the     *)
(* request it records (its event key).  A request that conflicts with what *)
(* is stored is refused and changes nothing: which refusal it gets is left *)
(* out, and so are a hold's reason, filters, which only select among a     *)
(* page's rows and forfeit the receipt, and signatures: a token is what it *)
(* carries.                                                                *)
(***************************************************************************)
EXTENDS Integers, FiniteSets, Sequences

CONSTANTS
    Admins, Exporters,          \* who changes the controls, and who exports
    PolicyRequests, HoldRequests, ReleaseRequests,      \* request ids
    None,                       \* no request, no hold
    RosterRows,                 \* the historical roster ledger
    Days, DefaultDays,          \* event_retention_days, and its default
    PageSize,                   \* page_size
    MaxEvents,                  \* MAX_RETAINED_ORG_AUDIT_EVENTS
    MaxAhead,                   \* how far ahead a request may expect a version
    MaxReceipts, MaxId, MaxTime, MaxFaults              \* model bounds

Requests == PolicyRequests \cup HoldRequests \cup ReleaseRequests

ASSUME AuditAssumption ==
    /\ PolicyRequests \cap (HoldRequests \cup ReleaseRequests) = {}
    /\ HoldRequests \cap ReleaseRequests = {}
    /\ None \notin Requests
    /\ RosterRows \subseteq [ledger : {"roster"}, id : Nat, at : Nat]
    /\ IsFiniteSet(RosterRows)
    /\ RosterRows # {} => \E e \in RosterRows : \A f \in RosterRows : f.id <= e.id
    /\ Days \subseteq Nat /\ DefaultDays \in Nat
    /\ PageSize \in Nat \ {0} /\ MaxEvents \in Nat \ {0}
    /\ MaxAhead \in Nat /\ MaxReceipts \in Nat /\ MaxId \in Nat /\ MaxTime \in Nat /\ MaxFaults \in Nat

VARIABLES
    now, nextId,
    org,                \* org_events
    logged,             \* the ids of every event ever inserted with each key
    policy, requests,   \* audit_retention_policies, and its requests
    holds,              \* audit_legal_holds: who created and released each
    ack,                \* audit_export_acknowledgements
    req,                \* each administrator's request in progress
    export,             \* each export in progress
    receipts,           \* completion receipts handed out
    exported,           \* rows of exports that were acknowledged (history)
    faults

control == <<policy, requests, holds>>
ledger  == <<org, nextId, logged>>
exports == <<export, receipts, ack, exported>>
vars == <<now, ledger, control, exports, req, faults>>
-----------------------------------------------------------------------------
Keys == Requests
NoRequest == [pc |-> "none", id |-> None, what |-> None]
NoPolicy == [days |-> DefaultDays, version |-> 0, last |-> None]
Rows == org \cup RosterRows
Greatest(S) == IF S = {} THEN 0 ELSE CHOOSE n \in S : \A k \in S : k <= n
Fault == faults < MaxFaults /\ faults' = faults + 1

\* orgAuditTrimStatement: the newest rows stay, exported, held or not.
Trim(S) == {e \in S : Cardinality({f \in S : f.id > e.id}) < MaxEvents}

\* An audit row joins the batch of the change it records, and the ledger is
\* trimmed in the same batch.
Record(at, key) ==
    /\ nextId <= MaxId /\ nextId' = nextId + 1
    /\ org' = Trim(org \cup {[ledger |-> "org", id |-> nextId, at |-> at]})
    /\ logged' = IF key = None THEN logged ELSE [logged EXCEPT ![key] = @ \cup {nextId}]
NothingToRecord == org' = Trim(org) /\ UNCHANGED <<nextId, logged>>
\* The event of a key that the ledger still has is not inserted again.
InLedger(key) == \E e \in org : e.id \in logged[key]
RecordOnce(at, key) == IF InLedger(key) THEN NothingToRecord ELSE Record(at, key)

\* flushCallAudits (HandleDO's outbox): a call's event comes after its time.
DeliverCallAudit ==
    /\ \E at \in {now - 1, now} \cap Nat : Record(at, None)
    /\ UNCHANGED <<now, control, exports, req, faults>>
-----------------------------------------------------------------------------
(* The steps of a request's handler.                                        *)

Ask(a, q, what) ==
    /\ req[a].pc = "none"
    /\ req' = [req EXCEPT ![a] = [pc |-> "find", id |-> q, what |-> what]]
    /\ UNCHANGED <<now, ledger, control, exports, faults>>

At(a, pc, kind) == req[a].pc = pc /\ req[a].id \in kind
Step(a, pc) == req' = [req EXCEPT ![a].pc = pc]
Done(a) == req' = [req EXCEPT ![a] = NoRequest]
Reads(a, B, pc) ==
    /\ IF B THEN Step(a, pc) ELSE Done(a)
    /\ UNCHANGED <<now, ledger, control, exports, faults>>

\* PUT /v1/audit/retention-policy: a change expects a version that was or is,
\* or one that changes before it would make, at most MaxAhead of them.
PolicyRow(q) == {p \in requests : p.id = q}
AskPolicy(a, q) ==
    \E d \in Days, v \in 0..(policy.version + MaxAhead) : Ask(a, q, [days |-> d, expected |-> v])

\* A request that is stored is answered from its row, or in conflict with it.
FindPolicyRequest(a) ==
    At(a, "find", PolicyRequests) /\ Reads(a, PolicyRow(req[a].id) = {}, "version")
ReadVersion(a) ==
    /\ At(a, "version", PolicyRequests)
    /\ Reads(a, policy.version = req[a].what.expected, "batch")

\* The batch.  The upsert's SELECT yields its row only WHERE expected_version
\* is 0; without a row ON CONFLICT has nothing to update.
Swaps(what) == what.expected = 0 /\ policy.version = what.expected
Swapped(q, what) ==
    IF Swaps(what)
    THEN [days |-> what.days, version |-> policy.version + 1, last |-> q]
    ELSE policy
Carries(p, q, what) == p.version = what.expected + 1 /\ p.last = q
UpdatePolicy(a) ==
    LET q == req[a].id
        what == req[a].what IN
    /\ policy' = Swapped(q, what)
    /\ requests' = IF Carries(policy', q, what) /\ PolicyRow(q) = {}
                   THEN requests \cup {[id |-> q, version |-> policy'.version,
                                        days |-> what.days]}
                   ELSE requests
    /\ IF \E p \in requests' : p.id = q THEN RecordOnce(now, q) ELSE NothingToRecord
    /\ UNCHANGED holds
Update(a) ==
    /\ At(a, "batch", PolicyRequests) /\ UpdatePolicy(a)
    /\ Done(a) /\ UNCHANGED <<now, exports, faults>>

\* POST /v1/audit/legal-holds
AskHold(a, q) == Ask(a, q, None)
Active == {h \in HoldRequests : holds[h].created /\ holds[h].by = None}
FindHoldRequest(a) ==
    At(a, "find", HoldRequests) /\ Reads(a, ~holds[req[a].id].created, "active")
ReadActiveHold(a) == At(a, "active", HoldRequests) /\ Reads(a, Active = {}, "batch")
\* The unique indexes refuse a second active hold, and a request's second.
CreateHold(a) ==
    LET q == req[a].id IN
    /\ IF Active = {} /\ ~holds[q].created
       THEN holds' = [holds EXCEPT ![q].created = TRUE] /\ RecordOnce(now, q)
       ELSE UNCHANGED <<holds, ledger>>
    /\ UNCHANGED <<policy, requests>>
Create(a) ==
    /\ At(a, "batch", HoldRequests) /\ CreateHold(a)
    /\ Done(a) /\ UNCHANGED <<now, exports, faults>>

\* POST /v1/audit/legal-holds/:holdId/release
AskRelease(a, q) == \E h \in HoldRequests : holds[h].created /\ Ask(a, q, h)
ReleasedBy(q) == {h \in HoldRequests : holds[h].by = q}
FindReleaseRequest(a) ==
    At(a, "find", ReleaseRequests) /\ Reads(a, ReleasedBy(req[a].id) = {}, "hold")
ReadHold(a) ==
    At(a, "hold", ReleaseRequests) /\ Reads(a, holds[req[a].what].by = None, "batch")
\* The event where the UPDATE took place; the unique index refuses a batch that
\* would release a second hold by one request.
Releases(h) == holds[h].by = None
ReleaseHold(a) ==
    LET q == req[a].id
        h == req[a].what IN
    /\ IF ~Releases(h) THEN NothingToRecord /\ UNCHANGED holds
       ELSE IF ReleasedBy(q) = {}
       THEN holds' = [holds EXCEPT ![h].by = q] /\ Record(now, q)
       ELSE UNCHANGED <<holds, ledger>>
    /\ UNCHANGED <<policy, requests>>
Release(a) ==
    /\ At(a, "batch", ReleaseRequests) /\ ReleaseHold(a)
    /\ Done(a) /\ UNCHANGED <<now, exports, faults>>

\* D1 reports an error of a batch that it rolled back or committed; the
\* handler reads what is stored and answers with that, or with 503.
BatchFails(a) ==
    /\ req[a].pc = "batch" /\ Fault
    /\ \/ At(a, "batch", PolicyRequests) /\ UpdatePolicy(a)
       \/ At(a, "batch", HoldRequests) /\ CreateHold(a)
       \/ At(a, "batch", ReleaseRequests) /\ ReleaseHold(a)
       \/ UNCHANGED <<control, ledger>>
    /\ Done(a) /\ UNCHANGED <<now, exports>>
-----------------------------------------------------------------------------
(* The export: a checkpoint, its pages, its receipt.                        *)

Count(S) == Cardinality(S)
Upto(S, id) == {e \in S : e.id <= id}
\* captureCheckpoint
Checkpoint ==
    [org |-> Greatest({e.id : e \in org}), orgCount |-> Count(org),
     roster |-> Greatest({e.id : e \in RosterRows}), rosterCount |-> Count(RosterRows)]
Within(c) == Upto(org, c.org) \cup Upto(RosterRows, c.roster)
\* checkpointIsComplete
Complete(c) ==
    /\ Count(Upto(org, c.org)) = c.orgCount
    /\ Count(Upto(RosterRows, c.roster)) = c.rosterCount

\* readPage's order, and its "after the cursor's position".
Before(e, f) ==
    \/ e.at < f.at
    \/ e.at = f.at /\ e.ledger = "org" /\ f.ledger = "roster"
    \/ e.at = f.at /\ e.ledger = f.ledger /\ e.id < f.id
After(p, e) == \A f \in p : Before(f, e)
\* One row more than the page, to know of a next one.
FirstRows(S, n) == {e \in S : Cardinality({f \in S : Before(f, e)}) < n}
Ordered(S) ==
    CHOOSE s \in [1..Cardinality(S) -> S] :
      \A i, j \in 1..Cardinality(S) : i < j => Before(s[i], s[j])

NoExport == [pc |-> "none", c |-> [org |-> 0, orgCount |-> 0, roster |-> 0, rosterCount |-> 0],
             position |-> {}, rows |-> {}, out |-> <<>>, all |-> {}]
StartExport(x) ==
    /\ export[x].pc = "none" /\ Cardinality(receipts) < MaxReceipts
    /\ export' = [export EXCEPT ![x] = [NoExport EXCEPT !.pc = "page", !.c = Checkpoint,
                                                        !.all = Rows]]
    /\ UNCHANGED <<now, ledger, control, receipts, ack, exported, req, faults>>

\* The page is read under the cursor's checkpoint and position; a page whose
\* answer was lost is asked for again.
ReadPage(x) ==
    LET e == export[x] IN
    /\ e.pc = "page"
    /\ export' = [export EXCEPT ![x].pc = "check", ![x].rows =
         FirstRows({r \in Within(e.c) : After(e.position, r)}, PageSize + 1)]
    /\ UNCHANGED <<now, ledger, control, receipts, ack, exported, req, faults>>

CompleteOnce(c) == TRUE                                             \* mutant
SnapshotHolds(c) == Complete(c)
EveryPage(e) == TRUE                                                \* mutant
Terminal(e) == Cardinality(e.rows) <= PageSize
CheckPage(x) ==
    LET e == export[x]
        page == Ordered(FirstRows(e.rows, PageSize))
        out == e.out \o page IN
    /\ e.pc = "check"
    /\ IF ~SnapshotHolds(e.c)
       THEN export' = [export EXCEPT ![x] = NoExport] /\ UNCHANGED receipts
       ELSE /\ export' =
                 [export EXCEPT ![x] =
                    IF Cardinality(e.rows) <= PageSize
                    THEN [e EXCEPT !.pc = "done", !.rows = {}, !.out = out]
                    ELSE [e EXCEPT !.pc = "page", !.rows = {}, !.out = out,
                                   !.position = {page[Len(page)]}]]
            /\ receipts' = IF Terminal(e)
                           THEN receipts \cup {[c |-> e.c, out |-> out]} ELSE receipts
    /\ UNCHANGED <<now, ledger, control, ack, exported, req, faults>>

LosePage(x) ==
    /\ export[x].pc = "check" /\ Fault
    /\ export' = [export EXCEPT ![x].pc = "page", ![x].rows = {}]
    /\ UNCHANGED <<now, ledger, control, receipts, ack, exported, req>>

\* The administrator has the rows, and may give the export up at any page.
EndExport(x) ==
    /\ export[x].pc \in {"page", "done"}
    /\ export' = [export EXCEPT ![x] = NoExport]
    /\ UNCHANGED <<now, ledger, control, receipts, ack, exported, req, faults>>

\* POST /v1/audit/export-acknowledgements, of any receipt, again or late.
NewerAny(c) == TRUE                                                 \* mutant
Newer(c) ==
    \/ ack = <<>>
    \/ /\ c.org >= ack[1].org /\ c.roster >= ack[1].roster
       /\ c.org > ack[1].org \/ c.roster > ack[1].roster
Acknowledge(t) ==
    /\ ack' = IF Newer(t.c) THEN <<t.c>> ELSE ack
    /\ exported' = exported \cup {t.out[i] : i \in 1..Len(t.out)}
    /\ UNCHANGED <<now, ledger, control, export, receipts, req, faults>>
-----------------------------------------------------------------------------
(* What a retention run may delete at time t (audit-retention.ts).          *)

Old(t, e) == e.at < (IF t > policy.days THEN t - policy.days ELSE 0)
Acked(e) == ack # <<>> /\ e.id <= (IF e.ledger = "org" THEN ack[1].org ELSE ack[1].roster)
Eligible(t) == {e \in Rows : Old(t, e) /\ Acked(e) /\ Active = {}}
Unacknowledged(t) == {e \in Rows : Old(t, e) /\ ~Acked(e)}
Readiness(t) ==
    IF Active # {} THEN "held"
    ELSE IF ack # <<>> /\ Unacknowledged(t) = {} THEN "ready" ELSE "export_required"
-----------------------------------------------------------------------------
Tick ==
    /\ now < MaxTime /\ now' = now + 1
    /\ UNCHANGED <<ledger, control, exports, req, faults>>

Init ==
    /\ now = 0 /\ nextId = 1 /\ org = {}
    /\ logged = [k \in Keys |-> {}]
    /\ policy = NoPolicy /\ requests = {}
    /\ holds = [h \in HoldRequests |-> [created |-> FALSE, by |-> None]]
    /\ ack = <<>>
    /\ req = [a \in Admins |-> NoRequest]
    /\ export = [x \in Exporters |-> NoExport]
    /\ receipts = {} /\ exported = {} /\ faults = 0

Control(a) ==
    \/ \E q \in PolicyRequests : AskPolicy(a, q)
    \/ \E q \in HoldRequests : AskHold(a, q)
    \/ \E q \in ReleaseRequests : AskRelease(a, q)
    \/ FindPolicyRequest(a) \/ ReadVersion(a) \/ Update(a)
    \/ FindHoldRequest(a) \/ ReadActiveHold(a) \/ Create(a)
    \/ FindReleaseRequest(a) \/ ReadHold(a) \/ Release(a) \/ BatchFails(a)

Export(x) ==
    \/ StartExport(x) \/ ReadPage(x) \/ CheckPage(x) \/ LosePage(x) \/ EndExport(x)

Next ==
    \/ Tick \/ DeliverCallAudit
    \/ \E a \in Admins : Control(a)
    \/ \E x \in Exporters : Export(x)
    \/ \E t \in receipts : Acknowledge(t)

Spec == Init /\ [][Next]_vars
=============================================================================
