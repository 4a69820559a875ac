-------------------------- MODULE AuditTrailProofs --------------------------
(***************************************************************************)
(* What is proved of the audit trail, for any number of administrators,    *)
(* requests, exports and faults, and any limits.                           *)
(***************************************************************************)
EXTENDS AuditTrailProperties, FiniteSetTheorems, SequenceTheorems, TLAPS

OrgRow == [ledger : {"org"}, id : Nat, at : Nat]
RosterRow == [ledger : {"roster"}, id : Nat, at : Nat]

LEMMA ConstantsTyped ==
    /\ None \notin Requests
    /\ RosterRows \subseteq RosterRow /\ IsFiniteSet(RosterRows)
    /\ RosterRows # {} => \E e \in RosterRows : \A f \in RosterRows : f.id <= e.id
    /\ DefaultDays \in Nat /\ Days \subseteq Nat /\ MaxEvents \in Nat \ {0}
    /\ PolicyRequests \cap (HoldRequests \cup ReleaseRequests) = {}
    /\ HoldRequests \cap ReleaseRequests = {}
BY AuditAssumption DEF RosterRow
-----------------------------------------------------------------------------
(* The ledger.                                                              *)

\* The trim takes rows away, and never the newest.
LEMMA TrimKeeps ==
    ASSUME NEW S \in SUBSET OrgRow, IsFiniteSet(S), NEW n \in Nat,
           \A e \in S : e.id <= n, S # {} => \E e \in S : e.id = n
    PROVE  /\ Trim(S) \in SUBSET OrgRow /\ IsFiniteSet(Trim(S)) /\ Trim(S) \subseteq S
           /\ Trim(S) # {} => \E e \in Trim(S) : e.id = n
<1>1. Trim(S) \subseteq S  BY DEF Trim
<1>2. IsFiniteSet(Trim(S))  BY <1>1, FS_Subset
<1>3. ASSUME NEW e \in S, e.id = n PROVE e \in Trim(S)
  <2>1. \A f \in S : f.id \in Nat  BY DEF OrgRow
  <2>2. {f \in S : f.id > e.id} = {}  BY <1>3, <2>1
  <2>3. Cardinality({}) = 0  BY FS_EmptySet
  <2>4. Cardinality({f \in S : f.id > e.id}) = 0  BY <2>2, <2>3
  <2> QED  BY <2>4, ConstantsTyped DEF Trim
<1> QED  BY <1>1, <1>2, <1>3

\* Two events of one key are never in the ledger at once.
KeysUnique == \A k \in Keys : \A e, f \in org : {e.id, f.id} \subseteq logged[k] => e.id = f.id
LedgerTyped ==
    /\ nextId \in Nat \ {0} /\ org \in SUBSET OrgRow /\ IsFiniteSet(org)
    /\ logged \in [Keys -> SUBSET Nat]
LedgerInv == LedgerTyped /\ NewestKept /\ KeysGiven /\ KeysUnique

LEMMA LedgerHolds == TypeOK /\ AuditInv => LedgerInv
BY DEF TypeOK, AuditInv, ChangesAudited, LedgerInv, LedgerTyped, KeysUnique, OrgRow

\* What an event's insertion leaves in the ledger.
LEMMA RecordKeeps ==
    ASSUME LedgerInv, NEW at \in Nat, NEW key \in Keys \cup {None}, Record(at, key),
           key # None => ~InLedger(key)
    PROVE  /\ LedgerInv'
           /\ \A k \in Keys : logged'[k] = IF k = key THEN logged[k] \cup {nextId} ELSE logged[k]
<1> DEFINE new == [ledger |-> "org", id |-> nextId, at |-> at]
           S == org \cup {new}
<1>1. /\ nextId \in Nat \ {0} /\ nextId' = nextId + 1 /\ org' = Trim(S)
      /\ org \in SUBSET OrgRow /\ IsFiniteSet(org) /\ \A e \in org : e.id < nextId
      /\ logged \in [Keys -> SUBSET Nat]
      /\ logged' = IF key = None THEN logged ELSE [logged EXCEPT ![key] = @ \cup {nextId}]
  BY DEF Record, LedgerInv, LedgerTyped, NewestKept
<1>2. new \in OrgRow /\ new.id = nextId  BY <1>1 DEF OrgRow
<1>3. S \in SUBSET OrgRow /\ new \in S  BY <1>1, <1>2
<1>4. IsFiniteSet(S)  BY <1>1, FS_AddElement
<1>5. \A e \in S : e.id \in Nat /\ e.id <= nextId
  BY <1>1, <1>2 DEF OrgRow
<1>6. /\ org' \in SUBSET OrgRow /\ IsFiniteSet(org') /\ org' \subseteq S
      /\ org' # {} => \E e \in org' : e.id = nextId
  <2> HIDE DEF S, new
  <2> QED  BY <1>1, <1>2, <1>3, <1>4, <1>5, TrimKeeps
<1>7. NewestKept'
  <2> HIDE DEF S, new
  <2> QED  BY <1>1, <1>5, <1>6 DEF NewestKept
<1>8. None \notin Keys  BY ConstantsTyped DEF Keys
<1>9. /\ logged' \in [Keys -> SUBSET Nat]
      /\ \A k \in Keys : logged'[k] = IF k = key THEN logged[k] \cup {nextId} ELSE logged[k]
  BY <1>1, <1>8
<1>10. nextId' \in Nat \ {0}  BY <1>1
<1>11. KeysGiven'
  <2>1. \A k \in Keys : \A n \in logged[k] : n \in Nat /\ n < nextId
    BY <1>1 DEF LedgerInv, KeysGiven
  <2> QED  BY <1>1, <1>9, <2>1 DEF KeysGiven
<1>12. ASSUME NEW k \in Keys, NEW e \in org', NEW f \in org',
              {e.id, f.id} \subseteq logged'[k]
       PROVE  e.id = f.id
  <2>1. \A n \in logged[k] : n \in Nat /\ n < nextId
    BY <1>1 DEF LedgerInv, KeysGiven
  <2>2. /\ e \in org \/ e.id = nextId
        /\ f \in org \/ f.id = nextId
    BY <1>2, <1>6
  <2>3. CASE k = key
    <3>1. \A g \in org : g.id \notin logged[k] /\ g.id # nextId
      BY <1>1, <1>8, <2>3 DEF InLedger, OrgRow
    <3> QED  BY <1>9, <1>12, <2>2, <2>3, <3>1
  <2>4. CASE k # key
    <3>1. {e.id, f.id} \subseteq logged[k]  BY <1>9, <1>12, <2>4
    <3>2. e.id # nextId /\ f.id # nextId  BY <1>1, <2>1, <3>1
    <3> QED  BY <2>2, <3>1, <3>2 DEF LedgerInv, KeysUnique
  <2> QED  BY <2>3, <2>4
<1> HIDE DEF S, new
<1> QED  BY <1>6, <1>7, <1>9, <1>10, <1>11, <1>12 DEF LedgerInv, LedgerTyped, KeysUnique

LEMMA NothingKeeps ==
    ASSUME LedgerInv, NothingToRecord
    PROVE  LedgerInv' /\ logged' = logged
<1>1. /\ nextId \in Nat \ {0} /\ nextId' = nextId /\ org' = Trim(org) /\ logged' = logged
      /\ org \in SUBSET OrgRow /\ IsFiniteSet(org)
  BY DEF NothingToRecord, LedgerInv, LedgerTyped
<1>2. /\ \A e \in org : e.id \in Nat /\ e.id < nextId /\ e.id <= nextId - 1
      /\ org # {} => \E e \in org : e.id = nextId - 1
  BY <1>1 DEF LedgerInv, NewestKept, OrgRow
<1>3. nextId - 1 \in Nat  BY <1>1
<1>4. /\ org' \in SUBSET OrgRow /\ IsFiniteSet(org') /\ org' \subseteq org
      /\ org' # {} => \E e \in org' : e.id = nextId - 1
  BY <1>1, <1>2, <1>3, TrimKeeps
<1> QED
  BY <1>1, <1>2, <1>4 DEF LedgerInv, LedgerTyped, NewestKept, KeysGiven, KeysUnique

\* A batch leaves the event of a key in the ledger's history if it inserts it,
\* or had it.
LEMMA RecordOnceKeeps ==
    ASSUME LedgerInv, NEW at \in Nat, NEW key \in Keys, RecordOnce(at, key)
    PROVE  /\ LedgerInv'
           /\ logged'[key] # {} /\ \A k \in Keys : k # key => logged'[k] = logged[k]
           /\ logged[key] = {} => logged'[key] = {nextId}
<1>1. CASE InLedger(key)
  <2>1. LedgerInv' /\ logged' = logged  BY <1>1, NothingKeeps DEF RecordOnce
  <2> QED  BY <1>1, <2>1 DEF InLedger
<1>2. CASE ~InLedger(key)
  <2>1. /\ LedgerInv'
        /\ \A k \in Keys :
             logged'[k] = IF k = key THEN logged[k] \cup {nextId} ELSE logged[k]
    BY <1>2, RecordKeeps DEF RecordOnce
  <2> QED  BY <2>1
<1> QED  BY <1>1, <1>2

\* The position of a ledger's newest row is a number.
LEMMA GreatestIs ==
    ASSUME NEW S, NEW m \in Nat, S # {} => m \in S, \A k \in S : k \in Nat /\ k <= m
    PROVE  Greatest(S) \in Nat
<1>1. CASE S = {}  BY <1>1 DEF Greatest
<1>2. CASE S # {}
  <2>1. \E n \in S : \A k \in S : k <= n  BY <1>2
  <2> QED  BY <1>2, <2>1 DEF Greatest
<1> QED  BY <1>1, <1>2

LEMMA CheckpointTyped ==
    ASSUME TypeOK, NewestKept
    PROVE  Checkpoint \in Checkpoints
<1>1. /\ org \in SUBSET OrgRow /\ IsFiniteSet(org) /\ nextId \in Nat \ {0}
      /\ RosterRows \in SUBSET RosterRow /\ IsFiniteSet(RosterRows)
  BY ConstantsTyped DEF TypeOK, OrgRow
<1>2. Greatest({e.id : e \in org}) \in Nat
  <2> DEFINE S == {e.id : e \in org}
  <2>1. \A k \in S : k \in Nat /\ k <= nextId - 1  BY <1>1 DEF NewestKept, OrgRow
  <2>2. S # {} => nextId - 1 \in S  BY DEF NewestKept
  <2>3. nextId - 1 \in Nat  BY <1>1
  <2> HIDE DEF S
  <2>4. Greatest(S) \in Nat  BY <2>1, <2>2, <2>3, GreatestIs
  <2> QED  BY <2>4 DEF S
<1>3. Greatest({e.id : e \in RosterRows}) \in Nat
  <2> DEFINE S == {e.id : e \in RosterRows}
  <2>1. CASE RosterRows = {}
    <3>1. S = {}  BY <2>1
    <3> HIDE DEF S
    <3>2. Greatest(S) \in Nat  BY <3>1 DEF Greatest
    <3> QED  BY <3>2 DEF S
  <2>2. CASE RosterRows # {}
    <3>1. PICK e \in RosterRows : \A f \in RosterRows : f.id <= e.id
      BY <2>2, ConstantsTyped
    <3>2. e.id \in Nat /\ e.id \in S  BY <1>1 DEF RosterRow
    <3>3. \A k \in S : k \in Nat /\ k <= e.id  BY <1>1, <3>1 DEF RosterRow
    <3> HIDE DEF S
    <3>4. Greatest(S) \in Nat  BY <3>2, <3>3, GreatestIs
    <3> QED  BY <3>4 DEF S
  <2> QED  BY <2>1, <2>2
<1>4. Cardinality(org) \in Nat /\ Cardinality(RosterRows) \in Nat
  BY <1>1, FS_CardinalityType
<1> QED  BY <1>2, <1>3, <1>4 DEF Checkpoint, Checkpoints, Count
-----------------------------------------------------------------------------
(* The batches.                                                             *)

\* What a batch may leave: the controls and the ledger, typed.
PolicyTyped ==
    /\ policy \in [days : Days \cup {DefaultDays}, version : Nat,
                   last : PolicyRequests \cup {None}]
    /\ requests \in SUBSET [id : PolicyRequests, version : Nat, days : Days]
    /\ IsFiniteSet(requests)
HoldsTyped == holds \in [HoldRequests -> [created : BOOLEAN, by : ReleaseRequests \cup {None}]]
ControlsTyped == LedgerTyped /\ PolicyTyped /\ HoldsTyped

LEMMA ControlsAreTyped == TypeOK => ControlsTyped
BY DEF TypeOK, ControlsTyped, LedgerTyped, PolicyTyped, HoldsTyped, OrgRow

\* The parts of ChangesAudited, each about one kind of change.
PolicyAudited ==
    /\ policy.version = Cardinality(requests)
    /\ policy.last # None =>
         [id |-> policy.last, version |-> policy.version, days |-> policy.days] \in requests
    /\ \A q \in PolicyRequests : logged[q] # {} <=> PolicyRow(q) # {}
HoldsAudited ==
    \A h \in HoldRequests : IF holds[h].created THEN Once(h) ELSE logged[h] = {}
ReleasesAudited ==
    \A q \in ReleaseRequests : IF ReleasedBy(q) # {} THEN Once(q) ELSE logged[q] = {}

LEMMA ChangeParts ==
    ChangesAudited <=> PolicyAudited /\ HoldsAudited /\ ReleasesAudited /\ KeysUnique
BY DEF ChangesAudited, PolicyAudited, HoldsAudited, ReleasesAudited, KeysUnique

\* What a batch must leave, part by part.
LEMMA BatchKeeps ==
    ASSUME LedgerInv', PolicyTyped', HoldsTyped', PolicyAudited', HoldsAudited',
           ReleasesAudited'
    PROVE  ControlsTyped' /\ AuditInv'
BY DEF LedgerInv, ControlsTyped, AuditInv, ChangesAudited, PolicyAudited, HoldsAudited,
       ReleasesAudited, KeysUnique

\* A kind of change whose rows and events a step leaves stays audited.
LEMMA PolicySame ==
    ASSUME PolicyAudited, UNCHANGED <<policy, requests>>,
           \A k \in PolicyRequests : logged'[k] = logged[k]
    PROVE  PolicyAudited'
BY DEF PolicyAudited, PolicyRow
LEMMA HoldsSame ==
    ASSUME HoldsAudited, \A h \in HoldRequests : logged'[h] = logged[h],
           \A h \in HoldRequests : holds'[h].created = holds[h].created
    PROVE  HoldsAudited'
BY DEF HoldsAudited, Once
LEMMA ReleasesSame ==
    ASSUME ReleasesAudited, \A k \in ReleaseRequests : logged'[k] = logged[k],
           \A h \in HoldRequests : holds'[h].by = holds[h].by
    PROVE  ReleasesAudited'
<1>1. \A k \in ReleaseRequests : ReleasedBy(k)' = ReleasedBy(k)  BY DEF ReleasedBy
<1> QED  BY <1>1 DEF ReleasesAudited, Once

\* A batch that records nothing changes no control.
LEMMA QuietBatch ==
    ASSUME TypeOK, AuditInv, NothingToRecord \/ UNCHANGED ledger,
           UNCHANGED <<policy, requests, holds>>
    PROVE  ControlsTyped' /\ AuditInv'
<1>1. LedgerInv' /\ logged' = logged
  <2>1. LedgerInv  BY LedgerHolds
  <2>2. CASE NothingToRecord  BY <2>1, <2>2, NothingKeeps
  <2>3. CASE UNCHANGED ledger
    BY <2>1, <2>3 DEF ledger, LedgerInv, LedgerTyped, NewestKept, KeysGiven, KeysUnique
  <2> QED  BY <2>2, <2>3
<1>2. PolicyTyped' /\ HoldsTyped'
  BY ControlsAreTyped DEF ControlsTyped, PolicyTyped, HoldsTyped
<1>3. PolicyAudited' /\ HoldsAudited' /\ ReleasesAudited'
  BY <1>1, ChangeParts, PolicySame, HoldsSame, ReleasesSame DEF AuditInv
<1> QED  BY <1>1, <1>2, <1>3, BatchKeeps

\* A request on its way asks for what its kind asks.
LEMMA InBatch ==
    ASSUME TypeOK, NEW a \in Admins, req[a].pc = "batch"
    PROVE  /\ req[a].id \in Keys /\ req[a].id # None
           /\ req[a].id \in PolicyRequests =>
                req[a].what.expected \in Nat /\ req[a].what.days \in Days
           /\ req[a].id \in ReleaseRequests => req[a].what \in HoldRequests
<1>1. Asks(req[a])  BY DEF TypeOK
<1> QED  BY <1>1, ConstantsTyped DEF Asks, Keys

\* The policy is swapped and its request stored together, or neither is.
LEMMA SwapIsStored ==
    ASSUME TypeOK, AuditInv, NEW a \in Admins, At(a, "batch", PolicyRequests),
           UpdatePolicy(a), NEW q, q = req[a].id, NEW what, what = req[a].what
    PROVE  \/ UNCHANGED <<policy, requests>>
           \/ /\ PolicyRow(q) = {}
              /\ policy' = [days |-> what.days, version |-> policy.version + 1, last |-> q]
              /\ requests' = requests \cup
                   {[id |-> q, version |-> policy.version + 1, days |-> what.days]}
<1>1. q \in PolicyRequests /\ q # None /\ what.expected \in Nat
  BY InBatch DEF At
<1>2. /\ policy' = Swapped(q, what)
      /\ requests' = IF Carries(policy', q, what) /\ PolicyRow(q) = {}
                     THEN requests \cup {[id |-> q, version |-> policy'.version,
                                          days |-> what.days]}
                     ELSE requests
  BY DEF UpdatePolicy
<1>3. /\ policy.version = Cardinality(requests) /\ IsFiniteSet(requests)
      /\ policy.last # None =>
           [id |-> policy.last, version |-> policy.version, days |-> policy.days] \in requests
  BY ControlsAreTyped DEF AuditInv, ChangesAudited, ControlsTyped, PolicyTyped
<1>4. CASE Swaps(what)
  <2>1. policy' = [days |-> what.days, version |-> policy.version + 1, last |-> q]
    BY <1>2, <1>4 DEF Swapped
  <2>2. requests = {}  BY <1>3, <1>4, FS_EmptySet DEF Swaps
  <2>3. PolicyRow(q) = {}  BY <2>2 DEF PolicyRow
  <2>4. Carries(policy', q, what)  BY <1>4, <2>1 DEF Swaps, Carries
  <2>5. policy'.version = policy.version + 1  BY <2>1
  <2> QED  BY <1>2, <2>1, <2>3, <2>4, <2>5
<1>5. CASE ~Swaps(what)
  <2>1. policy' = policy  BY <1>2, <1>5 DEF Swapped
  <2>2. ASSUME Carries(policy', q, what) PROVE PolicyRow(q) # {}
    <3>1. policy.last = q  BY <2>1, <2>2 DEF Carries
    <3>2. PICK r \in requests : r.id = q  BY <1>1, <1>3, <3>1
    <3> QED  BY <3>2 DEF PolicyRow
  <2> QED  BY <1>2, <2>1, <2>2
<1> QED  BY <1>4, <1>5

LEMMA UpdateKeeps ==
    ASSUME TypeOK, AuditInv, NEW a \in Admins, At(a, "batch", PolicyRequests),
           UpdatePolicy(a)
    PROVE  ControlsTyped' /\ AuditInv'
<1> PICK q, what : q = req[a].id /\ what = req[a].what
  OBVIOUS
<1>1. /\ q \in PolicyRequests /\ q \in Keys /\ q # None /\ what.days \in Days
      /\ now \in Nat /\ holds' = holds
  BY InBatch DEF At, TypeOK, UpdatePolicy
<1>2. /\ LedgerInv /\ PolicyTyped /\ HoldsTyped
      /\ PolicyAudited /\ HoldsAudited /\ ReleasesAudited
  BY LedgerHolds, ControlsAreTyped, ChangeParts DEF AuditInv, ControlsTyped
<1>3. \/ UNCHANGED <<policy, requests>>
      \/ /\ PolicyRow(q) = {}
         /\ policy' = [days |-> what.days, version |-> policy.version + 1, last |-> q]
         /\ requests' = requests \cup
              {[id |-> q, version |-> policy.version + 1, days |-> what.days]}
  BY SwapIsStored
<1>4. IF PolicyRow(q)' # {} THEN RecordOnce(now, q) ELSE NothingToRecord
  BY DEF UpdatePolicy, PolicyRow
<1>5. /\ LedgerInv' /\ \A k \in Keys : k # q => logged'[k] = logged[k]
      /\ PolicyRow(q)' # {} => logged'[q] # {}
      /\ PolicyRow(q)' = {} => logged'[q] = logged[q]
  <2>1. CASE PolicyRow(q)' # {}  BY <1>1, <1>2, <1>4, <2>1, RecordOnceKeeps
  <2>2. CASE PolicyRow(q)' = {}  BY <1>1, <1>2, <1>4, <2>2, NothingKeeps
  <2> QED  BY <2>1, <2>2
<1>6. HoldsTyped' /\ HoldsAudited' /\ ReleasesAudited'
  <2>1. \A k \in HoldRequests \cup ReleaseRequests : k \in Keys /\ k # q
    BY <1>1, ConstantsTyped DEF Keys, Requests
  <2>2. \A k \in HoldRequests \cup ReleaseRequests : logged'[k] = logged[k]
    BY <1>5, <2>1
  <2> QED  BY <1>1, <1>2, <2>2, HoldsSame, ReleasesSame DEF HoldsTyped
<1>7. PolicyTyped' /\ PolicyAudited'
  <2>1. \A k \in PolicyRequests : k \in Keys /\ (logged[k] # {} <=> PolicyRow(k) # {})
    BY <1>2 DEF PolicyAudited, Keys, Requests
  <2>2. CASE UNCHANGED <<policy, requests>>
    <3>1. \A k \in PolicyRequests : PolicyRow(k)' = PolicyRow(k)
      BY <2>2 DEF PolicyRow
    <3>2. \A k \in PolicyRequests : logged'[k] # {} <=> PolicyRow(k)' # {}
      BY <1>1, <1>5, <2>1, <3>1
    <3> QED  BY <1>2, <2>2, <3>2 DEF PolicyTyped, PolicyAudited
  <2>3. CASE /\ PolicyRow(q) = {}
             /\ policy' = [days |-> what.days, version |-> policy.version + 1, last |-> q]
             /\ requests' = requests \cup
                  {[id |-> q, version |-> policy.version + 1, days |-> what.days]}
    <3> DEFINE new == [id |-> q, version |-> policy.version + 1, days |-> what.days]
    <3>1. policy.version \in Nat  BY <1>2 DEF PolicyTyped
    <3>2. new \in [id : PolicyRequests, version : Nat, days : Days] /\ new.id = q
      BY <1>1, <3>1
    <3>3. requests' = requests \cup {new} /\ new \in requests' /\ new \notin requests
      BY <2>3 DEF PolicyRow
    <3>4. /\ policy'.version = policy.version + 1 /\ policy'.last = q
          /\ policy'.days = what.days
      BY <2>3
    <3>5. policy' \in [days : Days \cup {DefaultDays}, version : Nat,
                      last : PolicyRequests \cup {None}]
      BY <1>1, <2>3, <3>1
    <3>6. [id |-> policy'.last, version |-> policy'.version, days |-> policy'.days] \in requests'
      BY <3>3, <3>4
    <3> HIDE DEF new
    <3>7. IsFiniteSet(requests') /\ Cardinality(requests') = Cardinality(requests) + 1
      BY <1>2, <3>3, FS_AddElement DEF PolicyTyped
    <3>8. PolicyTyped'
      BY <1>2, <3>2, <3>3, <3>5, <3>7 DEF PolicyTyped
    <3>9. \A k \in PolicyRequests : logged'[k] # {} <=> PolicyRow(k)' # {}
      <4>1. PolicyRow(q)' # {}  BY <3>2, <3>3 DEF PolicyRow
      <4>2. \A k \in PolicyRequests : k # q => PolicyRow(k)' = PolicyRow(k)
        BY <3>2, <3>3 DEF PolicyRow
      <4> QED  BY <1>1, <1>5, <2>1, <4>1, <4>2
    <3> QED  BY <1>2, <3>4, <3>6, <3>7, <3>8, <3>9 DEF PolicyAudited
  <2> QED  BY <1>3, <2>2, <2>3
<1> QED  BY <1>5, <1>6, <1>7, BatchKeeps DEF LedgerInv

\* A hold is created by its request only, with its one event.
LEMMA CreateKeeps ==
    ASSUME TypeOK, AuditInv, NEW a \in Admins, At(a, "batch", HoldRequests),
           CreateHold(a)
    PROVE  ControlsTyped' /\ AuditInv'
<1> DEFINE q == req[a].id
<1>1. CASE UNCHANGED <<holds, ledger>>
  BY <1>1, QuietBatch DEF CreateHold
<1>2. CASE /\ ~holds[q].created /\ holds' = [holds EXCEPT ![q].created = TRUE]
           /\ RecordOnce(now, q)
  <2>1. /\ q \in HoldRequests /\ q \in Keys /\ now \in Nat
        /\ policy' = policy /\ requests' = requests
    BY InBatch DEF At, TypeOK, CreateHold
  <2> HIDE DEF q
  <2>2. /\ LedgerInv /\ PolicyTyped /\ HoldsTyped
        /\ PolicyAudited /\ HoldsAudited /\ ReleasesAudited
    BY LedgerHolds, ControlsAreTyped, ChangeParts DEF AuditInv, ControlsTyped
  <2>3. logged[q] = {}  BY <1>2, <2>1, <2>2 DEF HoldsAudited
  <2>4. /\ LedgerInv' /\ logged'[q] = {nextId}
        /\ \A k \in Keys : k # q => logged'[k] = logged[k]
    BY <1>2, <2>1, <2>2, <2>3, RecordOnceKeeps
  <2>5. \A h \in HoldRequests :
          /\ holds'[h].by = holds[h].by
          /\ holds'[h].created = IF h = q THEN TRUE ELSE holds[h].created
    BY <1>2, <2>1, <2>2 DEF HoldsTyped
  <2>6. PolicyTyped' /\ HoldsTyped'
    BY <1>2, <2>1, <2>2 DEF HoldsTyped, PolicyTyped
  <2>7. \A k \in PolicyRequests \cup ReleaseRequests : logged'[k] = logged[k]
    <3>1. \A k \in PolicyRequests \cup ReleaseRequests : k \in Keys /\ k # q
      BY <2>1, ConstantsTyped DEF Keys, Requests
    <3> QED  BY <2>4, <3>1
  <2>8. HoldsAudited'
    <3> SUFFICES ASSUME NEW h \in HoldRequests
                 PROVE  (IF holds[h].created THEN Once(h) ELSE logged[h] = {})'
      BY DEF HoldsAudited
    <3>1. CASE h = q  BY <2>4, <2>5, <3>1 DEF Once
    <3>2. CASE h # q
      <4>1. logged'[h] = logged[h]  BY <2>4, <3>2 DEF Keys, Requests
      <4> QED  BY <2>2, <2>5, <3>2, <4>1 DEF HoldsAudited, Once
    <3> QED  BY <3>1, <3>2
  <2>9. PolicyAudited' /\ ReleasesAudited'
    BY <2>1, <2>2, <2>5, <2>7, PolicySame, ReleasesSame
  <2> QED  BY <2>4, <2>6, <2>8, <2>9, BatchKeeps
<1>3. \/ UNCHANGED <<holds, ledger>>
      \/ /\ ~holds[q].created /\ holds' = [holds EXCEPT ![q].created = TRUE]
         /\ RecordOnce(now, q)
  BY DEF CreateHold
<1> HIDE DEF q
<1> QED  BY <1>1, <1>2, <1>3

\* A request releases one hold only, and only then is its event inserted.
LEMMA ReleaseKeeps ==
    ASSUME TypeOK, AuditInv, NEW a \in Admins, At(a, "batch", ReleaseRequests),
           ReleaseHold(a)
    PROVE  ControlsTyped' /\ AuditInv'
<1> PICK q, h : q = req[a].id /\ h = req[a].what
  OBVIOUS
<1>1. CASE (NothingToRecord \/ UNCHANGED ledger) /\ UNCHANGED holds
  BY <1>1, QuietBatch DEF ReleaseHold
<1>2. CASE /\ holds[h].by = None /\ ReleasedBy(q) = {}
           /\ holds' = [holds EXCEPT ![h].by = q] /\ Record(now, q)
  <2>1. /\ q \in ReleaseRequests /\ q \in Keys /\ q # None /\ h \in HoldRequests
        /\ now \in Nat /\ policy' = policy /\ requests' = requests
    BY InBatch DEF At, TypeOK, ReleaseHold
  <2>2. /\ LedgerInv /\ PolicyTyped /\ HoldsTyped
        /\ PolicyAudited /\ HoldsAudited /\ ReleasesAudited
    BY LedgerHolds, ControlsAreTyped, ChangeParts DEF AuditInv, ControlsTyped
  <2>3. logged[q] = {}  BY <1>2, <2>1, <2>2 DEF ReleasesAudited
  <2>4. ~InLedger(q)  BY <2>3 DEF InLedger
  <2>5. /\ LedgerInv' /\ logged'[q] = {nextId}
        /\ \A k \in Keys : k # q => logged'[k] = logged[k]
    BY <1>2, <2>1, <2>2, <2>3, <2>4, RecordKeeps
  <2>6. \A g \in HoldRequests :
          /\ holds'[g].created = holds[g].created
          /\ holds'[g].by = IF g = h THEN q ELSE holds[g].by
    BY <1>2, <2>1, <2>2 DEF HoldsTyped
  <2>7. PolicyTyped' /\ HoldsTyped'
    BY <1>2, <2>1, <2>2 DEF HoldsTyped, PolicyTyped
  <2>8. \A k \in PolicyRequests \cup HoldRequests : logged'[k] = logged[k]
    <3>1. \A k \in PolicyRequests \cup HoldRequests : k \in Keys /\ k # q
      BY <2>1, ConstantsTyped DEF Keys, Requests
    <3> QED  BY <2>5, <3>1
  <2>9. ReleasesAudited'
    <3> SUFFICES ASSUME NEW k \in ReleaseRequests
                 PROVE  (IF ReleasedBy(k) # {} THEN Once(k) ELSE logged[k] = {})'
      BY DEF ReleasesAudited
    <3>1. CASE k = q
      <4>1. h \in ReleasedBy(q)'  BY <2>1, <2>6 DEF ReleasedBy
      <4> QED  BY <2>5, <3>1, <4>1 DEF Once
    <3>2. CASE k # q
      <4>1. k # None  BY ConstantsTyped DEF Requests
      <4>2. ReleasedBy(k)' = ReleasedBy(k)
        BY <1>2, <2>6, <3>2, <4>1 DEF ReleasedBy
      <4>3. logged'[k] = logged[k]  BY <2>5, <3>2 DEF Keys, Requests
      <4> QED  BY <2>2, <4>2, <4>3 DEF ReleasesAudited, Once
    <3> QED  BY <3>1, <3>2
  <2>10. PolicyAudited' /\ HoldsAudited'
    BY <2>1, <2>2, <2>6, <2>8, PolicySame, HoldsSame
  <2> QED  BY <2>5, <2>7, <2>9, <2>10, BatchKeeps
<1>3. \/ (NothingToRecord \/ UNCHANGED ledger) /\ UNCHANGED holds
      \/ /\ holds[h].by = None /\ ReleasedBy(q) = {}
         /\ holds' = [holds EXCEPT ![h].by = q] /\ Record(now, q)
  BY DEF ReleaseHold, Releases
<1> QED  BY <1>1, <1>2, <1>3
-----------------------------------------------------------------------------
(* The steps.                                                               *)

\* The parts of the type invariant that no batch touches.
Pcs == {"none", "find", "version", "active", "hold", "batch"}
Wants == [days : Days, expected : Nat] \cup HoldRequests \cup {None}
HandlersTyped ==
    /\ now \in Nat /\ faults \in Nat
    /\ req \in [Admins -> [pc : Pcs, id : Requests \cup {None}, what : Wants]]
    /\ \A a \in Admins : req[a].pc # "none" => Asks(req[a])
ExportsTyped ==
    /\ ack \in Seq(Checkpoints) /\ Len(ack) <= 1
    /\ export = [x \in Exporters |-> export[x]]
    /\ \A x \in Exporters : Exporting(export[x])
    /\ \A t \in receipts : t.c \in Checkpoints

LEMMA TypeParts == TypeOK <=> HandlersTyped /\ ControlsTyped /\ ExportsTyped
BY DEF TypeOK, HandlersTyped, Pcs, Wants, ControlsTyped, LedgerTyped, PolicyTyped, HoldsTyped,
       ExportsTyped, OrgRow

LEMMA TypePartsNext == HandlersTyped' /\ ControlsTyped' /\ ExportsTyped' => TypeOK'
BY DEF TypeOK, HandlersTyped, Pcs, Wants, ControlsTyped, LedgerTyped, PolicyTyped, HoldsTyped,
       ExportsTyped, OrgRow

LEMMA ControlsSame ==
    ASSUME TypeOK, AuditInv, UNCHANGED <<ledger, control>>
    PROVE  ControlsTyped' /\ AuditInv'
BY QuietBatch DEF control

LEMMA ExportsSame == ASSUME TypeOK, UNCHANGED exports PROVE ExportsTyped'
BY TypeParts DEF ExportsTyped, exports

LEMMA FaultCounts == ASSUME TypeOK, Fault PROVE faults' \in Nat
BY DEF TypeOK, Fault

\* A request starts with what it asks for.
LEMMA AskKeeps ==
    ASSUME TypeOK, AuditInv, NEW a \in Admins, NEW q, NEW what,
           Ask(a, q, what), what \in Wants, Asks([pc |-> "find", id |-> q, what |-> what])
    PROVE  TypeOK' /\ AuditInv'
<1> DEFINE new == [pc |-> "find", id |-> q, what |-> what]
<1>1. /\ req' = [req EXCEPT ![a] = new]
      /\ UNCHANGED <<now, ledger, control, exports, faults>>
  BY DEF Ask
<1>2. HandlersTyped  BY TypeParts
<1>3. new \in [pc : Pcs, id : Requests \cup {None}, what : Wants]  BY DEF Asks, Pcs
<1>4. Asks(new)  OBVIOUS
<1> HIDE DEF new
<1>5. HandlersTyped'  BY <1>1, <1>2, <1>3, <1>4 DEF HandlersTyped
<1>6. ControlsTyped' /\ AuditInv'  BY <1>1, ControlsSame
<1>7. ExportsTyped'  BY <1>1, ExportsSame
<1> QED  BY <1>5, <1>6, <1>7, TypePartsNext

\* The handlers' memory after a request is over, or goes on.
LEMMA HandlerMoves ==
    ASSUME TypeOK, NEW a \in Admins, req[a].pc # "none", now' = now,
           faults' \in Nat,
           Done(a) \/ \E pc \in {"version", "active", "hold", "batch"} : Step(a, pc)
    PROVE  HandlersTyped'
<1>1. HandlersTyped  BY TypeParts
<1>2. /\ req' \in [Admins -> [pc : Pcs, id : Requests \cup {None}, what : Wants]]
      /\ \A b \in Admins : req'[b].pc # "none" =>
           req[b].pc # "none" /\ req'[b].id = req[b].id /\ req'[b].what = req[b].what
  <2>1. CASE Done(a)  BY <1>1, <2>1 DEF HandlersTyped, Done, NoRequest, Pcs, Wants
  <2>2. CASE \E pc \in {"version", "active", "hold", "batch"} : Step(a, pc)
    BY <1>1, <2>2 DEF HandlersTyped, Step, Pcs
  <2> QED  BY <2>1, <2>2
<1> QED  BY <1>1, <1>2 DEF HandlersTyped, Asks

LEMMA StepReads ==
    ASSUME TypeOK, AuditInv, NEW a \in Admins, NEW B, req[a].pc # "none",
           NEW pc \in {"version", "active", "hold", "batch"}, Reads(a, B, pc)
    PROVE  TypeOK' /\ AuditInv'
<1>1. /\ Done(a) \/ Step(a, pc)
      /\ UNCHANGED <<now, ledger, control, exports, faults>>
  BY DEF Reads
<1>2. faults' \in Nat  BY <1>1 DEF TypeOK
<1>3. HandlersTyped'  BY <1>1, <1>2, HandlerMoves
<1>4. ControlsTyped' /\ AuditInv'  BY <1>1, ControlsSame
<1>5. ExportsTyped'  BY <1>1, ExportsSame
<1> QED  BY <1>3, <1>4, <1>5, TypePartsNext

LEMMA StepBatch ==
    ASSUME TypeOK, AuditInv, NEW a \in Admins,
           Update(a) \/ Create(a) \/ Release(a) \/ BatchFails(a)
    PROVE  TypeOK' /\ AuditInv'
<1>1. /\ req[a].pc = "batch" /\ Done(a) /\ UNCHANGED <<now, exports>>
      /\ Fault \/ faults' = faults
      /\ \/ At(a, "batch", PolicyRequests) /\ UpdatePolicy(a)
         \/ At(a, "batch", HoldRequests) /\ CreateHold(a)
         \/ At(a, "batch", ReleaseRequests) /\ ReleaseHold(a)
         \/ UNCHANGED <<control, ledger>>
  BY DEF Update, Create, Release, BatchFails, At
<1>2. faults' \in Nat
  BY <1>1, FaultCounts DEF TypeOK
<1>3. HandlersTyped'  BY <1>1, <1>2, HandlerMoves
<1>4. ControlsTyped' /\ AuditInv'
  BY <1>1, UpdateKeeps, CreateKeeps, ReleaseKeeps, ControlsSame
<1>5. ExportsTyped'  BY <1>1, ExportsSame
<1> QED  BY <1>3, <1>4, <1>5, TypePartsNext

LEMMA StepControl ==
    ASSUME TypeOK, AuditInv, NEW a \in Admins, Control(a)
    PROVE  TypeOK' /\ AuditInv'
<1>1. ASSUME NEW q \in PolicyRequests, AskPolicy(a, q) PROVE TypeOK' /\ AuditInv'
  <2>1. PICK d \in Days, v \in 0..(policy.version + MaxAhead) :
          Ask(a, q, [days |-> d, expected |-> v])
    BY <1>1 DEF AskPolicy
  <2> DEFINE what == [days |-> d, expected |-> v]
  <2>2. policy.version \in Nat /\ MaxAhead \in Nat  BY AuditAssumption DEF TypeOK
  <2>3. what \in [days : Days, expected : Nat]  BY <2>2
  <2> HIDE DEF what
  <2>4. Asks([pc |-> "find", id |-> q, what |-> what]) /\ what \in Wants
    BY <2>3, ConstantsTyped DEF Asks, Wants, Requests
  <2> QED  BY <2>1, <2>4, AskKeeps DEF what
<1>2. ASSUME NEW q \in HoldRequests, AskHold(a, q) PROVE TypeOK' /\ AuditInv'
  <2>1. Asks([pc |-> "find", id |-> q, what |-> None]) /\ None \in Wants
    BY ConstantsTyped DEF Asks, Wants, Requests
  <2> QED  BY <1>2, <2>1, AskKeeps DEF AskHold
<1>3. ASSUME NEW q \in ReleaseRequests, AskRelease(a, q) PROVE TypeOK' /\ AuditInv'
  <2>1. PICK h \in HoldRequests : Ask(a, q, h)  BY <1>3 DEF AskRelease
  <2>2. Asks([pc |-> "find", id |-> q, what |-> h]) /\ h \in Wants
    BY ConstantsTyped DEF Asks, Wants, Requests
  <2> QED  BY <2>1, <2>2, AskKeeps
<1>4. CASE FindPolicyRequest(a)
  BY <1>4, StepReads DEF FindPolicyRequest, At
<1>5. CASE ReadVersion(a)
  BY <1>5, StepReads DEF ReadVersion, At
<1>6. CASE FindHoldRequest(a)
  BY <1>6, StepReads DEF FindHoldRequest, At
<1>7. CASE ReadActiveHold(a)
  BY <1>7, StepReads DEF ReadActiveHold, At
<1>8. CASE FindReleaseRequest(a)
  BY <1>8, StepReads DEF FindReleaseRequest, At
<1>9. CASE ReadHold(a)
  BY <1>9, StepReads DEF ReadHold, At
<1>10. CASE Update(a) \/ Create(a) \/ Release(a) \/ BatchFails(a)
  BY <1>10, StepBatch
<1> QED
  BY <1>1, <1>2, <1>3, <1>4, <1>5, <1>6, <1>7, <1>8, <1>9, <1>10 DEF Control

\* An export keeps the checkpoint it started with.
LEMMA StepExport ==
    ASSUME TypeOK, AuditInv, NEW x \in Exporters, Export(x)
    PROVE  TypeOK' /\ AuditInv'
<1>1. /\ UNCHANGED <<now, ledger, control, ack, req>>
      /\ Fault \/ faults' = faults
  BY DEF Export, StartExport, ReadPage, CheckPage, LosePage, EndExport
<1>2. ExportsTyped  BY TypeParts
<1>3. Exporting(NoExport)  BY DEF NoExport, Exporting, Checkpoints
<1>4. \E e : export' = [export EXCEPT ![x] = e] /\ Exporting(e)
  <2>1. Exporting(export[x])  BY <1>2 DEF ExportsTyped
  <2>2. CASE StartExport(x)
    <3> DEFINE e == [NoExport EXCEPT !.pc = "page", !.c = Checkpoint, !.all = Rows]
    <3>1. Checkpoint \in Checkpoints  BY CheckpointTyped DEF AuditInv
    <3>2. Exporting(e)  BY <3>1 DEF NoExport, Exporting
    <3>3. export' = [export EXCEPT ![x] = e]  BY <2>2 DEF StartExport
    <3> HIDE DEF e
    <3> QED  BY <3>2, <3>3
  <2>3. CASE ReadPage(x)
    <3> DEFINE r == FirstRows({y \in Within(export[x].c) : After(export[x].position, y)},
                              PageSize + 1)
               e == [export[x] EXCEPT !.pc = "check", !.rows = r]
    <3>1. export' = [export EXCEPT ![x].pc = "check", ![x].rows = r]
      BY <2>3 DEF ReadPage
    <3> HIDE DEF r
    <3>2. export' = [export EXCEPT ![x] = e]
      BY <1>2, <3>1 DEF ExportsTyped
    <3>3. Exporting(e)  BY <2>1 DEF Exporting
    <3> HIDE DEF e
    <3> QED  BY <3>2, <3>3
  <2>4. CASE CheckPage(x)
    <3> DEFINE page == Ordered(FirstRows(export[x].rows, PageSize))
               out == export[x].out \o page
               last == {page[Len(page)]}
               done == [export[x] EXCEPT !.pc = "done", !.rows = {}, !.out = out]
               next == [export[x] EXCEPT !.pc = "page", !.rows = {}, !.out = out,
                                         !.position = last]
    <3>1. \/ export' = [export EXCEPT ![x] = NoExport]
          \/ export' = [export EXCEPT ![x] = done]
          \/ export' = [export EXCEPT ![x] = next]
      BY <2>4 DEF CheckPage
    <3> HIDE DEF out, last
    <3>2. Exporting(done) /\ Exporting(next)  BY <2>1 DEF Exporting
    <3> HIDE DEF done, next
    <3> QED  BY <1>3, <3>1, <3>2
  <2>5. CASE LosePage(x)
    <3> DEFINE e == [export[x] EXCEPT !.pc = "page", !.rows = {}]
    <3>1. export' = [export EXCEPT ![x].pc = "page", ![x].rows = {}]
      BY <2>5 DEF LosePage
    <3>2. export' = [export EXCEPT ![x] = e]
      BY <1>2, <3>1 DEF ExportsTyped
    <3>3. Exporting(e)  BY <2>1 DEF Exporting
    <3> HIDE DEF e
    <3> QED  BY <3>2, <3>3
  <2>6. CASE EndExport(x)
    BY <1>3, <2>6 DEF EndExport
  <2> QED  BY <2>2, <2>3, <2>4, <2>5, <2>6 DEF Export
<1>5. /\ export' = [y \in Exporters |-> export'[y]]
      /\ \A y \in Exporters : Exporting(export'[y])
  <2>1. PICK e : export' = [export EXCEPT ![x] = e] /\ Exporting(e)  BY <1>4
  <2>2. export = [y \in Exporters |-> export[y]]  BY <1>2 DEF ExportsTyped
  <2>3. \A y \in Exporters : export'[y] = IF y = x THEN e ELSE export[y]
    BY <2>1, <2>2
  <2>4. export' = [y \in Exporters |-> export'[y]]  BY <2>1, <2>2
  <2> QED  BY <1>2, <2>1, <2>3, <2>4 DEF ExportsTyped
<1>6. \A t \in receipts' : t.c \in Checkpoints
  <2>1. CASE receipts' = receipts  BY <1>2, <2>1 DEF ExportsTyped
  <2>2. CASE CheckPage(x)
    <3>1. \/ receipts' = receipts
          \/ \E o : receipts' = receipts \cup {[c |-> export[x].c, out |-> o]}
      BY <2>2 DEF CheckPage
    <3>2. export[x].c \in Checkpoints  BY <1>2 DEF ExportsTyped, Exporting
    <3> QED  BY <1>2, <3>1, <3>2 DEF ExportsTyped
  <2> QED  BY <2>1, <2>2 DEF Export, StartExport, ReadPage, LosePage, EndExport
<1>7. ExportsTyped'  BY <1>1, <1>2, <1>5, <1>6 DEF ExportsTyped
<1>8. HandlersTyped'
  <2>1. faults' \in Nat  BY <1>1, FaultCounts DEF TypeOK
  <2> QED  BY <1>1, <2>1, TypeParts DEF HandlersTyped
<1>9. ControlsTyped' /\ AuditInv'  BY <1>1, ControlsSame
<1> QED  BY <1>7, <1>8, <1>9, TypePartsNext

\* An acknowledgement is of a receipt, or stays.
LEMMA StepAcknowledge ==
    ASSUME TypeOK, AuditInv, NEW t \in receipts, Acknowledge(t)
    PROVE  TypeOK' /\ AuditInv'
<1>1. /\ ack' = IF Newer(t.c) THEN <<t.c>> ELSE ack
      /\ UNCHANGED <<now, ledger, control, export, receipts, req, faults>>
  BY DEF Acknowledge
<1>2. ExportsTyped /\ HandlersTyped  BY TypeParts
<1>3. t.c \in Checkpoints  BY <1>2 DEF ExportsTyped
<1>4. <<t.c>> \in Seq(Checkpoints) /\ Len(<<t.c>>) = 1  BY <1>3
<1>5. ExportsTyped'  BY <1>1, <1>2, <1>4 DEF ExportsTyped
<1>6. HandlersTyped'  BY <1>1, <1>2 DEF HandlersTyped
<1>7. ControlsTyped' /\ AuditInv'  BY <1>1, ControlsSame
<1> QED  BY <1>5, <1>6, <1>7, TypePartsNext

LEMMA StepAround ==
    ASSUME TypeOK, AuditInv, Tick \/ DeliverCallAudit \/ UNCHANGED vars
    PROVE  TypeOK' /\ AuditInv'
<1>1. /\ UNCHANGED <<control, exports, req, faults>>
      /\ now' \in Nat
  BY TypeParts DEF Tick, DeliverCallAudit, vars, HandlersTyped
<1>2. HandlersTyped'  BY <1>1, TypeParts DEF HandlersTyped
<1>3. ExportsTyped'  BY <1>1, ExportsSame
<1>4. ControlsTyped' /\ AuditInv'
  <2>1. CASE UNCHANGED ledger  BY <1>1, <2>1, ControlsSame
  <2>2. CASE DeliverCallAudit
    <3>1. PICK at \in Nat : Record(at, None)  BY <2>2 DEF DeliverCallAudit
    <3>2. LedgerInv'  BY <3>1, LedgerHolds, RecordKeeps
    <3>3. logged' = logged  BY <3>1 DEF Record
    <3>4. policy' = policy /\ requests' = requests /\ holds' = holds
      BY <1>1 DEF control
    <3>5. PolicyTyped' /\ HoldsTyped'
      BY <3>4, ControlsAreTyped DEF ControlsTyped, PolicyTyped, HoldsTyped
    <3>6. PolicyAudited' /\ HoldsAudited' /\ ReleasesAudited'
      BY <3>3, <3>4, ChangeParts, PolicySame, HoldsSame, ReleasesSame DEF AuditInv
    <3> QED  BY <3>2, <3>5, <3>6, BatchKeeps
  <2> QED  BY <2>1, <2>2 DEF Tick, vars
<1> QED  BY <1>2, <1>3, <1>4, TypePartsNext
-----------------------------------------------------------------------------
(* The theorems.                                                            *)

LEMMA InvInit == Init => TypeOK /\ AuditInv
<1> SUFFICES ASSUME Init PROVE TypeOK /\ AuditInv  OBVIOUS
<1>1. /\ now = 0 /\ nextId = 1 /\ org = {} /\ logged = [k \in Keys |-> {}]
      /\ policy = NoPolicy /\ requests = {} /\ ack = <<>> /\ receipts = {} /\ faults = 0
      /\ holds = [h \in HoldRequests |-> [created |-> FALSE, by |-> None]]
      /\ req = [a \in Admins |-> NoRequest]
      /\ export = [x \in Exporters |-> NoExport]
  BY DEF Init
<1>2. IsFiniteSet({}) /\ Cardinality({}) = 0  BY FS_EmptySet
<1>3. \A q \in Requests : logged[q] = {} /\ PolicyRow(q) = {}
  BY <1>1 DEF Keys, PolicyRow
<1>4. \A h \in HoldRequests : holds[h].created = FALSE /\ holds[h].by = None
  BY <1>1
<1>5. HandlersTyped
  BY <1>1 DEF HandlersTyped, NoRequest, Pcs, Wants
<1>6. LedgerTyped /\ PolicyTyped /\ HoldsTyped
  BY <1>1, <1>2 DEF LedgerTyped, PolicyTyped, HoldsTyped, NoPolicy
<1>7. ExportsTyped
  <2>1. Exporting(NoExport)  BY DEF NoExport, Exporting, Checkpoints
  <2> QED  BY <1>1, <2>1 DEF ExportsTyped
<1>8. NewestKept /\ KeysGiven /\ KeysUnique
  BY <1>1, <1>3 DEF NewestKept, KeysGiven, KeysUnique, Keys
<1>9. PolicyAudited
  BY <1>1, <1>2, <1>3 DEF PolicyAudited, NoPolicy, Requests
<1>10. HoldsAudited /\ ReleasesAudited
  <2>1. \A q \in ReleaseRequests : ReleasedBy(q) = {}
    BY <1>4, ConstantsTyped DEF ReleasedBy, Requests
  <2> QED  BY <1>3, <1>4, <2>1 DEF HoldsAudited, ReleasesAudited, Requests
<1> QED
  BY <1>5, <1>6, <1>7, <1>8, <1>9, <1>10, TypeParts, ChangeParts DEF AuditInv, ControlsTyped

LEMMA InvNext == TypeOK /\ AuditInv /\ [Next]_vars => TypeOK' /\ AuditInv'
<1> SUFFICES ASSUME TypeOK, AuditInv, [Next]_vars PROVE TypeOK' /\ AuditInv'
  OBVIOUS
<1>1. CASE Tick \/ DeliverCallAudit \/ UNCHANGED vars  BY <1>1, StepAround
<1>2. CASE \E a \in Admins : Control(a)  BY <1>2, StepControl
<1>3. CASE \E x \in Exporters : Export(x)  BY <1>3, StepExport
<1>4. CASE \E t \in receipts : Acknowledge(t)  BY <1>4, StepAcknowledge
<1> QED  BY <1>1, <1>2, <1>3, <1>4 DEF Next

LEMMA AuditInvariant == Spec => [](TypeOK /\ AuditInv)
<1> QED  BY InvInit, InvNext, PTL DEF Spec

\* The rows of the trail, its policy, holds and acknowledgement, and the requests
\* and exports in progress keep their types; a checkpoint is of two positions.
THEOREM AuditTyped == Spec => []TypeOK
<1> QED  BY AuditInvariant, PTL

\* The batches of audit.ts store a change and its event together: no race, retry,
\* reuse of an id, failed batch or lost answer leaves one without the other.
THEOREM ChangesAreAudited == Spec => []ChangesAudited
<1>1. AuditInv => ChangesAudited  BY DEF AuditInv
<1> QED  BY <1>1, AuditInvariant, PTL

\* An acknowledgement moves forward in both ledgers, whichever receipts arrive,
\* in whatever order and however often.
THEOREM AcknowledgementsForward == Spec => AcknowledgedNeverBack
<1>1. ASSUME TypeOK, [Next]_vars, ack # <<>>
      PROVE  /\ ack' # <<>>
             /\ ack'[1].org >= ack[1].org /\ ack'[1].roster >= ack[1].roster
  <2>1. ack \in Seq(Checkpoints) /\ Len(ack) <= 1  BY <1>1 DEF TypeOK
  <2>2. Len(ack) = 1 /\ ack[1] \in Checkpoints
    <3>1. Len(ack) \in Nat \ {0}  BY <1>1, <2>1, EmptySeq
    <3>2. \A n \in Nat \ {0} : n <= 1 => n = 1  OBVIOUS
    <3>3. Len(ack) = 1  BY <2>1, <3>1, <3>2, Zenon
    <3> QED  BY <2>1, <3>3, ElementOfSeq
  <2>3. ack[1].org \in Nat /\ ack[1].roster \in Nat  BY <2>2 DEF Checkpoints
  <2>4. CASE ack' = ack  BY <1>1, <2>3, <2>4
  <2>5. ASSUME NEW t \in receipts, Acknowledge(t), ack' # ack
        PROVE  /\ ack' # <<>>
               /\ ack'[1].org >= ack[1].org /\ ack'[1].roster >= ack[1].roster
    <3>1. ack' = <<t.c>> /\ Newer(t.c)  BY <2>5 DEF Acknowledge
    <3>2. t.c.org >= ack[1].org /\ t.c.roster >= ack[1].roster
      BY <1>1, <3>1 DEF Newer
    <3>3. ack'[1] = t.c /\ ack' # <<>>  BY <3>1
    <3> QED  BY <3>2, <3>3
  <2>6. (\E t \in receipts : Acknowledge(t)) \/ ack' = ack
    <3>1. ASSUME NEW a \in Admins, Control(a) PROVE ack' = ack
      BY <3>1 DEF Control, exports, AskPolicy, AskHold, AskRelease, Ask, FindPolicyRequest,
         ReadVersion, FindHoldRequest, ReadActiveHold, FindReleaseRequest, ReadHold, Reads,
         Update, Create, Release, BatchFails
    <3>2. ASSUME NEW x \in Exporters, Export(x) PROVE ack' = ack
      BY <3>2 DEF Export, StartExport, ReadPage, CheckPage, LosePage, EndExport
    <3>3. CASE Tick \/ DeliverCallAudit \/ UNCHANGED vars
      BY <3>3 DEF Tick, DeliverCallAudit, vars, exports
    <3> QED  BY <1>1, <3>1, <3>2, <3>3 DEF Next
  <2> QED  BY <2>4, <2>5, <2>6
<1>2. TypeOK /\ AuditInv /\ [Next]_vars =>
        [ack # <<>> => /\ ack' # <<>>
                       /\ ack'[1].org >= ack[1].org /\ ack'[1].roster >= ack[1].roster]_vars
  BY <1>1
<1> QED  BY <1>2, AuditInvariant, PTL DEF Spec, AcknowledgedNeverBack

-----------------------------------------------------------------------------
(* The order of rows.                                                       *)

Ahead(S, e) == {f \in S : Before(f, e)}
Sorted(S, s) ==
    /\ s \in [1..Cardinality(S) -> S]
    /\ \A i, j \in 1..Cardinality(S) : i < j => Before(s[i], s[j])

\* Rows are in one order: two rows that agree in time, ledger and id are one.
LEMMA RowsAreOrdered ==
    /\ \A e \in Row : ~Before(e, e)
    /\ \A e, f, g \in Row : Before(e, f) /\ Before(f, g) => Before(e, g)
    /\ \A e, f \in Row : e = f \/ Before(e, f) \/ Before(f, e)
    /\ \A e, f \in Row : ~(Before(e, f) /\ Before(f, e))
<1>1. \A e \in Row : e.at \in Nat /\ e.id \in Nat /\ e.ledger \in {"org", "roster"}
  BY DEF Row
<1>2. \A e, f \in Row : e.at = f.at /\ e.id = f.id /\ e.ledger = f.ledger => e = f
  BY DEF Row
<1>3. ASSUME NEW e \in Row PROVE ~Before(e, e)
  <2>1. PICK a, n \in Nat : a = e.at /\ n = e.id  BY <1>1
  <2> QED  BY <2>1 DEF Before
<1>4. ASSUME NEW e \in Row, NEW f \in Row, NEW g \in Row, Before(e, f), Before(f, g)
      PROVE  Before(e, g)
  <2>1. PICK a, b, c, i, j, k \in Nat :
          /\ a = e.at /\ b = f.at /\ c = g.at /\ i = e.id /\ j = f.id /\ k = g.id
    BY <1>1
  <2>2. PICK l, m, n \in {"org", "roster"} : l = e.ledger /\ m = f.ledger /\ n = g.ledger
    BY <1>1
  <2>3. a < b \/ (a = b /\ l = "org" /\ m = "roster") \/ (a = b /\ l = m /\ i < j)
    BY <1>4, <2>1, <2>2 DEF Before
  <2>4. b < c \/ (b = c /\ m = "org" /\ n = "roster") \/ (b = c /\ m = n /\ j < k)
    BY <1>4, <2>1, <2>2 DEF Before
  <2>5. a < c \/ (a = c /\ l = "org" /\ n = "roster") \/ (a = c /\ l = n /\ i < k)
    BY <2>3, <2>4
  <2> QED  BY <2>1, <2>2, <2>5 DEF Before
<1>5. ASSUME NEW e \in Row, NEW f \in Row
      PROVE  e = f \/ Before(e, f) \/ Before(f, e)
  <2>1. PICK a, b, i, j \in Nat : a = e.at /\ b = f.at /\ i = e.id /\ j = f.id
    BY <1>1
  <2>2. a < b \/ b < a \/ a = b  OBVIOUS
  <2>3. i < j \/ j < i \/ i = j  OBVIOUS
  <2> QED  BY <1>1, <1>2, <2>1, <2>2, <2>3 DEF Before
<1>6. \A e, f \in Row : ~(Before(e, f) /\ Before(f, e))  BY <1>3, <1>4
<1> QED  BY <1>3, <1>4, <1>5, <1>6

\* The later a row, the more are ahead of it, and never all.
LEMMA AheadGrows ==
    ASSUME NEW S \in SUBSET Row, IsFiniteSet(S), NEW e \in S
    PROVE  /\ Cardinality(Ahead(S, e)) \in Nat
           /\ Cardinality(Ahead(S, e)) < Cardinality(S)
           /\ \A f \in S : Before(e, f) =>
                Cardinality(Ahead(S, e)) < Cardinality(Ahead(S, f))
<1>1. \A f \in S : IsFiniteSet(Ahead(S, f)) /\ Cardinality(Ahead(S, f)) \in Nat
  BY FS_Subset, FS_CardinalityType DEF Ahead
<1>2. Cardinality(S) \in Nat  BY FS_CardinalityType
<1>3. Cardinality(Ahead(S, e)) < Cardinality(S)
  <2>1. Ahead(S, e) \subseteq S /\ e \notin Ahead(S, e)  BY RowsAreOrdered DEF Ahead
  <2>2. /\ Cardinality(Ahead(S, e)) <= Cardinality(S)
        /\ Cardinality(Ahead(S, e)) # Cardinality(S)
    BY <2>1, FS_Subset
  <2> QED  BY <1>1, <1>2, <2>2
<1>4. ASSUME NEW f \in S, Before(e, f)
      PROVE  Cardinality(Ahead(S, e)) < Cardinality(Ahead(S, f))
  <2>1. Ahead(S, e) \subseteq Ahead(S, f)  BY <1>4, RowsAreOrdered DEF Ahead
  <2>2. e \in Ahead(S, f) /\ e \notin Ahead(S, e)  BY <1>4, RowsAreOrdered DEF Ahead
  <2>3. /\ Cardinality(Ahead(S, e)) <= Cardinality(Ahead(S, f))
        /\ Cardinality(Ahead(S, e)) # Cardinality(Ahead(S, f))
    BY <1>1, <2>1, <2>2, FS_Subset
  <2> QED  BY <1>1, <2>3
<1> QED  BY <1>1, <1>3, <1>4

\* A set in order: each row is at the place that the number ahead of it gives.
LEMMA SortedPlaces ==
    ASSUME NEW S \in SUBSET Row, IsFiniteSet(S), NEW s, Sorted(S, s)
    PROVE  /\ \A i \in 1..Cardinality(S) : Cardinality(Ahead(S, s[i])) = i - 1
           /\ \A e \in S : \E i \in 1..Cardinality(S) : e = s[i]
<1> DEFINE n == Cardinality(S)
<1>1. n \in Nat  BY FS_CardinalityType
<1>2. IsFiniteSet(1..n) /\ Cardinality(1..n) = n  BY <1>1, FS_Interval
<1>3. s \in [1..n -> S] /\ \A i, j \in 1..n : i < j => Before(s[i], s[j])
  BY DEF Sorted
<1> HIDE DEF n
<1>4. \A i, j \in 1..n : s[i] = s[j] => i = j
  <2> SUFFICES ASSUME NEW i \in 1..n, NEW j \in 1..n, s[i] = s[j], i # j PROVE FALSE
    OBVIOUS
  <2>1. i < j \/ j < i  BY <1>1
  <2>2. Before(s[i], s[j]) \/ Before(s[j], s[i])  BY <1>3, <2>1
  <2>3. s[i] \in Row  BY <1>3
  <2> QED  BY <2>2, <2>3, RowsAreOrdered
<1>5. \A e \in S : \E i \in 1..n : e = s[i]
  <2>1. s \in Injection(1..n, S)  BY <1>3, <1>4 DEF Injection, IsInjective
  <2>2. s \in Surjection(1..n, S)  BY <1>2, <2>1, FS_Injection DEF n
  <2> QED  BY <2>2 DEF Surjection
<1>6. ASSUME NEW i \in 1..n PROVE Cardinality(Ahead(S, s[i])) = i - 1
  <2> DEFINE t == [j \in 1..(i - 1) |-> s[j]]
  <2>1. i - 1 \in Nat /\ 1..(i - 1) \subseteq 1..n  BY <1>1
  <2>2. \A j \in 1..n : Before(s[j], s[i]) <=> j < i
    <3> SUFFICES ASSUME NEW j \in 1..n PROVE Before(s[j], s[i]) <=> j < i
      OBVIOUS
    <3>1. s[i] \in Row /\ s[j] \in Row  BY <1>3
    <3>2. j < i \/ j = i \/ i < j  BY <1>1
    <3>3. i < j => Before(s[i], s[j]) /\ ~(j < i)  BY <1>1, <1>3
    <3>4. j = i => ~(j < i)  BY <1>1
    <3> QED  BY <1>3, <3>1, <3>2, <3>3, <3>4, RowsAreOrdered
  <2>3. \A j \in 1..n : j < i <=> j \in 1..(i - 1)  BY <1>1
  <2>4. Ahead(S, s[i]) = {s[j] : j \in 1..(i - 1)}
    BY <1>3, <1>5, <2>1, <2>2, <2>3 DEF Ahead
  <2>5. t \in [1..(i - 1) -> Ahead(S, s[i])]  BY <2>4
  <2>6. t \in Injection(1..(i - 1), Ahead(S, s[i]))
    BY <1>4, <2>1, <2>5 DEF Injection, IsInjective
  <2>7. t \in Surjection(1..(i - 1), Ahead(S, s[i]))
    BY <2>4, <2>5 DEF Surjection
  <2>8. ExistsBijection(1..(i - 1), Ahead(S, s[i]))
    BY <2>6, <2>7 DEF Bijection, ExistsBijection
  <2> QED  BY <2>1, <2>8, FS_CountingElements
<1> QED  BY <1>5, <1>6 DEF n

\* A finite set of rows can be put in order, and in one way only.
LEMMA OrderedIs ==
    ASSUME NEW S \in SUBSET Row, IsFiniteSet(S)
    PROVE  /\ Sorted(S, Ordered(S))
           /\ \A s : Sorted(S, s) => s = Ordered(S)
<1> DEFINE n == Cardinality(S)
           r == [e \in S |-> Cardinality(Ahead(S, e)) + 1]
           s == [i \in 1..n |-> CHOOSE e \in S : r[e] = i]
<1>1. n \in Nat /\ IsFiniteSet(1..n) /\ Cardinality(1..n) = n
  BY FS_CardinalityType, FS_Interval
<1>2. /\ \A e \in S : r[e] \in 1..n
      /\ \A e, f \in S : Before(e, f) => r[e] < r[f]
  <2>1. ASSUME NEW e \in S
        PROVE  r[e] \in 1..n /\ \A f \in S : Before(e, f) => r[e] < r[f]
    <3>1. \A f \in S : Cardinality(Ahead(S, f)) \in Nat  BY AheadGrows
    <3>2. Cardinality(Ahead(S, e)) < n  BY AheadGrows
    <3>3. \A f \in S : Before(e, f) => Cardinality(Ahead(S, e)) < Cardinality(Ahead(S, f))
      BY AheadGrows
    <3>4. PICK k \in Nat : k = Cardinality(Ahead(S, e))  BY <3>1
    <3> HIDE DEF n
    <3>5. k + 1 \in 1..n  BY <1>1, <3>2, <3>4
    <3>6. \A f \in S : Before(e, f) => k + 1 < Cardinality(Ahead(S, f)) + 1
      BY <3>1, <3>3, <3>4
    <3> QED  BY <3>4, <3>5, <3>6
  <2> QED  BY <2>1
<1>3. r \in [S -> 1..n]  BY <1>2
<1> HIDE DEF r, n
<1>4. r \in Injection(S, 1..n)
  <2>1. ASSUME NEW e \in S, NEW f \in S, r[e] = r[f], e # f PROVE FALSE
    <3>1. Before(e, f) \/ Before(f, e)  BY <2>1, RowsAreOrdered
    <3>2. r[e] \in Nat /\ r[f] \in Nat  BY <1>1, <1>2
    <3> QED  BY <1>2, <2>1, <3>1, <3>2
  <2> QED  BY <1>3, <2>1 DEF Injection, IsInjective
<1>5. r \in Surjection(S, 1..n)  BY <1>1, <1>4, FS_Injection DEF n
<1>6. \A i \in 1..n : s[i] \in S /\ r[s[i]] = i
  <2> SUFFICES ASSUME NEW i \in 1..n PROVE s[i] \in S /\ r[s[i]] = i
    OBVIOUS
  <2>1. \E e \in S : r[e] = i  BY <1>5 DEF Surjection
  <2>2. s[i] = CHOOSE e \in S : r[e] = i  OBVIOUS
  <2> QED  BY <2>1, <2>2
<1>7. s \in [1..n -> S]  BY <1>6
<1> HIDE DEF s
<1>8. Sorted(S, s)
  <2>1. ASSUME NEW i \in 1..n, NEW j \in 1..n, i < j PROVE Before(s[i], s[j])
    <3>1. r[s[i]] = i /\ r[s[j]] = j /\ s[i] \in S /\ s[j] \in S  BY <1>6
    <3>2. i # j /\ ~(j < i)  BY <1>1, <2>1
    <3>3. s[i] # s[j]  BY <3>1, <3>2
    <3>4. ~Before(s[j], s[i])  BY <1>2, <3>1, <3>2
    <3> QED  BY <3>1, <3>3, <3>4, RowsAreOrdered
  <2> QED  BY <1>7, <2>1 DEF Sorted, n
<1>9. Sorted(S, Ordered(S))
  <2>1. \E u \in [1..Cardinality(S) -> S] :
          \A i, j \in 1..Cardinality(S) : i < j => Before(u[i], u[j])
    BY <1>8 DEF Sorted
  <2> QED  BY <2>1 DEF Ordered, Sorted
<1>10. ASSUME NEW u, Sorted(S, u) PROVE u = Ordered(S)
  <2> DEFINE v == Ordered(S)
  <2>1. u \in [1..n -> S] /\ v \in [1..n -> S]  BY <1>9, <1>10 DEF Sorted, n
  <2>2. \A i \in 1..n : /\ Cardinality(Ahead(S, u[i])) = i - 1
                        /\ Cardinality(Ahead(S, v[i])) = i - 1
    BY <1>9, <1>10, SortedPlaces DEF n
  <2> HIDE DEF v
  <2>3. ASSUME NEW i \in 1..n PROVE u[i] = v[i]
    <3>1. u[i] \in S /\ v[i] \in S  BY <2>1
    <3>2. Cardinality(Ahead(S, u[i])) = Cardinality(Ahead(S, v[i]))  BY <2>2
    <3>3. r[u[i]] = r[v[i]]  BY <3>1, <3>2 DEF r
    <3> QED  BY <1>4, <3>1, <3>3 DEF Injection, IsInjective
  <2>4. u = [i \in 1..n |-> u[i]] /\ v = [i \in 1..n |-> v[i]]  BY <2>1
  <2>5. [i \in 1..n |-> u[i]] = [i \in 1..n |-> v[i]]  BY <2>3
  <2> QED  BY <2>4, <2>5 DEF v
<1> QED  BY <1>9, <1>10

\* Two sets of which the one comes before the other are ordered one by one.
LEMMA OrderedJoins ==
    ASSUME NEW A \in SUBSET Row, NEW B \in SUBSET Row, IsFiniteSet(A), IsFiniteSet(B),
           \A a \in A, b \in B : Before(a, b)
    PROVE  Ordered(A) \o Ordered(B) = Ordered(A \cup B)
<1> DEFINE s == Ordered(A)
           t == Ordered(B)
           m == Cardinality(A)
           n == Cardinality(B)
           u == s \o t
<1>1. m \in Nat /\ n \in Nat /\ IsFiniteSet(A \cup B)
  BY FS_CardinalityType, FS_Union
<1>2. Cardinality(A \cup B) = m + n
  <2>1. A \cap B = {}  BY RowsAreOrdered
  <2>2. Cardinality(A \cap B) = 0  BY <2>1, FS_EmptySet
  <2>3. Cardinality(A \cup B) = Cardinality(A) + Cardinality(B) - Cardinality(A \cap B)
    BY FS_Union
  <2> QED  BY <1>1, <2>2, <2>3
<1>3. /\ s \in [1..m -> A] /\ \A i, j \in 1..m : i < j => Before(s[i], s[j])
      /\ t \in [1..n -> B] /\ \A i, j \in 1..n : i < j => Before(t[i], t[j])
  BY OrderedIs DEF Sorted
<1>4. s \in Seq(Row) /\ t \in Seq(Row) /\ Len(s) = m /\ Len(t) = n
  <2> HIDE DEF s, t, m, n
  <2>1. s \in [1..m -> Row] /\ t \in [1..n -> Row]  BY <1>3
  <2>2. s \in Seq(Row) /\ t \in Seq(Row)  BY <1>1, <2>1, IsASeq
  <2>3. DOMAIN s = 1..m /\ DOMAIN t = 1..n  BY <2>1
  <2> QED  BY <1>1, <2>2, <2>3, LenProperties
<1> HIDE DEF s, t, m, n
<1>5. /\ u \in Seq(Row) /\ Len(u) = m + n
      /\ \A i \in 1..(m + n) : u[i] = IF i <= m THEN s[i] ELSE t[i - m]
  BY <1>4, ConcatProperties
<1> HIDE DEF u
<1>6. \A i \in 1..(m + n) :
        /\ i <= m => i \in 1..m /\ u[i] = s[i] /\ u[i] \in A
        /\ i > m => i - m \in 1..n /\ u[i] = t[i - m] /\ u[i] \in B
  <2> SUFFICES ASSUME NEW i \in 1..(m + n)
               PROVE  /\ i <= m => i \in 1..m /\ u[i] = s[i] /\ u[i] \in A
                      /\ i > m => i - m \in 1..n /\ u[i] = t[i - m] /\ u[i] \in B
    OBVIOUS
  <2>1. CASE i <= m
    <3>1. i \in 1..m /\ ~(i > m)  BY <1>1, <2>1
    <3> QED  BY <1>3, <1>5, <2>1, <3>1
  <2>2. CASE i > m
    <3>1. i - m \in 1..n /\ ~(i <= m)  BY <1>1, <2>2
    <3> QED  BY <1>3, <1>5, <2>2, <3>1
  <2> QED  BY <1>1, <2>1, <2>2
<1>7. u \in [1..(m + n) -> A \cup B]
  <2>1. \A i \in 1..(m + n) : i <= m \/ i > m  BY <1>1
  <2>2. DOMAIN u = 1..(m + n)  BY <1>5, LenProperties
  <2>3. u \in [1..(m + n) -> Row]  BY <1>5, <2>2, LenProperties
  <2>4. \A i \in 1..(m + n) : u[i] \in A \cup B  BY <1>6, <2>1
  <2> QED  BY <2>3, <2>4
<1>8. ASSUME NEW i \in 1..(m + n), NEW j \in 1..(m + n), i < j
      PROVE  Before(u[i], u[j])
  <2>1. CASE j <= m
    <3>1. i <= m  BY <1>1, <1>8, <2>1
    <3> QED  BY <1>3, <1>6, <1>8, <2>1, <3>1
  <2>2. CASE i <= m /\ j > m
    BY <1>6, <2>2
  <2>3. CASE i > m /\ j > m
    <3>1. i - m < j - m  BY <1>1, <1>8
    <3>2. /\ i - m \in 1..n /\ j - m \in 1..n
          /\ u[i] = t[i - m] /\ u[j] = t[j - m]  BY <1>6, <2>3
    <3> QED  BY <1>3, <3>1, <3>2
  <2> QED  BY <1>1, <2>1, <2>2, <2>3
<1>9. Sorted(A \cup B, u)  BY <1>2, <1>7, <1>8 DEF Sorted
<1>10. A \cup B \in SUBSET Row  OBVIOUS
<1> QED  BY <1>1, <1>9, <1>10, OrderedIs DEF u, s, t

\* A sequence that orders a set holds its rows, the last of them last.
LEMMA OrderedHolds ==
    ASSUME NEW S \in SUBSET Row, IsFiniteSet(S)
    PROVE  /\ Ordered(S) \in Seq(Row) /\ Len(Ordered(S)) = Cardinality(S)
           /\ {Ordered(S)[i] : i \in 1..Len(Ordered(S))} = S
           /\ S # {} =>
                LET last == Ordered(S)[Len(Ordered(S))]
                IN  last \in S /\ \A e \in S : e = last \/ Before(e, last)
<1> DEFINE s == Ordered(S)
           n == Cardinality(S)
<1>1. n \in Nat  BY FS_CardinalityType
<1>2. Sorted(S, s)  BY OrderedIs
<1>3. s \in [1..n -> S] /\ \A i, j \in 1..n : i < j => Before(s[i], s[j])
  BY <1>2 DEF Sorted
<1>4. \A e \in S : \E i \in 1..n : e = s[i]  BY <1>2, SortedPlaces
<1>5. S # {} => n \in 1..n
  <2>1. S # {} => n # 0  BY FS_EmptySet
  <2> HIDE DEF n
  <2> QED  BY <1>1, <2>1
<1> HIDE DEF s, n
<1>6. s \in Seq(Row) /\ Len(s) = n
  <2>1. s \in [1..n -> Row]  BY <1>3
  <2>2. s \in Seq(Row) /\ DOMAIN s = 1..n  BY <1>1, <2>1, IsASeq
  <2> QED  BY <1>1, <2>2, LenProperties
<1>7. {s[i] : i \in 1..n} = S  BY <1>3, <1>4
<1>8. S # {} => s[n] \in S /\ \A e \in S : e = s[n] \/ Before(e, s[n])
  <2> SUFFICES ASSUME S # {}, NEW e \in S
               PROVE  s[n] \in S /\ (e = s[n] \/ Before(e, s[n]))
    BY <1>3, <1>5
  <2>1. PICK i \in 1..n : e = s[i]  BY <1>4
  <2>2. i = n \/ i < n  BY <1>1
  <2> QED  BY <1>3, <1>5, <2>1, <2>2
<1> QED  BY <1>6, <1>7, <1>8 DEF s, n

\* A page: the first rows come before the others, there is one if any is left,
\* and a reading of one more row than the page tells whether any is.
LEMMA PageIsFirst ==
    ASSUME NEW S \in SUBSET Row, IsFiniteSet(S), NEW n \in Nat \ {0}
    PROVE  /\ FirstRows(S, n) \subseteq S
           /\ \A e \in FirstRows(S, n), f \in S \ FirstRows(S, n) : Before(e, f)
           /\ S # {} => FirstRows(S, n) # {}
           /\ FirstRows(FirstRows(S, n + 1), n) = FirstRows(S, n)
           /\ Cardinality(FirstRows(S, n + 1)) <= n =>
                FirstRows(S, n) = S /\ FirstRows(S, n + 1) = S
<1> DEFINE rank(e) == Cardinality(Ahead(S, e))
           F(m) == {e \in S : rank(e) < m}
<1>1. \A m : FirstRows(S, m) = F(m)  BY DEF FirstRows, Ahead
<1>2. \A e, f \in S : Before(e, f) => rank(e) < rank(f)  BY AheadGrows
<1>3. \A e \in S : rank(e) \in Nat /\ rank(e) < Cardinality(S)  BY AheadGrows
<1>4. Cardinality(S) \in Nat  BY FS_CardinalityType
<1>5. \A i \in 1..Cardinality(S) : \E e \in S : rank(e) = i - 1
  <2>1. Sorted(S, Ordered(S))  BY OrderedIs
  <2>2. Ordered(S) \in [1..Cardinality(S) -> S]  BY <2>1 DEF Sorted
  <2> QED  BY <2>1, <2>2, SortedPlaces
<1> HIDE DEF rank
<1>6. \A e \in F(n), f \in S \ F(n) : Before(e, f)
  <2> SUFFICES ASSUME NEW e \in S, rank(e) < n, NEW f \in S, ~(rank(f) < n)
               PROVE  Before(e, f)
    OBVIOUS
  <2>1. rank(e) < rank(f)  BY <1>3
  <2>2. e # f /\ ~Before(f, e)  BY <1>2, <1>3, <2>1
  <2> QED  BY <2>2, RowsAreOrdered
<1>7. S # {} => F(n) # {}
  <2> SUFFICES ASSUME S # {} PROVE \E e \in S : rank(e) < n
    OBVIOUS
  <2>1. Cardinality(S) # 0  BY FS_EmptySet
  <2>2. 1 \in 1..Cardinality(S)  BY <1>4, <2>1
  <2>3. PICK e \in S : rank(e) = 1 - 1  BY <1>5, <2>2
  <2> QED  BY <2>3
<1>8. FirstRows(F(n + 1), n) = F(n)
  <2>1. F(n) \subseteq F(n + 1)  BY <1>3
  <2>2. ASSUME NEW e \in F(n + 1) PROVE {f \in F(n + 1) : Before(f, e)} = Ahead(S, e)
    <3>1. \A f \in S : Before(f, e) => rank(f) < n + 1  BY <1>2, <1>3
    <3> QED  BY <3>1 DEF Ahead
  <2>3. FirstRows(F(n + 1), n) = {e \in F(n + 1) : Cardinality(Ahead(S, e)) < n}
    <3> HIDE DEF F
    <3> QED  BY <2>2 DEF FirstRows
  <2> QED  BY <2>1, <2>3 DEF rank
<1>9. ASSUME Cardinality(F(n + 1)) <= n PROVE F(n) = S /\ F(n + 1) = S
  <2>1. Cardinality(S) <= n
    <3> SUFFICES ASSUME Cardinality(S) > n PROVE FALSE
      BY <1>4
    <3> DEFINE s == Ordered(S)
               q == [i \in 1..(n + 1) |-> s[i]]
    <3>1. Sorted(S, s)  BY OrderedIs
    <3>2. 1..(n + 1) \subseteq 1..Cardinality(S)  BY <1>4
    <3>3. /\ s \in [1..Cardinality(S) -> S]
          /\ \A i \in 1..Cardinality(S) : rank(s[i]) = i - 1
      BY <3>1, SortedPlaces DEF Sorted, rank
    <3> HIDE DEF s
    <3>4. \A i \in 1..(n + 1) : i - 1 < n + 1  OBVIOUS
    <3>5. q \in [1..(n + 1) -> F(n + 1)]  BY <3>2, <3>3, <3>4
    <3>6. \A i, j \in 1..(n + 1) : i - 1 = j - 1 => i = j  OBVIOUS
    <3>7. \A i \in 1..(n + 1) : rank(q[i]) = i - 1  BY <3>2, <3>3
    <3> HIDE DEF q, F
    <3>8. q \in Injection(1..(n + 1), F(n + 1))
      BY <3>5, <3>6, <3>7 DEF Injection, IsInjective
    <3>9. IsFiniteSet(F(n + 1))  BY FS_Subset DEF F
    <3>10. /\ Cardinality(1..(n + 1)) <= Cardinality(F(n + 1))
           /\ Cardinality(F(n + 1)) \in Nat
      BY <3>8, <3>9, FS_Injection, FS_CardinalityType
    <3>11. Cardinality(1..(n + 1)) = n + 1  BY FS_Interval
    <3> QED  BY <1>9, <3>10, <3>11
  <2>2. \A e \in S : rank(e) < n /\ rank(e) < n + 1  BY <1>3, <1>4, <2>1
  <2> QED  BY <2>2
<1> HIDE DEF F
<1>10. F(n) \subseteq S  BY DEF F
<1> QED  BY <1>1, <1>6, <1>7, <1>8, <1>9, <1>10
-----------------------------------------------------------------------------
(* The pages of an export.                                                  *)

\* The rows up to a position, a page of the rows read, and its last row.
Handed(all, position) == {r \in all : \E p \in position : r = p \/ Before(r, p)}
Rest(all, position) == {r \in all : After(position, r)}
PageOf(rows, n) == Ordered(FirstRows(rows, n))
LastOf(page) == page[Len(page)]
GoesOn(all, position, rows, n) ==
    /\ PageOf(rows, n) \in Seq(Row) /\ Ordered(Handed(all, position)) \in Seq(Row)
    /\ Cardinality(rows) <= n =>
         Ordered(Handed(all, position)) \o PageOf(rows, n) = Ordered(all)
    /\ ~(Cardinality(rows) <= n) =>
         /\ LastOf(PageOf(rows, n)) \in all
         /\ Ordered(Handed(all, position)) \o PageOf(rows, n) =
              Ordered(Handed(all, {LastOf(PageOf(rows, n))}))

\* What a page adds: with it, the rows handed out are again all up to the
\* position, and the last page makes them all.
LEMMA PageAdds ==
    ASSUME NEW all \in SUBSET Row, IsFiniteSet(all), NEW position,
           position = {} \/ \E r \in all : position = {r},
           NEW n \in Nat \ {0}, NEW rows,
           rows = FirstRows(Rest(all, position), n + 1)
    PROVE  GoesOn(all, position, rows, n)
<1> DEFINE passed == Handed(all, position)
           rest == Rest(all, position)
           first == FirstRows(rest, n)
           page == PageOf(rows, n)
           last == LastOf(page)
<1>1. /\ \A r \in all : r \in passed \/ r \in rest
      /\ \A a \in passed, b \in rest : Before(a, b)
  <2>1. CASE position = {}  BY <2>1 DEF After, Handed, Rest
  <2>2. ASSUME NEW p \in all, position = {p}
        PROVE  /\ \A r \in all : r \in passed \/ r \in rest
               /\ \A a \in passed, b \in rest : Before(a, b)
    BY <2>2, RowsAreOrdered DEF After, Handed, Rest
  <2> QED  BY <2>1, <2>2
<1>2. /\ passed \in SUBSET Row /\ rest \in SUBSET Row /\ rest \subseteq all
      /\ IsFiniteSet(passed) /\ IsFiniteSet(rest)
  BY FS_Subset DEF Handed, Rest
<1>3. rows = FirstRows(rest, n + 1)  OBVIOUS
<1> HIDE DEF passed, rest
<1>4. /\ first \subseteq rest
      /\ \A e \in first, f \in rest \ first : Before(e, f)
      /\ rest # {} => first # {}
      /\ FirstRows(rows, n) = first
      /\ Cardinality(rows) <= n => first = rest /\ rows = rest
  BY <1>2, <1>3, PageIsFirst
<1>5. page = Ordered(first)  BY <1>4 DEF PageOf
<1> HIDE DEF first
<1>6. first \in SUBSET Row /\ IsFiniteSet(first)  BY <1>2, <1>4, FS_Subset
<1>7. /\ page \in Seq(Row) /\ Ordered(passed) \in Seq(Row)
      /\ first # {} => last \in first /\ \A e \in first : e = last \/ Before(e, last)
  BY <1>2, <1>5, <1>6, OrderedHolds DEF LastOf
<1> HIDE DEF page, last
<1>8. Ordered(passed) \o page = Ordered(passed \cup first)
  BY <1>1, <1>2, <1>4, <1>5, <1>6, OrderedJoins
<1>9. ASSUME Cardinality(rows) <= n PROVE Ordered(passed) \o page = Ordered(all)
  <2>1. passed \cup first = all  BY <1>1, <1>2, <1>4, <1>9 DEF passed, Handed
  <2> QED  BY <1>8, <2>1
<1>10. ASSUME ~(Cardinality(rows) <= n)
       PROVE  /\ last \in all
              /\ Ordered(passed) \o page = Ordered(Handed(all, {last}))
  <2>1. first # {}
    <3>1. CASE rest = {}
      <4>1. rows = {}  BY <1>3, <3>1 DEF FirstRows
      <4>2. Cardinality(rows) = 0  BY <4>1, FS_EmptySet
      <4> QED  BY <1>10, <4>2
    <3> QED  BY <1>4, <3>1
  <2>2. last \in first /\ last \in rest /\ last \in all /\ last \in Row
    BY <1>2, <1>4, <1>7, <2>1
  <2>3. ASSUME NEW r \in all, r = last \/ Before(r, last) PROVE r \in passed \cup first
    <3> SUFFICES ASSUME r \in rest, r \notin first PROVE FALSE
      BY <1>1
    <3>1. Before(last, r)  BY <1>4, <2>2
    <3> QED  BY <2>2, <2>3, <3>1, RowsAreOrdered
  <2>4. \A r \in passed \cup first : r \in all /\ (r = last \/ Before(r, last))
    BY <1>1, <1>2, <1>4, <1>7, <2>1, <2>2 DEF passed, Handed
  <2>5. passed \cup first = Handed(all, {last})
    BY <2>3, <2>4 DEF Handed
  <2> QED  BY <1>8, <2>2, <2>5
<1> QED  BY <1>7, <1>9, <1>10 DEF passed, page, last, GoesOn

\* The ledger only loses the rows it has, and gets new ids.
LedgerMoves ==
    /\ nextId' \in Nat /\ nextId' >= nextId
    /\ org' \in SUBSET OrgRow /\ \A e \in org' : e \in org \/ e.id >= nextId
\* Every step moves the ledger so.
LEMMA LedgerSteps ==
    ASSUME TypeOK, [Next]_vars, TypeOK'
    PROVE  LedgerMoves
<1>1. nextId \in Nat /\ nextId' \in Nat /\ org' \in SUBSET OrgRow
  BY DEF TypeOK, OrgRow
<1>2. CASE UNCHANGED ledger
  BY <1>1, <1>2 DEF ledger, LedgerMoves
<1>3. CASE NothingToRecord
  BY <1>1, <1>3 DEF NothingToRecord, Trim, LedgerMoves
<1>4. ASSUME NEW at, NEW key, Record(at, key) PROVE LedgerMoves
  <2> DEFINE new == [ledger |-> "org", id |-> nextId, at |-> at]
  <2>1. /\ nextId' = nextId + 1 /\ org' \subseteq org \cup {new} /\ new.id = nextId
    BY <1>4 DEF Record, Trim
  <2> HIDE DEF new
  <2> QED  BY <1>1, <2>1 DEF LedgerMoves
<1>5. ASSUME NEW a \in Admins, UpdatePolicy(a) \/ CreateHold(a) \/ ReleaseHold(a)
      PROVE  LedgerMoves
  BY <1>2, <1>3, <1>4, <1>5 DEF UpdatePolicy, CreateHold, ReleaseHold, RecordOnce
<1>6. ASSUME NEW a \in Admins, Control(a) PROVE LedgerMoves
  <2>1. CASE Update(a) \/ Create(a) \/ Release(a)
    BY <1>5, <2>1 DEF Update, Create, Release
  <2>2. CASE BatchFails(a)  BY <1>2, <1>5, <2>2 DEF BatchFails
  <2>3. CASE ~(Update(a) \/ Create(a) \/ Release(a) \/ BatchFails(a))
    <3>1. UNCHANGED ledger
      BY <1>6, <2>3 DEF Control, AskPolicy, AskHold, AskRelease, Ask, FindPolicyRequest,
         ReadVersion, FindHoldRequest, ReadActiveHold, FindReleaseRequest, ReadHold, Reads
    <3> QED  BY <1>2, <3>1
  <2> QED  BY <2>1, <2>2, <2>3
<1>7. CASE DeliverCallAudit  BY <1>4, <1>7 DEF DeliverCallAudit
<1>8. CASE Tick \/ UNCHANGED vars \/ (\E x \in Exporters : Export(x))
           \/ \E t \in receipts : Acknowledge(t)
  <2>1. UNCHANGED ledger
    BY <1>8 DEF Tick, vars, Export, StartExport, ReadPage, CheckPage, LosePage, EndExport,
       Acknowledge
  <2> QED  BY <1>2, <2>1
<1> QED  BY <1>6, <1>7, <1>8 DEF Next

\* So what is left of a checkpoint only shrinks.
LEMMA WithinShrinks ==
    ASSUME TypeOK, LedgerMoves, NEW c \in Checkpoints, c.org < nextId
    PROVE  c.org < nextId' /\ Within(c)' \subseteq Within(c)
<1>1. /\ c.org \in Nat /\ nextId \in Nat /\ nextId' \in Nat /\ nextId' >= nextId
      /\ \A e \in org' : e.id \in Nat /\ (e \in org \/ e.id >= nextId)
  BY DEF Checkpoints, TypeOK, LedgerMoves, OrgRow
<1>2. c.org < nextId'  BY <1>1
<1>3. ASSUME NEW e \in org', e.id <= c.org PROVE e \in org
  BY <1>1, <1>3
<1>4. Within(c)' \subseteq Within(c)  BY <1>3 DEF Within, Upto
<1> QED  BY <1>2, <1>4

\* What others do leaves an export as it was.
LEMMA PageKept ==
    ASSUME TypeOK, LedgerMoves, NEW x \in Exporters, PageInv(export[x]),
           export'[x] = export[x]
    PROVE  PageInv(export[x])'
<1> DEFINE e == export[x]
<1>1. e \in ExportRecord /\ e.c \in Checkpoints  BY DEF PageInv, ExportRecord
<1>2. ASSUME Captured(e) PROVE Captured(export[x])' /\ Within(e.c)' \subseteq Within(e.c)
  <2>1. e.c.org < nextId' /\ Within(e.c)' \subseteq Within(e.c)
    <3> DEFINE c == e.c
    <3>1. c \in Checkpoints /\ c.org < nextId  BY <1>1, <1>2 DEF Captured
    <3>2. PICK k \in Checkpoints : k = c  BY <3>1
    <3>3. k.org < nextId' /\ Within(k)' \subseteq Within(k)
      BY <3>1, <3>2, WithinShrinks
    <3> QED  BY <3>2, <3>3 DEF Within, Upto
  <2> QED  BY <1>2, <2>1 DEF Captured, Within, Upto
<1>3. ASSUME Captured(e), WasRead(e) PROVE WasRead(export[x])'
  <2>1. PICK S \in SUBSET e.all :
          /\ Within(e.c) \subseteq S
          /\ e.rows = FirstRows({r \in S : After(e.position, r)}, PageSize + 1)
    BY <1>3 DEF WasRead
  <2>2. Within(export[x].c)' \subseteq S  BY <1>2, <1>3, <2>1 DEF Within, Upto
  <2> QED  BY <2>1, <2>2 DEF WasRead
<1> QED  BY <1>1, <1>2, <1>3 DEF PageInv, Passed

\* The rows of both ledgers are rows, finitely many.
LEMMA RowsTyped ==
    ASSUME TypeOK
    PROVE  /\ org \in SUBSET Row /\ RosterRows \in SUBSET Row
           /\ IsFiniteSet(org) /\ IsFiniteSet(RosterRows) /\ IsFiniteSet(Rows)
           /\ {r \in Rows : r.ledger = "org"} = org
           /\ {r \in Rows : r.ledger = "roster"} = RosterRows
<1>1. /\ org \in SUBSET OrgRow /\ IsFiniteSet(org)
      /\ RosterRows \in SUBSET RosterRow /\ IsFiniteSet(RosterRows)
  BY ConstantsTyped DEF TypeOK, OrgRow
<1>2. \A r \in org : r \in Row /\ r.ledger = "org"  BY <1>1 DEF OrgRow, Row
<1>3. \A r \in RosterRows : r \in Row /\ r.ledger = "roster"
  BY <1>1 DEF RosterRow, Row
<1>4. IsFiniteSet(Rows)  BY <1>1, FS_Union DEF Rows
<1> QED  BY <1>1, <1>2, <1>3, <1>4 DEF Rows

\* A ledger's greatest id is its greatest.
LEMMA GreatestOf ==
    ASSUME NEW S \in SUBSET Nat, NEW m \in S, \A k \in S : k <= m
    PROVE  Greatest(S) \in S /\ \A k \in S : k <= Greatest(S)
<1>1. \E n \in S : \A k \in S : k <= n  OBVIOUS
<1>2. S # {}  OBVIOUS
<1> QED  BY <1>1, <1>2 DEF Greatest

\* An export begins with all rows, nothing handed out.
LEMMA StartIsOk ==
    ASSUME TypeOK, NewestKept, NEW x \in Exporters, StartExport(x)
    PROVE  PageInv(export[x])'
<1> DEFINE e == [NoExport EXCEPT !.pc = "page", !.c = Checkpoint, !.all = Rows]
<1>1. export'[x] = e /\ org' = org /\ nextId' = nextId
  BY TypeParts DEF StartExport, ExportsTyped, ledger
<1>2. /\ e.pc = "page" /\ e.c = Checkpoint /\ e.position = {} /\ e.rows = {}
      /\ e.out = <<>> /\ e.all = Rows
  BY DEF NoExport
<1>3. e \in ExportRecord
  <2>1. Rows \in SUBSET Row  BY RowsTyped DEF Rows
  <2>2. Checkpoint \in Checkpoints  BY CheckpointTyped
  <2>3. <<>> \in Seq(Row)  OBVIOUS
  <2> QED  BY <2>1, <2>2, <2>3 DEF NoExport, ExportRecord
<1>4. /\ Checkpoint.orgCount = Cardinality(org)
      /\ Checkpoint.rosterCount = Cardinality(RosterRows)
      /\ Checkpoint.org = Greatest({r.id : r \in org})
  BY DEF Checkpoint, Count
<1>5. Greatest({r.id : r \in org}) < nextId
  <2> DEFINE S == {r.id : r \in org}
  <2>1. nextId \in Nat \ {0} /\ \A r \in org : r.id \in Nat /\ r.id < nextId
    BY DEF TypeOK, NewestKept
  <2>2. CASE S = {}  BY <2>1, <2>2 DEF Greatest
  <2>3. CASE S # {}
    <3>1. nextId - 1 \in S  BY <2>3 DEF NewestKept
    <3>2. S \in SUBSET Nat /\ \A k \in S : k <= nextId - 1  BY <2>1
    <3> HIDE DEF S
    <3>3. Greatest(S) \in S  BY <3>1, <3>2, GreatestOf
    <3>4. Greatest(S) \in Nat /\ Greatest(S) <= nextId - 1  BY <3>2, <3>3
    <3> QED  BY <2>1, <3>4 DEF S
  <2> QED  BY <2>2, <2>3
<1> HIDE DEF e
<1>6. Within(e.c) \subseteq e.all  BY <1>2 DEF Within, Upto, Rows
<1>7. Captured(e)  BY <1>2, <1>4, <1>5, <1>6, RowsTyped DEF Captured
<1>8. e.out = Ordered(Passed(e))
  <2>1. Passed(e) = {}  BY <1>2 DEF Passed
  <2>2. Ordered({}) = <<>>
    <3>1. {} \in SUBSET Row /\ IsFiniteSet({}) /\ Cardinality({}) = 0  BY FS_EmptySet
    <3>2. Ordered({}) \in Seq(Row) /\ Len(Ordered({})) = Cardinality({})
      BY <3>1, OrderedHolds
    <3> QED  BY <3>1, <3>2, EmptySeq
  <2> QED  BY <1>2, <2>1, <2>2
<1>9. PageInv(e)  BY <1>2, <1>3, <1>7, <1>8 DEF PageInv
<1> QED  BY <1>1, <1>9 DEF PageInv, Captured, WasRead, Within, Upto, Passed

\* A complete checkpoint has all its rows.
LEMMA CompleteIsAll ==
    ASSUME TypeOK, NEW e \in ExportRecord, Captured(e), Complete(e.c)
    PROVE  Within(e.c) = e.all
<1> DEFINE O == {r \in e.all : r.ledger = "org"}
           T == {r \in e.all : r.ledger = "roster"}
<1>1. e.all \in SUBSET Row /\ \A r \in e.all : r.ledger \in {"org", "roster"}
  BY DEF ExportRecord, Row
<1>2. IsFiniteSet(O) /\ IsFiniteSet(T)  BY FS_Subset DEF Captured
<1>3. /\ \A r \in org : r.ledger = "org"
      /\ \A r \in RosterRows : r.ledger = "roster"
  BY ConstantsTyped DEF TypeOK, RosterRow
<1>4. Upto(org, e.c.org) \subseteq O /\ Upto(RosterRows, e.c.roster) \subseteq T
  BY <1>3 DEF Captured, Within, Upto
<1>5. /\ Cardinality(Upto(org, e.c.org)) = Cardinality(O)
      /\ Cardinality(Upto(RosterRows, e.c.roster)) = Cardinality(T)
  BY DEF Captured, Complete, Count
<1>6. O = Upto(org, e.c.org) /\ T = Upto(RosterRows, e.c.roster)
  BY <1>2, <1>4, <1>5, FS_Subset
<1>7. e.all = O \cup T  BY <1>1
<1> HIDE DEF O, T
<1> QED  BY <1>6, <1>7 DEF Within

\* A page that is checked goes on from its last row, or is the last.
LEMMA CheckIsOk ==
    ASSUME TypeOK, NEW x \in Exporters, PageInv(export[x]), CheckPage(x)
    PROVE  /\ PageInv(export[x])'
           /\ \A t \in receipts' \ receipts :
                t.c.org < nextId /\ Within(t.c) \subseteq Contents(t.out)
<1> DEFINE e == export[x]
           page == Ordered(FirstRows(e.rows, PageSize))
           out == e.out \o page
           last == page[Len(page)]
           done == [e EXCEPT !.pc = "done", !.rows = {}, !.out = out]
           next == [e EXCEPT !.pc = "page", !.rows = {}, !.out = out, !.position = {last}]
<1>1. /\ e \in ExportRecord /\ e.pc = "check" /\ Captured(e) /\ WasRead(e)
      /\ e.position = {} \/ \E r \in e.all : e.position = {r}
      /\ e.out = Ordered(Passed(e))
  BY DEF CheckPage, PageInv
<1>2. org' = org /\ nextId' = nextId  BY DEF CheckPage, ledger
<1>3. export = [y \in Exporters |-> export[y]]  BY TypeParts DEF ExportsTyped
<1>4. ASSUME NEW new, PageInv(new), export'[x] = new PROVE PageInv(export[x])'
  BY <1>2, <1>4 DEF PageInv, Captured, WasRead, Within, Upto, Passed
<1>5. CASE ~SnapshotHolds(e.c)
  <2>1. export'[x] = NoExport /\ receipts' = receipts
    BY <1>3, <1>5 DEF CheckPage
  <2>2. PageInv(NoExport)
    <3>1. <<>> \in Seq(Row)  OBVIOUS
    <3> QED  BY <3>1 DEF NoExport, PageInv, ExportRecord, Checkpoints
  <2> QED  BY <1>4, <2>1, <2>2
<1>6. CASE SnapshotHolds(e.c)
  <2>1. Within(e.c) = e.all  BY <1>1, <1>6, CompleteIsAll DEF SnapshotHolds
  <2>2. e.rows = FirstRows({r \in e.all : After(e.position, r)}, PageSize + 1)
    <3>1. PICK S \in SUBSET e.all :
            /\ Within(e.c) \subseteq S
            /\ e.rows = FirstRows({r \in S : After(e.position, r)}, PageSize + 1)
      BY <1>1 DEF WasRead
    <3>2. S = e.all  BY <2>1, <3>1
    <3> QED  BY <3>1, <3>2
  <2>3. PageSize \in Nat \ {0}  BY AuditAssumption
  <2>4. e.all \in SUBSET Row /\ IsFiniteSet(e.all)  BY <1>1 DEF ExportRecord, Captured
  <2>5. /\ page \in Seq(Row) /\ e.out \in Seq(Row)
        /\ Cardinality(e.rows) <= PageSize => out = Ordered(e.all)
        /\ ~(Cardinality(e.rows) <= PageSize) =>
             /\ last \in e.all
             /\ out = Ordered(Handed(e.all, {last}))
    <3>1. PICK all \in SUBSET Row : all = e.all  BY <2>4
    <3>2. PICK position : position = e.position  OBVIOUS
    <3>3. PICK rows : rows = e.rows  OBVIOUS
    <3>4. /\ IsFiniteSet(all) /\ (position = {} \/ \E r \in all : position = {r})
          /\ rows = FirstRows(Rest(all, position), PageSize + 1)
      BY <1>1, <2>2, <2>4, <3>1, <3>2, <3>3 DEF Rest
    <3>5. GoesOn(all, position, rows, PageSize)  BY <2>3, <3>1, <3>4, PageAdds
    <3>6. /\ e.out = Ordered(Handed(all, position)) /\ page = PageOf(rows, PageSize)
          /\ out = e.out \o page /\ last = LastOf(page)
      BY <1>1, <3>1, <3>2, <3>3 DEF Passed, Handed, PageOf, LastOf
    <3> HIDE DEF page, last, out
    <3> QED  BY <3>1, <3>3, <3>5, <3>6 DEF GoesOn
  <2>6. out \in Seq(Row)  BY <2>5, ConcatProperties
  <2>7. export'[x] = IF Cardinality(e.rows) <= PageSize THEN done ELSE next
    BY <1>3, <1>6 DEF CheckPage
  <2>8. receipts' = IF Cardinality(e.rows) <= PageSize
                    THEN receipts \cup {[c |-> e.c, out |-> out]} ELSE receipts
    BY <1>6 DEF CheckPage, Terminal
  <2> HIDE DEF page, out, last
  <2>9. CASE Cardinality(e.rows) <= PageSize
    <3>1. /\ done \in ExportRecord /\ done.pc = "done" /\ done.out = out
          /\ done.all = e.all /\ done.c = e.c
      BY <1>1, <2>6 DEF ExportRecord
    <3>2. export'[x] = done  BY <2>7, <2>9
    <3> HIDE DEF done
    <3>3. PageInv(done)  BY <1>1, <2>5, <2>9, <3>1 DEF PageInv, Captured
    <3>4. Contents(out) = e.all
      BY <2>4, <2>5, <2>9, OrderedHolds DEF Contents
    <3>5. Within(e.c) \subseteq Contents(out) /\ e.c.org < nextId
      BY <1>1, <3>4 DEF Captured
    <3> QED  BY <1>4, <2>8, <3>2, <3>3, <3>5
  <2>10. CASE ~(Cardinality(e.rows) <= PageSize)
    <3>1. /\ next \in ExportRecord /\ next.pc = "page" /\ next.out = out
          /\ next.all = e.all /\ next.c = e.c /\ next.position = {last}
      BY <1>1, <2>4, <2>5, <2>6, <2>10 DEF ExportRecord
    <3>2. export'[x] = next  BY <2>7, <2>10
    <3> HIDE DEF next
    <3>3. next.out = Ordered(Passed(next))  BY <2>5, <2>10, <3>1 DEF Passed, Handed
    <3>4. PageInv(next)  BY <1>1, <2>5, <2>10, <3>1, <3>3 DEF PageInv, Captured
    <3> QED  BY <1>4, <2>8, <2>10, <3>2, <3>4
  <2> QED  BY <2>9, <2>10
<1> QED  BY <1>5, <1>6

\* A page read leaves the export what it must be.
LEMMA ReadIsOk ==
    ASSUME TypeOK, NEW x \in Exporters, PageInv(export[x]), ReadPage(x)
    PROVE  PageInv(export[x])'
<1> DEFINE e == export[x]
           rows == FirstRows({r \in Within(e.c) : After(e.position, r)}, PageSize + 1)
           read == [e EXCEPT !.pc = "check", !.rows = rows]
<1>1. /\ e \in ExportRecord /\ e.pc = "page" /\ Captured(e)
      /\ e.position = {} \/ \E r \in e.all : e.position = {r}
      /\ e.out = Ordered(Passed(e))
  BY DEF ReadPage, PageInv
<1>2. org' = org /\ nextId' = nextId  BY DEF ReadPage, ledger
<1>3. export'[x] = read
  BY TypeParts DEF ReadPage, ExportsTyped
<1>4. Within(e.c) \in SUBSET e.all /\ e.all \in SUBSET Row
  BY <1>1 DEF Captured, ExportRecord
<1>5. rows \in SUBSET Row  BY <1>4 DEF FirstRows
<1> HIDE DEF rows
<1>6. /\ read \in ExportRecord /\ read.pc = "check" /\ read.rows = rows
      /\ read.c = e.c /\ read.all = e.all /\ read.position = e.position
      /\ read.out = e.out
  BY <1>1, <1>5 DEF ExportRecord
<1> HIDE DEF read
<1>7. rows = FirstRows({r \in Within(e.c) : After(e.position, r)}, PageSize + 1)
  BY DEF rows
<1>8. WasRead(read)  BY <1>4, <1>6, <1>7 DEF WasRead
<1>9. Captured(read) /\ Passed(read) = Passed(e)  BY <1>1, <1>6 DEF Captured, Passed
<1>10. PageInv(read)  BY <1>1, <1>6, <1>8, <1>9 DEF PageInv
<1> QED
  BY <1>2, <1>3, <1>10 DEF PageInv, Captured, WasRead, Within, Upto, Passed

\* So does one whose answer was lost.
LEMMA LossIsOk ==
    ASSUME TypeOK, NEW x \in Exporters, PageInv(export[x]), LosePage(x)
    PROVE  PageInv(export[x])'
<1> DEFINE e == export[x]
           lost == [e EXCEPT !.pc = "page", !.rows = {}]
<1>1. /\ e \in ExportRecord /\ e.pc = "check" /\ Captured(e)
      /\ e.position = {} \/ \E r \in e.all : e.position = {r}
      /\ e.out = Ordered(Passed(e))
  BY DEF LosePage, PageInv
<1>2. org' = org /\ nextId' = nextId  BY DEF LosePage, ledger
<1>3. export'[x] = lost
  BY TypeParts DEF LosePage, ExportsTyped
<1>4. /\ lost \in ExportRecord /\ lost.pc = "page"
      /\ lost.c = e.c /\ lost.all = e.all /\ lost.position = e.position
      /\ lost.out = e.out
  BY <1>1 DEF ExportRecord
<1> HIDE DEF lost
<1>5. Captured(lost) /\ Passed(lost) = Passed(e)  BY <1>1, <1>4 DEF Captured, Passed
<1>6. PageInv(lost)  BY <1>1, <1>4, <1>5 DEF PageInv
<1> QED
  BY <1>2, <1>3, <1>6 DEF PageInv, Captured, WasRead, Within, Upto, Passed

\* No export is one in order.
LEMMA NoExportIsOk == PageInv(NoExport)
<1>1. <<>> \in Seq(Row)  OBVIOUS
<1> QED  BY <1>1 DEF NoExport, PageInv, ExportRecord, Checkpoints

\* So does one that is over or given up.
LEMMA EndIsOk ==
    ASSUME TypeOK, NEW x \in Exporters, EndExport(x)
    PROVE  PageInv(export[x])'
<1>1. export'[x] = NoExport /\ org' = org /\ nextId' = nextId
  BY TypeParts DEF EndExport, ExportsTyped, ledger
<1> QED
  BY <1>1, NoExportIsOk DEF PageInv, Captured, WasRead, Within, Upto, Passed

\* A step of one export leaves every export what it must be.
LEMMA ExportIsOk ==
    ASSUME TypeOK, LedgerMoves, NewestKept, PagesInv, NEW x \in Exporters, Export(x)
    PROVE  PagesInv'
<1> SUFFICES ASSUME NEW y \in Exporters PROVE PageInv(export[y])'
  BY DEF PagesInv
<1>1. PageInv(export[y]) /\ PageInv(export[x])  BY DEF PagesInv
<1>2. CASE y = x
  BY <1>1, <1>2, StartIsOk, ReadIsOk, CheckIsOk, LossIsOk, EndIsOk DEF Export
<1>3. CASE y # x
  <2>1. export'[y] = export[y]
    BY <1>3, TypeParts DEF Export, StartExport, ReadPage, CheckPage, LosePage, EndExport,
       ExportsTyped
  <2> QED  BY <1>1, <2>1, PageKept
<1> QED  BY <1>2, <1>3

\* Receipts and the acknowledgement have what is left of their checkpoints.
LEMMA ReceiptsKept ==
    ASSUME TypeOK, LedgerMoves, PagesInv, ReceiptsInv, [Next]_vars
    PROVE  ReceiptsInv'
<1>1. ASSUME NEW t \in receipts
      PROVE  t.c.org < nextId' /\ Within(t.c)' \subseteq Contents(t.out)
  <2>1. PICK c \in Checkpoints : c = t.c  BY DEF TypeOK
  <2>2. c.org < nextId /\ Within(c) \subseteq Contents(t.out)
    BY <2>1 DEF ReceiptsInv, Within, Upto
  <2>3. c.org < nextId' /\ Within(c)' \subseteq Within(c)  BY <2>2, WithinShrinks
  <2> QED  BY <2>1, <2>2, <2>3 DEF Within, Upto
<1>2. ASSUME NEW t \in receipts', t \notin receipts
      PROVE  t.c.org < nextId' /\ Within(t.c)' \subseteq Contents(t.out)
  <2>1. PICK x \in Exporters : CheckPage(x)
    BY <1>2 DEF Next, vars, exports, Tick, DeliverCallAudit, Export, StartExport, ReadPage,
       LosePage, EndExport, Acknowledge, Control, AskPolicy, AskHold, AskRelease, Ask,
       FindPolicyRequest, ReadVersion, Update, FindHoldRequest, ReadActiveHold, Create,
       FindReleaseRequest, ReadHold, Release, BatchFails, Reads
  <2>2. PageInv(export[x])  BY DEF PagesInv
  <2>3. t.c.org < nextId /\ Within(t.c) \subseteq Contents(t.out)
    BY <1>2, <2>1, <2>2, CheckIsOk
  <2>4. org' = org /\ nextId' = nextId  BY <2>1 DEF CheckPage, ledger
  <2> QED  BY <2>3, <2>4 DEF Within, Upto
<1> QED  BY <1>1, <1>2 DEF ReceiptsInv, Contents, Within, Upto

\* The acknowledgement has them too, whichever receipt it was made with.
LEMMA AcksKept ==
    ASSUME TypeOK, LedgerMoves, ReceiptsInv, AckedInv, [Next]_vars
    PROVE  AckedInv'
<1>1. ASSUME ack' = ack, exported \subseteq exported' PROVE AckedInv'
  <2> SUFFICES ASSUME NEW i \in DOMAIN ack'
               PROVE  (ack[i].org < nextId /\ Within(ack[i]) \subseteq exported)'
    BY DEF AckedInv
  <2>1. PICK c \in Checkpoints : c = ack[i]  BY <1>1 DEF TypeOK
  <2>2. c.org < nextId /\ Within(c) \subseteq exported'
    BY <1>1, <2>1 DEF AckedInv, Within, Upto
  <2>3. c.org < nextId' /\ Within(c)' \subseteq Within(c)
    BY <2>1, <2>2, WithinShrinks
  <2>4. Within(c)' \subseteq exported'  BY <2>2, <2>3
  <2> QED  BY <1>1, <2>1, <2>3, <2>4 DEF Within, Upto
<1>2. ASSUME NEW t \in receipts, Acknowledge(t) PROVE AckedInv'
  <2>1. /\ exported' = exported \cup Contents(t.out)
        /\ ack' = ack \/ ack' = <<t.c>>
        /\ org' = org /\ nextId' = nextId
    BY <1>2 DEF Acknowledge, Contents, ledger
  <2>2. t.c.org < nextId /\ Within(t.c) \subseteq Contents(t.out)  BY DEF ReceiptsInv
  <2>3. CASE ack' = ack  BY <1>1, <2>1, <2>3
  <2>4. CASE ack' = <<t.c>>
    <3> SUFFICES ASSUME NEW i \in DOMAIN ack'
                 PROVE  (ack[i].org < nextId /\ Within(ack[i]) \subseteq exported)'
      BY DEF AckedInv
    <3>1. ack'[i] = t.c  BY <2>4
    <3>2. Within(t.c)' = Within(t.c)  BY <2>1 DEF Within, Upto
    <3> QED  BY <2>1, <2>2, <3>1, <3>2 DEF Within, Upto
  <2> QED  BY <2>1, <2>3, <2>4
<1>3. CASE UNCHANGED <<ack, exported>>  BY <1>1, <1>3
<1> QED
  BY <1>2, <1>3 DEF Next, vars, exports, Tick, DeliverCallAudit, Export, StartExport, ReadPage,
     CheckPage, LosePage, EndExport, Control, AskPolicy, AskHold, AskRelease, Ask,
     FindPolicyRequest, ReadVersion, Update, FindHoldRequest, ReadActiveHold, Create,
     FindReleaseRequest, ReadHold, Release, BatchFails, Reads

\* What else happens leaves the exports alone.
LEMMA OthersLeaveExports ==
    ASSUME [Next]_vars, ~(\E x \in Exporters : Export(x))
    PROVE  UNCHANGED export
BY DEF Next, vars, exports, Tick, DeliverCallAudit, Acknowledge, Control, AskPolicy, AskHold,
   AskRelease, Ask, FindPolicyRequest, ReadVersion, Update, FindHoldRequest, ReadActiveHold,
   Create, FindReleaseRequest, ReadHold, Release, BatchFails, Reads

\* Every reachable state has its pages, receipts and acknowledgement in order.
THEOREM ExportInvariant == Spec => [](TypeOK /\ AuditInv /\ ExportInv)
<1>1. Init => ExportInv
  <2> SUFFICES ASSUME Init PROVE ExportInv
    OBVIOUS
  <2>1. PagesInv  BY NoExportIsOk DEF Init, PagesInv
  <2>2. ReceiptsInv /\ AckedInv  BY DEF Init, ReceiptsInv, AckedInv
  <2> QED  BY <2>1, <2>2 DEF ExportInv
<1>2. TypeOK /\ AuditInv /\ ExportInv /\ [Next]_vars /\ TypeOK' => ExportInv'
  <2> SUFFICES ASSUME TypeOK, AuditInv, ExportInv, [Next]_vars, TypeOK' PROVE ExportInv'
    OBVIOUS
  <2>1. LedgerMoves  BY LedgerSteps
  <2>2. NewestKept /\ PagesInv /\ ReceiptsInv /\ AckedInv  BY DEF AuditInv, ExportInv
  <2>3. PagesInv'
    <3>1. CASE \E x \in Exporters : Export(x)  BY <2>1, <2>2, <3>1, ExportIsOk
    <3>2. CASE UNCHANGED export
      BY <2>1, <2>2, <3>2, PageKept DEF PagesInv
    <3> QED  BY <3>1, <3>2, OthersLeaveExports
  <2>4. ReceiptsInv' /\ AckedInv'  BY <2>1, <2>2, ReceiptsKept, AcksKept
  <2> QED  BY <2>3, <2>4 DEF ExportInv
<1> QED  BY <1>1, <1>2, AuditInvariant, PTL DEF Spec

\* An export that ends with a receipt handed out its checkpoint's rows, each
\* once and in order, though events came and the trim took some between pages.
THEOREM ExportsAreExact == Spec => []ExportExact
<1>1. ExportInv => ExportExact  BY DEF ExportInv, PagesInv, PageInv, ExportExact
<1> QED  BY <1>1, ExportInvariant, PTL

\* What a retention run may delete was exported in full and acknowledged.
THEOREM EligibleIsExported == Spec => []EligibleExported
<1>1. TypeOK /\ ExportInv => EligibleExported
  <2> SUFFICES ASSUME TypeOK, ExportInv PROVE EligibleExported
    OBVIOUS
  <2>1. ASSUME NEW e \in Rows, Acked(e) PROVE e \in exported
    <3>1. 1 \in DOMAIN ack  BY <2>1 DEF TypeOK, Acked
    <3>2. Within(ack[1]) \subseteq exported  BY <3>1 DEF ExportInv, AckedInv
    <3>3. CASE e \in org
      BY <2>1, <3>2, <3>3 DEF Acked, Within, Upto, TypeOK
    <3>4. CASE e \in RosterRows
      BY <2>1, <3>2, <3>4, ConstantsTyped DEF Acked, Within, Upto, RosterRow
    <3> QED  BY <3>3, <3>4 DEF Rows
  <2>2. ASSUME NEW t \in 0..now PROVE Eligible(t) \subseteq exported
    BY <2>1 DEF Eligible
  <2>3. ASSUME NEW t \in 0..now, Readiness(t) = "ready", NEW e \in Rows, Old(t, e)
        PROVE  e \in exported
    <3>1. Unacknowledged(t) = {}  BY <2>3 DEF Readiness
    <3>2. Acked(e)  BY <2>3, <3>1 DEF Unacknowledged
    <3> QED  BY <2>1, <3>2
  <2> QED  BY <2>2, <2>3 DEF EligibleExported
<1> QED  BY <1>1, ExportInvariant, PTL
=============================================================================
