------------------------ MODULE HandleDOHandlerProofs ------------------------
(***************************************************************************)
(* What handlers carry over their waits for D1: the batches of the audit   *)
(* outbox, from which the order of a call's rows follows; and the stages   *)
(* they have left, on which the alarm and the delivery slot rest.          *)
(***************************************************************************)
EXTENDS HandleDOProofs

-----------------------------------------------------------------------------
(* The order of audit rows.  Within a call, intents are made in the order  *)
(* of their ranks, and a batch takes with an intent the older ones of its  *)
(* call, so an older event is in D1 before a newer one or with it.         *)

\* An intent that a newer row of its call would have to wait for.
Older(d, e) == CallAuditRank(d) < CallAuditRank(e)
OutboxOrder ==
    /\ \A i \in outbox : i.at <= now
    /\ \A i, j \in outbox : i.call = j.call =>
         /\ i.event = j.event => i = j
         /\ Older(i.event, j.event) => i.at <= j.at
    /\ \A j \in outbox : \A e \in Events :
         rows[j.call][e] # 0 /\ Older(j.event, e) => rows[j.call][j.event] # 0
BatchOrder ==
    \A h \in Handlers : \A i \in handler[h].batch :
      /\ i.at <= now
      /\ \A j \in outbox : j.call = i.call /\ IntentBefore(j, i) =>
           j \in handler[h].batch \/ rows[j.call][j.event] # 0
StoredEvents(c) == {e \in Events : rows[c][e] # 0}
RowOrder ==
    \A c \in Calls, e \in Events :
      /\ rows[c][e] <= Cardinality(StoredEvents(c))
      /\ \A d \in Events : rows[c][e] # 0 /\ Older(d, e) => rows[c][d] < rows[c][e]
AuditInv == OutboxOrder /\ BatchOrder /\ RowOrder

\* The fields of an intent that its order is made of.
LEMMA RankType ==
    /\ \A e : CallAuditRank(e) \in 0..2
    /\ \A i \in Intent : i.at \in Nat /\ i.call \in Nat /\ i.event \in Events
<1>1. \A c \in Calls : c \in Nat  BY HandleDOAssumption
<1>2. \A e : CallAuditRank(e) \in 0..2  BY DEF CallAuditRank
<1> QED  BY <1>1, <1>2 DEF Intent, Times

\* Intents of a call are ordered by time, then rank.
LEMMA IntentOrder ==
    ASSUME NEW i \in Intent, NEW j \in Intent
    PROVE  /\ IntentBefore(i, i)
           /\ \A k \in Intent : IntentBefore(i, j) /\ IntentBefore(j, k)
                                  => IntentBefore(i, k)
           /\ i.at <= j.at /\ Older(i.event, j.event) =>
                IntentBefore(i, j) /\ ~IntentBefore(j, i)
BY RankType DEF IntentBefore, Older

\* The first intents of the outbox include all that come before one of them.
LEMMA FirstClosed ==
    ASSUME NEW S \in SUBSET Intent, IsFiniteSet(S), NEW i \in FirstIntents(S),
           NEW j \in S, IntentBefore(j, i)
    PROVE  j \in FirstIntents(S)
<1> DEFINE upTo(x) == {k \in S : IntentBefore(k, x)}
<1>1. upTo(j) \subseteq upTo(i)  BY IntentOrder DEF FirstIntents
<1>2. upTo(i) \subseteq S  OBVIOUS
<1>3. IsFiniteSet(upTo(i)) /\ Cardinality(upTo(j)) <= Cardinality(upTo(i))
  BY <1>1, <1>2, FS_Subset
<1>4. Cardinality(upTo(i)) \in Nat /\ Cardinality(upTo(j)) \in Nat
  BY <1>1, <1>3, FS_Subset, FS_CardinalityType
<1>5. Cardinality(upTo(i)) <= DrainLimit  BY DEF FirstIntents
<1>6. DrainLimit \in Nat  BY HandleDOAssumption
<1>7. Cardinality(upTo(j)) <= DrainLimit  BY <1>3, <1>4, <1>5, <1>6
<1> QED  BY <1>7 DEF FirstIntents

\* There are finitely many events.
LEMMA EventsFinite == IsFiniteSet(Events)
<1>1. IsFiniteSet({}) /\ \A T, x : IsFiniteSet(T) => IsFiniteSet(T \cup {x})
  BY FS_EmptySet, FS_AddElement
<1>2. Events = (((((({} \cup {"submit"}) \cup {"accept"}) \cup {"complete"})
                 \cup {"fail"}) \cup {"cancel"}) \cup {"timeout"})
  BY DEF Events, TerminalEvents
<1> QED  BY <1>1, <1>2, Zenon

\* A step that adds an intent adds one newer than all of its call's trail.
LEMMA NewestIntent ==
    ASSUME IndexInv, RecordInv, TrailInv, [Next]_vars, outbox' # outbox,
           ~ \E h \in Handlers : FlushDone(h)
    PROVE  \E c \in Calls, e \in Events :
             /\ outbox' = outbox \cup {CallAuditIntent(c, e)}
             /\ \A d \in Trail(c) : Older(d, e)
             /\ \A i \in outbox : i.call = c => Older(i.event, e)
<1>0. TypeOK /\ TypeOK' /\ Changed
  BY StepChanged, TypeStep DEF IndexInv, FlushInv
<1>1. PICK c \in Calls : ChangesOf(c)  BY <1>0 DEF Changed, Untouched
<1>2. Advance(c, Phase(c), Phase(c)') /\ TrailFits(Phase(c), Trail(c))
  BY <1>0, <1>1, PhaseStep DEF IndexInv, TrailInv
<1>3. /\ CallStates = {"ringing", "answered", "working"}
      /\ TerminalStates = {"completed", "failed", "canceled", "rejected"}
      /\ Events = {"submit", "accept", "complete", "fail", "cancel", "timeout"}
  BY DEF CallStates, TerminalStates, Events, TerminalEvents
<1>4. \E e \in Events : Recorded(c, e) /\ \A d \in Trail(c) : Older(d, e)
  <2>1. CASE Phase(c) = "none" /\ Recorded(c, "submit")
    BY <1>2, <1>3, <2>1 DEF TrailFits
  <2>2. CASE Phase(c) = "ringing" /\ Recorded(c, "accept")
    BY <1>2, <1>3, <2>2 DEF TrailFits, Older, CallAuditRank
  <2>3. ASSUME Phase(c) \in CallStates, NEW e \in TerminalEvents, Recorded(c, e)
        PROVE  \A d \in Trail(c) : Older(d, e)
    <3>1. Trail(c) \subseteq {"submit", "accept"}
      BY <1>2, <1>3, <2>3 DEF TrailFits
    <3> QED  BY <2>3, <3>1 DEF Older, CallAuditRank, TerminalEvents
  <2>4. TerminalEvents \subseteq Events  BY DEF Events
  <2>5. "timeout" \in TerminalEvents /\ \A e, s : Records(e, s) => e \in TerminalEvents
    BY DEF TerminalEvents, Records
  <2>6. \/ Phase(c) = "none" /\ Recorded(c, "submit")
        \/ Phase(c) = "ringing" /\ Recorded(c, "accept")
        \/ Phase(c) \in CallStates /\ \E e \in TerminalEvents : Recorded(c, e)
    BY <1>2, <2>5 DEF Advance
  <2> QED  BY <1>3, <2>1, <2>2, <2>3, <2>4, <2>6
<1>5. ASSUME NEW i \in outbox, i.call = c PROVE i.event \in Trail(c)
  BY <1>0, <1>5, RankType DEF Trail, TypeOK
<1> QED  BY <1>4, <1>5 DEF Recorded

\* What a step may put in the outbox: one intent newer than its call's trail.
Newest(j) == /\ j.at = now /\ \A d \in Trail(j.call) : Older(d, j.event)
             /\ \A i \in outbox : i.call = j.call => Older(i.event, j.event)

\* The invariant through every step but an insertion of D1.
LEMMA OrderKept ==
    ASSUME AuditInv, TypeOK, TypeOK', IsFiniteSet(outbox'), now <= now',
           BatchesKnown, HandlersKept, rows' = rows,
           \A j \in outbox' : j \in outbox \/ Newest(j),
           \A i, j \in outbox' \ outbox : i = j
    PROVE  AuditInv'
<1>0. /\ outbox \subseteq Intent /\ outbox' \subseteq Intent
      /\ now \in Nat /\ now' \in Nat
      /\ \A h \in Handlers : handler[h].batch \subseteq Intent
  BY DEF TypeOK, Handler
<1>1. \A n \in Nat : n <= now => n <= now'  BY <1>0
<1>2. \A i \in outbox' : i.at <= now'
  BY <1>0, <1>1, RankType DEF AuditInv, OutboxOrder, Newest
<1>3. \A e : ~Older(e, e) /\ \A d : Older(d, e) => ~Older(e, d)
  BY RankType DEF Older
<1>4. ASSUME NEW i \in outbox', NEW j \in outbox', i.call = j.call
      PROVE  /\ i.event = j.event => i = j
             /\ Older(i.event, j.event) => i.at <= j.at
  <2>1. CASE i \in outbox /\ j \in outbox
    BY <1>4, <2>1 DEF AuditInv, OutboxOrder
  <2>2. CASE i \in outbox /\ Newest(j)
    BY <1>0, <1>3, <1>4, <2>2 DEF AuditInv, OutboxOrder, Newest
  <2>3. CASE j \in outbox /\ Newest(i)
    BY <1>0, <1>3, <1>4, <2>3 DEF AuditInv, OutboxOrder, Newest
  <2>4. CASE i \notin outbox /\ j \notin outbox
    BY <1>3, <1>4, <2>4
  <2> QED  BY <2>1, <2>2, <2>3, <2>4
<1>5. ASSUME NEW j \in outbox', NEW e \in Events, rows'[j.call][e] # 0,
             Older(j.event, e)
      PROVE  rows'[j.call][j.event] # 0
  <2>1. CASE j \in outbox  BY <1>5, <2>1 DEF AuditInv, OutboxOrder
  <2>2. CASE Newest(j)
    <3>1. e \in Trail(j.call)  BY <1>5 DEF Trail
    <3> QED  BY <1>3, <1>5, <2>2, <3>1 DEF Newest
  <2> QED  BY <2>1, <2>2
<1>6. OutboxOrder'  BY <1>2, <1>4, <1>5 DEF OutboxOrder
<1>7. BatchOrder'
  <2> SUFFICES ASSUME NEW h \in Handlers, NEW i \in handler'[h].batch
               PROVE  /\ i.at <= now'
                      /\ \A j \in outbox' : j.call = i.call /\ IntentBefore(j, i) =>
                           j \in handler'[h].batch \/ rows'[j.call][j.event] # 0
    BY DEF BatchOrder
  <2>1. CASE handler'[h].batch = handler[h].batch
    <3>1. i \in Intent /\ i.at \in Nat /\ i.at <= now
      BY <1>0, <2>1, RankType DEF AuditInv, BatchOrder
    <3>2. ASSUME NEW j \in outbox', j.call = i.call, IntentBefore(j, i), j \notin outbox
          PROVE  FALSE
      <4>1. Newest(j) /\ j \in Intent  BY <1>0, <3>2
      <4>2. i.event \in Trail(j.call)
        <5>1. i.event \in Events  BY <3>1, RankType
        <5> QED  BY <2>1, <3>2, <5>1 DEF BatchesKnown, Trail
      <4>3. Older(i.event, j.event) /\ i.at <= j.at  BY <3>1, <4>1, <4>2 DEF Newest
      <4> QED  BY <3>1, <3>2, <4>1, <4>3, IntentOrder
    <3> QED  BY <1>1, <2>1, <3>1, <3>2 DEF AuditInv, BatchOrder
  <2>2. CASE handler'[h].batch = FirstIntents(outbox')
    <3>1. i \in outbox'  BY <2>2 DEF FirstIntents
    <3>2. \A j \in outbox' : IntentBefore(j, i) => j \in FirstIntents(outbox')
      BY <1>0, <2>2, FirstClosed
    <3> QED  BY <1>2, <2>2, <3>1, <3>2
  <2> QED  BY <2>1, <2>2 DEF HandlersKept, Keeps
<1>8. RowOrder'  BY DEF AuditInv, RowOrder, StoredEvents
<1> QED  BY <1>6, <1>7, <1>8 DEF AuditInv

\* What D1 makes of a batch: the intents whose event it has no row of are
\* still in the outbox, and get the ranks after the rows of their call.
Fresh(h) == {i \in handler[h].batch : rows[i.call][i.event] = 0}
FreshOf(h, c) == {i \in Fresh(h) : i.call = c}
FreshUpTo(h, i) == {j \in Fresh(h) : j.call = i.call /\ IntentBefore(j, i)}
LEMMA InsertedRows ==
    ASSUME AuditInv, FlushInv, BatchesKnown, NEW h \in Handlers, D1Insert(h)
    PROVE  /\ Fresh(h) \subseteq outbox /\ Fresh(h) \subseteq Intent
           /\ IsFiniteSet(Fresh(h))
           /\ \A i \in Fresh(h) :
                rows'[i.call][i.event] = Cardinality(StoredEvents(i.call))
                                           + Cardinality(FreshUpTo(h, i))
           /\ \A c \in Calls, e \in Events :
                (~ \E i \in Fresh(h) : i.call = c /\ i.event = e)
                  => rows'[c][e] = rows[c][e]
<1> DEFINE id(i) == Cardinality(StoredEvents(i.call)) + Cardinality(FreshUpTo(h, i))
           of(c, e) == CHOOSE i \in Fresh(h) : i.call = c /\ i.event = e
<1>1. Fresh(h) \subseteq outbox  BY DEF BatchesKnown, Fresh
<1>2. handler[h].batch \subseteq Intent /\ IsFiniteSet(handler[h].batch)
  BY DEF FlushInv, TypeOK, Handler, Finite
<1>3. Fresh(h) \subseteq handler[h].batch  BY DEF Fresh
<1>4. IsFiniteSet(Fresh(h)) /\ Fresh(h) \subseteq Intent  BY <1>2, <1>3, FS_Subset
<1>5. rows' = [c \in Calls |-> [e \in Events |->
                IF \E i \in Fresh(h) : i.call = c /\ i.event = e
                THEN id(of(c, e)) ELSE rows[c][e]]]
  BY DEF D1Insert, Fresh, FreshUpTo, StoredEvents
<1>6. ASSUME NEW i \in Fresh(h)  PROVE of(i.call, i.event) = i
  <2>1. \A j \in Fresh(h) : j.call = i.call /\ j.event = i.event => j = i
    BY <1>1 DEF AuditInv, OutboxOrder
  <2> QED  BY <2>1
<1> HIDE DEF id, of
<1>7. ASSUME NEW i \in Fresh(h)  PROVE rows'[i.call][i.event] = id(i)
  <2>1. i.call \in Calls /\ i.event \in Events  BY <1>4 DEF Intent
  <2> QED  BY <1>5, <1>6, <2>1
<1>8. ASSUME NEW c \in Calls, NEW e \in Events,
             ~ \E i \in Fresh(h) : i.call = c /\ i.event = e
      PROVE  rows'[c][e] = rows[c][e]
  BY <1>5, <1>8
<1> QED  BY <1>1, <1>4, <1>7, <1>8 DEF id

\* Among the fresh intents of a call, an older one has fewer before it.
LEMMA FreshRanks ==
    ASSUME OutboxOrder, NEW h \in Handlers, Fresh(h) \subseteq outbox,
           Fresh(h) \subseteq Intent, IsFiniteSet(Fresh(h)), NEW i \in Fresh(h)
    PROVE  /\ Cardinality(FreshUpTo(h, i)) \in Nat \ {0}
           /\ Cardinality(FreshUpTo(h, i)) <= Cardinality(FreshOf(h, i.call))
           /\ \A j \in Fresh(h) : j.call = i.call /\ Older(j.event, i.event) =>
                Cardinality(FreshUpTo(h, j)) < Cardinality(FreshUpTo(h, i))
<1>1. /\ FreshUpTo(h, i) \subseteq FreshOf(h, i.call)
      /\ FreshOf(h, i.call) \subseteq Fresh(h)
  BY DEF FreshUpTo, FreshOf
<1>2. /\ IsFiniteSet(FreshOf(h, i.call)) /\ IsFiniteSet(FreshUpTo(h, i))
      /\ Cardinality(FreshUpTo(h, i)) <= Cardinality(FreshOf(h, i.call))
  BY <1>1, FS_Subset
<1>3. i \in FreshUpTo(h, i)  BY IntentOrder DEF FreshUpTo
<1>4. Cardinality(FreshUpTo(h, i)) \in Nat \ {0}
  BY <1>2, <1>3, FS_CardinalityType, FS_EmptySet
<1>5. ASSUME NEW j \in Fresh(h), j.call = i.call, Older(j.event, i.event)
      PROVE  Cardinality(FreshUpTo(h, j)) < Cardinality(FreshUpTo(h, i))
  <2>1. j.at <= i.at  BY <1>5 DEF OutboxOrder
  <2>2. IntentBefore(j, i) /\ ~IntentBefore(i, j)  BY <1>5, <2>1, IntentOrder
  <2>3. FreshUpTo(h, j) \subseteq FreshUpTo(h, i)
    BY <1>5, <2>2, IntentOrder DEF FreshUpTo
  <2>4. FreshUpTo(h, j) # FreshUpTo(h, i)
    BY <1>3, <2>2 DEF FreshUpTo
  <2> QED  BY <1>2, <2>3, <2>4, FS_Subset, FS_CardinalityType
<1> QED  BY <1>2, <1>4, <1>5

\* The elements of disjoint sets are counted one by one.
LEMMA DisjointUnion ==
    ASSUME NEW S, NEW T, IsFiniteSet(S), IsFiniteSet(T), S \cap T = {}
    PROVE  Cardinality(S \cup T) = Cardinality(S) + Cardinality(T)
<1>1. Cardinality(S \cup T) =
        Cardinality(S) + Cardinality(T) - Cardinality(S \cap T)
  BY FS_Union
<1>2. Cardinality(S \cap T) = 0  BY FS_EmptySet, Zenon
<1>3. Cardinality(S) \in Nat /\ Cardinality(T) \in Nat  BY FS_CardinalityType
<1> QED  BY <1>1, <1>2, <1>3

\* D1 has as many more events of a call as the batch had fresh ones.
LEMMA StoredCount ==
    ASSUME AuditInv, FlushInv, BatchesKnown, NEW h \in Handlers, D1Insert(h),
           NEW c \in Calls
    PROVE  /\ Cardinality(StoredEvents(c)) \in Nat
           /\ Cardinality(FreshOf(h, c)) \in Nat
           /\ Cardinality(StoredEvents(c)') >=
                Cardinality(StoredEvents(c)) + Cardinality(FreshOf(h, c))
<1> DEFINE fresh == FreshOf(h, c)
           added == {e \in Events : rows[c][e] = 0 /\ rows'[c][e] # 0}
           event == [i \in fresh |-> i.event]
<1>1. /\ Fresh(h) \subseteq outbox /\ Fresh(h) \subseteq Intent
      /\ IsFiniteSet(Fresh(h)) /\ fresh \subseteq Fresh(h)
  BY InsertedRows DEF FreshOf
<1>2. /\ \A i \in handler[h].batch : rows'[i.call][i.event] # 0
      /\ \A e \in Events : rows[c][e] # 0 => rows'[c][e] = rows[c][e]
  BY D1InsertRows DEF FlushInv
<1>3. IsFiniteSet(StoredEvents(c)) /\ IsFiniteSet(added)
  <2>1. StoredEvents(c) \subseteq Events /\ added \subseteq Events
    BY DEF StoredEvents
  <2> QED  BY <2>1, EventsFinite, FS_Subset
<1>4. event \in Injection(fresh, added)
  <2>1. \A i \in fresh : i.event \in added
    BY <1>1, <1>2 DEF FreshOf, Fresh, Intent
  <2>2. \A i, j \in fresh : i.event = j.event => i = j
    BY <1>1 DEF FreshOf, AuditInv, OutboxOrder
  <2> QED  BY <2>1, <2>2 DEF Injection, IsInjective
<1>5. IsFiniteSet(fresh) /\ Cardinality(fresh) <= Cardinality(added)
  BY <1>3, <1>4, FS_Injection
<1>6. StoredEvents(c)' = StoredEvents(c) \cup added
  BY <1>2 DEF StoredEvents
<1>7. StoredEvents(c) \cap added = {}  BY DEF StoredEvents
<1>8. Cardinality(StoredEvents(c) \cup added)
        = Cardinality(StoredEvents(c)) + Cardinality(added)
  BY <1>3, <1>7, DisjointUnion
<1>9. /\ Cardinality(StoredEvents(c)) \in Nat /\ Cardinality(added) \in Nat
      /\ Cardinality(fresh) \in Nat
  BY <1>3, <1>5, FS_CardinalityType
<1> HIDE DEF added, fresh
<1>10. Cardinality(StoredEvents(c)') >= Cardinality(StoredEvents(c)) + Cardinality(fresh)
  BY <1>5, <1>6, <1>8, <1>9
<1> QED  BY <1>9, <1>10 DEF fresh

\* The invariant through an insertion of D1.
LEMMA InsertOrder ==
    ASSUME AuditInv, FlushInv, BatchesKnown, NEW h \in Handlers, D1Insert(h)
    PROVE  AuditInv'
<1>0. /\ outbox' = outbox /\ now' = now /\ outbox \subseteq Intent
      /\ Fresh(h) \subseteq outbox /\ Fresh(h) \subseteq Intent
      /\ IsFiniteSet(Fresh(h)) /\ OutboxOrder
      /\ rows \in [Calls -> [Events -> Nat]]
  BY InsertedRows DEF D1Insert, durables, FlushInv, TypeOK, AuditInv
<1>1. /\ \A c \in Calls, e \in Events : rows[c][e] # 0 => rows'[c][e] = rows[c][e]
      /\ \A i \in handler[h].batch : rows'[i.call][i.event] # 0
  BY D1InsertRows DEF FlushInv
<1>2. \A c \in Calls, e \in Events :
        (~ \E i \in Fresh(h) : i.call = c /\ i.event = e) => rows'[c][e] = rows[c][e]
  BY InsertedRows
<1>3. \A c \in Calls, d, e \in Events :
        rows[c][e] # 0 /\ Older(d, e) => ~ \E i \in Fresh(h) : i.call = c /\ i.event = d
  BY <1>0 DEF OutboxOrder, Fresh
<1>4. ASSUME NEW i \in Fresh(h)
      PROVE  /\ i.call \in Calls /\ i.event \in Events
             /\ rows'[i.call][i.event] = Cardinality(StoredEvents(i.call))
                                           + Cardinality(FreshUpTo(h, i))
             /\ Cardinality(FreshUpTo(h, i)) \in Nat \ {0}
             /\ Cardinality(FreshUpTo(h, i)) <= Cardinality(FreshOf(h, i.call))
  BY <1>0, InsertedRows, FreshRanks DEF Intent
<1>5. OutboxOrder'
  <2>1. ASSUME NEW j \in outbox', NEW e \in Events, rows'[j.call][e] # 0,
               Older(j.event, e)
        PROVE  rows'[j.call][j.event] # 0
    <3>0. j \in outbox /\ j.call \in Calls /\ j.event \in Events
      BY <1>0, <2>1 DEF Intent
    <3>1. CASE rows[j.call][e] # 0
      BY <1>0, <1>1, <2>1, <3>0, <3>1 DEF OutboxOrder
    <3>2. ASSUME NEW i \in Fresh(h), i.call = j.call, i.event = e
          PROVE  rows'[j.call][j.event] # 0
      <4>1. j.at <= i.at  BY <1>0, <2>1, <3>0, <3>2 DEF OutboxOrder
      <4>2. j \in Intent /\ i \in Intent  BY <1>0, <3>0, <3>2
      <4>3. IntentBefore(j, i)  BY <2>1, <3>2, <4>1, <4>2, IntentOrder
      <4>4. j \in handler[h].batch \/ rows[j.call][j.event] # 0
        <5>1. i \in handler[h].batch  BY DEF Fresh
        <5> QED  BY <3>0, <3>2, <4>3, <5>1 DEF AuditInv, BatchOrder
      <4> QED  BY <1>1, <3>0, <4>4
    <3> QED  BY <1>2, <2>1, <3>0, <3>1, <3>2
  <2> QED  BY <1>0, <2>1 DEF OutboxOrder
<1>6. BatchOrder'
  <2>1. \A g \in Handlers : handler'[g].batch = handler[g].batch
    <3>1. handler' = [handler EXCEPT ![h].stored = TRUE]  BY DEF D1Insert
    <3>2. \A g \in Handlers : handler[g] \in Handler  BY DEF FlushInv, TypeOK
    <3> QED  BY <3>1, <3>2 DEF FlushInv, TypeOK, Handler
  <2>2. \A j \in outbox : rows[j.call][j.event] # 0 => rows'[j.call][j.event] # 0
    BY <1>0, <1>1 DEF Intent
  <2> QED  BY <1>0, <2>1, <2>2 DEF AuditInv, BatchOrder
<1>7. RowOrder'
  <2> SUFFICES ASSUME NEW c \in Calls, NEW e \in Events
               PROVE  /\ rows'[c][e] <= Cardinality(StoredEvents(c)')
                      /\ \A d \in Events : rows'[c][e] # 0 /\ Older(d, e) =>
                           rows'[c][d] < rows'[c][e]
    BY DEF RowOrder
  <2> DEFINE N == Cardinality(StoredEvents(c))
             F == Cardinality(FreshOf(h, c))
             M == Cardinality(StoredEvents(c)')
  <2>1. N \in Nat /\ F \in Nat /\ M >= N + F /\ M \in Nat
    <3>1. N \in Nat /\ F \in Nat /\ M >= N + F  BY StoredCount
    <3>2. StoredEvents(c)' \subseteq Events  BY DEF StoredEvents
    <3>3. M \in Nat  BY <3>2, EventsFinite, FS_Subset, FS_CardinalityType
    <3> QED  BY <3>1, <3>3
  <2>2. /\ \A d \in Events : rows[c][d] \in Nat /\ rows[c][d] <= N
        /\ \A d \in Events : rows[c][e] # 0 /\ Older(d, e) => rows[c][d] < rows[c][e]
    BY <1>0 DEF AuditInv, RowOrder
  <2> HIDE DEF N, F, M
  <2>3. CASE ~ \E i \in Fresh(h) : i.call = c /\ i.event = e
    <3>1. rows'[c][e] = rows[c][e]  BY <1>2, <2>3
    <3>2. rows'[c][e] <= M  BY <2>1, <2>2, <3>1
    <3>3. \A d \in Events : rows[c][e] # 0 /\ Older(d, e) => rows'[c][d] = rows[c][d]
      BY <1>2, <1>3
    <3> QED  BY <2>2, <3>1, <3>2, <3>3 DEF M
  <2>4. ASSUME NEW i \in Fresh(h), i.call = c, i.event = e
        PROVE  /\ rows'[c][e] <= M
               /\ \A d \in Events : Older(d, e) => rows'[c][d] < rows'[c][e]
    <3> DEFINE K == Cardinality(FreshUpTo(h, i))
    <3>1. rows'[c][e] = N + K /\ K \in Nat \ {0} /\ K <= F
      BY <1>4, <2>4 DEF N, F
    <3>2. ASSUME NEW d \in Events, Older(d, e)
          PROVE  rows'[c][d] < N + K
      <4>1. CASE ~ \E j \in Fresh(h) : j.call = c /\ j.event = d
        <5>1. rows'[c][d] = rows[c][d]  BY <1>2, <4>1
        <5> HIDE DEF K
        <5> QED  BY <2>1, <2>2, <3>1, <5>1
      <4>2. ASSUME NEW j \in Fresh(h), j.call = c, j.event = d
            PROVE  rows'[c][d] < N + K
        <5>1. rows'[c][d] = N + Cardinality(FreshUpTo(h, j))
          BY <1>4, <4>2 DEF N
        <5>2. Cardinality(FreshUpTo(h, j)) < K
          BY <1>0, <2>4, <3>2, <4>2, FreshRanks
        <5>3. Cardinality(FreshUpTo(h, j)) \in Nat  BY <1>4
        <5> HIDE DEF K
        <5> QED  BY <2>1, <3>1, <5>1, <5>2, <5>3
      <4> QED  BY <4>1, <4>2
    <3> HIDE DEF K
    <3> QED  BY <2>1, <3>1, <3>2
  <2> QED  BY <2>3, <2>4 DEF M
<1> QED  BY <1>5, <1>6, <1>7 DEF AuditInv

\* AuditInv holds at first and through every step.
LEMMA AuditInvariant == Spec => [](IndexInv /\ RecordInv /\ TrailInv /\ AuditInv)
<1>1. Init => AuditInv
  <2> SUFFICES ASSUME Init PROVE AuditInv  OBVIOUS
  <2>1. \A c \in Calls, e \in Events : rows[c][e] = 0  BY DEF Init
  <2>2. \A c \in Calls : Cardinality(StoredEvents(c)) = 0
    <3>1. \A c \in Calls : StoredEvents(c) = {}  BY <2>1 DEF StoredEvents
    <3> QED  BY <3>1, FS_EmptySet
  <2> QED  BY <2>1, <2>2 DEF Init, AuditInv, OutboxOrder, BatchOrder, RowOrder, Idle
<1>2. ASSUME IndexInv, RecordInv, TrailInv, AuditInv, [Next]_vars
      PROVE  AuditInv'
  <2>0. /\ FlushInv /\ TypeOK /\ TypeOK' /\ BatchesKnown /\ IsFiniteSet(outbox')
        /\ now <= now'
    <3>1. FlushInv /\ TypeOK /\ TypeOK' /\ BatchesKnown
      BY <1>2, TypeStep DEF IndexInv, FlushInv, TrailInv
    <3>2. IsFiniteSet(outbox')  BY <1>2, <3>1, FlushStep DEF FlushInv, Finite
    <3>3. now \in Nat /\ (now' = now \/ now' = now + 1)
      BY <1>2, <3>1, ClockStep DEF TypeOK
    <3> QED  BY <3>1, <3>2, <3>3
  <2>1. CASE \E h \in Handlers : D1Insert(h)
    BY <1>2, <2>0, <2>1, InsertOrder
  <2>2. CASE ~ \E h \in Handlers : D1Insert(h)
    <3>1. HandlersKept /\ rows' = rows  BY <1>2, <2>0, <2>2, StepKeeps, RowsStep
    <3>2. /\ \A j \in outbox' : j \in outbox \/ Newest(j)
          /\ \A i, j \in outbox' \ outbox : i = j
      <4>1. CASE outbox' \subseteq outbox  BY <4>1
      <4>2. CASE ~(outbox' \subseteq outbox)
        <5>1. ~ \E h \in Handlers : FlushDone(h)
          BY <4>2 DEF FlushDone, Drained
        <5>2. PICK c \in Calls, e \in Events :
                /\ outbox' = outbox \cup {CallAuditIntent(c, e)}
                /\ \A d \in Trail(c) : Older(d, e)
                /\ \A i \in outbox : i.call = c => Older(i.event, e)
          BY <1>2, <4>2, <5>1, NewestIntent
        <5>3. Newest(CallAuditIntent(c, e))
          BY <5>2 DEF Newest, CallAuditIntent
        <5> QED  BY <5>2, <5>3
      <4> QED  BY <4>1, <4>2
    <3> QED  BY <1>2, <2>0, <3>1, <3>2, OrderKept
  <2> QED  BY <2>1, <2>2
<1> QED  BY <1>1, <1>2, TrailInvariant, PTL DEF Spec

\* AuditOrder: rows of a call are in the order of their events' ranks, and
\* where there is any row the submission's is there: it is on the trail, and
\* it cannot be in the outbox still while a newer event is in D1.
THEOREM AuditInOrder == Spec => []AuditOrder
<1>1. ASSUME IndexInv, TrailInv, AuditInv
      PROVE  AuditOrder
  <2>0. rows \in [Calls -> [Events -> Nat]]
    BY <1>1 DEF IndexInv, FlushInv, TypeOK
  <2>1. SUFFICES ASSUME NEW c \in Calls, NEW e \in TerminalEvents, rows[c][e] # 0
                 PROVE  /\ 0 < rows[c]["submit"] /\ rows[c]["submit"] < rows[c][e]
                        /\ rows[c]["accept"] < rows[c][e]
                        /\ rows[c]["accept"] # 0 =>
                             rows[c]["submit"] < rows[c]["accept"]
    BY DEF AuditOrder
  <2>2. /\ "submit" \in Events /\ "accept" \in Events /\ e \in Events
        /\ Older("submit", e) /\ Older("accept", e) /\ Older("submit", "accept")
    BY DEF Events, TerminalEvents, Older, CallAuditRank
  <2>3. "submit" \in Trail(c)
    <3>1. e \in Trail(c)  BY <2>1, <2>2 DEF Trail
    <3> QED  BY <1>1, <3>1 DEF TrailInv, TrailFits
  <2>4. rows[c]["submit"] # 0
    BY <1>1, <2>1, <2>2, <2>3 DEF Trail, AuditInv, OutboxOrder
  <2>5. rows[c]["submit"] \in Nat  BY <2>0, <2>2
  <2> QED  BY <1>1, <2>1, <2>2, <2>4, <2>5 DEF AuditInv, RowOrder
<1> QED  BY <1>1, AuditInvariant, PTL

-----------------------------------------------------------------------------
(* The stages a handler has left.  A wait or a lease is never but the next *)
(* of them, and an alarm's stages end by setting the alarm again.          *)

Has(s, x) == \E i \in 1..Len(s) : s[i] = x
Ordered(s) ==
    /\ \A i \in 2..Len(s) : s[i] \notin Awaits \cup {"lease"}
    /\ \A i \in 1..Len(s) : s[i] \in {"recover", "expire"} =>
         \E j \in (i + 1)..Len(s) : s[j] = "rearm"

\* What a stage puts before the stages left after it.
Pushes == {<<>>, <<"dispatch">>, <<"lease">>, <<"authority">>, <<"flush">>,
           <<"flush", "dispatch">>}
\* What an event leaves to do, but for the flush it may begin with.
EventTodos == {<<>>, <<"dispatch">>, <<"receipt">>, <<"ring">>, <<"status">>,
               <<"notify">>, <<"finish", "notify">>, <<"notify", "finish">>,
               <<"redispatch">>, <<"recover", "expire", "redispatch", "rearm">>}

\* The elements of a concatenation, one by one.
LEMMA ConcatElements ==
    ASSUME NEW p \in Seq(Stages), NEW t \in Seq(Stages)
    PROVE  /\ p \o t \in Seq(Stages) /\ Len(p \o t) = Len(p) + Len(t)
           /\ \A i \in 1..Len(p) : (p \o t)[i] = p[i]
           /\ \A i \in 1..Len(t) : (p \o t)[Len(p) + i] = t[i]
           /\ \A i \in 1..Len(p \o t) :
                i \in 1..Len(p) \/ \E k \in 1..Len(t) : i = Len(p) + k
BY ConcatProperties

\* The stages of a stage's handler after it.
LEMMA PushedStages ==
    ASSUME NEW s \in Seq(Stages), s # <<>>, Ordered(s), NEW p \in Pushes
    PROVE  LET n == p \o Tail(s) IN
           /\ n \in Seq(Stages) /\ Ordered(n)
           /\ \A x : Has(n, x) =>
                Has(s, x) \/ x \in {"dispatch", "lease", "authority", "flush"}
           /\ Has(s, "rearm") => Has(n, "rearm") \/ Head(s) = "rearm"
<1> DEFINE t == Tail(s)
           n == p \o t
<1>1. /\ t \in Seq(Stages) /\ Len(s) \in Nat \ {0} /\ Len(t) = Len(s) - 1
      /\ \A i \in 1..Len(t) : t[i] = s[i + 1]
      /\ Head(s) = s[1]
  BY HeadTailProperties, EmptySeq
<1>2. /\ \A i \in 1..Len(t) : t[i] \notin Awaits \cup {"lease"}
      /\ \A i \in 1..Len(t) : t[i] \in {"recover", "expire"} =>
           \E j \in (i + 1)..Len(t) : t[j] = "rearm"
  <2>1. ASSUME NEW i \in 1..Len(t)
        PROVE  /\ t[i] \notin Awaits \cup {"lease"}
               /\ t[i] \in {"recover", "expire"} =>
                    \E j \in (i + 1)..Len(t) : t[j] = "rearm"
    <3>1. i + 1 \in 2..Len(s) /\ i + 1 \in 1..Len(s) /\ t[i] = s[i + 1]
      BY <1>1
    <3>2. t[i] \notin Awaits \cup {"lease"}  BY <3>1 DEF Ordered
    <3>3. ASSUME t[i] \in {"recover", "expire"}
          PROVE  \E j \in (i + 1)..Len(t) : t[j] = "rearm"
      <4>1. PICK j \in (i + 2)..Len(s) : s[j] = "rearm"
        BY <3>1, <3>3 DEF Ordered
      <4>2. j - 1 \in (i + 1)..Len(t) /\ t[j - 1] = s[j]  BY <1>1, <4>1
      <4> QED  BY <4>1, <4>2
    <3> QED  BY <3>2, <3>3
  <2> QED  BY <2>1
<1>3. /\ p \in Seq(Stages) /\ Len(p) \in 0..2
      /\ \A i \in 1..Len(p) : p[i] \in {"dispatch", "lease", "authority", "flush"}
      /\ \A i \in 2..Len(p) : p[i] = "dispatch"
  <2>1. CASE p = <<>>  BY <2>1
  <2>2. CASE p = <<"flush", "dispatch">>  BY <2>2 DEF Stages
  <2>3. ASSUME NEW x \in {"dispatch", "lease", "authority", "flush"}, p = <<x>>
        PROVE  /\ p \in Seq(Stages) /\ Len(p) = 1 /\ p[1] = x
    BY <2>3 DEF Stages
  <2>4. p = <<>> \/ p = <<"flush", "dispatch">>
          \/ \E x \in {"dispatch", "lease", "authority", "flush"} : p = <<x>>
    BY DEF Pushes
  <2> QED  BY <2>1, <2>2, <2>3, <2>4
<1> HIDE DEF t
<1>4. /\ n \in Seq(Stages) /\ Len(n) = Len(p) + Len(t)
      /\ \A i \in 1..Len(p) : n[i] = p[i]
      /\ \A i \in 1..Len(t) : n[Len(p) + i] = t[i]
      /\ \A i \in 1..Len(n) : i \in 1..Len(p) \/ \E k \in 1..Len(t) : i = Len(p) + k
  BY ZenonT(30), <1>1, <1>3, ConcatElements
<1> HIDE DEF n
<1>5. Ordered(n)
  <2>1. ASSUME NEW i \in 2..Len(n)  PROVE n[i] \notin Awaits \cup {"lease"}
    <3>1. i \in 1..Len(n)  BY <1>3, <1>4
    <3>2. CASE i \in 1..Len(p)
      <4>1. i \in 2..Len(p) /\ n[i] = p[i]  BY <1>3, <1>4, <3>2
      <4>2. n[i] = "dispatch"  BY <1>3, <4>1
      <4> QED  BY <4>2 DEF Awaits
    <3>3. ASSUME NEW k \in 1..Len(t), i = Len(p) + k
          PROVE  n[i] \notin Awaits \cup {"lease"}
      BY <1>2, <1>4, <3>3
    <3> QED  BY <1>4, <3>1, <3>2, <3>3
  <2>2. ASSUME NEW i \in 1..Len(n), n[i] \in {"recover", "expire"}
        PROVE  \E j \in (i + 1)..Len(n) : n[j] = "rearm"
    <3>1. i \notin 1..Len(p)  BY <1>3, <1>4, <2>2
    <3>2. PICK k \in 1..Len(t) : i = Len(p) + k  BY <1>4, <3>1
    <3>3. PICK j \in (k + 1)..Len(t) : t[j] = "rearm"  BY <1>2, <1>4, <2>2, <3>2
    <3>4. Len(p) + j \in (i + 1)..Len(n)  BY <1>1, <1>3, <1>4, <3>2, <3>3
    <3>5. j \in 1..Len(t)  BY <1>1, <3>2, <3>3
    <3> QED  BY <1>4, <3>3, <3>4, <3>5
  <2> QED  BY <2>1, <2>2 DEF Ordered
<1>6. ASSUME NEW x, Has(n, x), x \notin {"dispatch", "lease", "authority", "flush"}
      PROVE  Has(s, x)
  <2>1. PICK i \in 1..Len(n) : n[i] = x  BY <1>6 DEF Has
  <2>2. PICK k \in 1..Len(t) : i = Len(p) + k /\ t[k] = x
    <3>1. i \notin 1..Len(p)  BY <1>3, <1>4, <1>6, <2>1
    <3>2. PICK k \in 1..Len(t) : i = Len(p) + k  BY <1>4, <2>1, <3>1
    <3>3. t[k] = x  BY <1>4, <2>1, <3>2
    <3> QED  BY <3>2, <3>3
  <2>3. k + 1 \in 1..Len(s) /\ s[k + 1] = x  BY <1>1, <2>2
  <2> QED  BY <2>3 DEF Has
<1>7. ASSUME Has(s, "rearm"), Head(s) # "rearm"  PROVE Has(n, "rearm")
  <2>1. PICK i \in 1..Len(s) : s[i] = "rearm"  BY <1>7 DEF Has
  <2>2. i - 1 \in 1..Len(t) /\ t[i - 1] = "rearm"  BY <1>1, <1>7, <2>1
  <2>3. Len(p) + (i - 1) \in 1..Len(n)  BY SMTT(30), <1>1, <1>3, <1>4, <2>2
  <2> QED  BY <1>4, <2>2, <2>3 DEF Has
<1> QED  BY <1>4, <1>5, <1>6, <1>7 DEF n, t

\* The stages of a handler an event has started.
Starting(t) == {t, <<"flush">> \o t}
LEMMA StartedStages ==
    ASSUME NEW t \in EventTodos, NEW n \in Starting(t)
    PROVE  /\ n \in Seq(Stages) /\ Ordered(n)
           /\ \A x : Has(n, x) => x = "flush" \/ Has(t, x)
<1>1. /\ t \in Seq(Stages) /\ Ordered(t) /\ Len(t) \in 0..4
      /\ \A i \in 1..Len(t) : t[i] \notin Awaits \cup {"lease"}
  <2>1. CASE t = <<>>  BY <2>1 DEF Ordered
  <2>2. CASE t = <<"recover", "expire", "redispatch", "rearm">>
    <3>1. Len(t) = 4 /\ t[4] = "rearm" /\ t \in Seq(Stages)  BY <2>2 DEF Stages
    <3>2. \A i \in 1..4 : t[i] \notin Awaits \cup {"lease"}
      BY <2>2 DEF Awaits
    <3>3. t[3] = "redispatch"  BY <2>2
    <3>4. \A i \in 1..4 : t[i] \in {"recover", "expire"} => 4 \in (i + 1)..4
      BY <3>1
    <3> QED  BY <3>1, <3>2, <3>4 DEF Ordered
  <2>3. ASSUME NEW x \in {"finish", "notify"}, NEW y \in {"finish", "notify"},
               t = <<x, y>>
        PROVE  /\ t \in Seq(Stages) /\ Ordered(t) /\ Len(t) \in 0..4
               /\ \A i \in 1..Len(t) : t[i] \notin Awaits \cup {"lease"}
    <3>1. t \in Seq(Stages) /\ Len(t) = 2 /\ t[1] = x /\ t[2] = y
      BY <2>3 DEF Stages
    <3> QED  BY <3>1 DEF Ordered, Awaits
  <2>4. ASSUME NEW x \in {"dispatch", "receipt", "ring", "status", "notify",
                          "redispatch"}, t = <<x>>
        PROVE  /\ t \in Seq(Stages) /\ Ordered(t) /\ Len(t) \in 0..4
               /\ \A i \in 1..Len(t) : t[i] \notin Awaits \cup {"lease"}
    <3>1. t \in Seq(Stages) /\ Len(t) = 1 /\ t[1] = x  BY <2>4 DEF Stages
    <3> QED  BY <3>1 DEF Ordered, Awaits
  <2>5. \/ t = <<>> \/ t = <<"recover", "expire", "redispatch", "rearm">>
        \/ \E x, y \in {"finish", "notify"} : t = <<x, y>>
        \/ \E x \in {"dispatch", "receipt", "ring", "status", "notify",
                     "redispatch"} : t = <<x>>
    BY DEF EventTodos
  <2> QED  BY <2>1, <2>2, <2>3, <2>4, <2>5
<1>2. CASE n = t
  BY <1>1, <1>2
<1>3. CASE n = <<"flush">> \o t
  <2>0. /\ <<"flush">> \in Seq(Stages) /\ Len(<<"flush">>) = 1
        /\ <<"flush">>[1] = "flush"
    BY DEF Stages
  <2>1. /\ n \in Seq(Stages) /\ Len(n) = 1 + Len(t) /\ n[1] = "flush"
        /\ \A i \in 1..Len(t) : n[1 + i] = t[i]
        /\ \A i \in 1..Len(n) : i = 1 \/ \E k \in 1..Len(t) : i = 1 + k
    <3> DEFINE p == <<"flush">>
    <3>1. /\ p \o t \in Seq(Stages) /\ Len(p \o t) = Len(p) + Len(t)
          /\ \A i \in 1..Len(p) : (p \o t)[i] = p[i]
          /\ \A i \in 1..Len(t) : (p \o t)[Len(p) + i] = t[i]
          /\ \A i \in 1..Len(p \o t) :
               i \in 1..Len(p) \/ \E k \in 1..Len(t) : i = Len(p) + k
      BY <1>1, <2>0, ConcatElements
    <3> QED  BY <1>3, <2>0, <3>1
  <2>2. \A i \in 2..Len(n) : n[i] \notin Awaits \cup {"lease"}
    <3>1. ASSUME NEW i \in 2..Len(n) PROVE n[i] \notin Awaits \cup {"lease"}
      <4>1. i - 1 \in 1..Len(t) /\ n[1 + (i - 1)] = n[i]  BY <1>1, <2>1
      <4> QED  BY <1>1, <2>1, <4>1
    <3> QED  BY <3>1
  <2>3. ASSUME NEW i \in 1..Len(n), n[i] \in {"recover", "expire"}
        PROVE  \E j \in (i + 1)..Len(n) : n[j] = "rearm"
    <3>1. PICK k \in 1..Len(t) : i = 1 + k /\ t[k] = n[i]  BY <2>1, <2>3
    <3>2. PICK j \in (k + 1)..Len(t) : t[j] = "rearm"
      BY <1>1, <2>3, <3>1 DEF Ordered
    <3>3. 1 + j \in (i + 1)..Len(n) /\ n[1 + j] = "rearm"
      BY <1>1, <2>1, <3>1, <3>2
    <3> QED  BY <3>3
  <2>4. \A x : Has(n, x) => x = "flush" \/ Has(t, x)  BY <2>1 DEF Has
  <2> QED  BY <2>1, <2>2, <2>3, <2>4 DEF Ordered
<1> QED  BY <1>2, <1>3 DEF Starting

\* The handler h goes on with the stages n, for the call of hd.
Turns(h, n, hd) ==
    /\ handler'[h].todo = n
    /\ n # <<>> => handler'[h].call = hd.call
    /\ \A g \in Handlers : g # h => handler'[g] = handler[g]
Fields == {"todo", "call", "batch", "stored"}

LEMMA HandlerFields ==
    ASSUME TypeOK
    PROVE  /\ Fields \subseteq DOMAIN Idle
           /\ \A h \in Handlers : /\ handler[h].todo \in Seq(Stages)
                                  /\ Fields \subseteq DOMAIN handler[h]
<1>1. \A h \in Handlers : handler[h] \in Handler  BY DEF TypeOK
<1> QED  BY <1>1 DEF Handler, Fields, Idle

\* What Do and FlushThen make of a handler.
LEMMA SetTurn ==
    ASSUME TypeOK, NEW h \in Handlers, NEW hd, SetHandler(h, hd)
    PROVE  Turns(h, hd.todo, hd)
BY DEF SetHandler, TypeOK, Turns, Idle

LEMMA DoTurn ==
    ASSUME TypeOK, NEW h \in Handlers, NEW hd, NEW todo, Do(h, hd, todo),
           Fields \subseteq DOMAIN hd
    PROVE  Turns(h, todo, hd)
<1> DEFINE new == [hd EXCEPT !.todo = todo]
<1>1. new.todo = todo /\ new.call = hd.call
  BY DEF Fields
<1>2. Turns(h, new.todo, new)  BY SetTurn DEF Do
<1> QED  BY <1>1, <1>2 DEF Turns

LEMMA FlushTurn ==
    ASSUME TypeOK, NEW h \in Handlers, NEW hd, NEW ob, NEW todo,
           FlushThen(h, hd, ob, todo), Fields \subseteq DOMAIN hd
    PROVE  \E n \in Starting(todo) : Turns(h, n, hd)
<1>1. CASE ob = {}
  <2>1. Turns(h, todo, hd)  BY <1>1, DoTurn DEF FlushThen
  <2> QED  BY <2>1 DEF Starting
<1>2. CASE ob # {}
  <2> DEFINE n == <<"flush">> \o todo
             new == [hd EXCEPT !.todo = n, !.batch = FirstIntents(ob), !.stored = FALSE]
  <2>1. new.todo = n /\ new.call = hd.call
    <3> HIDE DEF n
    <3> QED  BY DEF Fields
  <2>2. Turns(h, new.todo, new)  BY <1>2, SetTurn DEF FlushThen
  <2>3. Turns(h, n, hd)  BY <2>1, <2>2 DEF Turns
  <2> QED  BY <2>3 DEF Starting
<1> QED  BY <1>1, <1>2

\* An event's handler is new, and one that has a call to finish has ended it.
LEMMA EventTurn ==
    ASSUME TypeOK, RecordInv, NEW h \in Handlers, Receive(h) \/ AlarmFires(h)
    PROVE  /\ GateOpen /\ ~Running(h)
           /\ \E t \in EventTodos : \E n \in Starting(t) : \E hd :
                /\ Turns(h, n, hd)
                /\ Has(t, "finish") => /\ hd.call \in Calls /\ Exists(hd.call)
                                       /\ task'[hd.call].delivery_state = "terminal"
                /\ Receive(h) \/ Has(n, "rearm")
<1> DEFINE ends(c) == /\ c \in Calls /\ Exists(c)
                      /\ task'[c].delivery_state = "terminal"
           begins(t) == \E n \in Starting(t) : \E hd :
                          Turns(h, n, hd) /\ (Has(t, "finish") => ends(hd.call))
           result == \E t \in EventTodos : begins(t)
<1>0. GateOpen /\ ~Running(h)
  BY ZenonT(30) DEF Receive, AlarmFires, Connect, SubmitDurable, SubmitLive, CancelUnstarted,
     CallAccepted, CallStarted, CallCancelled, CallRejected, CallOutcome, Free
<1>1. Fields \subseteq DOMAIN Idle /\ handler[h].todo = <<>>
  BY <1>0, HandlerFields DEF Running
<1>2. \A c, st, ss :
        /\ [Idle EXCEPT !.call = c].call = c
        /\ [Idle EXCEPT !.call = c, !.session = ss].call = c
        /\ Fields \subseteq DOMAIN [Idle EXCEPT !.call = c]
        /\ Fields \subseteq DOMAIN [Idle EXCEPT !.session = ss]
        /\ Fields \subseteq DOMAIN [Idle EXCEPT !.call = c, !.state = st]
        /\ Fields \subseteq DOMAIN [Idle EXCEPT !.call = c, !.session = ss]
  BY DEF Idle, Fields
<1>3. \A x \in {"dispatch", "receipt", "ring", "status", "notify", "redispatch"} :
        <<x>> \in EventTodos /\ ~Has(<<x>>, "finish")
  <2>1. \A x : Len(<<x>>) = 1 /\ <<x>>[1] = x  OBVIOUS
  <2> QED  BY <2>1 DEF EventTodos, Has
<1>4. <<>> \in EventTodos /\ ~Has(<<>>, "finish")  BY DEF EventTodos, Has
<1>5. ASSUME NEW x \in {"dispatch", "receipt", "ring", "status", "notify", "redispatch"},
             NEW hd, NEW ob, Fields \subseteq DOMAIN hd,
             Do(h, hd, <<x>>) \/ FlushThen(h, hd, ob, <<x>>)
      PROVE  result
  <2>1. \E n \in Starting(<<x>>) : Turns(h, n, hd)
    BY <1>5, DoTurn, FlushTurn DEF Starting
  <2> QED  BY <1>3, <2>1
<1>6. ASSUME UNCHANGED handler  PROVE result
  <2>1. Turns(h, <<>>, handler[h])  BY <1>1, <1>6 DEF Turns
  <2> QED  BY <1>4, <2>1 DEF Starting
<1>7. ASSUME NEW cap, Connect(h, cap)  PROVE result
  BY <1>2, <1>5, <1>6, <1>7 DEF Connect
<1>8. ASSUME NEW k, NEW m, NEW b, SubmitDurable(h, k, m, b)  PROVE result
  <2>1. \E c : FlushThen(h, [Idle EXCEPT !.call = c], outbox', <<"receipt">>)
    BY <1>8 DEF SubmitDurable
  <2> QED  BY <1>2, <1>5, <2>1
<1>9. ASSUME NEW k, NEW m, NEW e, SubmitLive(h, k, m, e)  PROVE result
  <2>1. \E c : FlushThen(h, [Idle EXCEPT !.call = c], outbox', <<"ring">>)
    BY <1>9 DEF SubmitLive
  <2> QED  BY <1>2, <1>5, <2>1
<1>10. ASSUME NEW c, CallAccepted(h, c) \/ CallStarted(h, c) \/ CancelUnstarted(h, c)
       PROVE  result
  <2>1. CASE CallAccepted(h, c)  BY <1>2, <1>5, <2>1 DEF CallAccepted
  <2>2. CASE CallStarted(h, c)
    <3> DEFINE hd == [Idle EXCEPT !.call = c, !.state = "working"]
    <3>1. \/ FlushThen(h, hd, outbox', <<"status">>)
          \/ Do(h, hd, <<"status">>)
      BY <2>2 DEF CallStarted
    <3>2. Fields \subseteq DOMAIN hd  BY <1>2
    <3> HIDE DEF hd
    <3> QED  BY <1>5, <3>1, <3>2
  <2>3. CASE CancelUnstarted(h, c)  BY <1>1, <1>5, <2>3 DEF CancelUnstarted
  <2> QED  BY <1>10, <2>1, <2>2, <2>3
<1>11. ASSUME NEW c \in Calls, NEW new, NEW e, Terminate(c, new, e), MayReport(c),
              IsDurable(task[c]) => new.delivery_state = "terminal",
              "delivery_state" \in DOMAIN new, NEW ss, NEW t,
              FlushThen(h, [Idle EXCEPT !.call = c, !.session = ss], outbox', t),
              t \in {<<"notify">>, <<"notify", "finish">>, <<"finish", "notify">>},
              ~IsDurable(task[c]) => t = <<"notify">>
       PROVE  result
  <2> DEFINE hd == [Idle EXCEPT !.call = c, !.session = ss]
  <2>0. hd.call = c /\ Fields \subseteq DOMAIN hd  BY <1>2
  <2>1. PICK n \in Starting(t) : Turns(h, n, hd)
    BY <1>11, <2>0, FlushTurn
  <2>2. t \in EventTodos  BY <1>11 DEF EventTodos
  <2>3. ASSUME IsDurable(task[c])  PROVE ends(c)
    <3>1. task'[c] = Final(task[c], new)
      BY <1>11 DEF Terminate, Final, TypeOK
    <3>2. Final(task[c], new).delivery_state = new.delivery_state
      BY <1>11 DEF Final
    <3> QED  BY <1>11, <2>3, <3>1, <3>2 DEF MayReport
  <2>4. ~IsDurable(task[c]) => ~Has(t, "finish")  BY <1>3, <1>11
  <2> HIDE DEF hd, ends
  <2>5. begins(t)  BY <2>0, <2>1, <2>3, <2>4
  <2> QED  BY <2>2, <2>5
<1>12. ASSUME NEW c \in Calls, CallCancelled(h, c) \/ CallRejected(h, c)
       PROVE  result
  <2>1. ASSUME NEW s \in TerminalStates
        PROVE  /\ "delivery_state" \in DOMAIN Ended(task[c], s)
               /\ IsDurable(task[c]) => Ended(task[c], s).delivery_state = "terminal"
    <3>1. Ended(task[c], s) \in Task  BY EndedType DEF TypeOK
    <3> QED  BY <3>1, EndedFields DEF TypeOK, Task
  <2>2. "canceled" \in TerminalStates /\ "failed" \in TerminalStates
    BY DEF TerminalStates
  <2>3. CASE CallCancelled(h, c)
    <3> DEFINE t == IF IsDurable(task[c]) THEN <<"finish", "notify">> ELSE <<"notify">>
    <3>1. /\ MayReport(c) /\ Terminate(c, Ended(task[c], "canceled"), "cancel")
          /\ FlushThen(h, [Idle EXCEPT !.call = c, !.session = session], outbox', t)
      BY <2>3 DEF CallCancelled
    <3>2. /\ t \in {<<"notify">>, <<"notify", "finish">>, <<"finish", "notify">>}
          /\ ~IsDurable(task[c]) => t = <<"notify">>
      OBVIOUS
    <3> HIDE DEF t
    <3> QED  BY <1>11, <2>1, <2>2, <3>1, <3>2
  <2>4. CASE CallRejected(h, c)
    <3> DEFINE t == IF IsDurable(task[c]) THEN <<"notify", "finish">> ELSE <<"notify">>
    <3>1. /\ MayReport(c) /\ Terminate(c, Ended(task[c], "failed"), "fail")
          /\ FlushThen(h, [Idle EXCEPT !.call = c, !.session = session], outbox', t)
      BY <2>4 DEF CallRejected
    <3>2. /\ t \in {<<"notify">>, <<"notify", "finish">>, <<"finish", "notify">>}
          /\ ~IsDurable(task[c]) => t = <<"notify">>
      OBVIOUS
    <3> HIDE DEF t
    <3> QED  BY <1>11, <2>1, <2>2, <3>1, <3>2
  <2> QED  BY <1>12, <2>3, <2>4

<1>13. ASSUME NEW c \in Calls, NEW s \in Outcomes, NEW b, CallOutcome(h, c, s, b)
       PROVE  result
  <2> DEFINE base == Ended(task[c], s)
             dl == IF IsDurable(task[c]) THEN ExecuteBy(task[c]) ELSE base.deadline
             bytes == IF IsDurable(task[c]) THEN b ELSE base.ciphertext_bytes
             new == [base EXCEPT !.outcome_envelope = TRUE, !.deadline = dl,
                                 !.ciphertext_bytes = bytes]
             t == IF IsDurable(task[c]) THEN <<"finish", "notify">> ELSE <<"notify">>
             e == IF s = "completed" THEN "complete" ELSE "fail"
  <2>1. s \in TerminalStates  BY HandleDOAssumption DEF TerminalStates
  <2>2. /\ base \in Task
        /\ IsDurable(task[c]) => base.delivery_state = "terminal"
    BY <2>1, EndedFields DEF TypeOK
  <2>3. /\ MayReport(c) /\ Terminate(c, new, e)
        /\ FlushThen(h, [Idle EXCEPT !.call = c, !.session = session], outbox', t)
    BY <1>13 DEF CallOutcome
  <2>4. /\ t \in {<<"notify">>, <<"notify", "finish">>, <<"finish", "notify">>}
        /\ ~IsDurable(task[c]) => t = <<"notify">>
    OBVIOUS
  <2> HIDE DEF base, dl, bytes, t, e
  <2>5. /\ "delivery_state" \in DOMAIN new
        /\ new.delivery_state = base.delivery_state
    BY <2>2 DEF Task
  <2> HIDE DEF new
  <2> QED  BY <1>11, <2>2, <2>3, <2>4, <2>5
<1>14. CASE AlarmFires(h)
  <2> DEFINE t == <<"recover", "expire", "redispatch", "rearm">>
  <2>1. Turns(h, t, Idle)  BY <1>1, <1>14, DoTurn DEF AlarmFires
  <2>2. t \in EventTodos /\ t \in Starting(t)  BY DEF EventTodos, Starting
  <2>3. Has(t, "rearm") /\ ~Has(t, "finish")
    <3>1. Len(t) = 4 /\ t[4] = "rearm"  OBVIOUS
    <3>2. t[1] = "recover" /\ t[2] = "expire" /\ t[3] = "redispatch"  OBVIOUS
    <3> HIDE DEF t
    <3>3. \A i \in 1..4 : i = 1 \/ i = 2 \/ i = 3 \/ i = 4  OBVIOUS
    <3> QED  BY <3>1, <3>2, <3>3 DEF Has
  <2> HIDE DEF t
  <2> QED  BY <1>0, <2>1, <2>2, <2>3
<1> QED  BY <1>0, <1>7, <1>8, <1>9, <1>10, <1>12, <1>13, <1>14 DEF Receive

Busy(h) == Running(h) /\ Head1(h) \notin Awaits

\* What may follow a stage.
LEMMA RestPushes ==
    ASSUME TypeOK, NEW h \in Handlers, Running(h)
    PROVE  /\ Rest(h) \in Seq(Stages) /\ <<>> \o Rest(h) = Rest(h)
           /\ \A n \in Starting(Rest(h)) :
                n = <<>> \o Rest(h) \/ n = <<"flush">> \o Rest(h)
           /\ \A n \in Starting(<<"dispatch">> \o Rest(h)) :
                n = <<"dispatch">> \o Rest(h) \/ n = <<"flush", "dispatch">> \o Rest(h)
<1>1. Rest(h) \in Seq(Stages)  BY RestType DEF TypeOK
<1>2. <<>> \o Rest(h) = Rest(h)  BY <1>1, ConcatEmptySeq
<1>3. /\ <<"flush">> \in Seq(Stages) /\ <<"dispatch">> \in Seq(Stages)
      /\ <<"flush">> \o <<"dispatch">> = <<"flush", "dispatch">>
  <2>1. <<"flush">> \in Seq(Stages) /\ <<"dispatch">> \in Seq(Stages)
    BY DEF Stages
  <2>2. \A a, b : /\ Len(<<a>>) = 1 /\ <<a>>[1] = a /\ Len(<<a, b>>) = 2
                  /\ <<a, b>>[1] = a /\ <<a, b>>[2] = b
    OBVIOUS
  <2> DEFINE f == <<"flush">>  d == <<"dispatch">>  fd == <<"flush", "dispatch">>
  <2>3. fd \in Seq(Stages)  BY DEF Stages
  <2>4. /\ Len(f) = 1 /\ Len(d) = 1 /\ Len(fd) = 2
        /\ f[1] = fd[1] /\ d[1] = fd[2]
    BY <2>2
  <2> HIDE DEF f, d, fd
  <2>5. f \o d = fd
    <3>1. /\ f \o d \in Seq(Stages) /\ Len(f \o d) = Len(f) + Len(d)
          /\ \A i \in 1..Len(f) : (f \o d)[i] = f[i]
          /\ \A i \in 1..Len(d) : (f \o d)[Len(f) + i] = d[i]
      BY <2>1, ConcatElements DEF f, d
    <3>2. Len(f \o d) = 2 /\ (f \o d)[1] = f[1] /\ (f \o d)[1 + 1] = d[1]
      BY <3>1, <2>4
    <3>3. \A i \in 1..2 : i = 1 \/ i = 2  OBVIOUS
    <3> QED  BY <2>3, <2>4, <3>1, <3>2, <3>3, SeqEqual
  <2> QED  BY <2>1, <2>5 DEF f, d, fd
<1>4. <<"flush">> \o (<<"dispatch">> \o Rest(h)) = <<"flush", "dispatch">> \o Rest(h)
  <2>1. (<<"flush">> \o <<"dispatch">>) \o Rest(h)
          = <<"flush">> \o (<<"dispatch">> \o Rest(h))
    BY <1>1, <1>3, ConcatAssociative
  <2> QED  BY <1>3, <2>1
<1> QED  BY <1>1, <1>2, <1>4 DEF Starting

\* A stage's handler goes on as the stage says.
Followed(h, p, hd) ==
    /\ Turns(h, p \o Rest(h), hd) /\ hd.call = handler[h].call
    /\ Head1(h) # "rearm" \/ Rearm(h)
LEMMA StageTurn ==
    ASSUME TypeOK, NEW h \in Handlers,
           Continue(h) \/ FlushFails(h) \/ AuthorityLost(h) \/ AuthorityFails(h)
    PROVE  /\ (Running(h) /\ GateOpen) \/ Busy(h) \/ D1Insert(h)
           /\ \/ /\ D1Insert(h) \/ Head1(h) = "expire"
                 /\ Turns(h, handler[h].todo, handler[h])
              \/ AuthorityFails(h) /\ Turns(h, <<>>, Idle)
              \/ \E p \in Pushes : \E hd : Followed(h, p, hd)
<1>0. /\ \A g \in Handlers : Fields \subseteq DOMAIN handler[g]
      /\ Fields \subseteq DOMAIN Idle /\ handler[h] \in Handler
  BY HandlerFields DEF TypeOK
<1> DEFINE hd(k) == [handler[h] EXCEPT !.candidate = k]
           empty == [handler[h] EXCEPT !.batch = {}, !.stored = FALSE]
           follows == \E p \in Pushes : \E d : Followed(h, p, d)
<1>1. /\ \A k : /\ Fields \subseteq DOMAIN hd(k) /\ hd(k).call = handler[h].call
      /\ Fields \subseteq DOMAIN empty /\ empty.call = handler[h].call
  BY <1>0 DEF Fields
<1> HIDE DEF hd, empty
<1>2. {<<>>, <<"dispatch">>, <<"lease">>, <<"authority">>, <<"flush">>,
       <<"flush", "dispatch">>} = Pushes
  BY DEF Pushes
<1>4. ASSUME Running(h), NEW d, Fields \subseteq DOMAIN d, d.call = handler[h].call,
             Head1(h) # "rearm" \/ Rearm(h),
             \/ Do(h, d, Rest(h)) \/ Do(h, d, <<"dispatch">> \o Rest(h))
             \/ \E ob : \/ FlushThen(h, d, ob, Rest(h))
                        \/ FlushThen(h, d, ob, <<"dispatch">> \o Rest(h))
      PROVE  follows
  <2>1. \E p \in {<<>>, <<"dispatch">>, <<"flush">>, <<"flush", "dispatch">>} :
          Turns(h, p \o Rest(h), d)
    BY <1>4, RestPushes, DoTurn, FlushTurn
  <2> QED  BY <1>2, <1>4, <2>1 DEF Followed
<1>5. CASE D1Insert(h)
  <2>1. handler' = [handler EXCEPT ![h].stored = TRUE] /\ Running(h)
    BY <1>5 DEF D1Insert, At
  <2>2. handler'[h] = [handler[h] EXCEPT !.stored = TRUE]
    BY <2>1 DEF TypeOK
  <2>3. /\ handler'[h].todo = handler[h].todo /\ handler'[h].call = handler[h].call
    BY <1>0, <2>2 DEF Handler
  <2>4. \A g \in Handlers : g # h => handler'[g] = handler[g]
    BY <2>1 DEF TypeOK
  <2> QED  BY <1>5, <2>1, <2>3, <2>4 DEF Turns
<1>6. CASE \E k \in handler[h].keys : ExpireTask(h, k)
  <2>1. PICK k, s :
          /\ SetHandler(h, [handler[h] EXCEPT !.keys = @ \ {k}, !.timedOut = s])
          /\ At(h, "expire")
    BY <1>0, <1>6 DEF ExpireTask, Handler
  <2> DEFINE new == [handler[h] EXCEPT !.keys = @ \ {k}, !.timedOut = s]
  <2>2. new.todo = handler[h].todo /\ new.call = handler[h].call
    BY <1>0 DEF Handler
  <2>3. Turns(h, new.todo, new)  BY <2>1, SetTurn
  <2> HIDE DEF new
  <2>4. Turns(h, handler[h].todo, handler[h])  BY <2>2, <2>3 DEF Turns
  <2> QED  BY <2>1, <2>4 DEF At, Busy, Awaits
<1>7. CASE AuthorityFails(h)
  <2>1. Turns(h, <<>>, Idle)  BY <1>0, <1>7, DoTurn DEF AuthorityFails
  <2> QED  BY <1>7, <2>1 DEF AuthorityFails, At
<1>8. CASE FlushDone(h) \/ FlushFails(h)
  <2>1. /\ Running(h) /\ GateOpen /\ Head1(h) # "rearm" /\ Do(h, empty, Rest(h))
    BY <1>8 DEF FlushDone, FlushFails, At, empty
  <2> QED  BY <1>1, <1>4, <2>1
<1>9. CASE AuthorityCurrent(h)
  <2>1. Running(h) /\ GateOpen /\ Head1(h) # "rearm"
    BY <1>9 DEF AuthorityCurrent, At
  <2>2. CASE TooLate(handler[h].candidate)
    BY <1>0, <1>4, <1>9, <2>1, <2>2 DEF AuthorityCurrent
  <2>3. CASE ~TooLate(handler[h].candidate)
    <3>1. Turns(h, <<"lease">> \o Rest(h), handler[h])
      BY <1>0, <1>9, <2>3, DoTurn DEF AuthorityCurrent
    <3>2. Followed(h, <<"lease">>, handler[h])
      BY <2>1, <3>1 DEF Followed
    <3> QED  BY <1>2, <2>1, <3>2
  <2> QED  BY <2>2, <2>3
<1>10. CASE AuthorityLost(h)
  <2>1. /\ Running(h) /\ GateOpen /\ Head1(h) # "rearm"
        /\ FlushThen(h, hd(NoKey), outbox', <<"dispatch">> \o Rest(h))
    BY <1>10 DEF AuthorityLost, At, hd
  <2> QED  BY <1>1, <1>4, <2>1
<1>11. CASE FinishDurableTask(h) \/ Rebind(h) \/ SendStatus(h) \/ SendTerminal(h)
              \/ Receipt(h) \/ Rearm(h)
  <2>1. /\ Running(h) /\ Head1(h) \notin Awaits /\ (Head1(h) # "rearm" \/ Rearm(h))
        /\ Do(h, handler[h], Rest(h)) \/ Do(h, handler[h], <<"dispatch">> \o Rest(h))
    BY <1>11 DEF FinishDurableTask, Rebind, SendStatus, SendTerminal, Receipt, Rearm,
       At, Awaits
  <2> QED  BY <1>0, <1>4, <2>1 DEF Busy
<1>12. CASE ConsiderHead(h)
  <2>1. /\ Running(h) /\ Head1(h) \notin Awaits /\ Head1(h) # "rearm"
        /\ \/ Do(h, handler[h], Rest(h))
           \/ \E k : Do(h, hd(k), <<"authority">> \o Rest(h))
    BY <1>12 DEF ConsiderHead, At, Awaits, hd
  <2>2. CASE Do(h, handler[h], Rest(h))
    BY <1>0, <1>4, <2>1, <2>2 DEF Busy
  <2>3. ASSUME NEW k, Do(h, hd(k), <<"authority">> \o Rest(h))
        PROVE  follows
    <3>1. Turns(h, <<"authority">> \o Rest(h), hd(k))  BY <1>1, <2>3, DoTurn
    <3>2. Followed(h, <<"authority">>, hd(k))
      BY <1>1, <2>1, <3>1 DEF Followed
    <3> QED  BY <1>2, <3>2
  <2> QED  BY <2>1, <2>2, <2>3 DEF Busy
<1>13. CASE SkipHead(h)
  <2>1. /\ Running(h) /\ Head1(h) \notin Awaits /\ Head1(h) # "rearm"
        /\ Do(h, handler[h], <<"lease">> \o Rest(h))
    BY <1>13 DEF SkipHead, At, Awaits
  <2>2. Turns(h, <<"lease">> \o Rest(h), handler[h])  BY <1>0, <2>1, DoTurn
  <2>3. Followed(h, <<"lease">>, handler[h])
    BY <2>1, <2>2 DEF Followed
  <2> QED  BY <1>2, <2>1, <2>3 DEF Busy
<1>14. CASE LeaseHead(h) \/ NothingToLease(h)
  <2>1. /\ Running(h) /\ Head1(h) \notin Awaits /\ Head1(h) # "rearm"
        /\ Do(h, hd(NoKey), Rest(h))
    BY <1>14 DEF LeaseHead, NothingToLease, At, Awaits, hd
  <2> QED  BY <1>1, <1>4, <2>1 DEF Busy
<1>15. CASE RecoverExpiredLease(h)
  <2> DEFINE ks == {k \in FirstKeys(due') : k[1] <= now}
             new == [handler[h] EXCEPT !.keys = ks]
  <2>1. /\ Running(h) /\ Head1(h) \notin Awaits /\ Head1(h) # "rearm"
        /\ Do(h, new, Rest(h))
    BY <1>15 DEF RecoverExpiredLease, At, Awaits
  <2> HIDE DEF ks
  <2>2. Fields \subseteq DOMAIN new /\ new.call = handler[h].call
    BY <1>0 DEF Handler, Fields
  <2> HIDE DEF new
  <2> QED  BY <1>4, <2>1, <2>2 DEF Busy
<1>16. CASE ExpireDone(h)
  <2>1. /\ Running(h) /\ Head1(h) \notin Awaits /\ Head1(h) # "rearm"
        /\ FlushThen(h, handler[h], outbox, Rest(h))
    BY <1>16 DEF ExpireDone, At, Awaits
  <2> QED  BY <1>0, <1>4, <2>1 DEF Busy
<1>17. CASE Redispatch(h)
  <2> DEFINE new == [handler[h] EXCEPT !.session = IF capable THEN session ELSE 0,
                                       !.timedOut = {}]
  <2>1. /\ Running(h) /\ Head1(h) \notin Awaits /\ Head1(h) # "rearm"
        /\ Do(h, new, Rest(h)) \/ Do(h, new, <<"dispatch">> \o Rest(h))
    BY <1>17 DEF Redispatch, At, Awaits
  <2>2. Fields \subseteq DOMAIN new /\ new.call = handler[h].call
    BY <1>0 DEF Handler, Fields
  <2> HIDE DEF new
  <2> QED  BY <1>4, <2>1, <2>2 DEF Busy
<1> QED  BY <1>5, <1>6, <1>7, <1>8, <1>9, <1>10, <1>11, <1>12, <1>13, <1>14, <1>15,
            <1>16, <1>17 DEF Continue

-----------------------------------------------------------------------------
(* One handler runs at a time, and a call to finish has ended.             *)

Finishing(h) ==
    Has(handler[h].todo, "finish") =>
      /\ handler[h].call \in issued
      /\ task[handler[h].call].delivery_state \in {"terminal", "absent"}
StageInv == /\ \A h \in Handlers : Ordered(handler[h].todo)
            /\ \A g, h \in Handlers : Busy(g) /\ Busy(h) => g = h
            /\ \A h \in Handlers : Finishing(h)

\* A call that has ended, its record purged or not, stays so.
LEMMA EndedStays ==
    ASSUME FlushInv, RecordInv, [Next]_vars, NEW c \in Calls, c \in issued,
           task[c].delivery_state \in {"terminal", "absent"}
    PROVE  /\ c \in issued'
           /\ task'[c].delivery_state \in {"terminal", "absent"}
<1>0. TypeOK /\ Changed  BY StepChanged DEF FlushInv
<1>1. \/ ~Exists(c)
      \/ IsDurable(task[c]) /\ TaskIsTerminal(task[c])
  BY DEF RecordInv, DurableRecord, IsDurable, DurableStates, Exists
<1>2. CASE Untouched  BY <1>2 DEF Untouched
<1>3. ASSUME NEW x \in Calls, ChangesOf(x)
      PROVE  /\ c \in issued'
             /\ task'[c].delivery_state \in {"terminal", "absent"}
  <2>1. issued \subseteq issued'
    BY <1>3 DEF ChangesOf, Begun, Answered, Started, Over, Leased, Offered, Requeued,
       Trimmed, Forgotten
  <2>2. CASE x # c
    <3>1. task'[c] = task[c]
      BY <1>0, <1>3, <2>2, PutOnly
      DEF ChangesOf, Begun, Answered, Started, Over, Leased, Offered, Requeued,
          Trimmed, Forgotten
    <3> QED  BY <2>1, <3>1
  <2>3. CASE x = c
    <3>1. Trimmed(c) \/ Forgotten(c)
      BY <1>1, <1>3, <2>3
      DEF ChangesOf, Begun, Answered, Started, Over, Leased, Offered, Requeued,
          LeaseRanOut, Exists
    <3>2. task'[c].delivery_state \in {"terminal", "absent"}
      BY <1>0, <3>1, ChangedFields DEF NoTask
    <3> QED  BY <2>1, <3>2
  <2> QED  BY <2>2, <2>3
<1> QED  BY <1>0, <1>2, <1>3 DEF Changed

\* What a step makes of the handlers.
HandlerEvent(h) == Receive(h) \/ AlarmFires(h)
HandlerStage(h) ==
    Continue(h) \/ FlushFails(h) \/ AuthorityLost(h) \/ AuthorityFails(h)
LEMMA HandlerCases ==
    ASSUME TypeOK, [Next]_vars
    PROVE  \/ /\ UNCHANGED handler
              /\ GateOpen \/ UNCHANGED vars
              /\ Tick \/ UNCHANGED durables
           \/ Crash /\ \A h \in Handlers : handler'[h] = Idle
           \/ \E h \in Handlers : HandlerEvent(h) \/ HandlerStage(h)
<1>1. CASE \/ Tick \/ Disconnect \/ UNCHANGED vars
           \/ \E c \in Calls :
                CancelAtListener(c) \/ CancelTimeout(c) \/ CallNotCancelled(c)
  BY <1>1 DEF Tick, Disconnect, vars, CancelAtListener, CancelTimeout,
     CallNotCancelled
<1>2. CASE Crash  BY <1>2 DEF Crash
<1> QED  BY <1>1, <1>2 DEF Next, HandlerEvent, HandlerStage

\* StageInv holds through every step.
LEMMA StageStep ==
    ASSUME FlushInv, IssuedExist, RecordInv, StageInv, [Next]_vars
    PROVE  StageInv'
<1>0. /\ TypeOK /\ TypeOK' /\ <<>> \in Seq(Stages) /\ Ordered(<<>>)
      /\ \A x : ~Has(<<>>, x)
      /\ \A h \in Handlers : handler[h].todo \in Seq(Stages)
  <2>1. TypeOK /\ TypeOK'  BY TypeStep DEF FlushInv
  <2> QED  BY <2>1, HandlerFields DEF Ordered, Has
<1>1. ASSUME NEW h \in Handlers, Finishing(h),
             \/ /\ handler'[h].todo = handler[h].todo
                /\ handler'[h].call = handler[h].call
             \/ /\ Has(handler'[h].todo, "finish") => Has(handler[h].todo, "finish")
                /\ handler'[h].todo # <<>> => handler'[h].call = handler[h].call
      PROVE  Finishing(h)'
  <2>1. SUFFICES ASSUME Has(handler'[h].todo, "finish")
                 PROVE  /\ handler'[h].call \in issued'
                        /\ task'[handler'[h].call].delivery_state \in {"terminal", "absent"}
    BY DEF Finishing
  <2>2. handler'[h].todo # <<>>  BY <1>0, <2>1
  <2>3. /\ Has(handler[h].todo, "finish") /\ handler'[h].call = handler[h].call
    BY <1>1, <2>1, <2>2
  <2>4. handler[h].call \in Calls  BY <1>0, <1>1, <2>3 DEF Finishing, TypeOK
  <2> QED  BY <1>1, <2>3, <2>4, EndedStays DEF Finishing
<1>2. CASE UNCHANGED handler
  <2>1. \A h \in Handlers : Ordered(handler'[h].todo) /\ Finishing(h)'
    BY <1>1, <1>2 DEF StageInv
  <2>2. \A h \in Handlers : Busy(h)' <=> Busy(h)
    BY <1>2 DEF Busy, Running, Head1
  <2> QED  BY <2>1, <2>2 DEF StageInv
<1>3. CASE \A h \in Handlers : handler'[h] = Idle
  <2>1. \A h \in Handlers : handler'[h].todo = <<>>  BY <1>3 DEF Idle
  <2>2. \A h \in Handlers : ~Busy(h)'  BY <2>1 DEF Busy, Running
  <2> QED  BY <1>0, <2>1, <2>2 DEF StageInv, Finishing
<1>4. ASSUME NEW h \in Handlers,
             \A g \in Handlers : g # h => handler'[g] = handler[g],
             Ordered(handler'[h].todo), Finishing(h)',
             GateOpen \/ Busy(h) \/ ~Busy(h)'
      PROVE  StageInv'
  <2>1. \A g \in Handlers : Ordered(handler'[g].todo) /\ Finishing(g)'
    BY <1>1, <1>4 DEF StageInv
  <2>2. \A g \in Handlers : g # h => (Busy(g)' <=> Busy(g))
    BY <1>4 DEF Busy, Running, Head1
  <2>3. GateOpen => \A g \in Handlers : ~Busy(g)  BY DEF GateOpen, Busy
  <2>4. \A f, g \in Handlers : Busy(f)' /\ Busy(g)' => f = g
    BY <1>4, <2>2, <2>3 DEF StageInv
  <2> QED  BY <2>1, <2>4 DEF StageInv
<1>5. ASSUME NEW h \in Handlers, HandlerEvent(h)  PROVE StageInv'
  <2>0. PICK t \in EventTodos : \E n \in Starting(t) : \E hd :
          /\ Turns(h, n, hd)
          /\ Has(t, "finish") => /\ hd.call \in Calls /\ Exists(hd.call)
                                 /\ task'[hd.call].delivery_state = "terminal"
    BY <1>0, <1>5, EventTurn DEF HandlerEvent
  <2>a. PICK n \in Starting(t) : \E hd :
          /\ Turns(h, n, hd)
          /\ Has(t, "finish") => /\ hd.call \in Calls /\ Exists(hd.call)
                                 /\ task'[hd.call].delivery_state = "terminal"
    BY <2>0
  <2>1. PICK hd :
          /\ Turns(h, n, hd)
          /\ Has(t, "finish") => /\ hd.call \in Calls /\ Exists(hd.call)
                                 /\ task'[hd.call].delivery_state = "terminal"
    BY <2>a
  <2>2. /\ n \in Seq(Stages) /\ Ordered(n) /\ \A x : Has(n, x) => x = "flush" \/ Has(t, x)
    BY StartedStages
  <2>3. Finishing(h)'
    <3>1. SUFFICES ASSUME Has(handler'[h].todo, "finish")
                   PROVE  /\ handler'[h].call \in issued'
                          /\ task'[handler'[h].call].delivery_state \in {"terminal", "absent"}
      BY DEF Finishing
    <3>2. /\ Has(t, "finish") /\ n # <<>> /\ handler'[h].call = hd.call
      BY <1>0, <2>1, <2>2, <3>1 DEF Turns
    <3>3. hd.call \in issued  BY <2>1, <3>2 DEF IssuedExist
    <3>4. task'[hd.call].delivery_state # "absent"  BY <2>1, <3>2
    <3>5. issued \subseteq issued'
      <4>1. Changed  BY StepChanged
      <4> QED  BY <4>1 DEF Changed, Untouched, ChangesOf, Begun, Answered, Started,
                  Over, Leased, Offered, Requeued, Trimmed, Forgotten
    <3> QED  BY <2>1, <3>2, <3>3, <3>5
  <2>4. GateOpen  BY <1>0, <1>5, EventTurn DEF HandlerEvent
  <2>5. Ordered(handler'[h].todo)  BY <2>1, <2>2 DEF Turns
  <2> QED  BY <1>4, <2>1, <2>3, <2>4, <2>5 DEF Turns
<1>6. ASSUME NEW h \in Handlers, HandlerStage(h)  PROVE StageInv'
  <2>1. /\ (Running(h) /\ GateOpen) \/ Busy(h) \/ D1Insert(h)
        /\ \/ /\ D1Insert(h) \/ Head1(h) = "expire"
              /\ Turns(h, handler[h].todo, handler[h])
           \/ AuthorityFails(h) /\ Turns(h, <<>>, Idle)
           \/ \E p \in Pushes : \E hd : Followed(h, p, hd)
    BY <1>0, <1>6, StageTurn DEF HandlerStage
  <2>2. Running(h) /\ handler[h].todo # <<>>
    BY <2>1 DEF Busy, D1Insert, At, Running
  <2>3. D1Insert(h) => ~Busy(h)'
    <3>1. SUFFICES ASSUME D1Insert(h) PROVE ~Busy(h)'  OBVIOUS
    <3>2. handler'[h] = [handler[h] EXCEPT !.stored = TRUE] /\ handler[h] \in Handler
      BY <1>0, <3>1 DEF D1Insert, TypeOK
    <3>3. handler'[h].todo = handler[h].todo  BY <3>2 DEF Handler
    <3>4. Head(handler'[h].todo) = "flush"  BY <3>1, <3>3 DEF D1Insert, At, Head1
    <3> QED  BY <3>4 DEF Busy, Head1, Awaits
  <2>4. CASE Turns(h, handler[h].todo, handler[h])
    <3>1. Ordered(handler'[h].todo)  BY <2>4 DEF Turns, StageInv
    <3>2. Finishing(h)'  BY <1>1, <2>2, <2>4 DEF Turns, StageInv
    <3> QED  BY <1>4, <2>1, <2>3, <2>4, <3>1, <3>2 DEF Turns
  <2>5. CASE AuthorityFails(h) /\ Turns(h, <<>>, Idle)
    <3>1. handler'[h].todo = <<>>  BY <2>5 DEF Turns
    <3>2. Finishing(h)' /\ Ordered(handler'[h].todo)
      BY <1>0, <3>1 DEF Finishing
    <3> QED  BY <1>4, <2>1, <2>3, <2>5, <3>2 DEF Turns
  <2>6. ASSUME NEW p \in Pushes, NEW hd, Followed(h, p, hd)
        PROVE  StageInv'
    <3> DEFINE n == p \o Tail(handler[h].todo)
    <3>1. Turns(h, n, hd) /\ hd.call = handler[h].call
      BY <2>6 DEF Followed, Rest
    <3>2. /\ Ordered(n)
          /\ \A x : Has(n, x) =>
               \/ Has(handler[h].todo, x)
               \/ x \in {"dispatch", "lease", "authority", "flush"}
      BY <1>0, <2>2, PushedStages DEF StageInv
    <3> HIDE DEF n
    <3>3. Ordered(handler'[h].todo)  BY <3>1, <3>2 DEF Turns
    <3>4. Finishing(h)'
      <4>1. /\ Has(n, "finish") => Has(handler[h].todo, "finish")
            /\ handler'[h].todo = n
            /\ n # <<>> => handler'[h].call = handler[h].call
        BY <3>1, <3>2 DEF Turns
      <4> QED  BY <1>1, <4>1 DEF StageInv
    <3> QED  BY <1>4, <2>1, <2>3, <3>1, <3>3, <3>4 DEF Turns
  <2> QED  BY <2>1, <2>4, <2>5, <2>6
<1> QED  BY <1>0, <1>2, <1>3, <1>5, <1>6, HandlerCases

\* StageInv holds at first and through every step.
LEMMA StageInvariant == Spec => [](IndexInv /\ RecordInv /\ StageInv)
<1>1. Init => StageInv
  <2> SUFFICES ASSUME Init PROVE StageInv  OBVIOUS
  <2>1. \A h \in Handlers : handler[h].todo = <<>>  BY DEF Init, Idle
  <2>2. Ordered(<<>>) /\ ~Has(<<>>, "finish")  BY DEF Ordered, Has
  <2> QED  BY <2>1, <2>2 DEF StageInv, Finishing, Busy, Running
<1>2. IndexInv /\ RecordInv /\ StageInv /\ [Next]_vars => StageInv'
  BY StageStep DEF IndexInv
<1> QED  BY <1>1, <1>2, RecordInvariant, PTL DEF Spec

-----------------------------------------------------------------------------
(* The queue of the mailbox and the call with a listener.                  *)

QueueKeys ==
    \A k \in queue : /\ k[2] \in issued /\ k[1] <= now
                     /\ Exists(k[2]) => k = QueueKey(task[k[2]], k[2])
QueueInv == /\ DeliveryStatesAgree /\ QueueKeys
            /\ active # NoCall => active \in issued

\* A change to one record keeps the queue's entry and the active call in line
\* with it.
LEMMA QueueChange ==
    ASSUME TypeOK, TypeOK', IssuedExist, QueueInv, now <= now', NEW c \in Calls,
           ChangesOf(c)
    PROVE  QueueInv'
<1> DEFINE old == task[c]
           new == task'[c]
           key == QueueKey(old, c)
<1>0. /\ \A x \in Calls : x # NoCall /\ (Exists(x) => x \in issued)
      /\ key[1] = old.created_at /\ key[2] = c
      /\ \A x \in Calls : /\ QueueKey(task[x], x)[1] = task[x].created_at
                          /\ QueueKey(task[x], x)[2] = x
      /\ queue \subseteq Nat \X Calls /\ queue' \subseteq Nat \X Calls
      /\ now \in Nat /\ now' \in Nat
      /\ Exists(c) <=> old.delivery_state # "absent"
      /\ Exists(c)' <=> new.delivery_state # "absent"
  BY ConstantTypes, InputTypes DEF IssuedExist, QueueKey, TypeOK, Times, Exists
<1>1. /\ \A x \in Calls : x # c => task'[x] = task[x] /\ (Exists(x)' <=> Exists(x))
      /\ issued \subseteq issued' /\ c \in issued'
  <2>1. \A x \in Calls : x # c => task'[x] = task[x]
    BY PutOnly
    DEF ChangesOf, Begun, Answered, Started, Over, Leased, Offered, Requeued,
        Trimmed, Forgotten
  <2>2. issued \subseteq issued'
    BY DEF ChangesOf, Begun, Answered, Started, Over, Leased, Offered, Requeued,
       Trimmed, Forgotten
  <2>3. c \in issued' \/ Exists(c)
    BY DEF ChangesOf, Begun, Answered, Started, Over, Leased, Offered, Requeued,
       Trimmed, Forgotten, Exists, LeaseRanOut, IsDurable, DurableStates
  <2> QED  BY <1>0, <2>1, <2>2, <2>3 DEF Exists
<1>2. \/ /\ \E t : Begun(c, t)
         /\ c \notin issued
         /\ new.delivery_state \in {"queued", "live"} /\ new.created_at = now
         /\ active' = active
         /\ queue' = queue \/ queue' = queue \cup {QueueKey(new, c)}
         /\ new.delivery_state = "queued" => queue' = queue \cup {QueueKey(new, c)}
      \/ /\ Exists(c)
         /\ Exists(c)' => new.created_at = old.created_at
         /\ new.delivery_state \notin {"queued", "leased"}
         /\ queue' = queue \/ queue' = queue \ {key}
         /\ active' = active \/ (active = c /\ active' = NoCall)
      \/ /\ Exists(c) /\ new.created_at = old.created_at
         /\ new.delivery_state = old.delivery_state
         /\ queue' = queue /\ active' = active
      \/ /\ old.delivery_state = "queued" /\ new.delivery_state = "leased"
         /\ new.created_at = old.created_at
         /\ queue' = queue /\ active = NoCall /\ active' = c
      \/ /\ old.delivery_state = "leased" /\ new.delivery_state = "queued"
         /\ new.created_at = old.created_at
         /\ queue' = queue /\ active = c /\ active' = NoCall
  <2>1. ASSUME NEW t, Begun(c, t)
        PROVE  /\ c \notin issued
               /\ new.delivery_state \in {"queued", "live"} /\ new.created_at = now
               /\ active' = active
               /\ queue' = queue \/ queue' = queue \cup {QueueKey(new, c)}
               /\ new.delivery_state = "queued" => queue' = queue \cup {QueueKey(new, c)}
    BY <2>1, ChangedFields DEF Begun
  <2>2. CASE Answered(c)
    BY <2>2, ChangedFields DEF Answered
  <2>3. CASE Started(c)
    <3>1. /\ Exists(c) /\ new.created_at = old.created_at
          /\ queue' = queue /\ active' = active
          /\ new.delivery_state = IF IsDurable(old) THEN "started"
                                  ELSE old.delivery_state
      BY <2>3, ChangedFields DEF Started
    <3> QED  BY <3>1
  <2>4. ASSUME NEW t, NEW e, Over(c, t, e)
        PROVE  /\ Exists(c) /\ new.created_at = old.created_at
               /\ new.delivery_state \notin {"queued", "leased"}
               /\ queue' = queue \/ queue' = queue \ {key}
               /\ active' = active \/ (active = c /\ active' = NoCall)
    <3>1. Ending(old, new)  BY <2>4, ChangedFields
    <3> QED  BY <2>4, <3>1 DEF Over, Ending, IsDurable, DurableStates
  <2>5. ASSUME NEW l, Leased(c, l)
        PROVE  /\ old.delivery_state = "queued" /\ new.delivery_state = "leased"
               /\ new.created_at = old.created_at
               /\ queue' = queue /\ active = NoCall /\ active' = c
    <3>1. new.delivery_state = "leased" /\ new.created_at = old.created_at
      BY <2>5, ChangedFields
    <3> QED  BY <2>5, <3>1 DEF Leased
  <2>6. ASSUME NEW l, Offered(c, l)
        PROVE  /\ Exists(c) /\ new.created_at = old.created_at
               /\ new.delivery_state = old.delivery_state
               /\ queue' = queue /\ active' = active
    BY <2>6, ChangedFields DEF Offered, Exists
  <2>7. CASE Requeued(c)
    <3>1. new.delivery_state = "queued" /\ new.created_at = old.created_at
      BY <2>7, ChangedFields
    <3> QED  BY <2>7, <3>1 DEF Requeued, LeaseRanOut
  <2>8. CASE Trimmed(c)
    <3>1. /\ new.delivery_state = old.delivery_state
          /\ new.created_at = old.created_at
      BY <2>8, ChangedFields
    <3>2. Exists(c) /\ queue' = queue /\ active' = active
      BY <2>8 DEF Trimmed, Exists, IsDurable, DurableStates
    <3> QED  BY <3>1, <3>2
  <2>9. CASE Forgotten(c)
    <3>0. new = NoTask  BY <2>9, ChangedFields
    <3>1. new.delivery_state = "absent" /\ Exists(c) /\ ~Exists(c)'
      BY <1>0, <2>9, <3>0 DEF Forgotten, NoTask
    <3>2. /\ queue' = queue \/ queue' = queue \ {key}
          /\ active' = active \/ (active = c /\ active' = NoCall)
      BY <2>9 DEF Forgotten
    <3> QED  BY <3>1, <3>2
  <2> QED  BY <2>1, <2>2, <2>3, <2>4, <2>5, <2>6, <2>7, <2>8, <2>9 DEF ChangesOf
<1>3. QueueKeys'
  <2>1. SUFFICES ASSUME NEW k \in queue'
                 PROVE  /\ k[2] \in issued' /\ k[1] <= now'
                        /\ Exists(k[2])' => k = QueueKey(task'[k[2]], k[2])
    BY DEF QueueKeys
  <2>2. k \in Nat \X Calls /\ k[1] \in Nat /\ k[2] \in Calls  BY <1>0, <2>1
  <2>3. CASE k \in queue
    <3>1. /\ k[2] \in issued /\ k[1] <= now
          /\ Exists(k[2]) => k = QueueKey(task[k[2]], k[2])
      BY <2>3 DEF QueueInv, QueueKeys
    <3>2. k[2] \in issued' /\ k[1] <= now'  BY <1>0, <1>1, <2>2, <3>1
    <3>3. CASE k[2] # c  BY <1>1, <2>2, <3>1, <3>2, <3>3
    <3>4. CASE k[2] = c
      <4>1. c \in issued  BY <3>1, <3>4
      <4>2. /\ Exists(c)
            /\ Exists(c)' => new.created_at = old.created_at
        BY <1>0, <1>2, <4>1
      <4> QED  BY <3>1, <3>2, <3>4, <4>2 DEF QueueKey
    <3> QED  BY <3>3, <3>4
  <2>4. CASE k \notin queue
    <3>1. k = QueueKey(new, c) /\ new.created_at = now  BY <1>2, <2>1, <2>4
    <3>2. k[2] = c /\ k[1] = now  BY <3>1 DEF QueueKey
    <3> QED  BY <1>1, <3>1, <3>2
  <2> QED  BY <2>3, <2>4
<1>4. active' # NoCall => active' \in issued'
  <2>1. active' \in {active, NoCall, c}  BY <1>2
  <2> QED  BY <1>1, <2>1 DEF QueueInv
<1>5. DeliveryStatesAgree'
  <2>1. SUFFICES ASSUME NEW x \in Calls
                 PROVE  /\ task'[x].delivery_state \in {"queued", "leased"}
                             => QueueKey(task'[x], x) \in queue'
                        /\ task'[x].delivery_state = "leased" => active' = x
                        /\ task'[x].delivery_state = "queued" => active' # x
    BY DEF DeliveryStatesAgree
  <2>2. \A y \in Calls :
          /\ task[y].delivery_state \in {"queued", "leased"}
               => QueueKey(task[y], y) \in queue
          /\ task[y].delivery_state = "leased" => active = y
          /\ task[y].delivery_state = "queued" => active # y
    BY DEF QueueInv, DeliveryStatesAgree
  <2>3. CASE x # c
    <3>1. task'[x] = task[x]  BY <1>1, <2>3
    <3>2. QueueKey(task[x], x) # key  BY <1>0, <2>3
    <3>3. QueueKey(task[x], x) \in queue => QueueKey(task[x], x) \in queue'
      BY <1>2, <3>2
    <3>4. /\ task[x].delivery_state = "leased" => active' = x
          /\ task[x].delivery_state = "queued" => active' # x
      BY <1>0, <1>2, <2>2, <2>3
    <3> QED  BY <2>2, <3>1, <3>3, <3>4
  <2>4. CASE x = c
    <3>1. c \notin issued => active # c  BY <1>0 DEF QueueInv
    <3>2. QueueKey(new, c) = <<new.created_at, c>> /\ key = <<old.created_at, c>>
      BY DEF QueueKey
    <3>3. /\ new.delivery_state \in {"queued", "leased"}
               => QueueKey(new, c) \in queue'
          /\ new.delivery_state = "leased" => active' = c
          /\ new.delivery_state = "queued" => active' # c
      BY <1>0, <1>2, <2>2, <3>1, <3>2
    <3> QED  BY <2>4, <3>3
  <2> QED  BY <2>3, <2>4
<1> QED  BY <1>3, <1>4, <1>5 DEF QueueInv

\* QueueInv holds through every step.
LEMMA QueueStep ==
    ASSUME FlushInv, IssuedExist, RecordInv, StageInv, QueueInv, [Next]_vars
    PROVE  QueueInv'
<1>0. /\ TypeOK /\ TypeOK' /\ Changed /\ now \in Nat /\ now' \in Nat /\ now <= now'
      /\ queue \subseteq Nat \X Calls
  <2>1. TypeOK /\ TypeOK' /\ Changed  BY TypeStep, StepChanged DEF FlushInv
  <2>2. now \in Nat /\ (now' = now \/ now' = now + 1)
    BY <2>1, ClockStep DEF TypeOK
  <2> QED  BY <2>1, <2>2 DEF TypeOK, Times
<1>1. ASSUME NEW c \in Calls, ChangesOf(c)  PROVE QueueInv'
  BY <1>0, <1>1, QueueChange
<1>2. ASSUME UNCHANGED <<task, issued>>, queue' \subseteq queue,
             active' \in {active, NoCall},
             \A x \in Calls :
               /\ task[x].delivery_state \in {"queued", "leased"}
                    => QueueKey(task[x], x) \in queue'
               /\ task[x].delivery_state = "leased" => active' = active
      PROVE  QueueInv'
  <2>1. QueueKeys'
    <3>1. SUFFICES ASSUME NEW k \in queue'
                   PROVE  /\ k[2] \in issued' /\ k[1] <= now'
                          /\ Exists(k[2])' => k = QueueKey(task'[k[2]], k[2])
      BY DEF QueueKeys
    <3>2. k \in queue /\ k[1] \in Nat /\ k[2] \in Calls  BY <1>0, <1>2, <3>1
    <3>3. /\ k[2] \in issued /\ k[1] <= now
          /\ Exists(k[2]) => k = QueueKey(task[k[2]], k[2])
      BY <3>2 DEF QueueInv, QueueKeys
    <3>4. Exists(k[2])' <=> Exists(k[2])  BY <1>2 DEF Exists
    <3> QED  BY <1>0, <1>2, <3>2, <3>3, <3>4
  <2>2. DeliveryStatesAgree'
    <3>1. \A x \in Calls : x # NoCall  BY HandleDOAssumption DEF NoCall
    <3> QED  BY <1>2, <3>1 DEF DeliveryStatesAgree, QueueInv, QueueKey
  <2>3. active' # NoCall => active' \in issued'  BY <1>2 DEF QueueInv
  <2> QED  BY <2>1, <2>2, <2>3 DEF QueueInv
<1>3. CASE Untouched
  <2>0. UNCHANGED <<task, issued>>  BY <1>3 DEF Untouched
  <2>1. CASE UNCHANGED <<queue, active>>
    BY <1>2, <2>0, <2>1 DEF QueueInv, DeliveryStatesAgree
  <2>2. ASSUME NEW h \in Handlers, FinishDurableTask(h)
        PROVE  QueueInv'
    <3> DEFINE c == handler[h].call
    <3>1. /\ At(h, "finish")
          /\ queue' = queue \ {QueueKey(task[c], c)}
          /\ active' = IF active = c THEN NoCall ELSE active
      BY <2>2 DEF FinishDurableTask, Dequeue
    <3>2. Has(handler[h].todo, "finish")
      <4>1. handler[h].todo \in Seq(Stages)  BY <1>0, HandlerFields
      <4>2. 1 \in 1..Len(handler[h].todo) /\ handler[h].todo[1] = "finish"
        BY <3>1, <4>1, HeadTailProperties, EmptySeq DEF At, Running, Head1
      <4> QED  BY <4>2 DEF Has
    <3>3. c \in Calls /\ task[c].delivery_state \in {"terminal", "absent"}
      BY <1>0, <3>2 DEF StageInv, Finishing, TypeOK
    <3> HIDE DEF c
    <3>4. \A x \in Calls : task[x].delivery_state \in {"queued", "leased"} =>
            x # c /\ QueueKey(task[x], x) # QueueKey(task[c], c)
      BY <3>3 DEF QueueKey
    <3> QED  BY <1>2, <2>0, <3>1, <3>4 DEF QueueInv, DeliveryStatesAgree
  <2>3. ASSUME active = NoCall, active' = NoCall, NEW k \in queue,
               task[k[2]].delivery_state # "queued", queue' = queue \ {k}
        PROVE  QueueInv'
    <3>1. \A x \in Calls : x # NoCall  BY HandleDOAssumption DEF NoCall
    <3>2. \A x \in Calls : task[x].delivery_state \in {"queued", "leased"} =>
            QueueKey(task[x], x) # k
      <4>1. \A x \in Calls : task[x].delivery_state # "leased"
        BY <2>3, <3>1 DEF QueueInv, DeliveryStatesAgree
      <4>2. \A x \in Calls : QueueKey(task[x], x)[2] = x  BY DEF QueueKey
      <4> QED  BY <2>3, <4>1, <4>2
    <3> QED  BY <1>2, <2>0, <2>3, <3>2 DEF QueueInv, DeliveryStatesAgree
  <2> QED  BY <1>3, <2>1, <2>2, <2>3 DEF Untouched
<1> QED  BY <1>0, <1>1, <1>3 DEF Changed

\* QueueInv holds at first and through every step.
LEMMA QueueInvariant == Spec => [](IndexInv /\ RecordInv /\ StageInv /\ QueueInv)
<1>1. Init => QueueInv
  <2> SUFFICES ASSUME Init PROVE QueueInv  OBVIOUS
  <2>1. \A c \in Calls : task[c].delivery_state = "absent"  BY DEF Init, NoTask
  <2> QED  BY <2>1 DEF Init, QueueInv, DeliveryStatesAgree, QueueKeys
<1>2. IndexInv /\ RecordInv /\ StageInv /\ QueueInv /\ [Next]_vars => QueueInv'
  BY QueueStep DEF IndexInv
<1> QED  BY <1>1, <1>2, StageInvariant, PTL DEF Spec

\* DeliveryStatesAgree: a call waiting for delivery is in the queue, and the
\* one call that is leased is the active one.  What may take a call's key away
\* is its own end; a handler that finishes a call finishes one that has ended.
THEOREM DeliveryAgrees == Spec => []DeliveryStatesAgree
<1>1. QueueInv => DeliveryStatesAgree  BY DEF QueueInv
<1> QED  BY <1>1, QueueInvariant, PTL

-----------------------------------------------------------------------------
(* The alarm.  Outside alarm() it wakes the object for all there is to do:  *)
(* a step either sets it close enough for anything, or adds nothing that   *)
(* it does not cover, or computes it afresh.                               *)

Armed == /\ outbox # {} => WakesBy(now)
         /\ \A k \in due : WakesBy(k[1])
         /\ \A c \in Calls : task[c].delivery_state = "leased" =>
              WakesBy(task[c].lease.expires_at)
SetBy(t)  == alarm' # NoAlarm /\ alarm' <= t
AlarmSoon == SetBy(now' + AuditRetry)
AlarmKept ==
    /\ alarm # NoAlarm => SetBy(alarm)
    /\ outbox' # {} => outbox # {}
    /\ \A k \in due' : k \in due \/ SetBy(k[1])
    /\ \A c \in Calls : task'[c].delivery_state = "leased" =>
         \/ /\ task[c].delivery_state = "leased"
            /\ task'[c].lease.expires_at = task[c].lease.expires_at
         \/ SetBy(task'[c].lease.expires_at)

\* An alarm within AuditRetry is soon enough for everything.
LEMMA SoonArmed == ASSUME AlarmSoon PROVE Armed'
BY DEF AlarmSoon, SetBy, Armed, WakesBy

\* An alarm that is kept, or brought forward to what is new, still does.
LEMMA KeptArmed ==
    ASSUME TypeOK, TypeOK', now <= now', Armed, AlarmKept
    PROVE  Armed'
<1>0. /\ now \in Nat /\ now' \in Nat /\ AuditRetry \in Nat
      /\ alarm \in Nat \cup {NoAlarm} /\ alarm' \in Nat \cup {NoAlarm}
      /\ \A k \in due' : k[1] \in Nat
      /\ \A c \in Calls : task'[c].lease.expires_at \in Nat
      /\ NoAlarm = -1
  <2>1. \A k \in due' : k[1] \in Nat  BY DEF TypeOK, Times
  <2>2. \A c \in Calls : task'[c].lease.expires_at \in Nat
    BY DEF TypeOK, Task, Lease, Times
  <2>3. now \in Nat /\ now' \in Nat  BY ConstantTypes DEF TypeOK
  <2> QED  BY <2>1, <2>2, <2>3, ConstantTypes DEF TypeOK, Times, NoAlarm
<1>1. ASSUME NEW t \in Nat, WakesBy(t)
      PROVE  alarm' # NoAlarm /\ (alarm' <= t \/ alarm' <= now' + AuditRetry)
  <2>1. alarm # NoAlarm /\ (alarm <= t \/ alarm <= now + AuditRetry)
    BY <1>1 DEF WakesBy
  <2>2. alarm' # NoAlarm /\ alarm' <= alarm  BY <2>1 DEF AlarmKept, SetBy
  <2>3. /\ alarm \in Nat /\ alarm' \in Nat /\ now \in Nat /\ now' \in Nat
        /\ AuditRetry \in Nat /\ now <= now'
    BY <1>0, <2>1, <2>2
  <2>4. alarm <= t => alarm' <= t  BY <2>2, <2>3
  <2>5. alarm <= now + AuditRetry => alarm' <= now' + AuditRetry
    <3>1. \A a, b, m, n, r \in Nat :
            a <= b /\ m <= n /\ b <= m + r => a <= n + r
      OBVIOUS
    <3> QED  BY <2>2, <2>3, <3>1
  <2> QED  BY <2>1, <2>2, <2>4, <2>5
<1>2. outbox' # {} => alarm' # NoAlarm /\ (alarm' <= now' \/ alarm' <= now' + AuditRetry)
  <2>1. WakesBy(now) =>
          alarm' # NoAlarm /\ (alarm' <= now \/ alarm' <= now' + AuditRetry)
    BY <1>0, <1>1
  <2>2. alarm' # NoAlarm /\ alarm' <= now => alarm' <= now'
    <3>1. now \in Nat /\ now' \in Nat /\ alarm' \in Nat \cup {NoAlarm} /\ now <= now'
      BY <1>0
    <3> QED  BY <3>1
  <2>3. outbox' # {} => WakesBy(now)  BY DEF Armed, AlarmKept
  <2> QED  BY <2>1, <2>2, <2>3
<1>3. \A k \in due' : alarm' # NoAlarm /\ (alarm' <= k[1] \/ alarm' <= now' + AuditRetry)
  BY <1>0, <1>1 DEF Armed, AlarmKept, SetBy
<1>4. \A c \in Calls : task'[c].delivery_state = "leased" =>
        /\ alarm' # NoAlarm
        /\ \/ alarm' <= task'[c].lease.expires_at
           \/ alarm' <= now' + AuditRetry
  BY <1>0, <1>1 DEF Armed, AlarmKept, SetBy
<1> QED  BY <1>2, <1>3, <1>4 DEF Armed, WakesBy

\* What brings an alarm forward.
LEMMA EarlierSet ==
    ASSUME NEW a \in Nat \cup {NoAlarm}, NEW t \in Nat
    PROVE  /\ Earlier(a, t) \in Nat /\ Earlier(a, t) # NoAlarm
           /\ Earlier(a, t) <= t
           /\ a # NoAlarm => Earlier(a, t) <= a
BY DEF Earlier, NoAlarm

\* scheduleNextAlarm covers the outbox it is given, the timers, and the lease
\* of the active call, which is the only one.
LEMMA ScheduledArmed ==
    ASSUME FlushInv, RecordInv, DeliveryStatesAgree, ScheduleNextAlarm(outbox'),
           UNCHANGED <<now, due, task>>
    PROVE  Armed'
<1>0. /\ now \in Nat /\ AuditRetry \in Nat /\ due \subseteq Nat \X Calls
      /\ \A c \in Calls : /\ task[c].lease.expires_at \in Nat
                          /\ c # NoCall
  <2>1. TypeOK /\ now \in Nat /\ AuditRetry \in Nat
    BY ConstantTypes DEF FlushInv, TypeOK
  <2>2. \A c \in Calls : task[c].lease.expires_at \in Nat
    BY <2>1 DEF TypeOK, Task, Lease, Times
  <2> QED  BY <2>1, <2>2, InputTypes DEF TypeOK, Times
<1>1. \A c \in Calls : task[c].delivery_state = "leased" =>
        task[c].lease.expires_at \in AlarmTimes(outbox')
  <2>1. SUFFICES ASSUME NEW c \in Calls, task[c].delivery_state = "leased"
                 PROVE  task[c].lease.expires_at \in AlarmTimes(outbox')
    OBVIOUS
  <2>2. active = c  BY <2>1 DEF DeliveryStatesAgree
  <2>3. task[c].lease # NoLease
    <3>1. task[c].lease.attempt > 0  BY <2>1 DEF RecordInv, Waiting
    <3>2. NoLease.attempt = 0  BY DEF NoLease
    <3> QED  BY <3>1, <3>2
  <2> QED  BY <1>0, <2>2, <2>3 DEF AlarmTimes
<1>2. \A k \in due : k[1] \in AlarmTimes(outbox')  BY DEF AlarmTimes
<1>3. outbox' # {} => now + AuditRetry \in AlarmTimes(outbox')  BY DEF AlarmTimes
<1>4. AlarmTimes(outbox') \subseteq Nat
  <2>1. active \in Calls \cup {NoCall}  BY DEF FlushInv, TypeOK
  <2>2. {k[1] : k \in due} \subseteq Nat  BY <1>0
  <2> QED  BY <1>0, <2>1, <2>2 DEF AlarmTimes
<1>5. CASE AlarmTimes(outbox') = {}
  BY <1>1, <1>2, <1>3, <1>5 DEF Armed
<1>6. CASE AlarmTimes(outbox') # {}
  <2>1. PICK t \in AlarmTimes(outbox') :
          (\A u \in AlarmTimes(outbox') : t <= u) /\ alarm' = t
    BY <1>6 DEF ScheduleNextAlarm
  <2>2. alarm' \in Nat /\ alarm' # NoAlarm  BY <1>4, <2>1 DEF NoAlarm
  <2>3. \A u \in AlarmTimes(outbox') : alarm' <= u  BY <2>1
  <2> HIDE DEF AlarmTimes
  <2>4. outbox' # {} => alarm' <= now' + AuditRetry  BY <1>3, <2>3
  <2>5. \A k \in due' : alarm' <= k[1]  BY <1>2, <2>3
  <2>6. \A c \in Calls : task'[c].delivery_state = "leased" =>
          alarm' <= task'[c].lease.expires_at
    BY <1>1, <2>3
  <2> QED  BY <2>2, <2>4, <2>5, <2>6 DEF Armed, WakesBy
<1> QED  BY <1>5, <1>6

\* An event's own step.
LEMMA EventAlarm ==
    ASSUME TypeOK, DueExact, NEW h \in Handlers, Receive(h)
    PROVE  AlarmSoon \/ AlarmKept
<1>0. /\ now \in Nat /\ AuditRetry \in Nat /\ alarm \in Nat \cup {NoAlarm}
      /\ now + AuditRetry \in Nat /\ \A c \in Calls : task[c] \in Task
  BY ConstantTypes DEF TypeOK, Times
<1>1. ASSUME alarm' = AuditRetryArmed, now' = now  PROVE AlarmSoon
  BY <1>0, <1>1, EarlierSet DEF AuditRetryArmed, AlarmSoon, SetBy
<1>2. ASSUME UNCHANGED <<alarm, outbox, due, task>>  PROVE AlarmKept
  BY <1>0, <1>2 DEF AlarmKept, SetBy
<1>3. ASSUME NEW cap, Connect(h, cap)  PROVE AlarmKept
  BY <1>2, <1>3 DEF Connect, durables, records
<1>4. ASSUME NEW k, NEW m, NEW b, SubmitDurable(h, k, m, b)  PROVE AlarmSoon
  BY <1>1, <1>4 DEF SubmitDurable
<1>5. ASSUME NEW k, NEW m, NEW e, SubmitLive(h, k, m, e)  PROVE AlarmSoon
  BY <1>1, <1>5 DEF SubmitLive
<1>6. ASSUME NEW c,
             \/ CancelUnstarted(h, c) \/ CallAccepted(h, c) \/ CallCancelled(h, c)
             \/ CallRejected(h, c) \/ \E s, b : CallOutcome(h, c, s, b)
      PROVE  AlarmSoon
  BY <1>1, <1>6 DEF CancelUnstarted, CallAccepted, CallCancelled, CallRejected,
     CallOutcome, Terminate
<1>7. ASSUME NEW c \in Calls, CallStarted(h, c)
      PROVE  AlarmSoon \/ AlarmKept
  <2> DEFINE old == task[c]
             new == StartedRecord(old)
  <2>1. /\ now' = now /\ task' = [task EXCEPT ![c] = new] /\ MayReport(c)
        /\ due' = (due \ {DueKey(old, c)}) \cup {DueKey(new, c)}
        /\ \/ alarm' = AuditRetryArmed
           \/ alarm' = Earlier(AuditRetryArmed, new.deadline)
           \/ /\ outbox' = outbox
              /\ alarm' = IF IsDurable(old) THEN Earlier(alarm, new.deadline) ELSE alarm
    BY <1>7 DEF CallStarted, StartedRecord
  <2>2. /\ new.deadline = IF IsDurable(old) THEN ExecutionDeadline(old)
                          ELSE old.deadline
        /\ new.delivery_state = IF IsDurable(old) THEN "started"
                                ELSE old.delivery_state
        /\ new.lease = old.lease
    BY <1>0 DEF StartedRecord, Task
  <2> HIDE DEF new
  <2>3. new.deadline \in Nat
    <3>1. /\ old.deadline \in Nat /\ old.execute_by \in Nat
          /\ now \in Nat /\ session \in 0..MaxSessions
      BY <1>0, ConstantTypes DEF TypeOK, Task, Times
    <3>2. now + ExecutionMs[session] \in Nat  BY <3>1, OverrideTypes
    <3> QED  BY <2>2, <3>1, <3>2 DEF ExecutionDeadline, ExecuteBy, Least
  <2>4. CASE alarm' = AuditRetryArmed  BY <1>1, <2>1, <2>4
  <2>5. CASE alarm' = Earlier(AuditRetryArmed, new.deadline)
    <3>1. /\ AuditRetryArmed \in Nat /\ AuditRetryArmed <= now + AuditRetry
          /\ AuditRetryArmed # NoAlarm
      BY <1>0, EarlierSet DEF AuditRetryArmed
    <3>2. alarm' \in Nat /\ alarm' # NoAlarm /\ alarm' <= AuditRetryArmed
      BY <2>3, <2>5, <3>1, EarlierSet
    <3> QED  BY <1>0, <2>1, <3>1, <3>2 DEF AlarmSoon, SetBy
  <2>6. CASE /\ outbox' = outbox
             /\ alarm' = IF IsDurable(old) THEN Earlier(alarm, new.deadline) ELSE alarm
    <3>1. alarm # NoAlarm => SetBy(alarm)
      BY <1>0, <2>3, <2>6, EarlierSet DEF SetBy
    <3>2. \A k \in due' : k \in due \/ SetBy(k[1])
      <4>1. CASE IsDurable(old)
        <5>1. SetBy(new.deadline)  BY <1>0, <2>3, <2>6, <4>1, EarlierSet DEF SetBy
        <5>2. DueKey(new, c)[1] = new.deadline  BY DEF DueKey
        <5> QED  BY <2>1, <5>1, <5>2
      <4>2. CASE ~IsDurable(old)
        <5>1. DueKey(new, c) = DueKey(old, c)  BY <2>2, <4>2 DEF DueKey
        <5>2. DueKey(old, c) \in due  BY <2>1, DueMember DEF MayReport
        <5> QED  BY <2>1, <5>1, <5>2
      <4> QED  BY <4>1, <4>2
    <3>3. ASSUME NEW x \in Calls, task'[x].delivery_state = "leased"
          PROVE  /\ task[x].delivery_state = "leased"
                 /\ task'[x].lease.expires_at = task[x].lease.expires_at
      <4>1. task'[x] = IF x = c THEN new ELSE task[x]  BY <2>1 DEF TypeOK
      <4> QED  BY <2>2, <3>3, <4>1
    <3> QED  BY <2>6, <3>1, <3>2, <3>3 DEF AlarmKept
  <2> QED  BY <2>1, <2>4, <2>5, <2>6
<1> QED  BY <1>3, <1>4, <1>5, <1>6, <1>7 DEF Receive

\* A stage's own step.  Nothing covers what alarm() does: it sets the alarm
\* again when it is done.
LEMMA StageAlarm ==
    ASSUME TypeOK, NEW h \in Handlers, HandlerStage(h)
    PROVE  \/ AlarmSoon \/ AlarmKept
           \/ ScheduleNextAlarm(outbox') /\ UNCHANGED <<now, due, task, active>>
           \/ Head1(h) \in {"recover", "expire"} \/ AuthorityFails(h)
<1>0. /\ now \in Nat /\ AuditRetry \in Nat /\ alarm \in Nat \cup {NoAlarm}
      /\ now + AuditRetry \in Nat /\ StartWindow \in Nat
  BY ConstantTypes DEF TypeOK, Times
<1>1. ASSUME UNCHANGED <<alarm, outbox, due, task>>  PROVE AlarmKept
  BY <1>0, <1>1 DEF AlarmKept, SetBy
<1>2. CASE \/ D1Insert(h) \/ AuthorityCurrent(h) \/ FinishDurableTask(h)
           \/ SkipHead(h) \/ NothingToLease(h) \/ Redispatch(h)
           \/ SendStatus(h) \/ SendTerminal(h)
  BY <1>1, <1>2 DEF D1Insert, AuthorityCurrent, FinishDurableTask, SkipHead,
     NothingToLease, Redispatch, SendStatus, SendTerminal, durables, records
<1>3. CASE \/ RecoverExpiredLease(h) \/ ExpireDone(h)
           \/ \E k \in handler[h].keys : ExpireTask(h, k)
  BY <1>3 DEF RecoverExpiredLease, ExpireDone, ExpireTask, At
<1>4. CASE FlushDone(h) \/ Receipt(h) \/ Rearm(h)
  <2>1. ScheduleNextAlarm(outbox')
    <3>1. CASE FlushDone(h)  BY <3>1 DEF FlushDone
    <3>2. CASE Receipt(h) \/ Rearm(h)
      BY <3>2 DEF Receipt, Rearm, ScheduleNextAlarm, AlarmTimes
    <3> QED  BY <1>4, <3>1, <3>2
  <2>2. UNCHANGED <<now, due, task, active>>
    BY <1>4 DEF FlushDone, Receipt, Rearm, records
  <2> QED  BY <2>1, <2>2
<1>5. CASE FlushFails(h)
  BY <1>0, <1>5 DEF FlushFails, AlarmSoon, SetBy, NoAlarm
<1>6. CASE AuthorityLost(h)
  <2>1. \/ now' = now /\ alarm' = AuditRetryArmed
        \/ UNCHANGED <<alarm, outbox, due, task>>
    BY <1>6 DEF AuthorityLost, Terminate
  <2>2. ASSUME now' = now, alarm' = AuditRetryArmed  PROVE AlarmSoon
    BY <1>0, <2>2, EarlierSet DEF AuditRetryArmed, AlarmSoon, SetBy
  <2> QED  BY <1>1, <2>1, <2>2
<1>7. CASE ConsiderHead(h)
  <2>1. \/ alarm' = alarm
        \/ \E k \in LiveStarts : alarm' = Earlier(alarm, k[1] + StartWindow)
    BY <1>7 DEF ConsiderHead
  <2>2. \A k \in LiveStarts : k[1] + StartWindow \in Nat
    BY <1>0 DEF LiveStarts, TypeOK, Times
  <2>3. alarm # NoAlarm => SetBy(alarm)
    <3>1. \A t \in Nat : alarm # NoAlarm =>
            Earlier(alarm, t) # NoAlarm /\ Earlier(alarm, t) <= alarm
      BY <1>0, EarlierSet
    <3>2. CASE alarm' = alarm  BY <1>0, <3>2 DEF SetBy
    <3>3. CASE \E k \in LiveStarts : alarm' = Earlier(alarm, k[1] + StartWindow)
      <4>1. PICK t \in Nat : alarm' = Earlier(alarm, t)  BY <2>2, <3>3
      <4> QED  BY <3>1, <4>1 DEF SetBy
    <3> QED  BY <2>1, <3>2, <3>3
  <2>4. UNCHANGED <<outbox, due, task>>  BY <1>7 DEF ConsiderHead
  <2> QED  BY <2>3, <2>4 DEF AlarmKept
<1>8. CASE Rebind(h)
  <2>1. UNCHANGED <<alarm, outbox, due>> /\ active \in Calls
    BY <1>8 DEF Rebind, TypeOK
  <2>2. PICK l : task' = IF task[active].delivery_state = "started"
                         THEN [task EXCEPT ![active].lease = l] ELSE task
    BY <1>8 DEF Rebind
  <2>3. ASSUME NEW x \in Calls, task'[x].delivery_state = "leased"
        PROVE  /\ task[x].delivery_state = "leased"
               /\ task'[x].lease.expires_at = task[x].lease.expires_at
    <3>1. task[active] \in Task  BY <2>1 DEF TypeOK
    <3>2. [task[active] EXCEPT !.lease = l].delivery_state = task[active].delivery_state
      BY <3>1 DEF Task
    <3>3. CASE task[active].delivery_state # "started"  BY <2>2, <2>3, <3>3
    <3>4. CASE task[active].delivery_state = "started"
      <4>1. task'[x] = IF x = active THEN [task[active] EXCEPT !.lease = l] ELSE task[x]
        BY <2>1, <2>2, <3>4 DEF TypeOK
      <4> QED  BY <2>3, <3>2, <3>4, <4>1
    <3> QED  BY <3>3, <3>4
  <2> QED  BY <1>0, <2>1, <2>3 DEF AlarmKept, SetBy
<1>9. CASE LeaseHead(h)
  <2>1. PICK k \in queue :
          LET c == k[2]
              lease == [session |-> handler[h].session,
                        expires_at |-> now + LeaseMs[handler[h].session],
                        attempt |-> task[c].lease.attempt + 1] IN
          IF task[c].delivery_state = "queued"
          THEN /\ task' = [task EXCEPT ![c].delivery_state = "leased",
                                       ![c].lease = lease]
               /\ alarm' = Earlier(alarm, lease.expires_at)
          ELSE UNCHANGED <<task, alarm>>
    BY <1>9 DEF LeaseHead
  <2>2. UNCHANGED <<outbox, due>> /\ k[2] \in Calls
    BY <1>9 DEF LeaseHead, TypeOK
  <2>3. CASE UNCHANGED <<task, alarm>>  BY <1>1, <2>2, <2>3
  <2>4. CASE task[k[2]].delivery_state = "queued"
    <3> DEFINE c == k[2]
               t == now + LeaseMs[handler[h].session]
               lease == [session |-> handler[h].session, expires_at |-> t,
                         attempt |-> task[c].lease.attempt + 1]
               new == [task[c] EXCEPT !.delivery_state = "leased", !.lease = lease]
    <3>1. alarm' = Earlier(alarm, t) /\ task' = [task EXCEPT ![c] = new]
      BY <2>1, <2>4
    <3>2. t \in Nat /\ task[c] \in Task
      <4>1. now \in Nat /\ handler[h].session \in 0..MaxSessions
        BY <1>0, ConstantTypes DEF TypeOK, Handler
      <4> QED  BY <2>2, <4>1, OverrideTypes DEF TypeOK
    <3>3. new.lease.expires_at = t  BY <3>2 DEF Task
    <3> HIDE DEF t, new
    <3>4. SetBy(t) /\ (alarm # NoAlarm => SetBy(alarm))
      BY <1>0, <3>1, <3>2, EarlierSet DEF SetBy
    <3>5. \A x \in Calls : task'[x] = IF x = c THEN new ELSE task[x]
      BY <2>2, <3>1 DEF TypeOK
    <3> QED  BY <2>2, <3>3, <3>4, <3>5 DEF AlarmKept
  <2> QED  BY <2>1, <2>3, <2>4
<1> QED  BY <1>2, <1>3, <1>4, <1>5, <1>6, <1>7, <1>8, <1>9 DEF HandlerStage, Continue

\* Of the handlers only alarm()'s own end, its failure or a crash ends its
\* claim to set the alarm again.
LEMMA RearmStays ==
    ASSUME TypeOK, RecordInv, StageInv, [Next]_vars, NEW g \in Handlers, IsAlarm(g)
    PROVE  IsAlarm(g)' \/ Rearm(g) \/ AuthorityFails(g) \/ Crash
<1>0. /\ Has(handler[g].todo, "rearm")
      /\ \A h \in Handlers : handler[h].todo \in Seq(Stages)
  BY HandlerFields DEF IsAlarm, Has
<1>1. handler'[g].todo = handler[g].todo => IsAlarm(g)'
  BY DEF IsAlarm
<1>2. ASSUME NEW h \in Handlers, h # g,
             \A x \in Handlers : x # h => handler'[x] = handler[x]
      PROVE  IsAlarm(g)'
  BY <1>1, <1>2
<1>3. ASSUME NEW h \in Handlers, HandlerEvent(h)  PROVE IsAlarm(g)'
  <2>1. /\ ~Running(h)
        /\ \E t \in EventTodos : \E n \in Starting(t) : \E hd : Turns(h, n, hd)
    BY <1>3, EventTurn DEF HandlerEvent
  <2>2. h # g
    <3>1. handler[g].todo # <<>>  BY <1>0 DEF Has
    <3> QED  BY <2>1, <3>1 DEF Running
  <2>3. \A x \in Handlers : x # h => handler'[x] = handler[x]  BY <2>1 DEF Turns
  <2> QED  BY <1>2, <2>2, <2>3
<1>4. ASSUME NEW h \in Handlers, HandlerStage(h)
      PROVE  IsAlarm(g)' \/ Rearm(g) \/ AuthorityFails(g)
  <2>1. /\ Running(h)
        /\ \/ Turns(h, handler[h].todo, handler[h])
           \/ AuthorityFails(h) /\ Turns(h, <<>>, Idle)
           \/ \E p \in Pushes : \E hd : Followed(h, p, hd)
    BY <1>4, StageTurn DEF HandlerStage, Busy, D1Insert, At
  <2>2. CASE h # g
    <3>1. \A x \in Handlers : x # h => handler'[x] = handler[x]
      BY <2>1 DEF Turns, Followed
    <3> QED  BY <1>2, <2>2, <3>1
  <2>3. CASE h = g
    <3>1. CASE Turns(h, handler[h].todo, handler[h])
      BY <1>1, <2>3, <3>1 DEF Turns
    <3>2. ASSUME NEW p \in Pushes, NEW hd, Followed(g, p, hd)
          PROVE  IsAlarm(g)' \/ Rearm(g)
      <4> DEFINE n == p \o Tail(handler[g].todo)
      <4>1. handler'[g].todo = n /\ (Head1(g) # "rearm" \/ Rearm(g))
        BY <3>2 DEF Followed, Turns, Rest
      <4>2. Has(n, "rearm") \/ Head(handler[g].todo) = "rearm"
        <5>1. handler[g].todo # <<>>  BY <2>1, <2>3 DEF Running
        <5> QED  BY <1>0, <5>1, PushedStages DEF StageInv
      <4> HIDE DEF n
      <4> QED  BY <4>1, <4>2 DEF IsAlarm, Has, Head1
    <3> QED  BY <2>1, <2>3, <3>1, <3>2
  <2> QED  BY <2>2, <2>3
<1> QED  BY <1>1, <1>3, <1>4, HandlerCases

\* AlarmArmed holds through every step.
LEMMA AlarmStep ==
    ASSUME IndexInv, RecordInv, StageInv, QueueInv, AlarmArmed, [Next]_vars
    PROVE  AlarmArmed'
<1>0. /\ TypeOK /\ TypeOK' /\ FlushInv /\ now \in Nat /\ now' \in Nat /\ now <= now'
      /\ AuditRetry \in Nat /\ alarm \in Nat \cup {NoAlarm}
  <2>1. TypeOK /\ TypeOK' /\ FlushInv  BY TypeStep DEF IndexInv, FlushInv
  <2>2. now \in Nat /\ (now' = now \/ now' = now + 1)
    BY <2>1, ClockStep DEF TypeOK
  <2> QED  BY <2>1, <2>2, ConstantTypes DEF TypeOK, Times
<1>1. AlarmArmed <=> Armed \/ \E g \in Handlers : IsAlarm(g)
  BY DEF AlarmArmed, Armed
<1>2. Armed' \/ (\E g \in Handlers : IsAlarm(g)') => AlarmArmed'
  BY DEF AlarmArmed, Armed
<1>3. ASSUME Armed, AlarmKept  PROVE AlarmArmed'
  BY <1>0, <1>2, <1>3, KeptArmed
<1>4. ASSUME AlarmSoon  PROVE AlarmArmed'  BY <1>2, <1>4, SoonArmed
<1>5. ASSUME UNCHANGED <<alarm, outbox, due, task>>  PROVE AlarmKept
  BY <1>0, <1>5 DEF AlarmKept, SetBy
<1>6. ASSUME alarm' = Earlier(alarm, now), now' = now  PROVE AlarmSoon
  <2>1. /\ Earlier(alarm, now) \in Nat /\ Earlier(alarm, now) # NoAlarm
        /\ Earlier(alarm, now) <= now
    BY <1>0, EarlierSet
  <2> QED  BY <1>0, <1>6, <2>1 DEF AlarmSoon, SetBy
<1>7. SUFFICES ASSUME \A g \in Handlers : ~IsAlarm(g)'
               PROVE  AlarmArmed'
  BY <1>2
<1>8. \A g \in Handlers : IsAlarm(g) => Rearm(g) \/ AuthorityFails(g) \/ Crash
  BY <1>0, <1>7, RearmStays
<1>9. CASE UNCHANGED handler /\ (Tick \/ UNCHANGED durables)
  <2>1. Armed  BY <1>1, <1>7, <1>9 DEF IsAlarm
  <2>2. UNCHANGED <<alarm, outbox, due, task>>
    BY <1>9 DEF Tick, durables, records
  <2> QED  BY <1>3, <1>5, <2>1, <2>2
<1>10. CASE Crash
  <2>1. CASE \E g \in Handlers : IsAlarm(g)
    <3>1. alarm' = Earlier(alarm, now) /\ now' = now  BY <1>10, <2>1 DEF Crash
    <3> QED  BY <1>4, <1>6, <3>1
  <2>2. CASE ~ \E g \in Handlers : IsAlarm(g)
    <3>1. UNCHANGED <<alarm, outbox, due, task>>
      BY <1>10, <2>2 DEF Crash, records
    <3> QED  BY <1>1, <1>3, <1>5, <2>2, <3>1
  <2> QED  BY <2>1, <2>2
<1>11. ASSUME NEW h \in Handlers, Receive(h)  PROVE AlarmArmed'
  <2>1. AlarmSoon \/ AlarmKept  BY <1>0, <1>11, EventAlarm DEF IndexInv
  <2>2. \A g \in Handlers : ~IsAlarm(g)
    <3>1. /\ GateOpen /\ ~Running(h)
          /\ \E t \in EventTodos : \E n \in Starting(t) : \E hd : Turns(h, n, hd)
      BY <1>0, <1>11, EventTurn
    <3>2. \A g \in Handlers : g # h => handler'[g] = handler[g]  BY <3>1 DEF Turns
    <3>3. ~IsAlarm(h)
      <4>1. handler[h].todo = <<>>  BY <3>1 DEF Running
      <4> QED  BY <4>1 DEF IsAlarm
    <3> QED  BY <1>7, <3>2, <3>3 DEF IsAlarm
  <2> QED  BY <1>1, <1>3, <1>4, <2>1, <2>2
<1>12. ASSUME NEW h \in Handlers, AlarmFires(h)  PROVE AlarmArmed'
  <2>1. \E t \in EventTodos : \E n \in Starting(t) : \E hd :
          Turns(h, n, hd) /\ (Receive(h) \/ Has(n, "rearm"))
    BY <1>0, <1>12, EventTurn
  <2>2. Receive(h) \/ IsAlarm(h)'  BY <2>1 DEF Turns, IsAlarm, Has
  <2> QED  BY <1>2, <1>11, <2>2
<1>13. ASSUME NEW h \in Handlers, HandlerStage(h), ~Crash  PROVE AlarmArmed'
  <2>1. CASE ScheduleNextAlarm(outbox') /\ UNCHANGED <<now, due, task, active>>
    BY <1>0, <1>2, <2>1, ScheduledArmed DEF QueueInv
  <2>2. CASE AuthorityFails(h)
    <3>1. CASE IsAlarm(h)
      <4>1. alarm' = Earlier(alarm, now) /\ now' = now
        BY <2>2, <3>1 DEF AuthorityFails, RetryAlarm
      <4> QED  BY <1>4, <1>6, <4>1
    <3>2. CASE ~IsAlarm(h)
      <4>1. UNCHANGED <<alarm, outbox, due, task>>
        BY <2>2, <3>2 DEF AuthorityFails, RetryAlarm, records
      <4>2. \A g \in Handlers : ~IsAlarm(g)
        <5>1. \A g \in Handlers : g # h => handler'[g] = handler[g]
          BY <2>2 DEF AuthorityFails, Do, SetHandler, TypeOK
        <5> QED  BY <1>7, <3>2, <5>1 DEF IsAlarm
      <4> QED  BY <1>1, <1>3, <1>5, <4>1, <4>2
    <3> QED  BY <3>1, <3>2
  <2>3. CASE Rearm(h)
    BY <1>0, <1>2, <2>3, ScheduledArmed
    DEF QueueInv, Rearm, ScheduleNextAlarm, AlarmTimes, records
  <2>4. CASE ~AuthorityFails(h) /\ ~Rearm(h)
    <3>1. \A g \in Handlers : ~IsAlarm(g)
      <4>1. ~IsAlarm(h)  BY <1>8, <1>13, <2>4
      <4>2. \A g \in Handlers : g # h => handler'[g] = handler[g]
        <5>1. \/ \E n, hd : Turns(h, n, hd)
              \/ \E p \in Pushes : \E hd : Followed(h, p, hd)
          BY <1>0, <1>13, StageTurn DEF HandlerStage
        <5> QED  BY <5>1 DEF Turns, Followed
      <4> QED  BY <1>7, <4>1, <4>2 DEF IsAlarm
    <3>2. Head1(h) \notin {"recover", "expire"}
      <4>1. handler[h].todo \in Seq(Stages) /\ handler[h].todo # <<>>
        <5>1. Running(h)
          BY <1>0, <1>13, StageTurn DEF HandlerStage, Busy, D1Insert, At
        <5> QED  BY <1>0, <5>1, HandlerFields DEF Running
      <4>2. 1 \in 1..Len(handler[h].todo) /\ handler[h].todo[1] = Head1(h)
            /\ Len(handler[h].todo) \in Nat
        BY <4>1, HeadTailProperties, EmptySeq DEF Head1
      <4>3. ASSUME Head1(h) \in {"recover", "expire"}  PROVE FALSE
        <5>1. \E j \in 2..Len(handler[h].todo) : handler[h].todo[j] = "rearm"
          BY <4>2, <4>3 DEF StageInv, Ordered
        <5>2. IsAlarm(h)  BY <4>2, <5>1 DEF IsAlarm
        <5> QED  BY <3>1, <5>2
      <4> QED  BY <4>3
    <3> QED  BY <1>0, <1>1, <1>3, <1>4, <1>13, <2>1, <2>4, <3>1, <3>2, StageAlarm
  <2> QED  BY <2>2, <2>3, <2>4
<1> QED  BY <1>0, <1>9, <1>10, <1>11, <1>12, <1>13, HandlerCases DEF HandlerEvent

\* AlarmArmed: whatever the object has to wake for, its alarm is set for it,
\* through failed batches, failed authority checks and crashes.
THEOREM AlarmIsArmed == Spec => []AlarmArmed
<1>1. Init => AlarmArmed
  <2> SUFFICES ASSUME Init PROVE AlarmArmed  OBVIOUS
  <2>1. \A c \in Calls : task[c].delivery_state = "absent"  BY DEF Init, NoTask
  <2> QED  BY <2>1 DEF Init, AlarmArmed
<1>2. IndexInv /\ RecordInv /\ StageInv /\ QueueInv /\ AlarmArmed /\ [Next]_vars
        => AlarmArmed'
  BY AlarmStep
<1> QED  BY <1>1, <1>2, QueueInvariant, PTL DEF Spec
=============================================================================
