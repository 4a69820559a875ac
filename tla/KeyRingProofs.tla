---------------------------- MODULE KeyRingProofs ----------------------------
(***************************************************************************)
(* What is proved of the key ring for any number of processes, peers and   *)
(* epochs and any durations KeyRingAssumption allows: one key for each     *)
(* epoch, an unbroken chain at the relay, no refusal but of a superseded   *)
(* record, and keys kept as long as mail sealed to them.  All four rest on *)
(* one invariant: what a process read from a file that is written once is  *)
(* still true when the process acts on it.                                 *)
(***************************************************************************)
EXTENDS KeyRingProperties, FiniteSetTheorems, WellFoundedInduction, TLAPS

\* Types.
PCs == {"idle", "root", "list", "read", "marker", "evict", "unlink", "identity",
        "look", "choose", "put", "remember"} \cup Entering \cup Writing \cup Reading
StoredKeys == [epoch : 0..MaxEpoch, pub : Keys \cup {NoKey},
               prev : Records \cup {NoRecord}, published : Records \cup {NoRecord}]
File == [status : {"absent", "partial", "active", "retired", "whole"},
         pub : Keys \cup {NoKey}, record : Records \cup {NoRecord}, until : Nat]
Process == [pc : PCs, ret : {"idle", "evict", "look", "choose", "remember"},
            then : {"idle", "marker", "root"}, root : BOOLEAN,
            names : SUBSET Epochs, keys : StoredKeys, base : StoredKeys,
            stale : SUBSET StoredKeys, old : 0..MaxEpoch,
            record : Records \cup {NoRecord}]
Mail == [phase : {"none", "fetched", "sent", "gone"}, epoch : 0..MaxEpoch,
         at : Nat, current : BOOLEAN]
TypeOK ==
    /\ now \in Nat /\ initial \in BOOLEAN /\ identity \in BOOLEAN
    /\ file \in [Slots -> File] /\ lock \subseteq Slots /\ evicted \subseteq Epochs
    /\ relay \in [Epochs -> Records \cup {NoRecord}]
    /\ mail \in [Senders -> Mail] /\ proc \in [Procs -> Process]
    /\ jobs \subseteq [epoch : 0..MaxEpoch, until : Nat]
    /\ ops \in Nat /\ crashes \in Nat

\* The key of an epoch, once there is one, and an epoch that is not the last.
EpochKey(e)   == IF e = 1 THEN FirstKey ELSE StateFile(e).pub
Superseded(e) == \E f \in Epochs : f > e /\ StateFile(f).pub # NoKey

\* Files.  A slot that is absent or being written says nothing.  An elected
\* state is linked to the relay's record of the epoch before; the other files
\* of an epoch, and the relay's record, name its key; the marker is the
\* relay's record and the relay's record the one elected for publication.
Blank(f) == /\ f.status \in {"absent", "partial"}
            /\ f = [Absent EXCEPT !.status = f.status]
Named(f, e) == f.status = "whole" /\ f.pub = EpochKey(e) /\ f.pub # NoKey
StatesLinked ==
    \A e \in Epochs : \/ Blank(StateFile(e))
                      \/ /\ StateFile(e).status \in {"active", "retired"}
                         /\ e > 1 /\ StateFile(e).pub # NoKey
                         /\ StateFile(e).record # NoRecord
                         /\ relay[e - 1] = StateFile(e).record
RetainedNamed ==
    \A e \in Epochs : /\ Blank(RetainedFile(e)) \/ Named(RetainedFile(e), e)
                      /\ RetainedFile(e) # Absent => Superseded(e)
PendingNamed ==
    \A e \in Epochs : LET f == PendingFile(e) IN
      \/ Blank(f)
      \/ /\ Named(f, e)
         /\ f.record # NoRecord /\ f.record.epoch = e /\ f.record.pub = f.pub
MarkersNamed ==
    \A e \in Epochs : LET f == PublishedFile(e) IN
      \/ Blank(f)
      \/ Named(f, e) /\ f.record # NoRecord /\ relay[e] = f.record
RelayElected ==
    \A e \in Epochs : Published(e) => PendingFile(e).record = relay[e]
FilesAgree ==
    StatesLinked /\ RetainedNamed /\ PendingNamed /\ MarkersNamed /\ RelayElected

\* A private key that was given up is retained or was evicted.
KeysHeld ==
    \A e \in Epochs : (e = 1 /\ ~initial) \/ StateFile(e).status = "retired" =>
      RetainedFile(e).status = "whole" \/ e \in evicted

\* What processes remember.
Known(k)  == k.epoch \in Epochs /\ k.pub = EpochKey(k.epoch) /\ k.pub # NoKey
Marked(k) == k.published # NoRecord => relay[k.epoch] = k.published
Signed(r) == r.pub = EpochKey(r.epoch)
Memory(r) ==
    /\ r.keys = NoKeys \/ (Known(r.keys) /\ Marked(r.keys))
    /\ r.base = NoKeys \/ (Known(r.base) /\ Marked(r.base))
    /\ \A k \in r.stale : Known(k) /\ Superseded(k.epoch)
    /\ r.record # NoRecord => Signed(r.record)

\* What a process relies on at each of its waits.
Electing   == {"elect", "electing", "elected"}
Retaining  == {"retain", "retaining", "tombstone"}
Choosing   == {"hold", "holding", "chosen"}
Publishing == {"put", "mark", "marking", "marked"}
Loaded     == {"marker", "evict", "look", "choose", "remember"}
                \cup Choosing \cup Publishing
Stage(r) ==
    /\ r.ret = "choose" \/ r.pc \in {"choose", "hold", "holding"} => r.record # NoRecord
    /\ r.pc \in Loaded => r.keys # NoKeys
    /\ r.pc \in Retaining => /\ r.stale # {}
                             /\ r.then = "root" \/ (r.then = "marker" /\ r.keys # NoKeys)
    /\ r.pc \in Electing => r.base.published # NoRecord /\ r.base.epoch < MaxEpoch
    /\ r.pc = "unlink" => r.old \in Epochs
    /\ r.pc \in {"hold", "holding"} \cup Publishing => r.record.epoch = r.keys.epoch
    /\ r.pc \in Publishing => /\ r.record # NoRecord
                              /\ PendingFile(r.keys.epoch).record = r.record
    /\ r.pc \in {"mark", "marking", "marked"} => relay[r.keys.epoch] = r.record
Remembered == \A p \in Procs : Memory(proc[p]) /\ Stage(proc[p])

\* A slot being written is its writer's alone.
Writes(p) == proc[p].pc \in Writing
Owned ==
    \A p \in Procs : Writes(p) =>
      /\ Slot(p) \in lock
      /\ \/ file[Slot(p)].status = "partial"
         \/ Unlinked(p) /\ proc[p].pc = "retaining"
      /\ \A q \in Procs \ {p} : Writes(q) => Slot(q) # Slot(p)

\* A frame that is being sealed, or is in the mailbox, is in its time, and a
\* retained copy of its key outlasts it.
Lasts(e, t) == RetainedFile(e).status = "whole" => t <= RetainedFile(e).until
InTime(m) ==
    /\ m.phase \in {"fetched", "sent"} => m.epoch \in Epochs /\ Published(m.epoch)
    /\ m.phase = "fetched" /\ m.current =>
         /\ m.at <= now /\ now <= m.at + SendDelay
         /\ Lasts(m.epoch, m.at + SendDelay + MailboxTtl)
    /\ m.phase = "sent" /\ m.current =>
         /\ m.at <= now /\ now < m.at + MailboxTtl
         /\ Lasts(m.epoch, m.at + MailboxTtl)
MailInTime == \A s \in Senders : InTime(mail[s])

RingInv == /\ TypeOK /\ FilesAgree /\ KeysHeld /\ Remembered /\ Owned /\ MailInTime

-----------------------------------------------------------------------------
(* Constants, choices and slots.                                           *)

\* What is assumed of the constants, as the proofs use it.
LEMMA Constants ==
    /\ FirstKey \notin Procs /\ NoKey \notin Keys /\ NoRecord \notin Records
    /\ MailboxTtl \in Nat \ {0} /\ Allowance \in Nat /\ SendDelay \in Nat
    /\ SendDelay <= Allowance /\ MaxEpoch \in Nat \ {0} /\ MaxTime \in Nat
    /\ 1 \in Epochs /\ Epochs \subseteq Nat \ {0}
BY KeyRingAssumption DEF Keys, Records, Epochs

\* A set of natural numbers has a least member.
LEMMA Least ==
    ASSUME NEW S, S \subseteq Nat, S # {}
    PROVE  \E n \in S : \A m \in S : n <= m
<1> DEFINE R == OpToRel(<, Nat)
<1>1. PICK n \in S : \A m \in S : ~(<<m, n>> \in R)
  <2>1. IsWellFoundedOn(R, Nat)  BY NatLessThanWellFounded
  <2> HIDE DEF R
  <2> QED  BY <2>1, WFMin
<1>2. \A i, j \in Nat : i < j => <<i, j>> \in R  BY DEF OpToRel
<1>3. \A m \in S : ~(m < n)  BY <1>1, <1>2
<1> QED  BY <1>3

\* A set of epochs has a greatest member and a lowest one.
LEMMA GreatestIn ==
    ASSUME NEW S \in SUBSET Epochs, S # {}
    PROVE  Greatest(S) \in S /\ \A f \in S : f <= Greatest(S)
<1> DEFINE D == {MaxEpoch - e : e \in S}
<1>0. MaxEpoch \in Nat /\ \A e \in S : e \in 1..MaxEpoch  BY Constants DEF Epochs
<1>1. D \subseteq Nat /\ D # {}  BY <1>0
<1>2. PICK n \in D : \A m \in D : n <= m
  <2> HIDE DEF D
  <2> QED  BY <1>1, Least
<1>3. PICK e \in S : n = MaxEpoch - e  BY <1>2
<1>4. \A f \in S : f <= e
  <2>1. TAKE f \in S
  <2>2. MaxEpoch - e <= MaxEpoch - f  BY <1>2, <1>3
  <2> QED  BY <1>0, <2>2
<1> QED  BY <1>4 DEF Greatest

\* The lowest of some epochs is one of them.
LEMMA LowestIn ==
    ASSUME NEW S \in SUBSET Epochs, S # {}
    PROVE  Lowest(S) \in S
<1>1. S \subseteq Nat  BY Constants
<1>2. \E e \in S : \A f \in S : e <= f  BY <1>1, Least
<1> QED  BY <1>2 DEF Lowest

\* The epoch retired next is one of those to retire.
Next1(S) == CHOOSE k \in S : \/ k.epoch = 1
                             \/ ~(\E j \in S : j.epoch = 1) /\ \A j \in S : j.epoch <= k.epoch

\* The choice loadKeys makes among stale keys is one of them.
LEMMA Next1In ==
    ASSUME NEW S, S # {}, \A k \in S : k.epoch \in Epochs
    PROVE  Next1(S) \in S
<1> DEFINE E == {k.epoch : k \in S}
<1>1. E \in SUBSET Epochs /\ E # {}  OBVIOUS
<1>2. Greatest(E) \in E /\ \A f \in E : f <= Greatest(E)
  <2> HIDE DEF E
  <2> QED  BY <1>1, GreatestIn
<1>3. PICK k \in S : k.epoch = Greatest(E)  BY <1>2
<1>4. \A j \in S : j.epoch <= k.epoch
  <2>1. \A j \in S : j.epoch \in E  OBVIOUS
  <2> HIDE DEF E
  <2> QED  BY <1>2, <1>3, <2>1
<1>5. \E h \in S : \/ h.epoch = 1
                   \/ ~(\E j \in S : j.epoch = 1) /\ \A j \in S : j.epoch <= h.epoch
  BY <1>4
<1> QED  BY <1>5 DEF Next1

\* A process retires the next of its stale keys.
LEMMA RetiringNext == \A p : Retiring(p) = Next1(proc[p].stale)
BY DEF Retiring, Next1

\* The same in the state after a step.
LEMMA NewRetiring == \A p : Retiring(p)' = Next1(proc'[p].stale)
BY DEF Retiring, Next1

\* The slot of each election.
SlotOf(r) == IF r.pc \in Electing THEN <<"state", r.base.epoch + 1>>
             ELSE IF r.pc \in Retaining THEN <<"retained", Next1(r.stale).epoch>>
             ELSE IF r.pc \in Choosing THEN <<"pending", r.keys.epoch>>
             ELSE <<"published", r.keys.epoch>>
Marking == {"mark", "marking", "marked"}

\* Each wait of an election belongs to one kind of slot.
LEMMA ElectionKinds ==
    /\ \A pc \in Electing : Election(pc) = "state"
    /\ \A pc \in Retaining : Election(pc) = "retained"
    /\ \A pc \in Choosing : Election(pc) = "pending"
    /\ \A pc \in Marking : Election(pc) = "published"
BY DEF Election, Electing, Retaining, Choosing, Marking

\* The slot of a process depends on what it remembers and nothing else.
LEMMA SlotIs ==
    ASSUME NEW p, proc[p].pc \in Electing \cup Retaining \cup Choosing \cup Marking
    PROVE  Slot(p) = SlotOf(proc[p])
<1>1. CASE proc[p].pc \in Electing
  BY <1>1, ElectionKinds DEF Slot, SlotOf
<1>2. CASE proc[p].pc \in Retaining
  BY <1>2, ElectionKinds, RetiringNext DEF Slot, SlotOf, Electing, Retaining
<1>3. CASE proc[p].pc \in Choosing
  BY <1>3, ElectionKinds DEF Slot, SlotOf, Electing, Retaining, Choosing
<1>4. CASE proc[p].pc \in Marking
  BY <1>4, ElectionKinds DEF Slot, SlotOf, Electing, Retaining, Choosing, Marking
<1> QED  BY <1>1, <1>2, <1>3, <1>4

\* The same in the state after a step.
LEMMA NewSlotIs ==
    ASSUME NEW p, proc'[p].pc \in Electing \cup Retaining \cup Choosing \cup Marking
    PROVE  Slot(p)' = SlotOf(proc'[p])
<1>1. CASE proc'[p].pc \in Electing
  BY <1>1, ElectionKinds DEF Slot, SlotOf
<1>2. CASE proc'[p].pc \in Retaining
  BY <1>2, ElectionKinds, NewRetiring DEF Slot, SlotOf, Electing, Retaining
<1>3. CASE proc'[p].pc \in Choosing
  BY <1>3, ElectionKinds DEF Slot, SlotOf, Electing, Retaining, Choosing
<1>4. CASE proc'[p].pc \in Marking
  BY <1>4, ElectionKinds DEF Slot, SlotOf, Electing, Retaining, Choosing, Marking
<1> QED  BY <1>1, <1>2, <1>3, <1>4

\* The slots of a process that waits are the same.
LEMMA SlotStays ==
    ASSUME NEW p, proc'[p] = proc[p], Writes(p)
    PROVE  /\ Slot(p)' = Slot(p) /\ Writes(p)'
           /\ Slot(p) = SlotOf(proc[p])
<1>1. proc[p].pc \in Electing \cup Retaining \cup Choosing \cup Marking
  BY DEF Writes, Writing, Electing, Retaining, Choosing, Marking
<1> QED  BY <1>1, SlotIs, NewSlotIs DEF Writes

-----------------------------------------------------------------------------
(* What is written once stays true.                                        *)

\* An elected state keeps its key, a pending file and the relay's records
\* their contents.
Grows ==
    /\ \A e \in Epochs : StateFile(e).pub # NoKey =>
                           StateFile(e).pub' = StateFile(e).pub
    /\ \A e \in Epochs : PendingFile(e).pub # NoKey =>
                           PendingFile(e)' = PendingFile(e)
    /\ \A e \in Epochs : Published(e) => relay'[e] = relay[e]

\* An epoch keeps its key, once it has one, and stays superseded.
LEMMA KeysStay ==
    ASSUME Grows
    PROVE  /\ \A e \in Epochs : EpochKey(e) # NoKey => EpochKey(e)' = EpochKey(e)
           /\ \A e : Superseded(e) => Superseded(e)'
           /\ \A k : Known(k) => Known(k)'
BY DEF Grows, EpochKey, Superseded, Known

\* What a process remembers and relies on stays true while it waits.
LEMMA MemoryStays ==
    ASSUME Grows, NEW r \in Process, Memory(r)
    PROVE  Memory(r)'
<1>1. ASSUME NEW k, Known(k), Marked(k)  PROVE Known(k)' /\ Marked(k)'
  BY <1>1, KeysStay DEF Known, Marked, Grows, Published
<1>2. ASSUME NEW k, Known(k) /\ Superseded(k.epoch)
      PROVE  Known(k)' /\ Superseded(k.epoch)'
  BY <1>2, KeysStay
<1>3. r.record # NoRecord /\ Signed(r.record) => Signed(r.record)'
  <2>1. SUFFICES ASSUME r.record # NoRecord, Signed(r.record)
                 PROVE  Signed(r.record)'
    OBVIOUS
  <2>2. r.record.epoch \in Epochs /\ r.record.pub # NoKey
    BY <2>1, Constants DEF Process, Records, Keys
  <2> QED  BY <2>1, <2>2, KeysStay DEF Signed
<1>4. r.keys = NoKeys \/ (Known(r.keys) /\ Marked(r.keys))'
  BY <1>1 DEF Memory
<1>5. r.base = NoKeys \/ (Known(r.base) /\ Marked(r.base))'
  BY <1>1 DEF Memory
<1>6. \A k \in r.stale : Known(k)' /\ Superseded(k.epoch)'
  BY <1>2 DEF Memory
<1> QED  BY <1>3, <1>4, <1>5, <1>6 DEF Memory

\* What a process relies on at its wait stays true.
LEMMA StageStays ==
    ASSUME FilesAgree, Grows, NEW r \in Process, Memory(r), Stage(r)
    PROVE  Stage(r)'
<1>1. r.pc \in Publishing => /\ r.record # NoRecord
                             /\ PendingFile(r.keys.epoch)'.record = r.record
  <2>1. SUFFICES ASSUME r.pc \in Publishing
                 PROVE  PendingFile(r.keys.epoch)'.record = r.record
    BY DEF Stage
  <2>2. /\ r.record # NoRecord /\ PendingFile(r.keys.epoch).record = r.record
        /\ r.keys # NoKeys
    BY <2>1 DEF Stage, Loaded
  <2>3. r.keys.epoch \in Epochs  BY <2>2 DEF Memory, Known
  <2>4. ~Blank(PendingFile(r.keys.epoch))  BY <2>2 DEF Blank, Absent
  <2>5. PendingFile(r.keys.epoch).pub # NoKey
    BY <2>3, <2>4 DEF FilesAgree, PendingNamed, Named
  <2> QED  BY <2>2, <2>3, <2>5 DEF Grows
<1>2. r.pc \in {"mark", "marking", "marked"} => relay'[r.keys.epoch] = r.record
  <2>1. SUFFICES ASSUME r.pc \in {"mark", "marking", "marked"}
                 PROVE  relay'[r.keys.epoch] = r.record
    OBVIOUS
  <2>2. /\ r.record # NoRecord /\ relay[r.keys.epoch] = r.record
        /\ r.keys # NoKeys
    BY <2>1 DEF Stage, Loaded, Publishing
  <2>3. r.keys.epoch \in Epochs  BY <2>2 DEF Memory, Known
  <2> QED  BY <2>2, <2>3 DEF Grows, Published
<1> QED  BY <1>1, <1>2 DEF Stage

\* A step of one process that keeps what is written once keeps the others'.
Others(p) == \A q \in Procs \ {p} : proc'[q] = proc[q]

\* Remembered survives such a step, if it holds of the process that moved.
LEMMA OthersRemember ==
    ASSUME TypeOK, FilesAgree, Remembered, Grows, NEW p, Others(p),
           p \in Procs => (Memory(proc[p]) /\ Stage(proc[p]))'
    PROVE  Remembered'
<1>1. ASSUME NEW q \in Procs, q # p  PROVE (Memory(proc[q]) /\ Stage(proc[q]))'
  <2>1. proc[q] \in Process /\ Memory(proc[q]) /\ Stage(proc[q])
    BY DEF TypeOK, Remembered
  <2>2. \A r \in Process : Memory(r) /\ Stage(r) => Memory(r)' /\ Stage(r)'
    BY MemoryStays, StageStays
  <2>3. proc'[q] = proc[q]  BY <1>1 DEF Others
  <2> QED  BY <2>1, <2>2, <2>3
<1> QED  BY <1>1 DEF Remembered

-----------------------------------------------------------------------------
(* The ways a step changes a file.                                         *)

\* What may be put into the slot of a kind and an epoch, if it said nothing.
Fits(k, e, f) ==
    \/ Blank(f) /\ (k = "retained" => f = Absent \/ Superseded(e))
    \/ /\ k = "state" /\ f.status = "active" /\ e > 1
       /\ f.pub # NoKey /\ f.record # NoRecord /\ relay[e - 1] = f.record
    \/ k = "retained" /\ Named(f, e) /\ Superseded(e)
    \/ /\ k = "pending" /\ Named(f, e)
       /\ f.record # NoRecord /\ f.record.epoch = e /\ f.record.pub = f.pub
    \/ k = "published" /\ Named(f, e) /\ f.record # NoRecord /\ relay[e] = f.record

\* Blank files are told apart by nothing but their status.
LEMMA BlankFiles ==
    \A f : Blank(f) => f.pub = NoKey /\ f.record = NoRecord /\ f.until = 0
BY DEF Blank, Absent

\* A slot that says nothing is given a fitting file.
LEMMA SlotGrows ==
    ASSUME TypeOK, FilesAgree, NEW k \in Kinds, NEW e \in Epochs, NEW f \in File,
           Blank(file[<<k, e>>]), Fits(k, e, f),
           file' = [file EXCEPT ![<<k, e>>] = f], relay' = relay
    PROVE  /\ Grows
           /\ \A g \in Epochs : /\ k # "state" \/ g # e => StateFile(g)' = StateFile(g)
                                /\ k # "retained" \/ g # e =>
                                     RetainedFile(g)' = RetainedFile(g)
                                /\ k # "pending" \/ g # e =>
                                     PendingFile(g)' = PendingFile(g)
                                /\ k # "published" \/ g # e =>
                                     PublishedFile(g)' = PublishedFile(g)
           /\ file'[<<k, e>>] = f
<1>1. file'[<<k, e>>] = f  BY DEF TypeOK, Slots
<1>2. \A s \in Slots : s # <<k, e>> => file'[s] = file[s]  BY DEF TypeOK
<1>3. \A g \in Epochs : \A j \in Kinds :
        <<j, g>> \in Slots /\ (<<j, g>> # <<k, e>> => file'[<<j, g>>] = file[<<j, g>>])
  BY <1>2 DEF Slots
<1>4. \A g \in Epochs : \A j \in Kinds :
        (j # k \/ g # e) => file'[<<j, g>>] = file[<<j, g>>]
  BY <1>3
<1>5. \A g \in Epochs : /\ k # "state" \/ g # e => StateFile(g)' = StateFile(g)
                        /\ k # "retained" \/ g # e => RetainedFile(g)' = RetainedFile(g)
                        /\ k # "pending" \/ g # e => PendingFile(g)' = PendingFile(g)
                        /\ k # "published" \/ g # e =>
                             PublishedFile(g)' = PublishedFile(g)
  BY <1>4 DEF Kinds, StateFile, RetainedFile, PendingFile, PublishedFile
<1>6. file[<<k, e>>].pub = NoKey  BY BlankFiles
<1>7. \A g \in Epochs : StateFile(g).pub # NoKey => StateFile(g).pub' = StateFile(g).pub
  BY <1>5, <1>6 DEF StateFile
<1>8. \A g \in Epochs : PendingFile(g).pub # NoKey => PendingFile(g)' = PendingFile(g)
  BY <1>5, <1>6 DEF PendingFile
<1>9. Grows  BY <1>7, <1>8 DEF Grows
<1> QED  BY <1>1, <1>5, <1>9

\* The files agree after a slot was given a fitting file.
LEMMA SlotAgrees ==
    ASSUME TypeOK, FilesAgree, NEW k \in Kinds, NEW e \in Epochs, NEW f \in File,
           Blank(file[<<k, e>>]), Fits(k, e, f),
           file' = [file EXCEPT ![<<k, e>>] = f], relay' = relay
    PROVE  FilesAgree'
<1>1. /\ Grows /\ file'[<<k, e>>] = f
      /\ \A g \in Epochs : /\ k # "state" \/ g # e => StateFile(g)' = StateFile(g)
                           /\ k # "retained" \/ g # e => RetainedFile(g)' = RetainedFile(g)
                           /\ k # "pending" \/ g # e => PendingFile(g)' = PendingFile(g)
                           /\ k # "published" \/ g # e =>
                                PublishedFile(g)' = PublishedFile(g)
  BY SlotGrows
<1>2. /\ \A g \in Epochs : EpochKey(g) # NoKey => EpochKey(g)' = EpochKey(g)
      /\ \A g : Superseded(g) => Superseded(g)'
  BY <1>1, KeysStay
<1>3. ASSUME NEW x, NEW g \in Epochs, Named(x, g)  PROVE Named(x, g)'
  BY <1>2, <1>3 DEF Named
<1>4. ASSUME NEW x, Blank(x)  PROVE Blank(x)'
  BY <1>4 DEF Blank, Absent
<1>5. StatesLinked'
  <2>1. CASE k = "state"
    <3>1. StateFile(e)' = f  BY <1>1, <2>1 DEF StateFile
    <3>2. \/ Blank(f)
          \/ /\ f.status = "active" /\ e > 1 /\ f.pub # NoKey
             /\ f.record # NoRecord /\ relay[e - 1] = f.record
      BY <2>1 DEF Fits
    <3>3. \A g \in Epochs \ {e} : StateFile(g)' = StateFile(g)  BY <1>1
    <3> QED  BY <3>1, <3>2, <3>3, <1>4 DEF FilesAgree, StatesLinked
  <2>2. CASE k # "state"
    BY <1>1, <1>4, <2>2 DEF FilesAgree, StatesLinked
  <2> QED  BY <2>1, <2>2
<1>6. RetainedNamed'
  <2>1. ASSUME NEW g \in Epochs, k # "retained" \/ g # e
        PROVE  /\ Blank(RetainedFile(g))' \/ Named(RetainedFile(g), g)'
               /\ RetainedFile(g)' # Absent => Superseded(g)'
    <3>1. RetainedFile(g)' = RetainedFile(g)  BY <1>1, <2>1
    <3>2. /\ Blank(RetainedFile(g)) \/ Named(RetainedFile(g), g)
          /\ RetainedFile(g) # Absent => Superseded(g)
      BY DEF FilesAgree, RetainedNamed
    <3> QED  BY <3>1, <3>2, <1>2, <1>3, <1>4
  <2>2. ASSUME k = "retained"
        PROVE  /\ Blank(RetainedFile(e))' \/ Named(RetainedFile(e), e)'
               /\ RetainedFile(e)' # Absent => Superseded(e)'
    <3>1. RetainedFile(e)' = f  BY <1>1, <2>2 DEF RetainedFile
    <3>2. \/ Blank(f) /\ (f = Absent \/ Superseded(e))
          \/ Named(f, e) /\ Superseded(e)
      BY <2>2 DEF Fits
    <3> QED  BY <3>1, <3>2, <1>2, <1>3, <1>4
  <2> QED  BY <2>1, <2>2 DEF RetainedNamed, Absent
<1>7. PendingNamed'
  <2>1. ASSUME NEW g \in Epochs, k # "pending" \/ g # e
        PROVE  \/ Blank(PendingFile(g))'
               \/ /\ Named(PendingFile(g), g)'
                  /\ PendingFile(g)'.record # NoRecord
                  /\ PendingFile(g)'.record.epoch = g
                  /\ PendingFile(g)'.record.pub = PendingFile(g)'.pub
    <3>1. PendingFile(g)' = PendingFile(g)  BY <1>1, <2>1
    <3> QED  BY <3>1, <1>3, <1>4 DEF FilesAgree, PendingNamed
  <2>2. ASSUME k = "pending"
        PROVE  \/ Blank(PendingFile(e))'
               \/ /\ Named(PendingFile(e), e)'
                  /\ PendingFile(e)'.record # NoRecord
                  /\ PendingFile(e)'.record.epoch = e
                  /\ PendingFile(e)'.record.pub = PendingFile(e)'.pub
    <3>1. PendingFile(e)' = f  BY <1>1, <2>2 DEF PendingFile
    <3>2. \/ Blank(f)
          \/ /\ Named(f, e) /\ f.record # NoRecord
             /\ f.record.epoch = e /\ f.record.pub = f.pub
      BY <2>2 DEF Fits
    <3> QED  BY <3>1, <3>2, <1>3, <1>4
  <2> QED  BY <2>1, <2>2 DEF PendingNamed
<1>8. MarkersNamed'
  <2>1. ASSUME NEW g \in Epochs, k # "published" \/ g # e
        PROVE  \/ Blank(PublishedFile(g))'
               \/ /\ Named(PublishedFile(g), g)'
                  /\ PublishedFile(g)'.record # NoRecord
                  /\ relay[g] = PublishedFile(g)'.record
    <3>1. PublishedFile(g)' = PublishedFile(g)  BY <1>1, <2>1
    <3> QED  BY <3>1, <1>3, <1>4 DEF FilesAgree, MarkersNamed
  <2>2. ASSUME k = "published"
        PROVE  \/ Blank(PublishedFile(e))'
               \/ /\ Named(PublishedFile(e), e)'
                  /\ PublishedFile(e)'.record # NoRecord
                  /\ relay[e] = PublishedFile(e)'.record
    <3>1. PublishedFile(e)' = f  BY <1>1, <2>2 DEF PublishedFile
    <3>2. Blank(f) \/ (Named(f, e) /\ f.record # NoRecord /\ relay[e] = f.record)
      BY <2>2 DEF Fits
    <3> QED  BY <3>1, <3>2, <1>3, <1>4
  <2> QED  BY <2>1, <2>2 DEF MarkersNamed
<1>9. RelayElected'
  <2>1. SUFFICES ASSUME NEW g \in Epochs, Published(g)
                 PROVE  PendingFile(g)'.record = relay[g]
    BY DEF RelayElected, Published
  <2>2. PendingFile(g).record = relay[g] /\ relay[g] # NoRecord
    BY <2>1 DEF FilesAgree, RelayElected, Published
  <2>3. ~Blank(PendingFile(g))  BY <2>2, BlankFiles
  <2>4. k # "pending" \/ g # e  BY <2>3 DEF PendingFile
  <2> QED  BY <1>1, <2>2, <2>4
<1> QED  BY <1>5, <1>6, <1>7, <1>8, <1>9 DEF FilesAgree

\* Filling such a slot gives up no private key.
LEMMA SlotHeld ==
    ASSUME TypeOK, FilesAgree, KeysHeld, NEW k \in Kinds, NEW e \in Epochs,
           NEW f \in File, Blank(file[<<k, e>>]), Fits(k, e, f),
           file' = [file EXCEPT ![<<k, e>>] = f], UNCHANGED <<relay, initial, evicted>>
    PROVE  KeysHeld'
<1>1. /\ file'[<<k, e>>] = f
      /\ \A g \in Epochs : /\ k # "state" \/ g # e => StateFile(g)' = StateFile(g)
                           /\ k # "retained" \/ g # e => RetainedFile(g)' = RetainedFile(g)
  BY SlotGrows
<1>2. SUFFICES ASSUME NEW g \in Epochs,
                      (g = 1 /\ ~initial) \/ StateFile(g)'.status = "retired"
               PROVE  RetainedFile(g)'.status = "whole" \/ g \in evicted
  BY DEF KeysHeld
<1>3. (g = 1 /\ ~initial) \/ StateFile(g).status = "retired"
  <2>1. CASE k # "state" \/ g # e  BY <1>1, <1>2, <2>1
  <2>2. CASE k = "state" /\ g = e
    <3>1. StateFile(g)' = f  BY <1>1, <2>2 DEF StateFile
    <3>2. f.status # "retired"  BY <2>2 DEF Fits, Blank
    <3> QED  BY <1>2, <3>1, <3>2
  <2> QED  BY <2>1, <2>2
<1>4. RetainedFile(g).status = "whole" \/ g \in evicted  BY <1>3 DEF KeysHeld
<1>5. RetainedFile(g).status = "whole" => RetainedFile(g)' = RetainedFile(g)
  BY <1>1 DEF RetainedFile, Blank
<1> QED  BY <1>4, <1>5

\* A copy retained now outlasts every frame sealed, or being sealed, to its key.
LEMMA SlotMail ==
    ASSUME TypeOK, FilesAgree, MailInTime, NEW k \in Kinds, NEW e \in Epochs,
           NEW f \in File, Blank(file[<<k, e>>]), Fits(k, e, f),
           file' = [file EXCEPT ![<<k, e>>] = f], UNCHANGED <<relay, now, mail>>,
           k = "retained" /\ f.status = "whole" => f.until = RetainUntil(now)
    PROVE  MailInTime'
<1>1. /\ file'[<<k, e>>] = f
      /\ \A g \in Epochs : k # "retained" \/ g # e => RetainedFile(g)' = RetainedFile(g)
  BY SlotGrows
<1>2. ASSUME NEW g \in Epochs, NEW t \in Nat, Lasts(g, t),
             t <= now + MailboxTtl + Allowance
      PROVE  Lasts(g, t)'
  <2>1. CASE k # "retained" \/ g # e  BY <1>1, <1>2, <2>1 DEF Lasts
  <2>2. CASE k = "retained" /\ g = e
    <3>1. RetainedFile(g)' = f  BY <1>1, <2>2 DEF RetainedFile
    <3> QED  BY <1>2, <2>2, <3>1 DEF Lasts, RetainUntil
  <2> QED  BY <2>1, <2>2
<1>3. SUFFICES ASSUME NEW s \in Senders  PROVE InTime(mail[s])'
  BY DEF MailInTime
<1> DEFINE m == mail[s]
<1>4. m \in Mail /\ InTime(m) /\ m' = m  BY DEF MailInTime, TypeOK
<1>5. m.at \in Nat /\ now \in Nat  BY <1>4 DEF Mail, TypeOK
<1>6. m.phase = "fetched" /\ m.current => Lasts(m.epoch, m.at + SendDelay + MailboxTtl)'
  <2>1. SUFFICES ASSUME m.phase = "fetched" /\ m.current
                 PROVE  Lasts(m.epoch, m.at + SendDelay + MailboxTtl)'
    OBVIOUS
  <2>2. /\ m.epoch \in Epochs /\ m.at <= now
        /\ Lasts(m.epoch, m.at + SendDelay + MailboxTtl)
    BY <1>4, <2>1 DEF InTime
  <2> HIDE DEF m
  <2>3. /\ m.at + SendDelay + MailboxTtl \in Nat
        /\ m.at + SendDelay + MailboxTtl <= now + MailboxTtl + Allowance
    BY <1>5, <2>2, Constants
  <2> QED  BY <1>2, <1>4, <2>2, <2>3
<1>7. m.phase = "sent" /\ m.current => Lasts(m.epoch, m.at + MailboxTtl)'
  <2>1. SUFFICES ASSUME m.phase = "sent" /\ m.current
                 PROVE  Lasts(m.epoch, m.at + MailboxTtl)'
    OBVIOUS
  <2>2. m.epoch \in Epochs /\ m.at <= now /\ Lasts(m.epoch, m.at + MailboxTtl)
    BY <1>4, <2>1 DEF InTime
  <2> HIDE DEF m
  <2>3. /\ m.at + MailboxTtl \in Nat
        /\ m.at + MailboxTtl <= now + MailboxTtl + Allowance
    BY <1>5, <2>2, Constants
  <2> QED  BY <1>2, <1>4, <2>2, <2>3
<1>8. m.phase \in {"fetched", "sent"} => m.epoch \in Epochs /\ Published(m.epoch)'
  BY <1>4 DEF InTime, Published
<1> QED  BY <1>4, <1>6, <1>7, <1>8 DEF InTime

\* A step of a process that no longer writes takes no other writer's slot.
LEMMA OwnedStays ==
    ASSUME Owned, NEW p \in Procs, Others(p), ~Writes(p)',
           \A s \in lock : s \in lock' \/ (Writes(p) /\ s = Slot(p)),
           \A q \in Procs \ {p} : Writes(q) =>
             \/ file'[Slot(q)] = file[Slot(q)]
             \/ proc[q].pc = "retaining" /\ file'[Slot(q)] = Absent
    PROVE  Owned'
<1>1. ASSUME NEW q \in Procs, Writes(q)'
      PROVE  /\ q # p /\ Writes(q) /\ Slot(q)' = Slot(q) /\ proc'[q] = proc[q]
  <2>1. q # p  BY <1>1
  <2>2. proc'[q] = proc[q]  BY <2>1 DEF Others
  <2>3. Writes(q)  BY <1>1, <2>2 DEF Writes
  <2> QED  BY <2>1, <2>2, <2>3, SlotStays
<1>2. SUFFICES ASSUME NEW q \in Procs, Writes(q)'
               PROVE  /\ Slot(q)' \in lock'
                      /\ \/ file'[Slot(q)'].status = "partial"
                         \/ file'[Slot(q)'] = Absent /\ proc'[q].pc = "retaining"
                      /\ \A r \in Procs \ {q} : Writes(r)' => Slot(r)' # Slot(q)'
  BY DEF Owned, Unlinked, Absent
<1>3. q # p /\ Writes(q) /\ Slot(q)' = Slot(q) /\ proc'[q] = proc[q]
  BY <1>1, <1>2
<1>4. /\ Slot(q) \in lock
      /\ \/ file[Slot(q)].status = "partial"
         \/ file[Slot(q)] = Absent /\ proc[q].pc = "retaining"
      /\ \A r \in Procs \ {q} : Writes(r) => Slot(r) # Slot(q)
  BY <1>3 DEF Owned, Unlinked
<1>5. Slot(q)' \in lock'  BY <1>3, <1>4
<1>6. \A r \in Procs \ {q} : Writes(r)' => Slot(r)' # Slot(q)'
  BY <1>1, <1>3, <1>4
<1> QED  BY <1>3, <1>4, <1>5, <1>6

-----------------------------------------------------------------------------
(* Steps that change what one process remembers and nothing the others or  *)
(* the relay see.                                                          *)

\* The empty memory.
LEMMA IdleMemory ==
    Idle \in Process /\ Memory(Idle) /\ Stage(Idle) /\ Idle.pc = "idle"
<1>1. NoKeys \in StoredKeys  BY Constants DEF NoKeys, StoredKeys
<1>2. Idle \in Process  BY <1>1, Constants DEF Idle, Process, PCs
<1>3. Memory(Idle)  BY DEF Idle, Memory
<1>4. Stage(Idle)
  BY DEF Idle, Stage, Loaded, Retaining, Electing, Choosing, Publishing
<1> QED  BY <1>2, <1>3, <1>4 DEF Idle

\* What a quiet step leaves alone.
Quiet == UNCHANGED <<now, initial, file, lock, evicted, relay, mail>>
CountsOK == /\ identity \in BOOLEAN /\ ops \in Nat /\ crashes \in Nat
            /\ jobs \subseteq [epoch : 0..MaxEpoch, until : Nat]

\* Files that are left alone agree as before.
LEMMA StillAgrees ==
    ASSUME RingInv, UNCHANGED <<file, initial, evicted, relay>>
    PROVE  FilesAgree' /\ KeysHeld' /\ Grows
<1>1. \A e : /\ StateFile(e)' = StateFile(e) /\ RetainedFile(e)' = RetainedFile(e)
             /\ PendingFile(e)' = PendingFile(e) /\ PublishedFile(e)' = PublishedFile(e)
             /\ EpochKey(e)' = EpochKey(e) /\ Published(e)' = Published(e)
  BY DEF StateFile, RetainedFile, PendingFile, PublishedFile, EpochKey, Published
<1>2. FilesAgree'
  <2>1. StatesLinked'  BY <1>1 DEF RingInv, FilesAgree, StatesLinked, Blank, Absent
  <2>2. RetainedNamed'
    BY <1>1 DEF RingInv, FilesAgree, RetainedNamed, Blank, Absent, Named, Superseded
  <2>3. PendingNamed'
    BY <1>1 DEF RingInv, FilesAgree, PendingNamed, Blank, Absent, Named
  <2>4. MarkersNamed'
    BY <1>1 DEF RingInv, FilesAgree, MarkersNamed, Blank, Absent, Named
  <2>5. RelayElected'  BY <1>1 DEF RingInv, FilesAgree, RelayElected
  <2> QED  BY <2>1, <2>2, <2>3, <2>4, <2>5 DEF FilesAgree
<1>3. KeysHeld'  BY <1>1 DEF RingInv, KeysHeld
<1> QED  BY <1>1, <1>2, <1>3 DEF Grows

\* A quiet step keeps the invariant if the process relies on nothing untrue.
LEMMA QuietStep ==
    ASSUME RingInv, Quiet, CountsOK', NEW p \in Procs, NEW r \in Process, Set(p, r),
           Memory(r), Stage(r), r.pc \notin Writing
    PROVE  RingInv'
<1>1. FilesAgree' /\ KeysHeld' /\ Grows  BY StillAgrees DEF Quiet
<1>2. proc'[p] = r /\ Others(p)  BY DEF Set, RingInv, TypeOK, Others
<1>3. (Memory(proc[p]) /\ Stage(proc[p]))'
  <2>1. Memory(r)' /\ Stage(r)'  BY <1>1, MemoryStays, StageStays DEF RingInv
  <2> QED  BY <1>2, <2>1
<1>4. Remembered'  BY <1>1, <1>2, <1>3, OthersRemember DEF RingInv
<1>5. Owned'
  <2>1. ~Writes(p)'  BY <1>2 DEF Writes
  <2> QED  BY <1>2, <2>1, OwnedStays DEF RingInv, Quiet
<1>6. TypeOK'  BY DEF RingInv, TypeOK, Quiet, CountsOK, Set
<1>7. MailInTime'
  BY DEF RingInv, MailInTime, Quiet, InTime, Lasts, RetainedFile, Published
<1> QED  BY <1>1, <1>4, <1>5, <1>6, <1>7 DEF RingInv

\* What the invariant says of one process.
LEMMA ProcessIs ==
    ASSUME RingInv, NEW p \in Procs
    PROVE  /\ proc[p] \in Process /\ Memory(proc[p]) /\ Stage(proc[p])
           /\ TypeOK /\ FilesAgree
BY DEF RingInv, TypeOK, Remembered

\* An operation that throws, or ends.
LEMMA FinishStep ==
    ASSUME RingInv, Quiet, CountsOK', NEW p \in Procs, Finish(p)
    PROVE  RingInv'
<1>1. "idle" \notin Writing  BY DEF Writing
<1> QED  BY <1>1, IdleMemory, QuietStep DEF Finish

\* A load of the keys begins.
LEMMA LoadStep ==
    ASSUME RingInv, Quiet, CountsOK', NEW p \in Procs, NEW r \in Process,
           NEW ret \in {"idle", "evict", "look", "choose", "remember"},
           Memory(r), ret = "choose" => r.record # NoRecord, Load(p, r, ret)
    PROVE  RingInv'
<1> DEFINE n == [r EXCEPT !.pc = "root", !.ret = ret, !.keys = NoKeys]
<1>1. NoKeys \in StoredKeys  BY IdleMemory DEF Idle, Process
<1>2. n \in Process  BY <1>1 DEF Process, PCs
<1>3. /\ n.pc = "root" /\ n.ret = ret /\ n.keys = NoKeys /\ n.base = r.base
      /\ n.stale = r.stale /\ n.record = r.record
  BY DEF Process
<1>4. Set(p, n)  BY DEF Load
<1> HIDE DEF n
<1>5. Memory(n)  BY <1>3 DEF Memory
<1>6. Stage(n)
  BY <1>3 DEF Stage, Loaded, Retaining, Electing, Choosing, Publishing
<1>7. n.pc \notin Writing  BY <1>3 DEF Writing
<1> QED  BY <1>2, <1>4, <1>5, <1>6, <1>7, QuietStep

\* A process goes on to a wait that relies on no more than it remembers.
LEMMA GoStep ==
    ASSUME RingInv, Quiet, CountsOK', NEW p \in Procs, NEW pc \in PCs, Go(p, pc),
           pc \notin Writing, Stage([proc[p] EXCEPT !.pc = pc])
    PROVE  RingInv'
<1>1. proc[p] \in Process /\ Memory(proc[p])  BY ProcessIs
<1> DEFINE n == [proc[p] EXCEPT !.pc = pc]
<1>2. n \in Process  BY <1>1 DEF Process
<1>3. /\ n.pc = pc /\ n.keys = proc[p].keys /\ n.base = proc[p].base
      /\ n.stale = proc[p].stale /\ n.record = proc[p].record
  BY <1>1 DEF Process
<1>4. Set(p, n) /\ Stage(n)  BY DEF Go
<1> HIDE DEF n
<1>5. Memory(n)  BY <1>1, <1>3 DEF Memory
<1> QED  BY <1>2, <1>3, <1>4, <1>5, QuietStep

\* Operations start, and wait no longer than they must.
LEMMA StartStep ==
    ASSUME RingInv, NEW p \in Procs,
           GiveUp(p) \/ StartRotate(p) \/ StartPublish(p) \/ StartCall(p)
    PROVE  RingInv'
<1>0. proc[p] \in Process /\ Memory(proc[p]) /\ Stage(proc[p])  BY ProcessIs
<1>1. CountsOK  BY DEF RingInv, TypeOK, CountsOK
<1>2. CASE GiveUp(p)
  BY <1>1, <1>2, FinishStep DEF GiveUp, Quiet, disk, CountsOK
<1>3. CASE StartRotate(p) \/ StartCall(p)
  <2>1. Quiet /\ CountsOK'
    BY <1>1, <1>3 DEF StartRotate, StartCall, Quiet, disk, CountsOK
  <2>2. Load(p, proc[p], "evict") \/ Load(p, proc[p], "remember")
    BY <1>3 DEF StartRotate, StartCall
  <2> QED  BY <1>0, <2>1, <2>2, LoadStep
<1>4. CASE StartPublish(p)
  <2>1. Quiet /\ CountsOK' /\ Go(p, "identity") /\ At(p, "idle")
    BY <1>1, <1>4 DEF StartPublish, Quiet, disk, CountsOK
  <2> DEFINE n == [proc[p] EXCEPT !.pc = "identity"]
  <2>2. /\ n.pc = "identity" /\ n.ret = proc[p].ret /\ n.record = proc[p].record
    BY <1>0 DEF Process
  <2> HIDE DEF n
  <2>3. Stage(n)
    BY <1>0, <2>2 DEF Stage, Loaded, Retaining, Electing, Choosing, Publishing
  <2>4. "identity" \in PCs \ Writing  BY DEF PCs, Writing
  <2> QED  BY <2>1, <2>3, <2>4, GoStep DEF n
<1> QED  BY <1>2, <1>3, <1>4

\* Files have their type.
LEMMA FileType ==
    ASSUME TypeOK, NEW e \in Epochs
    PROVE  /\ StateFile(e) \in File /\ RetainedFile(e) \in File
           /\ PendingFile(e) \in File /\ PublishedFile(e) \in File
BY DEF TypeOK, Slots, Kinds, StateFile, RetainedFile, PendingFile, PublishedFile

\* The keys loadKeys finds are the installation's keys of their epochs.
LEMMA FoundKeys ==
    ASSUME RingInv
    PROVE  /\ InitialKeys \in StoredKeys /\ Known(InitialKeys) /\ Marked(InitialKeys)
           /\ InitialKeys # NoKeys /\ InitialKeys.epoch = 1
           /\ \A e \in Epochs : StateFile(e).status = "active" =>
                /\ KeysOf(e) \in StoredKeys /\ Known(KeysOf(e)) /\ Marked(KeysOf(e))
                /\ KeysOf(e) # NoKeys /\ KeysOf(e).epoch = e
                /\ e > 1 /\ StateFile(e).pub # NoKey
<1>1. InitialKeys \in StoredKeys
  BY Constants DEF InitialKeys, StoredKeys, Keys
<1>2. Known(InitialKeys) /\ Marked(InitialKeys) /\ InitialKeys # NoKeys
  BY Constants DEF InitialKeys, Known, Marked, NoKeys, EpochKey, Keys
<1>3. ASSUME NEW e \in Epochs, StateFile(e).status = "active"
      PROVE  /\ KeysOf(e) \in StoredKeys /\ Known(KeysOf(e)) /\ Marked(KeysOf(e))
             /\ KeysOf(e) # NoKeys /\ KeysOf(e).epoch = e
             /\ e > 1 /\ StateFile(e).pub # NoKey
  <2>1. ~Blank(StateFile(e))  BY <1>3 DEF Blank
  <2>2. e > 1 /\ StateFile(e).pub # NoKey
    BY <2>1 DEF RingInv, FilesAgree, StatesLinked
  <2>3. StateFile(e).pub \in Keys \cup {NoKey} /\ StateFile(e).record \in Records \cup {NoRecord}
    BY FileType DEF File, RingInv
  <2>4. /\ KeysOf(e).epoch = e /\ KeysOf(e).pub = StateFile(e).pub
        /\ KeysOf(e).prev = StateFile(e).record /\ KeysOf(e).published = NoRecord
    BY DEF KeysOf
  <2>5. e \in 0..MaxEpoch  BY Constants DEF Epochs
  <2>6. KeysOf(e) \in StoredKeys  BY <2>3, <2>5 DEF KeysOf, StoredKeys
  <2>7. Known(KeysOf(e)) /\ Marked(KeysOf(e))
    BY <2>2, <2>4 DEF Known, Marked, EpochKey
  <2>8. KeysOf(e) # NoKeys  BY <2>2, <2>4 DEF NoKeys
  <2> QED  BY <2>2, <2>4, <2>6, <2>7, <2>8
<1> QED  BY <1>1, <1>2, <1>3 DEF InitialKeys

\* A load reads the root, lists the epoch states and reads them.
LEMMA LoadRootStep ==
    ASSUME RingInv, NEW p \in Procs, LoadRoot(p) \/ ListEpochStates(p)
    PROVE  RingInv'
<1>0. proc[p] \in Process /\ Memory(proc[p]) /\ Stage(proc[p])  BY ProcessIs
<1>1. Quiet /\ CountsOK'
  BY DEF LoadRoot, ListEpochStates, Quiet, disk, RingInv, TypeOK, CountsOK
<1> DEFINE names == {e \in Epochs : StateFile(e) # Absent}
           a == [proc[p] EXCEPT !.pc = "list", !.root = initial]
           b == [proc[p] EXCEPT !.pc = "read", !.names = names]
<1>2. a \in Process /\ b \in Process
  BY <1>0 DEF Process, PCs, RingInv, TypeOK
<1>3. ASSUME NEW n \in {a, b}
      PROVE  /\ n.pc \in {"list", "read"} /\ n.ret = proc[p].ret
             /\ n.keys = proc[p].keys /\ n.base = proc[p].base
             /\ n.stale = proc[p].stale /\ n.record = proc[p].record
  BY <1>0 DEF Process
<1>4. Set(p, a) \/ Set(p, b)  BY DEF LoadRoot, ListEpochStates
<1> HIDE DEF a, b
<1>5. \A n \in {a, b} : Memory(n)  BY <1>0, <1>3 DEF Memory
<1>6. \A n \in {a, b} : Stage(n) /\ n.pc \notin Writing
  BY <1>0, <1>3
  DEF Stage, Loaded, Retaining, Electing, Choosing, Publishing, Writing
<1> QED  BY <1>1, <1>2, <1>4, <1>5, <1>6, QuietStep

\* loadKeys settles on the current key and on those to retire.
LEMMA ReadStatesStep ==
    ASSUME RingInv, NEW p \in Procs, ReadEpochStates(p)
    PROVE  RingInv'
<1>0. proc[p] \in Process /\ Memory(proc[p]) /\ Stage(proc[p])  BY ProcessIs
<1>1. Quiet /\ CountsOK'
  BY DEF ReadEpochStates, Quiet, disk, RingInv, TypeOK, CountsOK
<1> DEFINE r      == proc[p]
           active == {e \in r.names : StateFile(e).status = "active"}
           high   == IF active = {} THEN 1 ELSE Greatest(active)
           stale  == (IF r.root /\ high > 1 THEN {InitialKeys} ELSE {})
                       \cup {KeysOf(e) : e \in active \ {high}}
           keys   == IF active = {} THEN InitialKeys ELSE KeysOf(high)
           n      == [r EXCEPT !.keys = keys, !.stale = stale, !.then = "marker",
                        !.names = {}, !.root = FALSE,
                        !.pc = IF stale = {} THEN "marker" ELSE "retain"]
<1>2. Finish(p) \/ Set(p, n)  BY DEF ReadEpochStates
<1>3. CASE Finish(p)  BY <1>1, <1>3, FinishStep
<1>4. CASE Set(p, n)
  <2>1. active \in SUBSET Epochs  BY <1>0 DEF Process
  <2>2. \A e \in active : StateFile(e).status = "active"  OBVIOUS
  <2>3. active # {} => high \in active /\ \A e \in active : e <= high
    <3> HIDE DEF active
    <3> QED  BY <2>1, GreatestIn
  <2>4. active = {} => high = 1  OBVIOUS
  <2> HIDE DEF active, high
  <2>5. /\ keys \in StoredKeys /\ keys # NoKeys /\ Known(keys) /\ Marked(keys)
    BY <2>1, <2>2, <2>3, FoundKeys
  <2>6. \A e \in active : KeysOf(e) \in StoredKeys /\ Known(KeysOf(e)) /\ KeysOf(e).epoch = e
    BY <2>1, <2>2, FoundKeys
  <2>7. high > 1 => high \in active  BY <2>3, <2>4
  <2>8. high \in active => high \in Epochs /\ StateFile(high).pub # NoKey
    BY <2>1, <2>2, FoundKeys
  <2>9. ASSUME NEW e \in active \ {high}  PROVE Superseded(e)
    <3>1. high \in active /\ e <= high /\ e # high  BY <2>3, <2>9
    <3>2. high \in Epochs /\ e \in Epochs  BY <2>1, <3>1, <2>9
    <3>3. high > e  BY <3>1, <3>2, Constants
    <3> QED  BY <2>8, <3>1, <3>2, <3>3 DEF Superseded
  <2>10. high > 1 => Superseded(1)  BY <2>7, <2>8 DEF Superseded
  <2>11. \A k \in stale : k \in StoredKeys /\ Known(k) /\ Superseded(k.epoch)
    BY <2>6, <2>9, <2>10, FoundKeys
  <2> HIDE DEF stale, keys
  <2>12. /\ n.keys = keys /\ n.stale = stale /\ n.then = "marker" /\ n.ret = r.ret
         /\ n.base = r.base /\ n.record = r.record
         /\ n.pc = (IF stale = {} THEN "marker" ELSE "retain")
    BY <1>0 DEF Process
  <2>13. n \in Process
    <3>1. stale \in SUBSET StoredKeys  BY <2>11
    <3> QED  BY <1>0, <2>5, <3>1 DEF Process, PCs, Entering
  <2> HIDE DEF n
  <2>14. Memory(n)  BY <1>0, <2>5, <2>11, <2>12 DEF Memory
  <2>15. Stage(n) /\ n.pc \notin Writing
    BY <1>0, <2>5, <2>12
    DEF Stage, Loaded, Retaining, Electing, Choosing, Publishing, Writing
  <2> QED  BY <1>1, <1>4, <2>13, <2>14, <2>15, QuietStep
<1> QED  BY <1>2, <1>3, <1>4

\* The marker a load finds is the relay's record of its key.
LEMMA LoadMarkerStep ==
    ASSUME RingInv, NEW p \in Procs, LoadPublishedEpoch(p)
    PROVE  RingInv'
<1>0. proc[p] \in Process /\ Memory(proc[p]) /\ Stage(proc[p])  BY ProcessIs
<1>1. Quiet /\ CountsOK'
  BY DEF LoadPublishedEpoch, Quiet, disk, RingInv, TypeOK, CountsOK
<1> DEFINE r == proc[p]
           k == r.keys
           m == PublishedFile(k.epoch)
           l == [k EXCEPT !.published = m.record]
           n == [r EXCEPT !.keys.published = m.record,
                   !.then = "idle", !.ret = "idle", !.pc = r.ret]
<1>2. /\ \/ Finish(p)
         \/ (m = Absent \/ m.pub = k.pub) /\ r.ret # "idle" /\ Set(p, n)
      /\ r.pc = "marker"
  BY DEF LoadPublishedEpoch, At, Finish
<1>3. CASE Finish(p)  BY <1>1, <1>3, FinishStep
<1>4. CASE (m = Absent \/ m.pub = k.pub) /\ r.ret # "idle" /\ Set(p, n)
  <2>1. k # NoKeys  BY <1>0, <1>2 DEF Stage, Loaded
  <2>2. Known(k) /\ k \in StoredKeys  BY <1>0, <2>1 DEF Memory, Process
  <2>3. k.epoch \in Epochs /\ k.pub # NoKey  BY <2>2 DEF Known
  <2>4. m.record \in Records \cup {NoRecord}
    BY <2>3, FileType DEF File, RingInv
  <2>5. m.record # NoRecord => relay[k.epoch] = m.record
    <3>1. CASE Blank(m)  BY <3>1, BlankFiles
    <3>2. CASE ~Blank(m)
      BY <2>3, <3>2 DEF RingInv, FilesAgree, MarkersNamed
    <3> QED  BY <3>1, <3>2
  <2> HIDE DEF m
  <2>6. /\ l \in StoredKeys /\ l.epoch = k.epoch /\ l.pub = k.pub /\ l.published = m.record
    BY <2>2, <2>4 DEF StoredKeys
  <2>7. n = [r EXCEPT !.keys = l, !.then = "idle", !.ret = "idle", !.pc = r.ret]
    OBVIOUS
  <2> HIDE DEF l, n
  <2>8. Known(l) /\ Marked(l)
    BY <2>2, <2>5, <2>6 DEF Known, Marked
  <2>9. l # NoKeys  BY <2>3, <2>6, Constants DEF NoKeys
  <2>10. /\ n.keys = l /\ n.stale = r.stale /\ n.ret = "idle" /\ n.pc = r.ret
         /\ n.base = r.base /\ n.record = r.record
    BY <1>0, <2>7 DEF Process
  <2>11. n \in Process  BY <1>0, <2>6, <2>7 DEF Process, PCs
  <2>12. Memory(n)  BY <1>0, <2>8, <2>10 DEF Memory
  <2>13. n.pc \in {"evict", "look", "choose", "remember"}
    BY <1>0, <1>4, <2>10 DEF Process
  <2>14. Stage(n) /\ n.pc \notin Writing
    BY <1>0, <2>9, <2>10, <2>13
    DEF Stage, Loaded, Retaining, Electing, Choosing, Publishing, Writing
  <2> QED  BY <1>1, <1>4, <2>11, <2>12, <2>14, QuietStep
<1> QED  BY <1>2, <1>3, <1>4

\* A rotation that goes on to elect extends an epoch the relay holds.
LEMMA AfterEvictionStage ==
    ASSUME NEW r \in Process, Memory(r), r.ret = "choose" => r.record # NoRecord,
           r.base.published # NoRecord, r.base.epoch < MaxEpoch
    PROVE  LET n == [r EXCEPT !.pc = "elect"]
           IN n \in Process /\ Memory(n) /\ Stage(n) /\ n.pc \notin Writing
<1> DEFINE n == [r EXCEPT !.pc = "elect"]
<1>1. /\ n.pc = "elect" /\ n.keys = r.keys /\ n.base = r.base /\ n.ret = r.ret
      /\ n.stale = r.stale /\ n.record = r.record
  BY DEF Process
<1>2. n \in Process  BY DEF Process, PCs, Entering
<1> HIDE DEF n
<1>3. Memory(n)  BY <1>1 DEF Memory
<1>4. Stage(n) /\ n.pc \notin Writing
  BY <1>1 DEF Stage, Loaded, Retaining, Electing, Choosing, Publishing, Writing
<1> QED  BY <1>2, <1>3, <1>4 DEF n

\* A rotation goes on to the election of the next epoch, or stops.
LEMMA AfterEvictionStep ==
    ASSUME RingInv, Quiet, CountsOK', NEW p \in Procs, NEW r \in Process, Memory(r),
           r.ret = "choose" => r.record # NoRecord, AfterEviction(p, r)
    PROVE  RingInv'
<1>1. CASE r.base.published = NoRecord \/ r.base.epoch >= MaxEpoch
  BY <1>1, FinishStep DEF AfterEviction, Finish
<1>2. CASE ~(r.base.published = NoRecord \/ r.base.epoch >= MaxEpoch)
  <2> DEFINE n == [r EXCEPT !.pc = "elect"]
  <2>1. r.base.published # NoRecord /\ r.base.epoch < MaxEpoch
    BY <1>2, Constants DEF Process, StoredKeys
  <2>2. n \in Process /\ Memory(n) /\ Stage(n) /\ n.pc \notin Writing
    BY <2>1, AfterEvictionStage
  <2>3. Set(p, n)  BY <1>2 DEF AfterEviction
  <2> HIDE DEF n
  <2> QED  BY <2>2, <2>3, QuietStep
<1> QED  BY <1>1, <1>2

\* A rotation checks the limit of live keys.
LEMMA ConsiderStep ==
    ASSUME RingInv, NEW p \in Procs, ConsiderEviction(p)
    PROVE  RingInv'
<1>0. proc[p] \in Process /\ Memory(proc[p]) /\ Stage(proc[p])  BY ProcessIs
<1>1. Quiet /\ CountsOK'
  BY DEF ConsiderEviction, Quiet, disk, RingInv, TypeOK, CountsOK
<1> DEFINE r == [proc[p] EXCEPT !.base = proc[p].keys, !.keys = NoKeys]
           n == [r EXCEPT !.pc = "unlink", !.old = Lowest(LiveRetained)]
<1>2. \/ AfterEviction(p, r) \/ Finish(p)
      \/ LiveRetained # {} /\ Set(p, n)
  BY DEF ConsiderEviction
<1>3. NoKeys \in StoredKeys  BY IdleMemory DEF Idle, Process
<1>4. r \in Process  BY <1>0, <1>3 DEF Process
<1>5. /\ r.base = proc[p].keys /\ r.keys = NoKeys /\ r.ret = proc[p].ret
      /\ r.stale = proc[p].stale /\ r.record = proc[p].record
  BY <1>0 DEF Process
<1> HIDE DEF r
<1>6. Memory(r) /\ (r.ret = "choose" => r.record # NoRecord)
  BY <1>0, <1>5 DEF Memory, Stage
<1>7. CASE AfterEviction(p, r)
  BY <1>1, <1>4, <1>6, <1>7, AfterEvictionStep
<1>8. CASE Finish(p)  BY <1>1, <1>8, FinishStep
<1>9. CASE LiveRetained # {} /\ Set(p, n)
  <2>1. LiveRetained \in SUBSET Epochs  BY DEF LiveRetained
  <2>2. Lowest(LiveRetained) \in Epochs  BY <1>9, <2>1, LowestIn
  <2>3. Lowest(LiveRetained) \in 0..MaxEpoch  BY <2>2, Constants DEF Epochs
  <2>4. n \in Process  BY <1>4, <2>3 DEF Process, PCs
  <2>5. /\ n.pc = "unlink" /\ n.old \in Epochs /\ n.base = r.base /\ n.keys = r.keys
        /\ n.ret = r.ret /\ n.stale = r.stale /\ n.record = r.record
    BY <1>4, <2>2 DEF Process
  <2> HIDE DEF n
  <2>6. Memory(n)  BY <1>6, <2>5 DEF Memory
  <2>7. Stage(n) /\ n.pc \notin Writing
    BY <1>6, <2>5
    DEF Stage, Loaded, Retaining, Electing, Choosing, Publishing, Writing
  <2> QED  BY <1>1, <1>9, <2>4, <2>6, <2>7, QuietStep
<1> QED  BY <1>2, <1>7, <1>8, <1>9

\* A rotation reads the state that was elected: it follows its base.
LEMMA ReadElectedStep ==
    ASSUME RingInv, NEW p \in Procs, ReadElected(p)
    PROVE  RingInv'
<1>0. proc[p] \in Process /\ Memory(proc[p]) /\ Stage(proc[p])  BY ProcessIs
<1>1. Quiet /\ CountsOK' /\ proc[p].pc = "elected"
  BY DEF ReadElected, Quiet, disk, RingInv, TypeOK, CountsOK, At
<1> DEFINE r == proc[p]
           s == StateFile(r.base.epoch + 1)
           n == [r EXCEPT !.pc = "retain", !.stale = {r.base},
                   !.then = "root", !.base = NoKeys]
<1>2. \/ Load(p, r, "idle") \/ Finish(p)
      \/ s.record = r.base.published /\ Set(p, n)
  BY DEF ReadElected
<1>3. CASE Load(p, r, "idle")  BY <1>0, <1>1, <1>3, LoadStep
<1>4. CASE Finish(p)  BY <1>1, <1>4, FinishStep
<1>5. CASE s.record = r.base.published /\ Set(p, n)
  <2>1. r.base.published # NoRecord /\ r.base.epoch < MaxEpoch
    BY <1>0, <1>1 DEF Stage, Electing
  <2>2. r.base # NoKeys  BY <2>1 DEF NoKeys
  <2>3. Known(r.base) /\ r.base.epoch \in Epochs  BY <1>0, <2>2 DEF Memory, Known
  <2>4. r.base.epoch + 1 \in Epochs  BY <2>1, <2>3, Constants DEF Epochs
  <2>5. s.pub # NoKey
    <3>1. ~Blank(s)  BY <1>5, <2>1, BlankFiles
    <3> QED  BY <2>4, <3>1 DEF RingInv, FilesAgree, StatesLinked
  <2> HIDE DEF s
  <2>6. Superseded(r.base.epoch)
    <3>0. r.base.epoch \in Nat  BY <2>3, Constants
    <3>1. r.base.epoch + 1 > r.base.epoch  BY <3>0
    <3> QED  BY <2>4, <2>5, <3>1 DEF Superseded, s
  <2>7. NoKeys \in StoredKeys  BY IdleMemory DEF Idle, Process
  <2>8. n \in Process  BY <1>0, <2>7 DEF Process, PCs, Entering
  <2>9. /\ n.pc = "retain" /\ n.stale = {r.base} /\ n.then = "root"
        /\ n.base = NoKeys /\ n.keys = r.keys /\ n.ret = r.ret /\ n.record = r.record
    BY <1>0 DEF Process
  <2> HIDE DEF n
  <2>10. Memory(n)  BY <1>0, <2>3, <2>6, <2>9 DEF Memory
  <2>11. Stage(n) /\ n.pc \notin Writing
    BY <1>0, <2>9
    DEF Stage, Loaded, Retaining, Electing, Choosing, Publishing, Writing
  <2> QED  BY <1>1, <1>5, <2>8, <2>10, <2>11, QuietStep
<1> QED  BY <1>2, <1>3, <1>4, <1>5

\* A publication puts the identity, looks for a pending record of the epoch,
\* and signs one of its own when there is none.
LEMMA LookStep ==
    ASSUME RingInv, NEW p \in Procs,
           PutIdentity(p) \/ LookForPending(p)
    PROVE  RingInv'
<1>0. proc[p] \in Process /\ Memory(proc[p]) /\ Stage(proc[p])  BY ProcessIs
<1>1. Quiet /\ CountsOK'
  BY DEF PutIdentity, LookForPending, Quiet, disk, RingInv, TypeOK, CountsOK
<1> DEFINE r == proc[p]
           k == r.keys
           f == PendingFile(k.epoch)
           n == [r EXCEPT !.record = f.record, !.pc = "put"]
           own == [epoch |-> k.epoch, pub |-> k.pub, by |-> p]
           o == [r EXCEPT !.record = own]
<1>2. \/ PutIdentity(p) /\ (Finish(p) \/ Load(p, r, "look"))
      \/ At(p, "look") /\ Finish(p)
      \/ At(p, "look") /\ f.pub = k.pub /\ Set(p, n)
      \/ At(p, "look") /\ Load(p, o, "choose")
  BY DEF PutIdentity, LookForPending
<1>3. CASE Finish(p)  BY <1>1, <1>3, FinishStep
<1>4. CASE Load(p, r, "look")  BY <1>0, <1>1, <1>4, LoadStep
<1>5. At(p, "look") => k # NoKeys /\ Known(k) /\ k \in StoredKeys
  BY <1>0 DEF At, Stage, Loaded, Memory, Process
<1>6. CASE At(p, "look") /\ f.pub = k.pub /\ Set(p, n)
  <2>1. k # NoKeys /\ k.epoch \in Epochs /\ k.pub # NoKey
    BY <1>5, <1>6 DEF Known
  <2>2. ~Blank(f)  BY <1>6, <2>1, BlankFiles
  <2>3. /\ f.record # NoRecord /\ f.record.epoch = k.epoch /\ f.record.pub = f.pub
        /\ f.pub = EpochKey(k.epoch)
    BY <2>1, <2>2 DEF RingInv, FilesAgree, PendingNamed, Named
  <2>4. f.record \in Records \cup {NoRecord}
    BY <2>1, FileType DEF File, RingInv
  <2> HIDE DEF f
  <2>5. n \in Process  BY <1>0, <2>4 DEF Process, PCs
  <2>6. /\ n.pc = "put" /\ n.record = f.record /\ n.keys = k /\ n.base = r.base
        /\ n.stale = r.stale /\ n.ret = r.ret
    BY <1>0 DEF Process
  <2> HIDE DEF n
  <2>7. Memory(n)  BY <1>0, <2>3, <2>6 DEF Memory, Signed
  <2>8. Stage(n) /\ n.pc \notin Writing
    BY <1>0, <2>1, <2>3, <2>6
    DEF Stage, Loaded, Retaining, Electing, Choosing, Publishing, Writing, f
  <2> QED  BY <1>1, <1>6, <2>5, <2>7, <2>8, QuietStep
<1>7. CASE At(p, "look") /\ Load(p, o, "choose")
  <2>1. Known(k) /\ k \in StoredKeys  BY <1>5, <1>7
  <2>2. k.pub \in Keys /\ k.epoch \in Epochs  BY <2>1 DEF Known, StoredKeys
  <2>3. own \in Records  BY <2>2 DEF Records
  <2>4. own.epoch = k.epoch /\ own.pub = k.pub /\ own # NoRecord
    BY <2>3, Constants
  <2> HIDE DEF own
  <2>5. o \in Process  BY <1>0, <2>3 DEF Process
  <2>6. /\ o.record = own /\ o.keys = k /\ o.base = r.base /\ o.stale = r.stale
    BY <1>0 DEF Process
  <2> HIDE DEF o
  <2>7. Memory(o)  BY <1>0, <2>1, <2>4, <2>6 DEF Memory, Signed, Known
  <2> QED  BY <1>1, <1>7, <2>4, <2>5, <2>6, <2>7, LoadStep
<1> QED  BY <1>2, <1>3, <1>4, <1>6, <1>7

\* Its record is for the keys it loaded since; or the one elected is taken.
LEMMA ChooseStep ==
    ASSUME RingInv, NEW p \in Procs, ChoosePending(p) \/ ReadChosen(p)
    PROVE  RingInv'
<1>0. proc[p] \in Process /\ Memory(proc[p]) /\ Stage(proc[p])  BY ProcessIs
<1>1. Quiet /\ CountsOK'
  BY DEF ChoosePending, ReadChosen, Quiet, disk, RingInv, TypeOK, CountsOK
<1> DEFINE r == proc[p]
           k == r.keys
           f == PendingFile(k.epoch)
           n == [r EXCEPT !.record = f.record, !.pc = "put"]
           h == [r EXCEPT !.pc = "hold"]
<1>2. \/ Finish(p)
      \/ At(p, "choose") /\ r.record.epoch = k.epoch /\ Go(p, "hold")
      \/ At(p, "chosen") /\ f.pub = k.pub /\ Set(p, n)
  BY DEF ChoosePending, ReadChosen
<1>3. CASE Finish(p)  BY <1>1, <1>3, FinishStep
<1>4. CASE At(p, "choose") /\ r.record.epoch = k.epoch /\ Go(p, "hold")
  <2>1. r.record # NoRecord /\ k # NoKeys /\ r.pc = "choose"
    BY <1>0, <1>4 DEF At, Stage, Loaded
  <2>2. h.pc = "hold" /\ h.record = r.record /\ h.keys = k
    BY <1>0 DEF Process
  <2> HIDE DEF h
  <2>3. Stage(h)
    BY <1>0, <1>4, <2>1, <2>2
    DEF Stage, Loaded, Retaining, Electing, Choosing, Publishing
  <2>4. "hold" \in PCs \ Writing  BY DEF PCs, Entering, Writing
  <2> QED  BY <1>1, <1>4, <2>3, <2>4, GoStep DEF h
<1>5. CASE At(p, "chosen") /\ f.pub = k.pub /\ Set(p, n)
  <2>0. k # NoKeys  BY <1>0, <1>5 DEF At, Stage, Loaded, Choosing
  <2>1. k.epoch \in Epochs /\ k.pub # NoKey
    BY <1>0, <2>0 DEF Memory, Known
  <2>2. ~Blank(f)  BY <1>5, <2>1, BlankFiles
  <2>3. /\ f.record # NoRecord /\ f.record.epoch = k.epoch /\ f.record.pub = f.pub
        /\ f.pub = EpochKey(k.epoch)
    BY <2>1, <2>2 DEF RingInv, FilesAgree, PendingNamed, Named
  <2>4. f.record \in Records \cup {NoRecord}
    BY <2>1, FileType DEF File, RingInv
  <2> HIDE DEF f
  <2>5. n \in Process  BY <1>0, <2>4 DEF Process, PCs
  <2>6. /\ n.pc = "put" /\ n.record = f.record /\ n.keys = k /\ n.base = r.base
        /\ n.stale = r.stale /\ n.ret = r.ret
    BY <1>0 DEF Process
  <2> HIDE DEF n
  <2>7. Memory(n)  BY <1>0, <2>3, <2>6 DEF Memory, Signed
  <2>8. Stage(n) /\ n.pc \notin Writing
    BY <1>0, <2>0, <2>3, <2>6
    DEF Stage, Loaded, Retaining, Electing, Choosing, Publishing, Writing, f
  <2> QED  BY <1>1, <1>5, <2>5, <2>7, <2>8, QuietStep
<1> QED  BY <1>2, <1>3, <1>4, <1>5

\* The acceptance is marked and the keys are loaded again; a call of this
\* installation notes its epoch.
LEMMA NoteStep ==
    ASSUME RingInv, NEW p \in Procs, ReadMarker(p) \/ RememberJob(p)
    PROVE  RingInv'
<1>0. proc[p] \in Process /\ Memory(proc[p]) /\ Stage(proc[p])  BY ProcessIs
<1>1. CASE ReadMarker(p)
  <2>1. Quiet /\ CountsOK' /\ (Finish(p) \/ Load(p, proc[p], "idle"))
    BY <1>1 DEF ReadMarker, Quiet, disk, RingInv, TypeOK, CountsOK
  <2> QED  BY <1>0, <2>1, FinishStep, LoadStep
<1>2. CASE RememberJob(p)
  <2>1. Quiet /\ Finish(p)  BY <1>2 DEF RememberJob, Quiet
  <2>2. [epoch |-> proc[p].keys.epoch, until |-> now + MailboxTtl]
          \in [epoch : 0..MaxEpoch, until : Nat]
    BY <1>0, Constants DEF Process, StoredKeys, RingInv, TypeOK
  <2>3. CountsOK'  BY <1>2, <2>2 DEF RememberJob, RingInv, TypeOK, CountsOK
  <2> QED  BY <2>1, <2>3, FinishStep
<1> QED  BY <1>1, <1>2

-----------------------------------------------------------------------------
(* Elections.                                                              *)

\* An election's steps rely on the same things.
LEMMA ElectionMoves ==
    ASSUME NEW r \in Process, Memory(r), Stage(r),
           NEW pc, r.pc \in Entering \cup Writing,
           \/ pc = ReadingOf(r.pc)
           \/ r.pc \in Entering /\ pc = WritingOf(r.pc)
    PROVE  LET n == [r EXCEPT !.pc = pc]
           IN /\ n \in Process /\ Memory(n) /\ Stage(n) /\ SlotOf(n) = SlotOf(r)
              /\ n.pc \in Electing \cup Retaining \cup Choosing \cup Marking
              /\ pc = ReadingOf(r.pc) => n.pc \notin Writing
              /\ r.pc \in Entering /\ pc = WritingOf(r.pc) => n.pc \in Writing
<1> DEFINE n == [r EXCEPT !.pc = pc]
<1>1. \/ r.pc \in {"elect", "electing"} /\ pc \in {"electing", "elected"}
      \/ r.pc \in {"retain", "retaining"} /\ pc \in {"retaining", "tombstone"}
      \/ r.pc \in {"hold", "holding"} /\ pc \in {"holding", "chosen"}
      \/ r.pc \in {"mark", "marking"} /\ pc \in {"marking", "marked"}
  BY DEF Entering, Writing, ReadingOf, WritingOf
<1>2. /\ n.pc = pc /\ n.ret = r.ret /\ n.then = r.then /\ n.keys = r.keys
      /\ n.base = r.base /\ n.stale = r.stale /\ n.record = r.record
  BY DEF Process
<1>3. n \in Process  BY <1>1 DEF Process, PCs, Writing, Reading
<1> HIDE DEF n
<1>4. Memory(n)  BY <1>2 DEF Memory
<1>5. Stage(n)
  BY <1>1, <1>2 DEF Stage, Loaded, Retaining, Electing, Choosing, Publishing
<1>6. SlotOf(n) = SlotOf(r)
  BY <1>1, <1>2 DEF SlotOf, Electing, Retaining, Choosing
<1>7. n.pc \in Electing \cup Retaining \cup Choosing \cup Marking
  BY <1>1, <1>2 DEF Electing, Retaining, Choosing, Marking
<1>8. pc = ReadingOf(r.pc) => n.pc \notin Writing
  BY <1>2 DEF ReadingOf, Entering, Writing
<1>9. r.pc \in Entering /\ pc = WritingOf(r.pc) => n.pc \in Writing
  BY <1>2 DEF WritingOf, Entering, Writing
<1> QED  BY <1>3, <1>4, <1>5, <1>6, <1>7, <1>8, <1>9 DEF n

\* The slots of the four elections are of epochs.
LEMMA SlotHas ==
    ASSUME RingInv, NEW p \in Procs
    PROVE  LET r == proc[p] IN
           /\ r.pc \in Electing =>
                /\ Slot(p) = <<"state", r.base.epoch + 1>>
                /\ r.base.epoch \in Epochs /\ r.base.epoch + 1 \in Epochs
                /\ r.base.published # NoRecord /\ relay[r.base.epoch] = r.base.published
           /\ r.pc \in Retaining =>
                /\ Slot(p) = <<"retained", Retiring(p).epoch>> /\ Retiring(p) \in r.stale
                /\ Retiring(p).epoch \in Epochs
           /\ r.pc \in Choosing \cup Marking =>
                /\ Slot(p) = <<IF r.pc \in Choosing THEN "pending" ELSE "published",
                               r.keys.epoch>>
                /\ r.keys.epoch \in Epochs /\ Known(r.keys)
<1> DEFINE r == proc[p]
<1>0. r \in Process /\ Memory(r) /\ Stage(r)  BY ProcessIs
<1>1. ASSUME r.pc \in Electing
      PROVE  /\ Slot(p) = <<"state", r.base.epoch + 1>>
             /\ r.base.epoch \in Epochs /\ r.base.epoch + 1 \in Epochs
             /\ r.base.published # NoRecord /\ relay[r.base.epoch] = r.base.published
  <2>1. Slot(p) = <<"state", r.base.epoch + 1>>  BY <1>1, SlotIs DEF SlotOf
  <2>2. r.base.published # NoRecord /\ r.base.epoch < MaxEpoch
    BY <1>0, <1>1 DEF Stage
  <2>3. r.base # NoKeys  BY <2>2 DEF NoKeys
  <2>4. r.base.epoch \in Epochs /\ relay[r.base.epoch] = r.base.published
    BY <1>0, <2>2, <2>3 DEF Memory, Known, Marked
  <2>5. r.base.epoch + 1 \in Epochs  BY <2>2, <2>4, Constants DEF Epochs
  <2> QED  BY <2>1, <2>2, <2>4, <2>5
<1>2. ASSUME r.pc \in Retaining
      PROVE  /\ Slot(p) = <<"retained", Retiring(p).epoch>> /\ Retiring(p) \in r.stale
             /\ Retiring(p).epoch \in Epochs
  <2>1. r.stale # {} /\ \A k \in r.stale : k.epoch \in Epochs
    BY <1>0, <1>2 DEF Stage, Memory, Known
  <2>2. Next1(r.stale) \in r.stale  BY <2>1, Next1In
  <2>3. Slot(p) = SlotOf(r)  BY <1>2, SlotIs
  <2>4. SlotOf(r) = <<"retained", Next1(r.stale).epoch>>
    BY <1>2 DEF SlotOf, Retaining, Electing
  <2> QED  BY <2>1, <2>2, <2>3, <2>4, RetiringNext
<1>3. ASSUME r.pc \in Choosing \cup Marking
      PROVE  /\ Slot(p) = <<IF r.pc \in Choosing THEN "pending" ELSE "published",
                            r.keys.epoch>>
             /\ r.keys.epoch \in Epochs /\ Known(r.keys)
  <2>1. r.keys # NoKeys
    BY <1>0, <1>3 DEF Stage, Loaded, Choosing, Marking, Publishing
  <2>2. Known(r.keys)  BY <1>0, <2>1 DEF Memory
  <2>3. Slot(p) = SlotOf(r)  BY <1>3, SlotIs
  <2>4. SlotOf(r) = <<IF r.pc \in Choosing THEN "pending" ELSE "published",
                      r.keys.epoch>>
    BY <1>3 DEF SlotOf, Retaining, Electing, Choosing, Marking
  <2> QED  BY <2>2, <2>3, <2>4 DEF Known
<1> QED  BY <1>1, <1>2, <1>3

\* A step that fills a slot of its own election, or empties it.
LEMMA FillStep ==
    ASSUME RingInv, NEW p \in Procs, NEW n \in Process, Set(p, n), Memory(n), Stage(n),
           NEW k \in Kinds, NEW e \in Epochs, NEW f \in File,
           Blank(file[<<k, e>>]), Fits(k, e, f), file' = [file EXCEPT ![<<k, e>>] = f],
           k = "retained" /\ f.status = "whole" => f.until = RetainUntil(now),
           UNCHANGED <<now, initial, evicted, relay, mail>>, lock' \subseteq Slots,
           CountsOK', Owned'
    PROVE  RingInv'
<1>0. TypeOK /\ FilesAgree /\ KeysHeld /\ Remembered /\ MailInTime  BY DEF RingInv
<1>1. Grows  BY <1>0, SlotGrows
<1>2. FilesAgree'  BY <1>0, SlotAgrees
<1>3. KeysHeld'  BY <1>0, SlotHeld
<1>4. MailInTime'  BY <1>0, SlotMail
<1>5. proc'[p] = n /\ Others(p)  BY <1>0 DEF Set, TypeOK, Others
<1>6. Memory(n)' /\ Stage(n)'  BY <1>0, <1>1, MemoryStays, StageStays
<1>7. Remembered'  BY <1>0, <1>1, <1>5, <1>6, OthersRemember
<1>8. TypeOK'  BY <1>0 DEF TypeOK, CountsOK, Set
<1> QED  BY <1>2, <1>3, <1>4, <1>7, <1>8 DEF RingInv

\* The slot of an election names a kind and an epoch, and while it is blank
\* it may be blank again.
LEMMA SlotNames ==
    ASSUME RingInv, NEW p \in Procs,
           proc[p].pc \in Electing \cup Retaining \cup Choosing \cup Marking
    PROVE  \E k \in Kinds, e \in Epochs :
             /\ Slot(p) = <<k, e>>
             /\ \A f : Blank(f) => Fits(k, e, f)
<1>1. CASE proc[p].pc \in Electing
  BY <1>1, SlotHas DEF Kinds, Fits
<1>2. CASE proc[p].pc \in Retaining
  <2>1. /\ Slot(p) = <<"retained", Retiring(p).epoch>>
        /\ Retiring(p) \in proc[p].stale /\ Retiring(p).epoch \in Epochs
    BY <1>2, SlotHas
  <2>2. Superseded(Retiring(p).epoch)  BY <2>1, ProcessIs DEF Memory
  <2> QED  BY <2>1, <2>2 DEF Kinds, Fits
<1>3. CASE proc[p].pc \in Choosing \cup Marking
  BY <1>3, SlotHas DEF Kinds, Fits
<1> QED  BY <1>1, <1>2, <1>3

\* The first writer takes the slot and is its only writer.
LEMMA EnterStep ==
    ASSUME RingInv, NEW p \in Procs, Enter(p)
    PROVE  RingInv'
<1> DEFINE r == proc[p]
           w == [r EXCEPT !.pc = WritingOf(r.pc)]
           d == [r EXCEPT !.pc = ReadingOf(r.pc)]
           part == [Absent EXCEPT !.status = "partial"]
<1>0. r \in Process /\ Memory(r) /\ Stage(r)  BY ProcessIs
<1>1. r.pc \in Entering /\ UNCHANGED <<now, initial, evicted, relay, mail>> /\ CountsOK'
  BY DEF Enter, RingInv, TypeOK, CountsOK
<1>2. r.pc \in Electing \cup Retaining \cup Choosing \cup Marking
  BY <1>1 DEF Entering, Electing, Retaining, Choosing, Marking
<1>3. /\ w \in Process /\ Memory(w) /\ Stage(w) /\ SlotOf(w) = SlotOf(r)
      /\ w.pc \in Electing \cup Retaining \cup Choosing \cup Marking
      /\ w.pc \in Writing
  BY <1>0, <1>1, ElectionMoves
<1>4. d \in Process /\ Memory(d) /\ Stage(d) /\ d.pc \notin Writing
  BY <1>0, <1>1, ElectionMoves
<1>5. CASE UNCHANGED <<lock, file>> /\ Go(p, ReadingOf(r.pc))
  <2>1. Quiet  BY <1>1, <1>5 DEF Quiet
  <2>2. Set(p, d)  BY <1>5 DEF Go
  <2> HIDE DEF d
  <2> QED  BY <1>1, <1>4, <2>1, <2>2, QuietStep
<1>6. CASE /\ file[Slot(p)] = Absent /\ lock' = lock \cup {Slot(p)}
           /\ file' = [file EXCEPT ![Slot(p)] = part]
           /\ Go(p, WritingOf(r.pc))
  <2>1. PICK k \in Kinds, e \in Epochs :
          Slot(p) = <<k, e>> /\ \A f : Blank(f) => Fits(k, e, f)
    BY <1>2, SlotNames
  <2>2. part \in File /\ Blank(part) /\ part.status = "partial" /\ Blank(Absent)
    BY DEF Absent, File, Blank
  <2>3. Set(p, w)  BY <1>6 DEF Go
  <2>4. proc'[p] = w /\ Others(p)
    BY <2>3 DEF Set, Others, RingInv, TypeOK
  <2>5. Slot(p)' = Slot(p)
    <3> HIDE DEF w
    <3>1. Slot(p) = SlotOf(r)  BY <1>2, SlotIs
    <3>2. Slot(p)' = SlotOf(w)  BY <1>3, <2>4, NewSlotIs
    <3> QED  BY <1>3, <3>1, <3>2
  <2>6. Slot(p) \notin lock
    <3>1. Reads(p) = {Slot(p)}  BY <1>1 DEF Enter, Reads, Entering
    <3> QED  BY <3>1 DEF Enter, Clear
  <2>7. Slot(p) \in Slots /\ file'[Slot(p)] = part
    BY <1>6, <2>1 DEF Slots, RingInv, TypeOK
  <2> HIDE DEF w, part
  <2>8. ASSUME NEW q \in Procs, q # p, Writes(q)'
        PROVE  /\ Slot(q)' = Slot(q) /\ Writes(q) /\ proc'[q] = proc[q]
               /\ Slot(q) # Slot(p) /\ file'[Slot(q)] = file[Slot(q)]
               /\ Slot(q) \in lock
               /\ \/ file[Slot(q)].status = "partial"
                  \/ file[Slot(q)] = Absent /\ proc[q].pc = "retaining"
    <3>1. proc'[q] = proc[q]  BY <2>4, <2>8 DEF Others
    <3>2. Writes(q)  BY <2>8, <3>1 DEF Writes
    <3>3. Slot(q)' = Slot(q)  BY <3>1, <3>2, SlotStays
    <3>4. /\ Slot(q) \in lock
          /\ \/ file[Slot(q)].status = "partial"
             \/ file[Slot(q)] = Absent /\ proc[q].pc = "retaining"
      BY <3>2 DEF RingInv, Owned, Unlinked
    <3>5. Slot(q) # Slot(p)  BY <2>6, <3>4
    <3>6. file'[Slot(q)] = file[Slot(q)]
      BY <1>6, <3>4, <3>5 DEF RingInv, TypeOK
    <3> QED  BY <3>1, <3>2, <3>3, <3>4, <3>5, <3>6
  <2>9. Owned'
    <3>1. ASSUME NEW q \in Procs, Writes(q)'
          PROVE  /\ Slot(q)' \in lock'
                 /\ \/ file'[Slot(q)'].status = "partial"
                    \/ file'[Slot(q)'] = Absent /\ proc'[q].pc = "retaining"
      <4>1. CASE q = p  BY <1>6, <2>2, <2>5, <2>7, <4>1
      <4>2. CASE q # p  BY <1>6, <2>8, <3>1, <4>2
      <4> QED  BY <4>1, <4>2
    <3>2. ASSUME NEW q \in Procs, NEW s \in Procs \ {q}, Writes(q)', Writes(s)'
          PROVE  Slot(s)' # Slot(q)'
      <4>1. CASE q = p  BY <2>5, <2>8, <3>2, <4>1
      <4>2. CASE s = p  BY <2>5, <2>8, <3>2, <4>2
      <4>3. CASE q # p /\ s # p
        <5>1. Writes(q) /\ Writes(s) /\ Slot(q)' = Slot(q) /\ Slot(s)' = Slot(s)
          BY <2>8, <3>2, <4>3
        <5> QED  BY <5>1, <3>2 DEF RingInv, Owned
      <4> QED  BY <4>1, <4>2, <4>3
    <3> QED  BY <3>1, <3>2 DEF Owned, Unlinked
  <2>10. lock' \subseteq Slots  BY <1>6, <2>7 DEF RingInv, TypeOK
  <2>11. file[<<k, e>>] = Absent /\ file' = [file EXCEPT ![<<k, e>>] = part]
    BY <1>6, <2>1
  <2>12. part.status # "whole" /\ Fits(k, e, part)  BY <2>1, <2>2
  <2> QED  BY <1>1, <1>3, <2>2, <2>3, <2>9, <2>10, <2>11, <2>12, FillStep
<1> QED  BY <1>5, <1>6 DEF Enter

\* What an election installs fits its slot.
LEMMA CandidateFits ==
    ASSUME RingInv, NEW p \in Procs, proc[p].pc \in Writing
    PROVE  \E k \in Kinds, e \in Epochs :
             /\ Slot(p) = <<k, e>> /\ Fits(k, e, Candidate(p)) /\ Fits(k, e, Absent)
             /\ k = "retained" => Candidate(p).until = RetainUntil(now)
             /\ Candidate(p) \in File
<1> DEFINE r == proc[p]
<1>0. /\ r \in Process /\ Memory(r) /\ Stage(r) /\ now \in Nat
      /\ Blank(Absent)
  BY ProcessIs DEF RingInv, TypeOK, Blank, Absent
<1>1. CASE r.pc = "electing"
  <2>1. Election(r.pc) = "state" /\ r.pc \in Electing
    BY <1>1, ElectionKinds DEF Electing
  <2>2. Candidate(p) = [status |-> "active", pub |-> p, record |-> r.base.published,
                        until |-> 0]
    BY <2>1 DEF Candidate
  <2>3. /\ Slot(p) = <<"state", r.base.epoch + 1>>
        /\ r.base.epoch \in Epochs /\ r.base.epoch + 1 \in Epochs
        /\ r.base.published # NoRecord /\ relay[r.base.epoch] = r.base.published
    BY <2>1, SlotHas
  <2>4. r.base.published \in Records \cup {NoRecord}
    BY <1>0 DEF Process, StoredKeys
  <2>5. Candidate(p) \in File  BY <2>2, <2>4 DEF File, Keys
  <2>7. p # NoKey  BY Constants DEF Keys
  <2>8. /\ Candidate(p).status = "active" /\ Candidate(p).pub = p
        /\ Candidate(p).record = r.base.published
    BY <2>2
  <2>9. Fits("state", r.base.epoch + 1, Candidate(p))
    <3>1. PICK e \in Epochs : e = r.base.epoch + 1  BY <2>3
    <3>2. e > 1 /\ e - 1 = r.base.epoch
      <4>1. r.base.epoch \in Nat \ {0}  BY <2>3, Constants
      <4> QED  BY <3>1, <4>1
    <3>3. Fits("state", e, Candidate(p))  BY <2>3, <2>7, <2>8, <3>2 DEF Fits
    <3> QED  BY <3>1, <3>3
  <2>10. Fits("state", r.base.epoch + 1, Absent)  BY <1>0 DEF Fits
  <2>11. "state" \in Kinds /\ "state" # "retained"  BY DEF Kinds
  <2> QED  BY <2>3, <2>5, <2>9, <2>10, <2>11
<1>2. CASE r.pc = "retaining"
  <2>1. Election(r.pc) = "retained" /\ r.pc \in Retaining
    BY <1>2, ElectionKinds DEF Retaining
  <2> DEFINE k == Retiring(p)
  <2>2. Candidate(p) = [status |-> "whole", pub |-> k.pub, record |-> k.prev,
                        until |-> RetainUntil(now)]
    BY <2>1 DEF Candidate
  <2>3. Slot(p) = <<"retained", k.epoch>> /\ k \in r.stale /\ k.epoch \in Epochs
    BY <2>1, SlotHas
  <2> HIDE DEF k
  <2>4. Known(k) /\ Superseded(k.epoch) /\ k \in StoredKeys
    BY <1>0, <2>3 DEF Memory, Process
  <2>5. RetainUntil(now) \in Nat  BY <1>0, Constants DEF RetainUntil
  <2>6. Candidate(p) \in File  BY <2>2, <2>4, <2>5 DEF File, StoredKeys
  <2>7. /\ Candidate(p).status = "whole" /\ Candidate(p).pub = k.pub
        /\ Candidate(p).until = RetainUntil(now)
    BY <2>2
  <2>8. Fits("retained", k.epoch, Candidate(p))
    BY <2>4, <2>7 DEF Fits, Named, Known
  <2> QED  BY <1>0, <2>3, <2>6, <2>7, <2>8 DEF Kinds, Fits
<1>3. CASE r.pc = "holding"
  <2>1. Election(r.pc) = "pending" /\ r.pc \in Choosing
    BY <1>3, ElectionKinds DEF Choosing
  <2>2. Candidate(p) = [status |-> "whole", pub |-> r.record.pub, record |-> r.record,
                        until |-> 0]
    BY <2>1 DEF Candidate
  <2>3. Slot(p) = <<"pending", r.keys.epoch>> /\ r.keys.epoch \in Epochs
    BY <2>1, SlotHas
  <2>4. r.record # NoRecord /\ r.record.epoch = r.keys.epoch
    BY <1>0, <1>3 DEF Stage
  <2>5. r.record \in Records /\ Signed(r.record)  BY <1>0, <2>4 DEF Process, Memory
  <2>6. r.record.pub \in Keys /\ r.record.pub = EpochKey(r.keys.epoch)
    BY <2>4, <2>5 DEF Records, Signed
  <2>7. Candidate(p) \in File  BY <2>2, <2>5, <2>6 DEF File
  <2>8. /\ Candidate(p).status = "whole" /\ Candidate(p).pub = r.record.pub
        /\ Candidate(p).record = r.record
    BY <2>2
  <2>9. Fits("pending", r.keys.epoch, Candidate(p))
    BY <2>4, <2>6, <2>8, Constants DEF Fits, Named
  <2> QED  BY <1>0, <2>3, <2>7, <2>9 DEF Kinds, Fits
<1>4. CASE r.pc = "marking"
  <2>1. Election(r.pc) = "published" /\ r.pc \in Marking
    BY <1>4, ElectionKinds DEF Marking
  <2>2. Candidate(p) = [status |-> "whole", pub |-> r.keys.pub, record |-> r.record,
                        until |-> 0]
    BY <2>1 DEF Candidate
  <2>3. Slot(p) = <<"published", r.keys.epoch>> /\ r.keys.epoch \in Epochs /\ Known(r.keys)
    BY <1>4, <2>1, SlotHas DEF Choosing
  <2>4. r.record # NoRecord /\ relay[r.keys.epoch] = r.record
    BY <1>0, <1>4 DEF Stage, Publishing
  <2>5. r.record \in Records /\ r.keys \in StoredKeys  BY <1>0, <2>4 DEF Process
  <2>6. Candidate(p) \in File  BY <2>2, <2>5 DEF File, StoredKeys
  <2>7. /\ Candidate(p).status = "whole" /\ Candidate(p).pub = r.keys.pub
        /\ Candidate(p).record = r.record
    BY <2>2
  <2>8. Fits("published", r.keys.epoch, Candidate(p))
    BY <2>3, <2>4, <2>7 DEF Fits, Named, Known
  <2> QED  BY <1>0, <2>3, <2>6, <2>8 DEF Kinds, Fits
<1> QED  BY <1>1, <1>2, <1>3, <1>4 DEF Writing

\* The writer leaves its slot, filled or given back.
LEMMA LeaveStep ==
    ASSUME RingInv, NEW p \in Procs, proc[p].pc \in Writing,
           NEW f \in {Absent, Candidate(p)}, Leaves(p, f),
           NEW n \in Process, Set(p, n), Memory(n), Stage(n), n.pc \notin Writing,
           lock' = lock \/ lock' = lock \ {Slot(p)},
           UNCHANGED <<now, initial, evicted, relay, mail>>, CountsOK'
    PROVE  RingInv'
<1> DEFINE g == IF Unlinked(p) THEN Absent ELSE f
<1>1. PICK k \in Kinds, e \in Epochs :
        /\ Slot(p) = <<k, e>> /\ Fits(k, e, Candidate(p)) /\ Fits(k, e, Absent)
        /\ k = "retained" => Candidate(p).until = RetainUntil(now)
        /\ Candidate(p) \in File
  BY CandidateFits
<1>2. Absent \in File /\ Absent.status = "absent"  BY DEF Absent, File
<1>3. /\ g \in File /\ Fits(k, e, g)
      /\ k = "retained" /\ g.status = "whole" => g.until = RetainUntil(now)
  BY <1>1, <1>2
<1>4. file' = [file EXCEPT ![<<k, e>>] = g]  BY <1>1 DEF Leaves
<1> HIDE DEF g
<1>5. Writes(p)  BY DEF Writes
<1>6. Slot(p) \in lock /\ (file[Slot(p)].status = "partial" \/ file[Slot(p)] = Absent)
  BY <1>5 DEF RingInv, Owned, Unlinked
<1>7. Blank(file[<<k, e>>])
  <2>1. /\ Blank(StateFile(e)) \/ StateFile(e).status \in {"active", "retired"}
        /\ Blank(RetainedFile(e)) \/ RetainedFile(e).status = "whole"
        /\ Blank(PendingFile(e)) \/ PendingFile(e).status = "whole"
        /\ Blank(PublishedFile(e)) \/ PublishedFile(e).status = "whole"
    BY DEF RingInv, FilesAgree, StatesLinked, RetainedNamed, PendingNamed,
           MarkersNamed, Named
  <2>2. Blank(file[<<k, e>>]) \/ file[<<k, e>>].status \in {"active", "retired", "whole"}
    BY <2>1 DEF Kinds, StateFile, RetainedFile, PendingFile, PublishedFile
  <2> QED  BY <1>1, <1>2, <1>6, <2>2
<1>8. proc'[p] = n /\ Others(p)  BY DEF Set, Others, RingInv, TypeOK
<1>9. Owned'
  <2>1. ~Writes(p)'  BY <1>8 DEF Writes
  <2>2. ASSUME NEW q \in Procs \ {p}, Writes(q)  PROVE file'[Slot(q)] = file[Slot(q)]
    <3>1. Slot(q) # Slot(p) /\ Slot(q) \in lock
      BY <1>5, <2>2 DEF RingInv, Owned
    <3> QED  BY <1>1, <1>4, <3>1 DEF RingInv, TypeOK
  <2>3. \A s \in lock : s \in lock' \/ (Writes(p) /\ s = Slot(p))  BY <1>5
  <2> QED  BY <1>8, <2>1, <2>2, <2>3, OwnedStays DEF RingInv
<1>10. lock' \subseteq Slots  BY DEF RingInv, TypeOK
<1> QED  BY <1>3, <1>4, <1>7, <1>9, <1>10, FillStep

\* A writer finishes its file, or fails to.
LEMMA WriteStep ==
    ASSUME RingInv, NEW p \in Procs, Write(p) \/ WriteFails(p)
    PROVE  RingInv'
<1> DEFINE r == proc[p]
           d == [r EXCEPT !.pc = ReadingOf(r.pc)]
<1>0. r \in Process /\ Memory(r) /\ Stage(r)  BY ProcessIs
<1>1. /\ r.pc \in Writing /\ UNCHANGED <<now, initial, evicted, relay, mail>>
      /\ CountsOK' /\ (lock' = lock \/ lock' = lock \ {Slot(p)})
  BY DEF Write, WriteFails, RingInv, TypeOK, CountsOK
<1>2. CASE Write(p)
  <2>1. d \in Process /\ Memory(d) /\ Stage(d) /\ d.pc \notin Writing
    BY <1>0, <1>1, ElectionMoves
  <2>2. Set(p, d) /\ Leaves(p, Candidate(p))  BY <1>2 DEF Write, Go
  <2> HIDE DEF d
  <2> QED  BY <1>1, <2>1, <2>2, LeaveStep
<1>3. CASE WriteFails(p)
  <2>1. Set(p, Idle) /\ Leaves(p, Absent)  BY <1>3 DEF WriteFails, Finish
  <2>2. "idle" \notin Writing  BY DEF Writing
  <2> QED  BY <1>1, <2>1, <2>2, IdleMemory, LeaveStep
<1> QED  BY <1>2, <1>3

\* A process dies, with or without its slot, or in front of it.
LEMMA CrashStep ==
    ASSUME RingInv, NEW p \in Procs, Crash(p)
    PROVE  RingInv'
<1>1. /\ UNCHANGED <<now, initial, evicted, relay, mail>> /\ CountsOK' /\ Set(p, Idle)
  BY DEF Crash, Finish, RingInv, TypeOK, CountsOK
<1>2. "idle" \notin Writing  BY DEF Writing
<1>3. CASE UNCHANGED <<file, lock>>
  BY <1>1, <1>3, FinishStep DEF Finish, Quiet
<1>4. CASE /\ proc[p].pc \in Writing /\ UNCHANGED lock
           /\ \E f \in {Absent, Candidate(p)} : Leaves(p, f)
  <2>1. PICK f \in {Absent, Candidate(p)} : Leaves(p, f)  BY <1>4
  <2> QED  BY <1>1, <1>2, <1>4, <2>1, IdleMemory, LeaveStep
<1>5. CASE /\ proc[p].pc \in Entering /\ lock' = lock \cup {Slot(p)} /\ UNCHANGED file
  <2>1. proc[p].pc \in Electing \cup Retaining \cup Choosing \cup Marking
    BY <1>5 DEF Entering, Electing, Retaining, Choosing, Marking
  <2>2. Slot(p) \in Slots  BY <2>1, SlotNames DEF Slots
  <2>3. proc'[p] = Idle /\ Others(p)  BY <1>1 DEF Set, Others, RingInv, TypeOK
  <2>4. FilesAgree' /\ KeysHeld' /\ Grows  BY <1>1, <1>5, StillAgrees
  <2>5. Memory(Idle)' /\ Stage(Idle)'
    BY <2>4, IdleMemory, MemoryStays, StageStays DEF RingInv
  <2>6. Remembered'  BY <2>3, <2>4, <2>5, OthersRemember DEF RingInv
  <2>7. Owned'
    <3>1. ~Writes(p)'  BY <1>2, <2>3, IdleMemory DEF Writes
    <3> QED  BY <1>5, <2>3, <3>1, OwnedStays DEF RingInv
  <2>8. MailInTime'
    BY <1>1, <1>5 DEF RingInv, MailInTime, InTime, Lasts, RetainedFile, Published
  <2>9. TypeOK'
    BY <1>1, <1>5, <2>2, IdleMemory DEF RingInv, TypeOK, CountsOK, Set
  <2> QED  BY <2>4, <2>6, <2>7, <2>8, <2>9 DEF RingInv
<1> QED  BY <1>3, <1>4, <1>5 DEF Crash

\* The relay takes the record that was elected, if it has no later one.
LEMMA PutStep ==
    ASSUME RingInv, NEW p \in Procs, PutEncryptionKey(p)
    PROVE  RingInv'
<1> DEFINE r == proc[p]
           c == r.record
           e == r.keys.epoch
           m == [r EXCEPT !.pc = "mark"]
<1>0. r \in Process /\ Memory(r) /\ Stage(r)  BY ProcessIs
<1>1. /\ UNCHANGED <<now, initial, file, lock, evicted, mail>> /\ CountsOK'
      /\ r.pc = "put"
  BY DEF PutEncryptionKey, disk, RingInv, TypeOK, CountsOK, At
<1>2. /\ c # NoRecord /\ c.epoch = e /\ r.keys # NoKeys
      /\ PendingFile(e).record = c
  BY <1>0, <1>1 DEF Stage, Publishing, Loaded
<1>3. c \in Records /\ e \in Epochs  BY <1>0, <1>2 DEF Process, Memory, Known
<1>4. /\ Advances(c) => relay' = [relay EXCEPT ![e] = c]
      /\ ~Advances(c) => relay' = relay
      /\ \/ Finish(p)
         \/ Go(p, "mark") /\ (Advances(c) \/ Repeats(c))
  BY <1>1, <1>2 DEF PutEncryptionKey, Refused, At
<1>5. \A g \in Epochs : Published(g) => relay'[g] = relay[g]
  <2>1. SUFFICES ASSUME NEW g \in Epochs, Published(g), Advances(c)
                 PROVE  relay'[g] = relay[g]
    BY <1>4
  <2>2. g < e  BY <1>2, <2>1 DEF Advances
  <2>3. g # e  BY <1>3, <2>2, Constants
  <2> QED  BY <1>4, <2>1, <2>3 DEF RingInv, TypeOK
<1>6. \A g \in Epochs : relay'[g] = relay[g] \/ (g = e /\ relay'[g] = c)
  BY <1>4 DEF RingInv, TypeOK
<1>7. \A g : /\ StateFile(g)' = StateFile(g) /\ RetainedFile(g)' = RetainedFile(g)
             /\ PendingFile(g)' = PendingFile(g) /\ PublishedFile(g)' = PublishedFile(g)
             /\ EpochKey(g)' = EpochKey(g) /\ Superseded(g)' = Superseded(g)
  BY <1>1 DEF StateFile, RetainedFile, PendingFile, PublishedFile, EpochKey, Superseded
<1>8. Grows  BY <1>5, <1>7 DEF Grows
<1>9. FilesAgree'
  <2>1. StatesLinked'
    <3>1. ASSUME NEW g \in Epochs
          PROVE  \/ Blank(StateFile(g))'
                 \/ /\ StateFile(g)'.status \in {"active", "retired"}
                    /\ g > 1 /\ StateFile(g)'.pub # NoKey
                    /\ StateFile(g)'.record # NoRecord
                    /\ relay'[g - 1] = StateFile(g)'.record
      <4>1. CASE Blank(StateFile(g))  BY <1>7, <4>1 DEF Blank, Absent
      <4>2. CASE ~Blank(StateFile(g))
        <5>1. /\ StateFile(g).status \in {"active", "retired"}
              /\ g > 1 /\ StateFile(g).pub # NoKey /\ StateFile(g).record # NoRecord
              /\ relay[g - 1] = StateFile(g).record
          BY <4>2 DEF RingInv, FilesAgree, StatesLinked
        <5>2. g - 1 \in Epochs  BY <5>1, Constants DEF Epochs
        <5>3. relay'[g - 1] = relay[g - 1]  BY <1>5, <5>1, <5>2 DEF Published
        <5> QED  BY <1>7, <5>1, <5>3
      <4> QED  BY <4>1, <4>2
    <3> QED  BY <3>1 DEF StatesLinked
  <2>2. RetainedNamed'
    BY <1>7 DEF RingInv, FilesAgree, RetainedNamed, Blank, Absent, Named
  <2>3. PendingNamed'
    BY <1>7 DEF RingInv, FilesAgree, PendingNamed, Blank, Absent, Named
  <2>4. MarkersNamed'
    <3>1. ASSUME NEW g \in Epochs
          PROVE  \/ Blank(PublishedFile(g))'
                 \/ /\ Named(PublishedFile(g), g)'
                    /\ PublishedFile(g)'.record # NoRecord
                    /\ relay'[g] = PublishedFile(g)'.record
      <4>1. \/ Blank(PublishedFile(g))
            \/ /\ Named(PublishedFile(g), g)
               /\ PublishedFile(g).record # NoRecord
               /\ relay[g] = PublishedFile(g).record
        BY DEF RingInv, FilesAgree, MarkersNamed
      <4>2. Blank(PublishedFile(g)) => Blank(PublishedFile(g))'
        BY <1>7 DEF Blank, Absent
      <4>3. Named(PublishedFile(g), g) => Named(PublishedFile(g), g)'
        BY <1>7 DEF Named
      <4>4. relay[g] # NoRecord => relay'[g] = relay[g]  BY <1>5 DEF Published
      <4> QED  BY <1>7, <4>1, <4>2, <4>3, <4>4
    <3> QED  BY <3>1 DEF MarkersNamed
  <2>5. RelayElected'
    <3>1. ASSUME NEW g \in Epochs, relay'[g] # NoRecord
          PROVE  PendingFile(g)'.record = relay'[g]
      <4>1. relay'[g] = relay[g] \/ (g = e /\ relay'[g] = c)  BY <1>6
      <4>2. relay[g] # NoRecord => PendingFile(g).record = relay[g]
        BY DEF RingInv, FilesAgree, RelayElected, Published
      <4> QED  BY <1>2, <1>7, <3>1, <4>1, <4>2
    <3> QED  BY <3>1 DEF RelayElected, Published
  <2> QED  BY <2>1, <2>2, <2>3, <2>4, <2>5 DEF FilesAgree
<1>10. KeysHeld'  BY <1>1, <1>7 DEF RingInv, KeysHeld
<1>11. MailInTime'
  <2>1. ASSUME NEW s \in Senders, InTime(mail[s])  PROVE InTime(mail[s])'
    BY <1>1, <1>5, <1>7, <2>1 DEF InTime, Lasts, Published
  <2> QED  BY <2>1 DEF RingInv, MailInTime
<1>12. relay' \in [Epochs -> Records \cup {NoRecord}]
  BY <1>3, <1>4 DEF RingInv, TypeOK
<1>13. CASE Finish(p)
  <2>1. proc'[p] = Idle /\ Others(p)  BY <1>13 DEF Finish, Set, Others, RingInv, TypeOK
  <2>2. Memory(Idle)' /\ Stage(Idle)'
    BY <1>8, IdleMemory, MemoryStays, StageStays DEF RingInv
  <2>3. Remembered'  BY <1>8, <2>1, <2>2, OthersRemember DEF RingInv
  <2>4. Owned'
    <3>1. ~Writes(p)'  BY <2>1, IdleMemory DEF Writes, Writing
    <3> QED  BY <1>1, <2>1, <3>1, OwnedStays DEF RingInv
  <2>5. TypeOK'
    BY <1>1, <1>12, <1>13, IdleMemory DEF RingInv, TypeOK, CountsOK, Finish, Set
  <2> QED  BY <1>9, <1>10, <1>11, <2>3, <2>4, <2>5 DEF RingInv
<1>14. CASE Go(p, "mark") /\ (Advances(c) \/ Repeats(c))
  <2>1. m \in Process  BY <1>0 DEF Process, PCs, Entering
  <2>2. /\ m.pc = "mark" /\ m.ret = r.ret /\ m.keys = r.keys /\ m.base = r.base
        /\ m.stale = r.stale /\ m.record = r.record
    BY <1>0 DEF Process
  <2>3. Set(p, m)  BY <1>14 DEF Go
  <2> HIDE DEF m
  <2>4. proc'[p] = m /\ Others(p)  BY <2>3 DEF Set, Others, RingInv, TypeOK
  <2>5. PICK x \in Process : x = m  BY <2>1
  <2>6. /\ x.pc = "mark" /\ x.ret = r.ret /\ x.record = c /\ x.keys # NoKeys
        /\ x.keys.epoch = e /\ x.keys.epoch \in Epochs
    BY <1>2, <1>3, <2>2, <2>5
  <2>7. Memory(x)'
    <3>1. Memory(x)  BY <1>0, <2>2, <2>5 DEF Memory
    <3> QED  BY <1>8, <3>1, MemoryStays
  <2>8. relay'[x.keys.epoch] = x.record
    BY <1>2, <1>3, <1>4, <1>14, <2>6 DEF Repeats, RingInv, TypeOK
  <2>9. PendingFile(x.keys.epoch)'.record = x.record  BY <1>2, <1>7, <2>6
  <2>10. x.record # NoRecord /\ x.record.epoch = x.keys.epoch  BY <1>2, <2>6
  <2>11. Stage(x)'
    BY <2>6, <2>8, <2>9, <2>10
    DEF Stage, Loaded, Retaining, Electing, Choosing, Publishing
  <2>12. proc'[p] = x  BY <2>4, <2>5
  <2>13. Remembered'
    BY <1>8, <2>4, <2>7, <2>11, <2>12, OthersRemember DEF RingInv
  <2>14. Owned'
    <3>1. ~Writes(p)'  BY <2>6, <2>12 DEF Writes, Writing
    <3> QED  BY <1>1, <2>4, <3>1, OwnedStays DEF RingInv
  <2>15. TypeOK'
    BY <1>1, <1>12, <2>1, <2>3 DEF RingInv, TypeOK, CountsOK, Set
  <2> QED  BY <1>9, <1>10, <1>11, <2>13, <2>14, <2>15 DEF RingInv
<1> QED  BY <1>4, <1>13, <1>14

-----------------------------------------------------------------------------
(* Retirement and eviction.                                                *)

\* A private key is given up once its retained copy is there.
LEMMA TombstoneStep ==
    ASSUME RingInv, NEW p \in Procs, Tombstone(p)
    PROVE  RingInv'
<1> DEFINE r == proc[p]
           k == Retiring(p)
           left == r.stale \ {k}
           n == [r EXCEPT !.stale = left, !.pc = IF left # {} THEN "retain" ELSE r.then]
<1>0. r \in Process /\ Memory(r) /\ Stage(r)  BY ProcessIs
<1>1. /\ UNCHANGED <<now, lock, evicted, relay, mail>> /\ CountsOK' /\ r.pc = "tombstone"
  BY DEF Tombstone, RingInv, TypeOK, CountsOK, At
<1>2. \/ Finish(p) /\ UNCHANGED <<initial, file>>
      \/ /\ RetainedFile(k.epoch).pub = k.pub /\ Set(p, n)
         /\ \/ k.epoch = 1 /\ initial' = FALSE /\ file' = file
            \/ /\ k.epoch # 1 /\ initial' = initial
               /\ file' = [file EXCEPT ![<<"state", k.epoch>>].status = "retired"]
  BY DEF Tombstone
<1>3. CASE Finish(p) /\ UNCHANGED <<initial, file>>
  <2>1. Quiet  BY <1>1, <1>3 DEF Quiet
  <2> QED  BY <1>1, <1>3, <2>1, FinishStep
<1>4. CASE /\ RetainedFile(k.epoch).pub = k.pub /\ Set(p, n)
           /\ \/ k.epoch = 1 /\ initial' = FALSE /\ file' = file
              \/ /\ k.epoch # 1 /\ initial' = initial
                 /\ file' = [file EXCEPT ![<<"state", k.epoch>>].status = "retired"]
  <2>1. /\ k \in r.stale /\ k.epoch \in Epochs /\ r.pc \in Retaining
    <3>1. r.pc \in Retaining  BY <1>1 DEF Retaining
    <3> QED  BY <3>1, SlotHas
  <2>2. Known(k)  BY <1>0, <2>1 DEF Memory
  <2>3. PICK e \in Epochs : e = k.epoch  BY <2>1
  <2>4. RetainedFile(e).status = "whole"
    <3>1. RetainedFile(e).pub # NoKey  BY <1>4, <2>2, <2>3 DEF Known
    <3>2. ~Blank(RetainedFile(e))  BY <3>1, BlankFiles
    <3> QED  BY <3>2 DEF RingInv, FilesAgree, RetainedNamed, Named
  <2>5. e # 1 => /\ StateFile(e).pub # NoKey /\ ~Blank(StateFile(e))
                 /\ StateFile(e).status \in {"active", "retired"}
    <3>1. e # 1 => StateFile(e).pub # NoKey  BY <2>2, <2>3 DEF Known, EpochKey
    <3>2. e # 1 => ~Blank(StateFile(e))  BY <3>1, BlankFiles
    <3> QED  BY <3>1, <3>2 DEF RingInv, FilesAgree, StatesLinked
  <2>6. \/ e = 1 /\ initial' = FALSE /\ file' = file
        \/ /\ e # 1 /\ initial' = initial
           /\ file' = [file EXCEPT ![<<"state", e>>].status = "retired"]
    BY <1>4, <2>3
  <2>7. /\ n \in Process /\ n.stale = left /\ n.ret = r.ret /\ n.then = r.then
        /\ n.keys = r.keys /\ n.base = r.base /\ n.record = r.record
        /\ n.pc = (IF left # {} THEN "retain" ELSE r.then)
    <3>1. left \in SUBSET StoredKeys  BY <1>0 DEF Process
    <3>2. r.then \in {"idle", "marker", "root"} /\ {"idle", "marker", "root", "retain"} \subseteq PCs
      BY <1>0 DEF Process, PCs, Entering
    <3> HIDE DEF left
    <3> QED  BY <1>0, <3>1, <3>2 DEF Process
  <2>8. left \subseteq r.stale  OBVIOUS
  <2> HIDE DEF n, left
  <2>9. Memory(n)  BY <1>0, <2>7, <2>8 DEF Memory
  <2>10. r.then = "root" \/ (r.then = "marker" /\ r.keys # NoKeys)
    BY <1>0, <2>1 DEF Stage
  <2>11. Stage(n) /\ n.pc \notin Writing
    BY <1>0, <2>7, <2>10
    DEF Stage, Loaded, Retaining, Electing, Choosing, Publishing, Writing
  <2>12. \A s \in Slots : s # <<"state", e>> => file'[s] = file[s]
    BY <2>6 DEF RingInv, TypeOK
  <2>13. \A g \in Epochs : /\ RetainedFile(g)' = RetainedFile(g)
                           /\ PendingFile(g)' = PendingFile(g)
                           /\ PublishedFile(g)' = PublishedFile(g)
                           /\ g # e => StateFile(g)' = StateFile(g)
    BY <2>12 DEF Slots, Kinds, RetainedFile, PendingFile, PublishedFile, StateFile
  <2>14. \/ StateFile(e)' = StateFile(e)
         \/ /\ StateFile(e)' = [StateFile(e) EXCEPT !.status = "retired"] /\ e # 1
    <3>1. <<"state", e>> \in Slots  BY DEF Slots, Kinds
    <3> QED  BY <2>6, <3>1 DEF StateFile, RingInv, TypeOK
  <2>15. StateFile(e) \in File  BY FileType DEF RingInv
  <2>16. \A g \in Epochs : /\ StateFile(g)'.pub = StateFile(g).pub
                           /\ StateFile(g)'.record = StateFile(g).record
                           /\ \/ StateFile(g)' = StateFile(g)
                              \/ StateFile(g)'.status = "retired" /\ g = e /\ g # 1
    BY <2>13, <2>14, <2>15 DEF File
  <2>17. Grows  BY <1>1, <2>13, <2>16 DEF Grows
  <2>18. \A g \in Epochs : EpochKey(g)' = EpochKey(g) /\ Superseded(g)' = Superseded(g)
    BY <2>16 DEF EpochKey, Superseded
  <2>19. FilesAgree'
    <3>1. StatesLinked'
      <4>1. ASSUME NEW g \in Epochs
            PROVE  \/ Blank(StateFile(g))'
                   \/ /\ StateFile(g)'.status \in {"active", "retired"}
                      /\ g > 1 /\ StateFile(g)'.pub # NoKey
                      /\ StateFile(g)'.record # NoRecord
                      /\ relay'[g - 1] = StateFile(g)'.record
        <5>1. \/ Blank(StateFile(g))
              \/ /\ StateFile(g).status \in {"active", "retired"}
                 /\ g > 1 /\ StateFile(g).pub # NoKey
                 /\ StateFile(g).record # NoRecord
                 /\ relay[g - 1] = StateFile(g).record
          BY DEF RingInv, FilesAgree, StatesLinked
        <5>2. CASE StateFile(g)' = StateFile(g)
          BY <1>1, <5>1, <5>2 DEF Blank, Absent
        <5>3. CASE StateFile(g)'.status = "retired" /\ g = e /\ g # 1
          BY <1>1, <2>5, <2>16, <5>1, <5>3
        <5> QED  BY <2>16, <5>2, <5>3
      <4> QED  BY <4>1 DEF StatesLinked
    <3>2. RetainedNamed'
      BY <2>13, <2>18 DEF RingInv, FilesAgree, RetainedNamed, Blank, Absent, Named
    <3>3. PendingNamed'
      BY <2>13, <2>18 DEF RingInv, FilesAgree, PendingNamed, Blank, Absent, Named
    <3>4. MarkersNamed'
      BY <1>1, <2>13, <2>18 DEF RingInv, FilesAgree, MarkersNamed, Blank, Absent, Named
    <3>5. RelayElected'
      BY <1>1, <2>13 DEF RingInv, FilesAgree, RelayElected, Published
    <3> QED  BY <3>1, <3>2, <3>3, <3>4, <3>5 DEF FilesAgree
  <2>20. KeysHeld'
    BY <1>1, <2>4, <2>6, <2>13, <2>16 DEF RingInv, KeysHeld
  <2>21. MailInTime'
    <3>1. ASSUME NEW s \in Senders, InTime(mail[s])  PROVE InTime(mail[s])'
      BY <1>1, <2>13, <3>1 DEF InTime, Lasts, Published
    <3> QED  BY <3>1 DEF RingInv, MailInTime
  <2>22. proc'[p] = n /\ Others(p)  BY <1>4 DEF Set, Others, RingInv, TypeOK
  <2>23. PICK x \in Process : x = n  BY <2>7
  <2>24. Memory(x)' /\ Stage(x)'
    BY <2>9, <2>11, <2>17, <2>23, MemoryStays, StageStays DEF RingInv
  <2>25. proc'[p] = x  BY <2>22, <2>23
  <2>26. Remembered'
    BY <2>17, <2>22, <2>24, <2>25, OthersRemember DEF RingInv
  <2>27. Owned'
    <3>1. ~Writes(p)'  BY <2>11, <2>23, <2>25 DEF Writes
    <3>2. ASSUME NEW q \in Procs, Writes(q)
          PROVE  file'[Slot(q)] = file[Slot(q)]
      <4>1. /\ Slot(q) \in Slots
            /\ \/ file[Slot(q)].status = "partial"
               \/ file[Slot(q)] = Absent
        BY <3>2 DEF RingInv, TypeOK, Owned, Unlinked
      <4>2. file[Slot(q)].status \in {"partial", "absent"}  BY <4>1 DEF Absent
      <4>3. CASE Slot(q) # <<"state", e>>  BY <2>12, <4>1, <4>3
      <4>4. CASE Slot(q) = <<"state", e>>
        <5>1. e = 1  BY <2>5, <4>2, <4>4 DEF StateFile
        <5> QED  BY <2>6, <5>1
      <4> QED  BY <4>3, <4>4
    <3> QED  BY <1>1, <2>22, <3>1, <3>2, OwnedStays DEF RingInv
  <2>28. TypeOK'
    <3>1. initial' \in BOOLEAN  BY <2>6 DEF RingInv, TypeOK
    <3>2. file' \in [Slots -> File]
      <4>1. <<"state", e>> \in Slots  BY DEF Slots, Kinds
      <4>2. [file[<<"state", e>>] EXCEPT !.status = "retired"] \in File
        BY <2>15 DEF File, StateFile
      <4>3. file \in [Slots -> File]  BY DEF RingInv, TypeOK
      <4> QED  BY <2>6, <4>1, <4>2, <4>3
    <3>3. proc' \in [Procs -> Process]
      BY <1>4, <2>7 DEF RingInv, TypeOK, Set
    <3> QED  BY <1>1, <3>1, <3>2, <3>3 DEF RingInv, TypeOK, CountsOK
  <2> QED  BY <2>19, <2>20, <2>21, <2>26, <2>27, <2>28 DEF RingInv
<1> QED  BY <1>2, <1>3, <1>4

\* A live retained key makes room for the next epoch.
LEMMA UnlinkStep ==
    ASSUME RingInv, NEW p \in Procs, UnlinkRetained(p)
    PROVE  RingInv'
<1> DEFINE r == proc[p]
           b == [r EXCEPT !.old = 0]
           n == [b EXCEPT !.pc = "elect"]
<1>0. r \in Process /\ Memory(r) /\ Stage(r)  BY ProcessIs
<1>1. /\ UNCHANGED <<now, initial, lock, relay, mail>> /\ CountsOK' /\ r.pc = "unlink"
  BY DEF UnlinkRetained, RingInv, TypeOK, CountsOK, At
<1>2. \/ Finish(p) /\ UNCHANGED <<file, evicted>>
      \/ /\ file' = [file EXCEPT ![<<"retained", r.old>>] = Absent]
         /\ evicted' = evicted \cup {r.old}
         /\ AfterEviction(p, b)
  BY DEF UnlinkRetained
<1>3. CASE Finish(p) /\ UNCHANGED <<file, evicted>>
  <2>1. Quiet  BY <1>1, <1>3 DEF Quiet
  <2> QED  BY <1>1, <1>3, <2>1, FinishStep
<1>4. CASE /\ file' = [file EXCEPT ![<<"retained", r.old>>] = Absent]
           /\ evicted' = evicted \cup {r.old}
           /\ AfterEviction(p, b)
  <2>1. r.old \in Epochs  BY <1>0, <1>1 DEF Stage
  <2>2. PICK e \in Epochs : e = r.old  BY <2>1
  <2>3. /\ file' = [file EXCEPT ![<<"retained", e>>] = Absent]
        /\ evicted' = evicted \cup {e}
    BY <1>4, <2>2
  <2>4. \A s \in Slots : s # <<"retained", e>> => file'[s] = file[s]
    BY <2>3 DEF RingInv, TypeOK
  <2>5. file'[<<"retained", e>>] = Absent
    <3>1. <<"retained", e>> \in Slots  BY DEF Slots, Kinds
    <3> QED  BY <2>3, <3>1 DEF RingInv, TypeOK
  <2>6. \A g \in Epochs : /\ StateFile(g)' = StateFile(g)
                          /\ PendingFile(g)' = PendingFile(g)
                          /\ PublishedFile(g)' = PublishedFile(g)
                          /\ g # e => RetainedFile(g)' = RetainedFile(g)
    BY <2>4 DEF Slots, Kinds, RetainedFile, PendingFile, PublishedFile, StateFile
  <2>7. RetainedFile(e)' = Absent  BY <2>5 DEF RetainedFile
  <2>8. Grows  BY <1>1, <2>6 DEF Grows
  <2>9. \A g \in Epochs : EpochKey(g)' = EpochKey(g) /\ Superseded(g)' = Superseded(g)
    BY <2>6 DEF EpochKey, Superseded
  <2>10. FilesAgree'
    <3>1. StatesLinked'
      BY <1>1, <2>6 DEF RingInv, FilesAgree, StatesLinked, Blank, Absent
    <3>2. RetainedNamed'
      <4>1. ASSUME NEW g \in Epochs
            PROVE  /\ Blank(RetainedFile(g))' \/ Named(RetainedFile(g), g)'
                   /\ RetainedFile(g)' # Absent => Superseded(g)'
        <5>1. CASE g = e  BY <2>7, <5>1 DEF Blank, Absent
        <5>2. CASE g # e
          BY <2>6, <2>9, <5>2 DEF RingInv, FilesAgree, RetainedNamed, Blank, Absent, Named
        <5> QED  BY <5>1, <5>2
      <4> QED  BY <4>1 DEF RetainedNamed, Absent
    <3>3. PendingNamed'
      BY <2>6, <2>9 DEF RingInv, FilesAgree, PendingNamed, Blank, Absent, Named
    <3>4. MarkersNamed'
      BY <1>1, <2>6, <2>9 DEF RingInv, FilesAgree, MarkersNamed, Blank, Absent, Named
    <3>5. RelayElected'
      BY <1>1, <2>6 DEF RingInv, FilesAgree, RelayElected, Published
    <3> QED  BY <3>1, <3>2, <3>3, <3>4, <3>5 DEF FilesAgree
  <2>11. KeysHeld'  BY <1>1, <2>3, <2>6 DEF RingInv, KeysHeld
  <2>12. MailInTime'
    <3>1. ASSUME NEW g \in Epochs, NEW t, Lasts(g, t)  PROVE Lasts(g, t)'
      <4>1. CASE g = e  BY <2>7, <4>1 DEF Lasts, Absent
      <4>2. CASE g # e  BY <2>6, <3>1, <4>2 DEF Lasts
      <4> QED  BY <4>1, <4>2
    <3>2. ASSUME NEW s \in Senders, InTime(mail[s])  PROVE InTime(mail[s])'
      BY <1>1, <3>1, <3>2 DEF InTime, Published
    <3> QED  BY <3>2 DEF RingInv, MailInTime
  <2>13. b \in Process
    <3>1. 0 \in 0..MaxEpoch  BY Constants
    <3> QED  BY <1>0, <3>1 DEF Process
  <2>14. /\ b.base = r.base /\ b.keys = r.keys /\ b.ret = r.ret
         /\ b.stale = r.stale /\ b.record = r.record
    BY <1>0 DEF Process
  <2>15. b.ret = "choose" => b.record # NoRecord  BY <1>0, <2>14 DEF Stage
  <2> HIDE DEF b
  <2>16. Memory(b)  BY <1>0, <2>14 DEF Memory
  <2>17. PICK x \in Process : /\ Set(p, x) /\ Memory(x) /\ Stage(x)
                              /\ x.pc \notin Writing
    <3>1. CASE b.base.published = NoRecord \/ b.base.epoch >= MaxEpoch
      <4>1. Set(p, Idle)  BY <1>4, <3>1 DEF AfterEviction
      <4>2. Idle.pc \notin Writing  BY IdleMemory DEF Writing
      <4> QED  BY <4>1, <4>2, IdleMemory
    <3>2. CASE ~(b.base.published = NoRecord \/ b.base.epoch >= MaxEpoch)
      <4>1. b.base.published # NoRecord /\ b.base.epoch < MaxEpoch
        BY <2>13, <3>2, Constants DEF Process, StoredKeys
      <4>2. n \in Process /\ Memory(n) /\ Stage(n) /\ n.pc \notin Writing
        BY <2>13, <2>15, <2>16, <4>1, AfterEvictionStage
      <4>3. Set(p, n)  BY <1>4, <3>2 DEF AfterEviction
      <4> HIDE DEF n
      <4> QED  BY <4>2, <4>3
    <3> QED  BY <3>1, <3>2
  <2>18. proc'[p] = x /\ Others(p)  BY <2>17 DEF Set, Others, RingInv, TypeOK
  <2>19. Memory(x)' /\ Stage(x)'
    BY <2>8, <2>17, MemoryStays, StageStays DEF RingInv
  <2>20. Remembered'  BY <2>8, <2>18, <2>19, OthersRemember DEF RingInv
  <2>21. Owned'
    <3>1. ~Writes(p)'  BY <2>17, <2>18 DEF Writes
    <3>2. ASSUME NEW q \in Procs, Writes(q)
          PROVE  \/ file'[Slot(q)] = file[Slot(q)]
                 \/ proc[q].pc = "retaining" /\ file'[Slot(q)] = Absent
      <4>1. Slot(q) \in Slots  BY <3>2 DEF RingInv, TypeOK, Owned
      <4>2. CASE Slot(q) # <<"retained", e>>  BY <2>4, <4>1, <4>2
      <4>3. CASE Slot(q) = <<"retained", e>>
        <5>1. proc[q].pc = "retaining"
          BY <3>2, <4>3 DEF Writes, Writing, Slot, Election
        <5> QED  BY <2>5, <4>3, <5>1
      <4> QED  BY <4>2, <4>3
    <3> QED  BY <1>1, <2>18, <3>1, <3>2, OwnedStays DEF RingInv
  <2>22. TypeOK'
    <3>1. file' \in [Slots -> File]
      <4>1. Absent \in File  BY DEF Absent, File
      <4> QED  BY <2>3, <4>1 DEF RingInv, TypeOK
    <3>2. proc' \in [Procs -> Process]  BY <2>17 DEF RingInv, TypeOK, Set
    <3>3. evicted' \subseteq Epochs  BY <2>3 DEF RingInv, TypeOK
    <3> QED  BY <1>1, <3>1, <3>2, <3>3 DEF RingInv, TypeOK, CountsOK
  <2> QED  BY <2>10, <2>11, <2>12, <2>20, <2>21, <2>22 DEF RingInv
<1> QED  BY <1>2, <1>3, <1>4

-----------------------------------------------------------------------------
(* Peers and time.                                                         *)

\* A step of the peers or the clock changes no more than what is in the mail.
LEMMA MailStep ==
    ASSUME RingInv, UNCHANGED <<disk, identity, relay, proc, ops, crashes>>,
           now' \in Nat, mail' \in [Senders -> Mail], MailInTime'
    PROVE  RingInv'
<1>1. FilesAgree' /\ KeysHeld' /\ Grows  BY StillAgrees DEF disk
<1>2. TypeOK'  BY DEF RingInv, TypeOK, disk
<1>3. Remembered'
  <2>1. ASSUME NEW p \in Procs  PROVE (Memory(proc[p]) /\ Stage(proc[p]))'
    <3>1. PICK x \in Process : x = proc[p]  BY ProcessIs
    <3>2. Memory(x) /\ Stage(x)  BY <3>1, ProcessIs
    <3>3. Memory(x)' /\ Stage(x)'
      BY <1>1, <3>2, MemoryStays, StageStays DEF RingInv
    <3>4. proc'[p] = x  BY <3>1
    <3> QED  BY <3>3, <3>4
  <2> QED  BY <2>1 DEF Remembered
<1>4. Owned'
  <2>1. ASSUME NEW p \in Procs, Writes(p)'  PROVE Writes(p) /\ Slot(p)' = Slot(p)
    BY <2>1, SlotStays DEF Writes
  <2>2. file' = file /\ lock' = lock /\ proc' = proc  BY DEF disk
  <2>3. ASSUME NEW p \in Procs, Writes(p)'
        PROVE  /\ Slot(p)' \in lock'
               /\ \/ file'[Slot(p)'].status = "partial"
                  \/ file'[Slot(p)'] = Absent /\ proc'[p].pc = "retaining"
               /\ \A q \in Procs \ {p} : Writes(q)' => Slot(q)' # Slot(p)'
    <3>1. Writes(p) /\ Slot(p)' = Slot(p)  BY <2>1, <2>3
    <3>2. /\ Slot(p) \in lock
          /\ \/ file[Slot(p)].status = "partial"
             \/ file[Slot(p)] = Absent /\ proc[p].pc = "retaining"
          /\ \A q \in Procs \ {p} : Writes(q) => Slot(q) # Slot(p)
      BY <3>1 DEF RingInv, Owned, Unlinked
    <3>3. \A q \in Procs \ {p} : Writes(q)' => Slot(q)' # Slot(p)'
      BY <2>1, <3>1, <3>2
    <3> QED  BY <2>2, <3>1, <3>2, <3>3
  <2> QED  BY <2>3 DEF Owned, Unlinked, Absent
<1> QED  BY <1>1, <1>2, <1>3, <1>4 DEF RingInv

\* A peer fetches the newest record: while no later epoch is elected, nobody
\* retains a copy of that epoch's key yet.
LEMMA FetchStep ==
    ASSUME RingInv, NEW s \in Senders, FetchKeys(s)
    PROVE  RingInv'
<1> DEFINE P == {e \in Epochs : Published(e)}
           c == \A e \in Epochs : e > NewestEpoch => StateFile(e) = Absent
           m == [phase |-> "fetched", epoch |-> NewestEpoch, at |-> now, current |-> c]
<1>1. UNCHANGED <<now, disk, identity, relay, proc, ops, crashes>>
  BY DEF FetchKeys
<1>2. mail' = [mail EXCEPT ![s] = m]  BY DEF FetchKeys
<1>3. NewestEpoch \in Epochs /\ Published(NewestEpoch)
  <2>1. P \in SUBSET Epochs /\ P # {}  BY DEF FetchKeys
  <2>2. Greatest(P) \in P
    <3> HIDE DEF P
    <3> QED  BY <2>1, GreatestIn
  <2> QED  BY <2>2 DEF NewestEpoch
<1>4. c \in BOOLEAN /\ now \in Nat /\ NewestEpoch \in 0..MaxEpoch
  BY <1>3, Constants DEF RingInv, TypeOK, Epochs
<1>5. c => RetainedFile(NewestEpoch) = Absent
  <2>1. SUFFICES ASSUME c, RetainedFile(NewestEpoch) # Absent PROVE FALSE
    OBVIOUS
  <2>2. Superseded(NewestEpoch)
    BY <1>3, <2>1 DEF RingInv, FilesAgree, RetainedNamed
  <2>3. PICK f \in Epochs : f > NewestEpoch /\ StateFile(f).pub # NoKey
    BY <2>2 DEF Superseded
  <2>4. StateFile(f) = Absent  BY <2>1, <2>3
  <2> QED  BY <2>3, <2>4 DEF Absent
<1>6. PICK x \in Mail : /\ x = m /\ x.phase = "fetched" /\ x.epoch = NewestEpoch
                        /\ x.at = now /\ x.current = c
  <2> HIDE DEF c
  <2>1. m \in Mail  BY <1>4 DEF Mail
  <2>2. /\ m.phase = "fetched" /\ m.epoch = NewestEpoch
        /\ m.at = now /\ m.current = c
    OBVIOUS
  <2> HIDE DEF m
  <2> QED  BY <2>1, <2>2
<1> HIDE DEF m, c
<1>7. mail' = [mail EXCEPT ![s] = x]  BY <1>2, <1>6
<1>8. mail' \in [Senders -> Mail]  BY <1>7 DEF RingInv, TypeOK
<1>9. /\ \A e \in Epochs : RetainedFile(e)' = RetainedFile(e) /\ Published(e)' = Published(e)
  BY <1>1 DEF RetainedFile, Published, disk
<1>10. InTime(x)'
  <2>1. x.epoch \in Epochs /\ Published(x.epoch)'  BY <1>3, <1>6, <1>9
  <2>2. x.current => Lasts(x.epoch, x.at + SendDelay + MailboxTtl)'
    BY <1>3, <1>5, <1>6, <1>9 DEF Lasts, Absent
  <2>3. now' = now /\ now <= now + SendDelay  BY <1>1, <1>4, Constants
  <2> QED  BY <1>4, <1>6, <2>1, <2>2, <2>3 DEF InTime
<1>11. MailInTime'
  <2>1. ASSUME NEW t \in Senders  PROVE InTime(mail[t])'
    <3>1. CASE t = s
      <4>1. mail'[t] = x  BY <1>7, <3>1 DEF RingInv, TypeOK
      <4> QED  BY <1>10, <4>1
    <3>2. CASE t # s
      <4>1. mail'[t] = mail[t] /\ InTime(mail[t])
        BY <1>7, <3>2 DEF RingInv, TypeOK, MailInTime
      <4>2. \A y : InTime(y) => InTime(y)'  BY <1>1, <1>9 DEF InTime, Lasts
      <4> QED  BY <4>1, <4>2
    <3> QED  BY <3>1, <3>2
  <2> QED  BY <2>1 DEF MailInTime
<1> QED  BY <1>1, <1>4, <1>8, <1>11, MailStep

\* A frame is sealed in the time that was left for it.
LEMMA SealStep ==
    ASSUME RingInv, NEW s \in Senders, SealAndSend(s)
    PROVE  RingInv'
<1> DEFINE m == mail[s]
           n == [m EXCEPT !.phase = "sent", !.at = now]
<1>0. m \in Mail /\ InTime(m) /\ m.phase = "fetched" /\ now \in Nat
  BY DEF SealAndSend, RingInv, TypeOK, MailInTime
<1>1. UNCHANGED <<now, disk, identity, relay, proc, ops, crashes>>
  BY DEF SealAndSend
<1>2. mail' = [mail EXCEPT ![s] = n]  BY DEF SealAndSend, RingInv, TypeOK
<1>3. PICK x \in Mail : /\ x = n /\ x.phase = "sent" /\ x.epoch = m.epoch
                        /\ x.at = now /\ x.current = m.current
  <2>1. n \in Mail  BY <1>0 DEF Mail
  <2>2. /\ n.phase = "sent" /\ n.epoch = m.epoch
        /\ n.at = now /\ n.current = m.current
    BY <1>0 DEF Mail
  <2> HIDE DEF n
  <2> QED  BY <2>1, <2>2
<1> HIDE DEF n
<1>4. mail' = [mail EXCEPT ![s] = x]  BY <1>2, <1>3
<1>5. mail' \in [Senders -> Mail]  BY <1>4 DEF RingInv, TypeOK
<1>6. \A e \in Epochs : RetainedFile(e)' = RetainedFile(e) /\ Published(e)' = Published(e)
                        /\ RetainedFile(e) \in File
  BY <1>1, FileType DEF RetainedFile, Published, disk, RingInv
<1>7. m.epoch \in Epochs /\ Published(m.epoch)  BY <1>0 DEF InTime
<1>8. x.current => Lasts(x.epoch, x.at + MailboxTtl)'
  <2>1. SUFFICES ASSUME m.current, RetainedFile(m.epoch).status = "whole"
                 PROVE  now + MailboxTtl <= RetainedFile(m.epoch).until
    BY <1>3, <1>6, <1>7 DEF Lasts
  <2>2. /\ now <= m.at + SendDelay
        /\ m.at + SendDelay + MailboxTtl <= RetainedFile(m.epoch).until
    BY <1>0, <2>1 DEF InTime, Lasts
  <2>3. RetainedFile(m.epoch).until \in Nat /\ m.at \in Nat
    BY <1>0, <1>6, <1>7 DEF File, Mail
  <2> HIDE DEF m
  <2> QED  BY <1>0, <2>2, <2>3, Constants
<1>9. InTime(x)'
  <2>1. x.epoch \in Epochs /\ Published(x.epoch)'  BY <1>3, <1>6, <1>7
  <2>2. now' = now /\ now < now + MailboxTtl  BY <1>0, <1>1, Constants
  <2> QED  BY <1>0, <1>3, <1>8, <2>1, <2>2 DEF InTime
<1>10. MailInTime'
  <2>1. ASSUME NEW t \in Senders  PROVE InTime(mail[t])'
    <3>1. CASE t = s
      <4>1. mail'[t] = x  BY <1>4, <3>1 DEF RingInv, TypeOK
      <4> QED  BY <1>9, <4>1
    <3>2. CASE t # s
      <4>1. mail'[t] = mail[t] /\ InTime(mail[t])
        BY <1>4, <3>2 DEF RingInv, TypeOK, MailInTime
      <4>2. \A y : InTime(y) => InTime(y)'  BY <1>1, <1>6 DEF InTime, Lasts
      <4> QED  BY <4>1, <4>2
    <3> QED  BY <3>1, <3>2
  <2> QED  BY <2>1 DEF MailInTime
<1> QED  BY <1>0, <1>1, <1>5, <1>10, MailStep

\* Time passes: what is out of its time is gone.
LEMMA TickStep ==
    ASSUME RingInv, Tick
    PROVE  RingInv'
<1>1. /\ UNCHANGED <<disk, identity, relay, proc, ops, crashes>>
      /\ now \in Nat /\ now' = now + 1
  BY DEF Tick, RingInv, TypeOK
<1>2. \A e \in Epochs : RetainedFile(e)' = RetainedFile(e) /\ Published(e)' = Published(e)
  BY <1>1 DEF RetainedFile, Published, disk
<1>3. PICK g \in Mail : g = Gone /\ g.phase = "gone"
  <2>0. NoMail \in Mail  BY Constants DEF NoMail, Mail
  <2>1. Gone \in Mail /\ Gone.phase = "gone"  BY <2>0 DEF Gone, Mail
  <2> QED  BY <2>1
<1>4. ASSUME NEW s \in Senders
      PROVE  mail'[s] \in Mail /\ InTime(mail[s])'
  <2> DEFINE m == mail[s]
  <2>0. m \in Mail /\ InTime(m)  BY DEF RingInv, TypeOK, MailInTime
  <2>1. mail'[s] = IF \/ m.phase = "fetched" /\ now' > m.at + SendDelay
                      \/ m.phase = "sent" /\ now' >= m.at + MailboxTtl
                   THEN Gone ELSE m
    BY DEF Tick
  <2>2. CASE mail'[s] = Gone
    <3>1. InTime(g)'  BY <1>3 DEF InTime
    <3> QED  BY <1>3, <2>2, <3>1
  <2>3. CASE mail'[s] # Gone
    <3>1. /\ mail'[s] = m
          /\ m.phase = "fetched" => ~(now' > m.at + SendDelay)
          /\ m.phase = "sent" => ~(now' >= m.at + MailboxTtl)
      BY <2>1, <2>3
    <3>2. m.at \in Nat  BY <2>0 DEF Mail
    <3>3. PICK x \in Mail : x = m  BY <2>0
    <3>4. /\ m.phase = "fetched" => now' <= m.at + SendDelay
          /\ m.phase = "sent" => now' < m.at + MailboxTtl
          /\ m.at <= now => m.at <= now'
      <4> HIDE DEF m
      <4> QED  BY <1>1, <3>1, <3>2, Constants
    <3>5. InTime(x)'
      <4>1. InTime(x)  BY <2>0, <3>3
      <4> QED  BY <1>2, <3>3, <3>4, <4>1 DEF InTime, Lasts
    <3> QED  BY <3>1, <3>3, <3>5
  <2> QED  BY <2>2, <2>3
<1>5. mail' \in [Senders -> Mail]
  <2>1. mail' = [s \in Senders |-> mail'[s]]  BY DEF Tick
  <2> QED  BY <1>4, <2>1
<1>6. MailInTime'  BY <1>4 DEF MailInTime
<1> QED  BY <1>1, <1>5, <1>6, MailStep

-----------------------------------------------------------------------------
(* The invariant.                                                          *)

\* What setup leaves: nothing is published, or the first key is.
LEMMA RingStarts == Init => RingInv
<1> SUFFICES ASSUME Init PROVE RingInv
  OBVIOUS
<1>1. /\ now = 0 /\ initial = TRUE /\ lock = {} /\ jobs = {} /\ evicted = {}
      /\ mail = [s \in Senders |-> NoMail] /\ proc = [p \in Procs |-> Idle]
      /\ ops = 0 /\ crashes = 0
  BY DEF Init
<1>2. PICK r, f :
        /\ identity \in BOOLEAN /\ r \in Records \cup {NoRecord} /\ f \in File
        /\ relay = [e \in Epochs |-> IF e = 1 THEN r ELSE NoRecord]
        /\ file = [s \in Slots |->
             IF s \in {<<"pending", 1>>, <<"published", 1>>} THEN f ELSE Absent]
        /\ \/ r = NoRecord /\ f = Absent
           \/ /\ r # NoRecord /\ r.epoch = 1 /\ r.pub = FirstKey
              /\ f.status = "whole" /\ f.pub = FirstKey /\ f.record = r
  <2>1. CASE /\ identity = FALSE /\ relay = [e \in Epochs |-> NoRecord]
             /\ file = [s \in Slots |-> Absent]
    <3>1. Absent \in File  BY DEF Absent, File
    <3>2. relay = [e \in Epochs |-> IF e = 1 THEN NoRecord ELSE NoRecord]
      BY <2>1
    <3>3. file = [s \in Slots |->
            IF s \in {<<"pending", 1>>, <<"published", 1>>} THEN Absent ELSE Absent]
      BY <2>1
    <3> QED  BY <2>1, <3>1, <3>2, <3>3
  <2>2. ASSUME NEW p \in Procs, NEW r, NEW f,
               r = [epoch |-> 1, pub |-> FirstKey, by |-> p],
               f = [status |-> "whole", pub |-> FirstKey, record |-> r, until |-> 0],
               identity = TRUE,
               relay = [e \in Epochs |-> IF e = 1 THEN r ELSE NoRecord],
               file = [s \in Slots |->
                 IF s \in {<<"pending", 1>>, <<"published", 1>>} THEN f ELSE Absent]
        PROVE  /\ r \in Records /\ f \in File
               /\ r # NoRecord /\ r.epoch = 1 /\ r.pub = FirstKey
               /\ f.status = "whole" /\ f.pub = FirstKey /\ f.record = r
    <3>1. r \in Records  BY <2>2, Constants DEF Records, Keys
    <3>2. f \in File  BY <2>2, <3>1 DEF File, Keys
    <3> QED  BY <2>2, <3>1, <3>2, Constants
  <2>3. CASE \E p \in Procs :
               LET r == [epoch |-> 1, pub |-> FirstKey, by |-> p]
                   f == [status |-> "whole", pub |-> FirstKey, record |-> r, until |-> 0]
               IN /\ identity = TRUE
                  /\ relay = [e \in Epochs |-> IF e = 1 THEN r ELSE NoRecord]
                  /\ file = [s \in Slots |->
                       IF s \in {<<"pending", 1>>, <<"published", 1>>} THEN f ELSE Absent]
    <3>1. \E p \in Procs : \E r, f :
               /\ r = [epoch |-> 1, pub |-> FirstKey, by |-> p]
               /\ f = [status |-> "whole", pub |-> FirstKey, record |-> r, until |-> 0]
               /\ identity = TRUE
               /\ relay = [e \in Epochs |-> IF e = 1 THEN r ELSE NoRecord]
               /\ file = [s \in Slots |->
                    IF s \in {<<"pending", 1>>, <<"published", 1>>} THEN f ELSE Absent]
      BY <2>3
    <3>2. PICK p \in Procs : \E r, f :
               /\ r = [epoch |-> 1, pub |-> FirstKey, by |-> p]
               /\ f = [status |-> "whole", pub |-> FirstKey, record |-> r, until |-> 0]
               /\ identity = TRUE
               /\ relay = [e \in Epochs |-> IF e = 1 THEN r ELSE NoRecord]
               /\ file = [s \in Slots |->
                    IF s \in {<<"pending", 1>>, <<"published", 1>>} THEN f ELSE Absent]
      BY <3>1
    <3> QED  BY <2>2, <3>2
  <2> QED  BY <2>1, <2>3 DEF Init
<1>3. /\ \A e \in Epochs : /\ StateFile(e) = Absent /\ RetainedFile(e) = Absent
                           /\ PendingFile(e) = (IF e = 1 THEN f ELSE Absent)
                           /\ PublishedFile(e) = (IF e = 1 THEN f ELSE Absent)
                           /\ relay[e] = (IF e = 1 THEN r ELSE NoRecord)
  BY <1>2 DEF Slots, Kinds, StateFile, RetainedFile, PendingFile, PublishedFile
<1>4. Blank(Absent) /\ Absent \in File /\ Absent.status = "absent"
      /\ Absent.record = NoRecord
  BY DEF Blank, Absent, File
<1>5. NoMail \in Mail /\ NoMail.phase = "none"  BY Constants DEF NoMail, Mail
<1>6. TypeOK
  <2>1. file \in [Slots -> File] /\ relay \in [Epochs -> Records \cup {NoRecord}]
    BY <1>2, <1>4
  <2>2. mail \in [Senders -> Mail] /\ proc \in [Procs -> Process]
    BY <1>1, <1>5, IdleMemory
  <2> QED  BY <1>1, <1>2, <2>1, <2>2 DEF TypeOK
<1>7. FilesAgree
  <2>1. StatesLinked /\ RetainedNamed  BY <1>3, <1>4 DEF StatesLinked, RetainedNamed
  <2>2. EpochKey(1) = FirstKey /\ FirstKey # NoKey  BY Constants DEF EpochKey, Keys
  <2>3. PendingNamed /\ MarkersNamed /\ RelayElected
    BY <1>2, <1>3, <1>4, <2>2
    DEF PendingNamed, MarkersNamed, RelayElected, Named, Published
  <2> QED  BY <2>1, <2>3 DEF FilesAgree
<1>8. KeysHeld  BY <1>1, <1>3, <1>4 DEF KeysHeld
<1>9. Remembered  BY <1>1, IdleMemory DEF Remembered
<1>10. Owned  BY <1>1, IdleMemory DEF Owned, Writes, Writing
<1>11. MailInTime  BY <1>1, <1>5 DEF MailInTime, InTime
<1> QED  BY <1>6, <1>7, <1>8, <1>9, <1>10, <1>11 DEF RingInv

\* Every step keeps the invariant.
LEMMA RingKept == RingInv /\ [Next]_vars => RingInv'
<1> SUFFICES ASSUME RingInv, [Next]_vars PROVE RingInv'
  OBVIOUS
<1>1. CASE UNCHANGED vars
  <2>1. /\ UNCHANGED <<disk, identity, relay, proc, ops, crashes>>
        /\ UNCHANGED <<now, mail>>
    BY <1>1 DEF vars
  <2>2. now' \in Nat /\ mail' \in [Senders -> Mail]  BY <2>1 DEF RingInv, TypeOK
  <2>3. MailInTime'
    BY <2>1 DEF RingInv, MailInTime, InTime, Lasts, RetainedFile, Published, disk
  <2> QED  BY <2>1, <2>2, <2>3, MailStep
<1>2. CASE Tick  BY <1>2, TickStep
<1>3. ASSUME NEW s \in Senders, FetchKeys(s) \/ SealAndSend(s)  PROVE RingInv'
  BY <1>3, FetchStep, SealStep
<1>4. ASSUME NEW p \in Procs, Step(p)  PROVE RingInv'
  <2>1. CASE Enter(p)  BY <2>1, EnterStep
  <2>2. CASE Write(p) \/ WriteFails(p)  BY <2>2, WriteStep
  <2>3. CASE GiveUp(p) \/ StartRotate(p) \/ StartPublish(p) \/ StartCall(p)
    BY <2>3, StartStep
  <2>4. CASE LoadRoot(p) \/ ListEpochStates(p)  BY <2>4, LoadRootStep
  <2>5. CASE ReadEpochStates(p)  BY <2>5, ReadStatesStep
  <2>6. CASE LoadPublishedEpoch(p)  BY <2>6, LoadMarkerStep
  <2>7. CASE Tombstone(p)  BY <2>7, TombstoneStep
  <2>8. CASE ConsiderEviction(p)  BY <2>8, ConsiderStep
  <2>9. CASE UnlinkRetained(p)  BY <2>9, UnlinkStep
  <2>10. CASE ReadElected(p)  BY <2>10, ReadElectedStep
  <2>11. CASE PutIdentity(p) \/ LookForPending(p)  BY <2>11, LookStep
  <2>12. CASE ChoosePending(p) \/ ReadChosen(p)  BY <2>12, ChooseStep
  <2>13. CASE PutEncryptionKey(p)  BY <2>13, PutStep
  <2>14. CASE ReadMarker(p) \/ RememberJob(p)  BY <2>14, NoteStep
  <2>15. CASE Crash(p)  BY <2>15, CrashStep
  <2> QED
    BY <1>4, <2>1, <2>2, <2>3, <2>4, <2>5, <2>6, <2>7, <2>8, <2>9, <2>10, <2>11,
       <2>12, <2>13, <2>14, <2>15 DEF Step
<1> QED  BY <1>1, <1>2, <1>3, <1>4 DEF Next

\* The invariant holds in every behaviour of the ring.
THEOREM RingInvariant == Spec => []RingInv
<1>1. Init => RingInv  BY RingStarts
<1>2. RingInv /\ [Next]_vars => RingInv'  BY RingKept
<1> QED  BY <1>1, <1>2, PTL DEF Spec

-----------------------------------------------------------------------------
(* What the project checks of the ring.                                    *)

\* A published epoch has an elected key, which its record names.
LEMMA PublishedKey ==
    ASSUME RingInv, NEW e \in Epochs, Published(e)
    PROVE  /\ relay[e] = PendingFile(e).record /\ relay[e].pub = EpochKey(e)
           /\ e = 1 \/ (/\ StateFile(e).status \in {"active", "retired"}
                        /\ StateFile(e).record # NoRecord
                        /\ relay[e - 1] = StateFile(e).record)
<1>1. PendingFile(e).record = relay[e] /\ relay[e] # NoRecord
  BY DEF RingInv, FilesAgree, RelayElected, Published
<1>2. ~Blank(PendingFile(e))  BY <1>1, BlankFiles
<1>3. /\ PendingFile(e).pub = EpochKey(e) /\ EpochKey(e) # NoKey
      /\ relay[e].pub = EpochKey(e)
  BY <1>1, <1>2 DEF RingInv, FilesAgree, PendingNamed, Named
<1>4. e # 1 => ~Blank(StateFile(e))  BY <1>3, BlankFiles DEF EpochKey
<1> QED  BY <1>1, <1>3, <1>4 DEF RingInv, FilesAgree, StatesLinked

\* An epoch has one key, whatever files and records name it: the processes
\* that raced for its slots all work with what the first writers put there.
THEOREM EpochsAgree == Spec => []EpochAgrees
<1>1. RingInv => EpochAgrees
  <2>1. SUFFICES ASSUME RingInv, NEW e \in Epochs
                 PROVE  Cardinality(KeysNamed(e) \ {NoKey}) <= 1
    BY DEF EpochAgrees
  <2>2. ASSUME NEW f, Blank(f) \/ Named(f, e)  PROVE f.pub \in {NoKey, EpochKey(e)}
    BY <2>2, BlankFiles DEF Named
  <2>3. \A f \in {RetainedFile(e), PendingFile(e), PublishedFile(e)} :
          f.pub \in {NoKey, EpochKey(e)}
    BY <2>1, <2>2
    DEF RingInv, FilesAgree, RetainedNamed, PendingNamed, MarkersNamed
  <2>4. Published(e) => relay[e].pub = EpochKey(e)  BY <2>1, PublishedKey
  <2>5. \A k \in KeysNamed(e) \ {NoKey} : k = EpochKey(e)
    BY <2>3, <2>4 DEF KeysNamed, EpochKey
  <2>6. KeysNamed(e) \ {NoKey} = {} \/ KeysNamed(e) \ {NoKey} = {EpochKey(e)}
    BY <2>5
  <2>7. Cardinality({}) = 0 /\ Cardinality({EpochKey(e)}) = 1
    BY FS_EmptySet, FS_Singleton
  <2> QED  BY <2>6, <2>7
<1> QED  BY <1>1, RingInvariant, PTL

\* The relay's records are one chain without gaps: an epoch is elected only on
\* top of a record the relay has accepted, and published only when elected.
THEOREM ChainIsUnbroken == Spec => []ChainUnbroken
<1>1. RingInv => ChainUnbroken
  BY PublishedKey, Constants DEF ChainUnbroken, Published
<1> QED  BY <1>1, RingInvariant, PTL

\* The relay refuses only a record that a later epoch has superseded: all
\* records of one epoch that reach it are the one elected for publication.
THEOREM RefusalsJustified == Spec => []RefusedOnlyIfSuperseded
<1>1. RingInv => RefusedOnlyIfSuperseded
  <2>1. SUFFICES ASSUME RingInv, NEW p \in Procs, Refused(p)
                 PROVE  \E e \in Epochs : Published(e) /\ e > proc[p].record.epoch
    BY DEF RefusedOnlyIfSuperseded
  <2> DEFINE c == proc[p].record
  <2>2. /\ proc[p].pc = "put" /\ ~Advances(c) /\ ~Repeats(c)  BY <2>1 DEF Refused, At
  <2>3. proc[p] \in Process /\ Memory(proc[p]) /\ Stage(proc[p])  BY <2>1, ProcessIs
  <2>4. /\ c.epoch = proc[p].keys.epoch /\ PendingFile(c.epoch).record = c
        /\ proc[p].keys # NoKeys
    BY <2>2, <2>3 DEF Stage, Publishing, Loaded
  <2>5. c.epoch \in Epochs  BY <2>3, <2>4 DEF Memory, Known
  <2>6. PICK e \in Epochs : Published(e) /\ ~(e < c.epoch)  BY <2>2 DEF Advances
  <2>7. CASE e > c.epoch  BY <2>6, <2>7
  <2>8. CASE ~(e > c.epoch)
    <3>0. PICK n \in Nat : n = c.epoch  BY <2>5, Constants
    <3> HIDE DEF c
    <3>1. e = c.epoch  BY <2>6, <2>8, <3>0, Constants
    <3>2. relay[c.epoch] = c  BY <2>1, <2>4, <2>6, <3>1, PublishedKey
    <3>3. PICK g \in Epochs : Published(g) /\ ~(g <= c.epoch)
      BY <2>2, <3>2 DEF Repeats
    <3>4. g > c.epoch  BY <3>0, <3>3, Constants
    <3> QED  BY <3>3, <3>4 DEF c
  <2> QED  BY <2>7, <2>8
<1> QED  BY <1>1, RingInvariant, PTL

\* Mail sealed to an epoch that was the newest can be opened until the mailbox
\* drops it: a private key is given up only once a copy is retained, and the
\* copy outlasts every frame that may still be sealed to the key.
THEOREM MailStaysOpen == Spec => []MailOpens
<1>1. RingInv => MailOpens
  <2>1. SUFFICES ASSUME RingInv, NEW s \in Senders, mail[s].phase = "sent",
                        mail[s].current, mail[s].epoch \notin evicted
                 PROVE  PrivateKeyKept(mail[s].epoch)
    BY DEF MailOpens
  <2>2. PICK e \in Epochs : e = mail[s].epoch /\ Published(e)
    BY <2>1 DEF RingInv, MailInTime, InTime
  <2>3. /\ now < mail[s].at + MailboxTtl /\ mail[s].at \in Nat /\ now \in Nat
        /\ Lasts(e, mail[s].at + MailboxTtl)
    BY <2>1, <2>2 DEF RingInv, MailInTime, InTime, TypeOK, Mail
  <2>4. CASE e = 1 /\ initial  BY <2>2, <2>4 DEF PrivateKeyKept
  <2>5. CASE StateFile(e).status = "active"  BY <2>2, <2>5 DEF PrivateKeyKept
  <2>6. CASE (e = 1 /\ ~initial) \/ StateFile(e).status = "retired"
    <3>1. RetainedFile(e).status = "whole"
      BY <2>1, <2>2, <2>6 DEF RingInv, KeysHeld
    <3>2. mail[s].at + MailboxTtl <= RetainedFile(e).until  BY <2>3, <3>1 DEF Lasts
    <3>3. RetainedFile(e).until \in Nat  BY <2>1, FileType DEF RingInv, File
    <3>4. now < RetainedFile(e).until  BY <2>3, <3>2, <3>3, Constants
    <3> QED  BY <2>2, <3>1, <3>4 DEF PrivateKeyKept
  <2> QED  BY <2>1, <2>2, <2>4, <2>5, <2>6, PublishedKey
<1> QED  BY <1>1, RingInvariant, PTL
=============================================================================
