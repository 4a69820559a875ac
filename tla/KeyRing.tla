------------------------------- MODULE KeyRing -------------------------------
(***************************************************************************)
(* The encryption-key ring of one installation (packages/cli/src/keys.ts), *)
(* its publication (api.ts) at the relay's key registry (relay keys.ts),   *)
(* and the peers who fetch a record and seal mail to it.  Several          *)
(* processes share the ring's directory.  There is no lock around an       *)
(* operation: each epoch's files are slots that the first writer wins,     *)
(* under a lock directory that a process may leave behind when it dies.    *)
(*                                                                         *)
(* A key is named by the process that generated it, a signed record by its *)
(* epoch, key and signer; a transcript hash is the record it digests.      *)
(***************************************************************************)
EXTENDS Integers, FiniteSets

CONSTANTS
    Procs,              \* processes of the installation
    FirstKey,           \* the encryption key that setup generated
    NoKey, NoRecord,    \* the values of empty fields
    Senders,            \* calls that peers are making
    MaxLiveEpochs,      \* MAX_LIVE_ENCRYPTION_EPOCHS
    MailboxTtl,         \* MAILBOX_TTL_MS
    Allowance,          \* RELAY_CALL_TIMEOUT_MS + RETAINED_KEY_SKEW_MS
    SendDelay,          \* how long a peer takes from its fetch to its frame
    MaxEpoch, MaxTime, MaxCrashes, MaxOps                   \* model bounds

ASSUME KeyRingAssumption ==
    /\ FirstKey \notin Procs /\ NoKey \notin Procs \cup {FirstKey}
    /\ \A n \in {Allowance, SendDelay, MaxTime, MaxCrashes,
                 MaxOps} : n \in Nat
    /\ \A n \in {MaxEpoch, MaxLiveEpochs, MailboxTtl} : n \in Nat \ {0}
    /\ SendDelay <= Allowance
    /\ NoRecord \notin [epoch : Nat, pub : Procs \cup {FirstKey}, by : Procs]

VARIABLES
    now,
    \* the installation's directory
    initial,            \* the identity file still holds the first key
    file, lock,         \* the epochs' slots, and their election locks
    jobs,               \* outbound mailbox jobs that need a sender key
    evicted,            \* epochs whose retained file was unlinked (history)
    \* the relay
    identity,           \* an identity key is published
    relay,              \* the record of each published epoch
    \* peers
    mail,               \* what each call fetched, and then sealed its frame to
    \* processes
    proc, ops, crashes

disk == <<initial, file, lock, jobs, evicted>>
vars == <<now, disk, identity, relay, mail, proc, ops, crashes>>
-----------------------------------------------------------------------------
Epochs  == 1..MaxEpoch
Keys    == Procs \cup {FirstKey}
Records == [epoch : Epochs, pub : Keys, by : Procs]
Kinds   == {"state", "pending", "published", "retained"}
Slots   == Kinds \X Epochs

\* A slot's file: "active" and "retired" are an epoch state's two contents,
\* "whole" any other complete file, "partial" what a write has not finished.
Absent == [status |-> "absent", pub |-> NoKey, record |-> NoRecord, until |-> 0]
StateFile(e)    == file[<<"state", e>>]
RetainedFile(e) == file[<<"retained", e>>]
PendingFile(e)  == file[<<"pending", e>>]
PublishedFile(e) == file[<<"published", e>>]

RetainUntilMail(t) == t + MailboxTtl                               \* mutant
RetainUntil(t) == t + MailboxTtl + Allowance

\* StoredKeys: the prev link of an epoch's record is its state's record field.
NoKeys == [epoch |-> 0, pub |-> NoKey, prev |-> NoRecord, published |-> NoRecord]
InitialKeys == [epoch |-> 1, pub |-> FirstKey, prev |-> NoRecord,
                published |-> NoRecord]
KeysOf(e) == [epoch |-> e, pub |-> StateFile(e).pub,
              prev |-> StateFile(e).record, published |-> NoRecord]

\* What a process is about to do, what follows the load or the retirements it
\* is in, and the values it read earlier.
Idle == [pc |-> "idle", ret |-> "idle", then |-> "idle", root |-> FALSE,
         names |-> {}, keys |-> NoKeys, base |-> NoKeys, stale |-> {},
         old |-> 0, record |-> NoRecord]

At(p, pc)   == proc[p].pc = pc
Set(p, r)   == proc' = [proc EXCEPT ![p] = r]
Go(p, pc)   == Set(p, [proc[p] EXCEPT !.pc = pc])
Finish(p)   == Set(p, Idle)
\* loadKeys, with what follows it.
Load(p, r, ret) ==
    Set(p, [r EXCEPT !.pc = "root", !.ret = ret, !.keys = NoKeys])
Greatest(S) == CHOOSE e \in S : \A f \in S : f <= e
Lowest(S)   == CHOOSE e \in S : \A f \in S : e <= f
-----------------------------------------------------------------------------
(* installFirstWriterWins: mkdir the lock, open "wx", write, rmdir.         *)

\* The slot of each election, the steps of it, and what the process installs.
Election(pc) ==
    CASE pc \in {"elect", "electing", "elected"}     -> "state"
      [] pc \in {"retain", "retaining", "tombstone"} -> "retained"
      [] pc \in {"hold", "holding", "chosen"}        -> "pending"
      [] pc \in {"mark", "marking", "marked"}        -> "published"
Entering == {"elect", "retain", "hold", "mark"}
Writing  == {"electing", "retaining", "holding", "marking"}
Reading  == {"elected", "tombstone", "chosen", "marked"}
WritingOf(pc) == CASE pc = "elect" -> "electing" [] pc = "retain" -> "retaining"
                   [] pc = "hold" -> "holding"   [] pc = "mark" -> "marking"
ReadingOf(pc) ==
    CASE pc \in {"elect", "electing"} -> "elected"
      [] pc \in {"retain", "retaining"} -> "tombstone"
      [] pc \in {"hold", "holding"} -> "chosen" [] pc \in {"mark", "marking"} -> "marked"

\* loadKeys retires the initial key first and then the higher epochs first.
Retiring(p) ==
    LET S == proc[p].stale IN
    CHOOSE k \in S : \/ k.epoch = 1
                     \/ ~(\E j \in S : j.epoch = 1) /\ \A j \in S : j.epoch <= k.epoch
Slot(p) ==
    LET pc == proc[p].pc IN
    <<Election(pc),
      CASE Election(pc) = "state"    -> proc[p].base.epoch + 1
        [] Election(pc) = "retained" -> Retiring(p).epoch
        [] OTHER                     -> proc[p].keys.epoch>>
Candidate(p) ==
    LET k == proc[p].keys IN
    CASE Election(proc[p].pc) = "state" ->
           [status |-> "active", pub |-> p, record |-> proc[p].base.published,
            until |-> 0]
      [] Election(proc[p].pc) = "retained" ->
           [status |-> "whole", pub |-> Retiring(p).pub,
            record |-> Retiring(p).prev, until |-> RetainUntil(now)]
      [] Election(proc[p].pc) = "pending" ->
           [status |-> "whole", pub |-> proc[p].record.pub,
            record |-> proc[p].record, until |-> 0]
      [] Election(proc[p].pc) = "published" ->
           [status |-> "whole", pub |-> k.pub, record |-> proc[p].record,
            until |-> 0]

\* The slots a step reads or enters: while one is locked the process waits,
\* and after five seconds it refuses the partial state (waitForElectionSlot).
Reads(p) ==
    LET pc == proc[p].pc IN
    CASE pc = "read"   -> {<<"state", e>> : e \in proc[p].names}
      [] pc = "marker" -> {<<"published", proc[p].keys.epoch>>}
      [] pc = "look"   -> {<<"pending", proc[p].keys.epoch>>}
      [] pc = "evict"  -> {<<"retained", e>> : e \in Epochs}
      [] pc \in Entering \cup Reading -> {Slot(p)}
      [] OTHER -> {}
Clear(p) == Reads(p) \cap lock = {}

\* The first writer takes the slot; a later one finds the file and goes on.
Enter(p) ==
    /\ proc[p].pc \in Entering /\ Clear(p)
    /\ IF file[Slot(p)] = Absent
       THEN /\ lock' = lock \cup {Slot(p)}
            /\ file' = [file EXCEPT ![Slot(p)] = [Absent EXCEPT !.status = "partial"]]
            /\ Go(p, WritingOf(proc[p].pc))
       ELSE Go(p, ReadingOf(proc[p].pc)) /\ UNCHANGED <<lock, file>>
    /\ UNCHANGED <<now, initial, jobs, evicted, identity, relay, mail, ops, crashes>>

\* A retained file may be unlinked under its writer, which then writes a file
\* that has no name, and cannot unlink it when the write fails.
Unlinked(p) == file[Slot(p)] = Absent
Leaves(p, f) == file' = [file EXCEPT ![Slot(p)] = IF Unlinked(p) THEN Absent ELSE f]

Write(p) ==
    /\ proc[p].pc \in Writing
    /\ Leaves(p, Candidate(p))
    /\ lock' = lock \ {Slot(p)}
    /\ Go(p, ReadingOf(proc[p].pc))
    /\ UNCHANGED <<now, initial, jobs, evicted, identity, relay, mail, ops, crashes>>

\* A failed write gives the slot back and throws.
WriteFails(p) ==
    /\ proc[p].pc \in Writing /\ crashes < MaxCrashes
    /\ crashes' = crashes + 1
    /\ Leaves(p, Absent)
    /\ lock' = IF Unlinked(p) THEN lock ELSE lock \ {Slot(p)}
    /\ Finish(p)
    /\ UNCHANGED <<now, initial, jobs, evicted, identity, relay, mail, ops>>

\* Out of patience: the operation throws.
GiveUp(p) ==
    /\ ~Clear(p)
    /\ Finish(p)
    /\ UNCHANGED <<now, disk, identity, relay, mail, ops, crashes>>
-----------------------------------------------------------------------------
(* loadKeys.                                                                *)

LoadRoot(p) ==
    /\ At(p, "root")
    /\ Set(p, [proc[p] EXCEPT !.pc = "list", !.root = initial])
    /\ UNCHANGED <<now, disk, identity, relay, mail, ops, crashes>>

ListEpochStates(p) ==
    /\ At(p, "list")
    /\ Set(p, [proc[p] EXCEPT !.pc = "read",
                 !.names = {e \in Epochs : StateFile(e) # Absent}])
    /\ UNCHANGED <<now, disk, identity, relay, mail, ops, crashes>>

\* The highest active epoch is current; lower private states are retired.
\* A ring whose highest state is a tombstone is refused.
ReadEpochStates(p) ==
    LET r      == proc[p]
        active == {e \in r.names : StateFile(e).status = "active"}
        high   == IF active = {} THEN 1 ELSE Greatest(active)
    IN
    /\ At(p, "read") /\ Clear(p)
    /\ IF \/ active = {} /\ ~r.root
          \/ \E e \in r.names : e > high
       THEN Finish(p)
       ELSE LET stale == (IF r.root /\ high > 1 THEN {InitialKeys} ELSE {})
                            \cup {KeysOf(e) : e \in active \ {high}}
            IN Set(p, [r EXCEPT
                 !.keys = IF active = {} THEN InitialKeys ELSE KeysOf(high),
                 !.stale = stale, !.then = "marker", !.names = {}, !.root = FALSE,
                 !.pc = IF stale = {} THEN "marker" ELSE "retain"])
    /\ UNCHANGED <<now, disk, identity, relay, mail, ops, crashes>>

LoadPublishedEpoch(p) ==
    LET m == PublishedFile(proc[p].keys.epoch) IN
    /\ At(p, "marker") /\ Clear(p)
    /\ IF m # Absent /\ m.pub # proc[p].keys.pub THEN Finish(p)
       ELSE Set(p, IF proc[p].ret = "idle" THEN Idle
                   ELSE [proc[p] EXCEPT !.keys.published = m.record,
                           !.then = "idle", !.ret = "idle", !.pc = proc[p].ret])
    /\ UNCHANGED <<now, disk, identity, relay, mail, ops, crashes>>

\* retireEpoch, once the retained copy is there: the private state becomes a
\* public tombstone.  An evicted copy, or another key in it, is an error.
Tombstone(p) ==
    LET r    == proc[p]
        k    == Retiring(p)
        left == r.stale \ {k}
        s    == <<"state", k.epoch>>
    IN
    /\ At(p, "tombstone") /\ Clear(p)
    /\ IF RetainedFile(k.epoch).pub # k.pub
       THEN Finish(p) /\ UNCHANGED <<initial, file>>
       ELSE /\ IF k.epoch = 1 THEN initial' = FALSE /\ UNCHANGED file
               ELSE /\ file' = [file EXCEPT ![s].status = "retired"]
                    /\ UNCHANGED initial
            /\ Set(p, [r EXCEPT !.stale = left,
                         !.pc = IF left # {} THEN "retain" ELSE r.then])
    /\ UNCHANGED <<now, lock, jobs, evicted, identity, relay, mail, ops, crashes>>
-----------------------------------------------------------------------------
(* rotateEncryptionKey.                                                     *)

StartRotate(p) ==
    /\ At(p, "idle") /\ ops < MaxOps
    /\ ops' = ops + 1
    /\ Load(p, proc[p], "evict")
    /\ UNCHANGED <<now, disk, identity, relay, mail, crashes>>

LiveRetained == {e \in Epochs : RetainedFile(e) # Absent /\ now < RetainedFile(e).until}

\* At the limit the oldest live retained key makes room, unless a mailbox job
\* of this installation was sealed with it.
AfterEvictionUnpublished(p, r) ==                                  \* mutant
    Set(p, IF r.base.epoch >= MaxEpoch THEN Idle ELSE [r EXCEPT !.pc = "elect"])
AfterEviction(p, r) ==
    Set(p, IF r.base.published = NoRecord \/ r.base.epoch >= MaxEpoch THEN Idle
           ELSE [r EXCEPT !.pc = "elect"])
ConsiderEviction(p) ==
    LET r   == [proc[p] EXCEPT !.base = proc[p].keys, !.keys = NoKeys]
        old == Lowest(LiveRetained)
    IN
    /\ At(p, "evict") /\ Clear(p)
    /\ IF Cardinality(LiveRetained) + 1 < MaxLiveEpochs \/ LiveRetained = {}
       THEN AfterEviction(p, r)
       ELSE IF \E j \in jobs : j.epoch = old /\ now < j.until THEN Finish(p)
       ELSE Set(p, [r EXCEPT !.pc = "unlink", !.old = old])
    /\ UNCHANGED <<now, disk, identity, relay, mail, ops, crashes>>

\* The unlink precedes the check that the current epoch is published.
UnlinkRetained(p) ==
    LET e == proc[p].old IN
    /\ At(p, "unlink")
    /\ IF RetainedFile(e) = Absent
       THEN Finish(p) /\ UNCHANGED <<file, evicted>>
       ELSE /\ file' = [file EXCEPT ![<<"retained", e>>] = Absent]
            /\ evicted' = evicted \cup {e}
            /\ AfterEviction(p, [proc[p] EXCEPT !.old = 0])
    /\ UNCHANGED <<now, initial, lock, jobs, identity, relay, mail, ops, crashes>>

\* Whoever won the next epoch, this process goes on with the elected state.
ReadElected(p) ==
    LET r == proc[p]
        s == StateFile(r.base.epoch + 1)
    IN
    /\ At(p, "elected") /\ Clear(p)
    /\ IF s.status = "retired" THEN Load(p, r, "idle")
       ELSE IF s.record # r.base.published THEN Finish(p)
       ELSE Set(p, [r EXCEPT !.pc = "retain", !.stale = {r.base},
                      !.then = "root", !.base = NoKeys])
    /\ UNCHANGED <<now, disk, identity, relay, mail, ops, crashes>>
-----------------------------------------------------------------------------
(* publishIdentityKey, publishEncryptionKey.                                *)

StartPublish(p) ==
    /\ At(p, "idle") /\ ops < MaxOps
    /\ ops' = ops + 1
    /\ Go(p, "identity")
    /\ UNCHANGED <<now, disk, identity, relay, mail, crashes>>

\* PUT /v1/keys/identity keeps the first record; the same one again is fine.
PutIdentity(p) ==
    /\ At(p, "identity")
    /\ identity' = TRUE
    /\ \/ Load(p, proc[p], "look")
       \/ Finish(p)                                     \* the answer is lost
    /\ UNCHANGED <<now, disk, relay, mail, ops, crashes>>

\* Without a pending record of this epoch the process signs one of its own.
LookForPending(p) ==
    LET k == proc[p].keys
        f == PendingFile(k.epoch)
    IN
    /\ At(p, "look") /\ Clear(p)
    /\ IF k.published # NoRecord THEN Finish(p)
       ELSE IF f # Absent
       THEN IF f.pub # k.pub THEN Finish(p)
            ELSE Set(p, [proc[p] EXCEPT !.record = f.record, !.pc = "put"])
       ELSE Load(p, [proc[p] EXCEPT !.record =
                       [epoch |-> k.epoch, pub |-> k.pub, by |-> p]], "choose")
    /\ UNCHANGED <<now, disk, identity, relay, mail, ops, crashes>>

\* choosePendingEncryptionPublication, after its own load of the keys: the
\* candidate may have been signed for an epoch that is no longer current.
ChoosePendingUnchecked(p) ==                                       \* mutant
    /\ At(p, "choose")
    /\ IF proc[p].keys.published # NoRecord THEN Finish(p) ELSE Go(p, "hold")
    /\ UNCHANGED <<now, disk, identity, relay, mail, ops, crashes>>
ChoosePending(p) ==
    LET k == proc[p].keys
        c == proc[p].record
    IN
    /\ At(p, "choose")
    /\ IF k.published # NoRecord \/ c.epoch # k.epoch \/ c.pub # k.pub
       THEN Finish(p) ELSE Go(p, "hold")
    /\ UNCHANGED <<now, disk, identity, relay, mail, ops, crashes>>

\* The elected record is the one to publish, whoever signed it.
ReadChosenOwn(p) ==                                                \* mutant
    /\ At(p, "chosen") /\ Clear(p)
    /\ Go(p, "put")
    /\ UNCHANGED <<now, disk, identity, relay, mail, ops, crashes>>
ReadChosen(p) ==
    LET f == PendingFile(proc[p].keys.epoch) IN
    /\ At(p, "chosen") /\ Clear(p)
    /\ IF f.pub # proc[p].keys.pub THEN Finish(p)
       ELSE Set(p, [proc[p] EXCEPT !.record = f.record, !.pc = "put"])
    /\ UNCHANGED <<now, disk, identity, relay, mail, ops, crashes>>

\* PUT /v1/keys/encryption: the epoch advances, or the latest record comes
\* again.  The answer may be lost after the commit.
Published(e) == relay[e] # NoRecord
Advances(r)  == \A e \in Epochs : Published(e) => e < r.epoch
Repeats(r)   == relay[r.epoch] = r /\ \A e \in Epochs : Published(e) => e <= r.epoch
Refused(p)   == /\ At(p, "put")
                /\ ~Advances(proc[p].record) /\ ~Repeats(proc[p].record)
PutEncryptionKey(p) ==
    LET r == proc[p].record IN
    /\ At(p, "put")
    /\ relay' = IF Advances(r) THEN [relay EXCEPT ![r.epoch] = r] ELSE relay
    /\ IF Refused(p) THEN Finish(p)
       ELSE Go(p, "mark") \/ Finish(p)
    /\ UNCHANGED <<now, disk, identity, mail, ops, crashes>>

\* rememberPublishedEncryptionKey: another transcript in the marker is an error.
ReadMarker(p) ==
    LET m == PublishedFile(proc[p].keys.epoch) IN
    /\ At(p, "marked") /\ Clear(p)
    /\ IF m.pub # proc[p].keys.pub \/ m.record # proc[p].record THEN Finish(p)
       ELSE Load(p, proc[p], "idle")
    /\ UNCHANGED <<now, disk, identity, relay, mail, ops, crashes>>
-----------------------------------------------------------------------------
(* A mailbox call of this installation keeps the sender epoch it used.      *)

StartCall(p) ==
    /\ At(p, "idle") /\ ops < MaxOps
    /\ ops' = ops + 1
    /\ Load(p, proc[p], "remember")
    /\ UNCHANGED <<now, disk, identity, relay, mail, crashes>>

RememberJob(p) ==
    /\ At(p, "remember")
    /\ jobs' = jobs \cup {[epoch |-> proc[p].keys.epoch, until |-> now + MailboxTtl]}
    /\ Finish(p)
    /\ UNCHANGED <<now, initial, file, lock, evicted, identity, relay, mail, ops, crashes>>
-----------------------------------------------------------------------------
(* Peers.                                                                   *)

NoMail == [phase |-> "none", epoch |-> 0, at |-> 0, current |-> FALSE]
Gone   == [NoMail EXCEPT !.phase = "gone"]
NewestEpoch == Greatest({e \in Epochs : Published(e)})

\* GET /v1/keys/:handle serves the latest epoch.  "current" records whether
\* the installation had not yet elected a later one.
FetchKeys(s) ==
    /\ mail[s] = NoMail /\ identity /\ \E e \in Epochs : Published(e)
    /\ mail' = [mail EXCEPT ![s] =
         [phase |-> "fetched", epoch |-> NewestEpoch, at |-> now,
          current |-> \A e \in Epochs : e > NewestEpoch => StateFile(e) = Absent]]
    /\ UNCHANGED <<now, disk, identity, relay, proc, ops, crashes>>

\* The frame is sealed to the record fetched (the peer's own trust store may
\* refuse it; OutboundCalls models that).
SealAndSend(s) ==
    /\ mail[s].phase = "fetched"
    /\ mail' = [mail EXCEPT ![s].phase = "sent", ![s].at = now]
    /\ UNCHANGED <<now, disk, identity, relay, proc, ops, crashes>>
-----------------------------------------------------------------------------
\* The mailbox drops what it could not deliver in MAILBOX_TTL_MS; calls that
\* took longer than SendDelay have failed.
Tick ==
    /\ now < MaxTime
    /\ now' = now + 1
    /\ mail' = [s \in Senders |->
         IF \/ mail[s].phase = "fetched" /\ now' > mail[s].at + SendDelay
            \/ mail[s].phase = "sent" /\ now' >= mail[s].at + MailboxTtl
         THEN Gone ELSE mail[s]]
    /\ UNCHANGED <<disk, identity, relay, proc, ops, crashes>>

\* A process dies.  In an election it leaves the lock, and the slot empty,
\* partial or whole; in front of a taken slot it may leave just the lock.
Crash(p) ==
    /\ ~At(p, "idle") /\ crashes < MaxCrashes
    /\ crashes' = crashes + 1
    /\ Finish(p)
    /\ \/ UNCHANGED <<file, lock>>
       \/ /\ proc[p].pc \in Writing
          /\ \E f \in {Absent, Candidate(p)} : Leaves(p, f)
          /\ UNCHANGED lock
       \/ /\ proc[p].pc \in Entering /\ Clear(p)
          /\ lock' = lock \cup {Slot(p)} /\ UNCHANGED file
    /\ UNCHANGED <<now, initial, jobs, evicted, identity, relay, mail, ops>>

\* setup has generated the keys (generateIdentityKeys) and tried to publish
\* them: it warns and goes on when that failed.
Init ==
    /\ now = 0
    /\ initial = TRUE /\ lock = {} /\ jobs = {} /\ evicted = {}
    /\ \/ /\ identity = FALSE /\ relay = [e \in Epochs |-> NoRecord]
          /\ file = [s \in Slots |-> Absent]
       \/ \E p \in Procs :
            LET r == [epoch |-> 1, pub |-> FirstKey, by |-> p]
                f == [status |-> "whole", pub |-> FirstKey, record |-> r, until |-> 0]
            IN /\ identity = TRUE
               /\ relay = [e \in Epochs |-> IF e = 1 THEN r ELSE NoRecord]
               /\ file = [s \in Slots |->
                    IF s \in {<<"pending", 1>>, <<"published", 1>>} THEN f ELSE Absent]
    /\ mail = [s \in Senders |-> NoMail]
    /\ proc = [p \in Procs |-> Idle] /\ ops = 0 /\ crashes = 0

Step(p) ==
    \/ Enter(p) \/ Write(p) \/ WriteFails(p) \/ GiveUp(p) \/ LoadRoot(p)
    \/ ListEpochStates(p) \/ ReadEpochStates(p) \/ LoadPublishedEpoch(p)
    \/ Tombstone(p) \/ StartRotate(p) \/ ConsiderEviction(p) \/ UnlinkRetained(p)
    \/ ReadElected(p) \/ StartPublish(p) \/ PutIdentity(p) \/ LookForPending(p)
    \/ ChoosePending(p) \/ ReadChosen(p) \/ PutEncryptionKey(p) \/ ReadMarker(p)
    \/ StartCall(p) \/ RememberJob(p) \/ Crash(p)

Next ==
    \/ Tick
    \/ \E p \in Procs : Step(p)
    \/ \E s \in Senders : FetchKeys(s) \/ SealAndSend(s)

Spec == Init /\ [][Next]_vars
=============================================================================
