------------------------------ MODULE Listener ------------------------------
(***************************************************************************)
(* The listener of the command-line client (packages/cli/src/listener.ts): *)
(* the relay's frames, the queue of one running job, the durable execution *)
(* journal, the replay store, the bindings of conversations, and the agent *)
(* processes.                                                              *)
(*                                                                         *)
(* A Slots element is one run of the socket's message callback.  Its `pc`  *)
(* is the await it stands at; between two awaits a callback is one step.   *)
(* The queue is the product's: maxPending is 0, so that jobs never wait    *)
(* and queue.cancel never finds a pending one.                             *)
(*                                                                         *)
(* A definition marked "mutant" is the next one with a plausible bug.      *)
(***************************************************************************)
EXTENDS Integers, FiniteSets, Sequences

CONSTANTS
    Calls, NoCall,     \* call ids
    Slots, NoSlot,     \* concurrent message callbacks
    Durable,           \* calls delivered from the mailbox, with a lease
    Threadable,        \* calls of tasks whose conversations may be resumed
    Resumes,           \* the call that minted the context a call names
    Issued,            \* issued_at of a request, by its caller's clock
    Forking,           \* calls whose agent starts processes of its own
    MailboxTtl, RelayCallTimeout, TombstoneTtl, ContextTtl,  \* durations
    Skew,              \* how far ahead of this clock issued_at may be
    LockWait,          \* the longest wait for a file lock
    MaxRecords, MaxReservations, MaxTurns, MaxContexts,      \* limits
    MaxDeliveries, MaxTime, MaxFailures                      \* model bounds

ASSUME ListenerAssumption ==
    /\ IsFiniteSet(Calls) /\ NoCall \notin Calls
    /\ IsFiniteSet(Slots) /\ NoSlot \notin Slots
    /\ Durable \subseteq Calls /\ Threadable \subseteq Calls /\ Forking \subseteq Calls
    /\ Resumes \in [Calls -> Calls \cup {NoCall}] /\ Issued \in [Calls -> Nat]
    /\ \A n \in {MailboxTtl, RelayCallTimeout, TombstoneTtl, ContextTtl, Skew,
                 LockWait, MaxRecords, MaxReservations, MaxTurns, MaxContexts,
                 MaxDeliveries, MaxTime, MaxFailures} : n \in Nat
    \* 10 s, 2 min and 24 h in the code: two lock waits and the tolerated
    \* clock difference are less than a record's time after its request
    /\ LockWait <= Skew /\ Skew + 2 * LockWait <= TombstoneTtl

VARIABLES
    now,               \* Date.now() of the listener's machine
    \* in memory
    connected, stopped,
    handler,           \* the message callbacks
    running, aborted,  \* SerialQueue: the slot whose job runs, its signal
    loaded,            \* the bindings each callback read at its admission
    \* on disk
    journal, reserved, contexts,
    \* outside
    processes,         \* <<call, "agent">> and <<call, "child">>, alive
    spawned,           \* how often an agent was started for a call
    deliveries,        \* how often the relay sent incoming_call; the lease
    wire,              \* the frames the last step brought to the relay
    failures           \* crashes, stops and local faults so far

disk  == <<journal, reserved, contexts>>
queue == <<running, aborted, loaded>>
world == <<processes, spawned>>
vars  == <<now, connected, stopped, handler, queue, disk, world, deliveries,
           wire, failures>>
-----------------------------------------------------------------------------
NoRecord == [state |-> "none", purge_after |-> 0]
Idle == [pc |-> "idle", call |-> NoCall, lease |-> 0, at |-> 0,
         outcome |-> "none"]

Validity(c) == IF c \in Durable THEN MailboxTtl ELSE RelayCallTimeout
Expires(c)  == Issued[c] + Validity(c)

\* assertCurrent of an opened request.
Current(c)  == now < Expires(c) /\ Issued[c] <= now + Skew
\* A response is issued now, ends when its request does, and is valid no
\* longer than its mode allows.
Sealable(c) == now < Expires(c) /\ Expires(c) - now <= Validity(c)

Sent(S)     == wire' = IF connected THEN S ELSE {}
Frame(type, h, what) ==
    [type |-> type, call |-> handler[h].call, lease |-> handler[h].lease,
     what |-> what]
Fault       == failures < MaxFailures /\ failures' = failures + 1
NoFault     == UNCHANGED failures
At(h, pc)   == handler[h].pc = pc
Call(h)     == handler[h].call
GoTo(h, pc) == handler' = [handler EXCEPT ![h].pc = pc]
Seal(h, outcome) ==
    handler' = [handler EXCEPT ![h].pc = "sealing", ![h].outcome = outcome]

LeaveWedged(h, frames) ==                                          \* mutant
    /\ handler' = [handler EXCEPT ![h] = Idle]
    /\ Sent(frames)
    /\ UNCHANGED queue
\* The callback returns; when it was the job, the queue is free.
Leave(h, frames) ==
    /\ handler' = [handler EXCEPT ![h] = Idle]
    /\ Sent(frames)
    /\ running' = IF running = h THEN NoSlot ELSE running
    /\ aborted' = IF running = h THEN FALSE ELSE aborted
    /\ loaded' = [loaded EXCEPT ![h] = <<>>]
Reject(h) == Leave(h, {Frame("call_rejected", h, "protocol_error")})
-----------------------------------------------------------------------------
(* Conversations (contexts.ts).  The list is kept newest first: a turn is  *)
(* put in front with the time of its admission, jobs run one at a time and *)
(* the clock does not go back, so the sort of pruneContexts changes        *)
(* nothing.  A binding is named by the call that minted it.                *)

SeqLeast(m, n) == IF m < n THEN m ELSE n
\* The list's bindings at the places in I, in their order.
Place(I, k) == CHOOSE i \in I : Cardinality({j \in I : j < i}) = k - 1
Picked(list, I) == [k \in 1..Cardinality(I) |-> list[Place(I, k)]]
PruneContexts(list, t) ==
    LET fresh == Picked(list, {i \in DOMAIN list : t - list[i].last_used_at < ContextTtl})
    IN  SubSeq(fresh, 1, SeqLeast(Len(fresh), MaxContexts))
Without(list, id) == Picked(list, {i \in DOMAIN list : list[i].id # id})
UpsertContext(list, b) == <<b>> \o Without(list, b.id)
Turns(list, id) ==
    IF \E i \in DOMAIN list : list[i].id = id
    THEN list[CHOOSE i \in DOMAIN list : list[i].id = id].turns
    ELSE 0
Resuming(c) == Resumes[c] # NoCall

\* admitBinding on the pruned list: one refusal for every reason.
BindingAdmitted(c, list) ==
    Resuming(c) => /\ c \in Threadable
                   /\ Turns(list, Resumes[c]) \in 1..(MaxTurns - 1)
NextBinding(h) ==
    LET c  == Call(h)
        id == IF Resuming(c) THEN Resumes[c] ELSE c
    IN  [id |-> id, turns |-> Turns(loaded[h], id) + 1,
         last_used_at |-> handler[h].at]
-----------------------------------------------------------------------------
Init ==
    /\ now = 0 /\ connected = FALSE /\ stopped = FALSE
    /\ handler = [h \in Slots |-> Idle]
    /\ running = NoSlot /\ aborted = FALSE /\ loaded = [h \in Slots |-> <<>>]
    /\ journal = [c \in Calls |-> NoRecord] /\ reserved = {} /\ contexts = <<>>
    /\ processes = {} /\ spawned = [c \in Calls |-> 0]
    /\ deliveries = [c \in Calls |-> 0] /\ wire = {} /\ failures = 0

\* These awaits are file locks, bounded by the lock's timeout, or nothing but
\* the turn of the event loop.
ShortWaits == {"reserving", "claiming", "admitting", "starting", "spawning"}
Tick ==
    /\ now < MaxTime
    /\ \A h \in Slots :
           handler[h].pc \in ShortWaits => now < handler[h].at + LockWait
    /\ now' = now + 1
    /\ wire' = {}
    /\ UNCHANGED <<connected, stopped, handler, queue, disk, world, deliveries,
                   failures>>
-----------------------------------------------------------------------------
(* The socket.  A reconnect leaves running callbacks alone: what they send *)
(* goes to the socket there is then.                                       *)

Connect ==
    /\ ~connected /\ ~stopped
    /\ connected' = TRUE /\ wire' = {}
    /\ UNCHANGED <<now, stopped, handler, queue, disk, world, deliveries, failures>>

Disconnect ==
    /\ connected
    /\ connected' = FALSE /\ wire' = {}
    /\ UNCHANGED <<now, stopped, handler, queue, disk, world, deliveries, failures>>

\* incoming_call; the relay may send a call again, with another lease.
Deliver(h, c) ==
    /\ connected /\ ~stopped
    /\ At(h, "idle") /\ deliveries[c] < MaxDeliveries
    /\ deliveries' = [deliveries EXCEPT ![c] = @ + 1]
    /\ handler' = [handler EXCEPT ![h] =
           [Idle EXCEPT !.pc = "opening", !.call = c, !.lease = deliveries[c] + 1]]
    /\ wire' = {}
    /\ UNCHANGED <<now, connected, stopped, queue, disk, world, failures>>

JobOf(c) == running # NoSlot /\ Call(running) = c

\* cancel_call: a running job is only signalled; its own end answers.
CancelRunning(c) ==
    /\ connected /\ ~stopped /\ JobOf(c)
    /\ aborted' = TRUE /\ wire' = {}
    /\ UNCHANGED <<now, connected, stopped, handler, running, loaded, disk, world,
                   deliveries, failures>>

CancelUnknown(c) ==
    /\ connected /\ ~stopped /\ deliveries[c] > 0 /\ ~JobOf(c)
    /\ wire' = {[type |-> "call_not_cancelled", call |-> c,
                 lease |-> deliveries[c], what |-> "unknown"]}
    /\ UNCHANGED <<now, connected, stopped, handler, queue, disk, world,
                   deliveries, failures>>
-----------------------------------------------------------------------------
(* A callback up to its job.                                               *)

OpenEnvelope(h) ==
    /\ At(h, "opening") /\ Current(Call(h))
    /\ handler' = [handler EXCEPT
           ![h].pc = IF Call(h) \in Durable THEN "claiming" ELSE "reserving",
           ![h].at = now]
    /\ wire' = {} /\ NoFault
    /\ UNCHANGED <<queue, disk, world>>

\* Expired, or the caller's keys could not be fetched.
OpenFails(h) ==
    /\ At(h, "opening")
    /\ IF Current(Call(h)) THEN Fault ELSE NoFault
    /\ Reject(h)
    /\ UNCHANGED <<disk, world>>

\* reserveReplay prunes by the time it was called at, before its lock wait.
ReservationLives(c, t) == t < Expires(c) + Skew
KeptReservations(t) == {c \in reserved : ReservationLives(c, t)}
Reserve(h) ==
    LET kept == KeptReservations(handler[h].at)
    IN  /\ At(h, "reserving")
        /\ Call(h) \notin kept /\ Cardinality(kept) < MaxReservations
        /\ reserved' = kept \cup {Call(h)}
        /\ GoTo(h, "admitting")
        /\ wire' = {} /\ NoFault
        /\ UNCHANGED <<queue, journal, contexts, world>>

ReserveRefused(h) ==
    LET kept == KeptReservations(handler[h].at)
    IN  /\ At(h, "reserving")
        /\ Call(h) \in kept \/ Cardinality(kept) >= MaxReservations
        /\ Reject(h) /\ NoFault
        /\ UNCHANGED <<disk, world>>

PurgeAfter(t) == t + MailboxTtl + TombstoneTtl
KeptRecords(t) ==
    [c \in Calls |-> IF t < journal[c].purge_after THEN journal[c] ELSE NoRecord]
Full(records) ==
    Cardinality({c \in Calls : records[c].state # "none"}) >= MaxRecords

\* claimExecution writes only when it adds a record.
ClaimNew(h) ==
    LET kept == KeptRecords(handler[h].at)
    IN  /\ At(h, "claiming")
        /\ kept[Call(h)].state = "none" /\ ~Full(kept)
        /\ journal' = [kept EXCEPT ![Call(h)] =
               [state |-> "claimed", purge_after |-> PurgeAfter(handler[h].at)]]
        /\ GoTo(h, "admitting")
        /\ wire' = {} /\ NoFault
        /\ UNCHANGED <<queue, reserved, contexts, world>>

ClaimAgain(h) ==
    /\ At(h, "claiming")
    /\ KeptRecords(handler[h].at)[Call(h)].state = "claimed"
    /\ GoTo(h, "admitting")
    /\ wire' = {} /\ NoFault
    /\ UNCHANGED <<queue, disk, world>>

ClaimIndeterminate(h) ==
    /\ At(h, "claiming")
    /\ KeptRecords(handler[h].at)[Call(h)].state \in {"started", "terminal"}
    /\ Seal(h, "indeterminate")
    /\ wire' = {} /\ NoFault
    /\ UNCHANGED <<queue, disk, world>>

ClaimFull(h) ==
    LET kept == KeptRecords(handler[h].at)
    IN  /\ At(h, "claiming")
        /\ kept[Call(h)].state = "none" /\ Full(kept)
        /\ Reject(h) /\ NoFault
        /\ UNCHANGED <<disk, world>>

\* The lock is not had in time, or the store cannot be read or written.
StoreFails(h) ==
    /\ handler[h].pc \in {"reserving", "claiming"}
    /\ Fault /\ Reject(h)
    /\ UNCHANGED <<disk, world>>

\* resolveAdmission refuses: blocked, task_unknown, or a broken policy.
RefusedByPolicy(h) ==
    /\ At(h, "admitting")
    /\ Seal(h, "blocked")
    /\ wire' = {} /\ NoFault
    /\ UNCHANGED <<queue, disk, world>>

Bindings == PruneContexts(contexts, now)
RefusedContext(h) ==
    /\ At(h, "admitting") /\ ~BindingAdmitted(Call(h), Bindings)
    /\ Seal(h, "context_unknown")
    /\ wire' = {} /\ NoFault
    /\ UNCHANGED <<queue, disk, world>>

BusyOnlyWhenStopped == stopped                                     \* mutant
Busy == stopped \/ running # NoSlot
RefusedBusy(h) ==
    /\ At(h, "admitting") /\ BindingAdmitted(Call(h), Bindings) /\ Busy
    /\ Seal(h, "busy")
    /\ wire' = {} /\ NoFault
    /\ UNCHANGED <<queue, disk, world>>
-----------------------------------------------------------------------------
(* The job.                                                                *)

Spawned(c) ==
    /\ spawned' = [spawned EXCEPT ![c] = @ + 1]
    /\ processes' = processes \cup {<<c, "agent">>}

Enqueued(h, pc) ==
    /\ At(h, "admitting") /\ BindingAdmitted(Call(h), Bindings) /\ ~Busy
    /\ running' = h /\ aborted' = FALSE
    /\ loaded' = [loaded EXCEPT ![h] = Bindings]
    /\ handler' = [handler EXCEPT ![h].pc = pc, ![h].at = now]
    /\ NoFault /\ UNCHANGED disk

EnqueueDurable(h) ==
    /\ Call(h) \in Durable
    /\ Enqueued(h, "starting")
    /\ Sent({Frame("call_accepted", h, "none")})
    /\ UNCHANGED world

\* A synchronous call waits for no journal: its agent is started at once.
EnqueueLive(h) ==
    /\ Call(h) \notin Durable
    /\ Enqueued(h, "running")
    /\ Sent({Frame("call_accepted", h, "none"), Frame("call_started", h, "none")})
    /\ Spawned(Call(h))

RecordedAtEnd(c, state) ==                                         \* mutant
    journal' = IF state = "terminal" THEN [journal EXCEPT ![c].state = state]
               ELSE journal
Recorded(c, state) == journal' = [journal EXCEPT ![c].state = state]

StartedMayRepeat(state) == state \in {"claimed", "started"}        \* mutant
MayStart(state) == state = "claimed"
MarkStarted(h) ==
    /\ At(h, "starting") /\ MayStart(journal[Call(h)].state)
    /\ Recorded(Call(h), "started")
    /\ GoTo(h, "spawning")
    /\ wire' = {} /\ NoFault
    /\ UNCHANGED <<queue, reserved, contexts, world>>

MarkStartedFailsSilently(h) ==                                     \* mutant
    /\ At(h, "starting") /\ ~MayStart(journal[Call(h)].state)
    /\ Leave(h, {}) /\ NoFault
    /\ UNCHANGED <<disk, world>>
MarkStartedFails(h) ==
    /\ At(h, "starting")
    /\ IF MayStart(journal[Call(h)].state) THEN Fault ELSE NoFault
    /\ Seal(h, "delivery_failed")
    /\ wire' = {}
    /\ UNCHANGED <<queue, disk, world>>

Spawn(h) ==
    /\ At(h, "spawning")
    /\ GoTo(h, "running")
    /\ Sent({Frame("call_started", h, "none")})
    /\ Spawned(Call(h)) /\ NoFault
    /\ UNCHANGED <<queue, disk>>

\* The agent starts a process in its process group.
Forks(c) ==
    /\ c \in Forking /\ <<c, "agent">> \in processes
    /\ <<c, "child">> \notin processes
    /\ processes' = processes \cup {<<c, "child">>}
    /\ wire' = {}
    /\ UNCHANGED <<now, connected, stopped, handler, queue, disk, spawned,
                   deliveries, failures>>

\* runAgent settles when the process it spawned exits; the rest of the group
\* is gone with it only if SIGTERM or SIGKILL reached it before.
AgentExits(h) ==
    /\ At(h, "running")
    /\ processes' \in {processes \ {<<Call(h), "agent">>},
                       processes \ ({Call(h)} \X {"agent", "child"})}
    /\ UNCHANGED spawned

\* The reply's binding is saved before its outcome is sealed; a binding that
\* cannot be saved is given up, and so is one without a session id.
AgentReplies(h) ==
    LET c == Call(h)
    IN  /\ AgentExits(h) /\ ~aborted
        /\ \/ /\ c \in Threadable
              /\ contexts' = PruneContexts(
                     UpsertContext(loaded[h], NextBinding(h)), handler[h].at)
              /\ NoFault
           \/ UNCHANGED contexts /\ (c \notin Threadable \/ ~Resuming(c)) /\ NoFault
           \/ UNCHANGED contexts /\ c \in Threadable /\ Fault
        /\ Seal(h, "reply")
        /\ wire' = {}
        /\ UNCHANGED <<queue, journal, reserved>>

\* It fails, exceeds its time or its output, or cannot be spawned at all: then
\* there is no exit, and an abort makes no difference.
AgentFails(h) ==
    /\ AgentExits(h) /\ (IF aborted THEN Fault ELSE NoFault)
    /\ Seal(h, "failed")
    /\ wire' = {}
    /\ UNCHANGED <<queue, disk>>

\* The agent's own session is gone: the conversation has ended.
ResumeGone(h) ==
    /\ AgentExits(h) /\ ~aborted /\ Resuming(Call(h))
    /\ \/ /\ contexts' = PruneContexts(
                Without(loaded[h], Resumes[Call(h)]), handler[h].at)
          /\ NoFault
       \/ UNCHANGED contexts /\ Fault
    /\ Seal(h, "context_unknown")
    /\ wire' = {}
    /\ UNCHANGED <<queue, journal, reserved>>

AgentCanceled(h) ==
    /\ AgentExits(h) /\ aborted
    /\ Leave(h, {Frame("call_cancelled", h, "running")})
    /\ NoFault /\ UNCHANGED disk
-----------------------------------------------------------------------------
(* The outcome, of a job or of a refusal.                                  *)

MustMark(h)  == Call(h) \in Durable /\ handler[h].outcome # "indeterminate"
MayEnd(state) == state \in {"claimed", "started"}
OutcomeFrame(h) == Frame("call_outcome", h, handler[h].outcome)

SealAndMark(h) ==
    /\ At(h, "sealing") /\ Sealable(Call(h)) /\ MustMark(h)
    /\ GoTo(h, "marking")
    /\ Sent({OutcomeFrame(h)})
    /\ NoFault
    /\ UNCHANGED <<queue, disk, world>>

SealAndLeave(h) ==
    /\ At(h, "sealing") /\ Sealable(Call(h)) /\ ~MustMark(h)
    /\ Leave(h, {OutcomeFrame(h)})
    /\ NoFault /\ UNCHANGED <<disk, world>>

\* The error is written to the audit log and the answer dropped.
SealFails(h) ==
    /\ At(h, "sealing")
    /\ IF Sealable(Call(h)) THEN Fault ELSE NoFault
    /\ Leave(h, {})
    /\ UNCHANGED <<disk, world>>

MarkTerminal(h) ==
    /\ At(h, "marking") /\ MayEnd(journal[Call(h)].state)
    /\ Recorded(Call(h), "terminal")
    /\ Leave(h, {})
    /\ NoFault /\ UNCHANGED <<reserved, contexts, world>>

\* An error here reaches the catch of the job's run, which answers a reply
\* once more as a failure, or that of the callback, which rejects the call.
MarkTerminalFails(h) ==
    /\ At(h, "marking")
    /\ IF MayEnd(journal[Call(h)].state) THEN Fault ELSE NoFault
    /\ IF running # h THEN Reject(h)
       ELSE IF handler[h].outcome # "reply" THEN Leave(h, {})
       ELSE Seal(h, "failed") /\ wire' = {} /\ UNCHANGED queue
    /\ UNCHANGED <<disk, world>>
-----------------------------------------------------------------------------
(* The end of the listener's process, and its restart by the service.      *)

Stop ==
    /\ ~stopped /\ Fault
    /\ stopped' = TRUE /\ connected' = FALSE
    /\ aborted' = (running # NoSlot)
    /\ wire' = {}
    /\ UNCHANGED <<now, handler, running, loaded, disk, world, deliveries>>

\* Agents are detached: they outlive a listener that dies.
Restart ==
    /\ IF stopped /\ running = NoSlot THEN NoFault ELSE Fault
    /\ connected' = FALSE /\ stopped' = FALSE
    /\ handler' = [h \in Slots |-> Idle]
    /\ running' = NoSlot /\ aborted' = FALSE /\ loaded' = [h \in Slots |-> <<>>]
    /\ wire' = {}
    /\ UNCHANGED <<now, disk, world, deliveries>>

Supervised(p) == p[2] = "agent" /\ \E h \in Slots : At(h, "running") /\ Call(h) = p[1]
ProcessEnds ==
    /\ \E p \in processes : ~Supervised(p) /\ processes' = processes \ {p}
    /\ wire' = {}
    /\ UNCHANGED <<now, connected, stopped, handler, queue, disk, spawned,
                   deliveries, failures>>
-----------------------------------------------------------------------------
Accept(h)  == \/ OpenEnvelope(h) \/ OpenFails(h) \/ Reserve(h) \/ ReserveRefused(h)
              \/ ClaimNew(h) \/ ClaimAgain(h) \/ ClaimIndeterminate(h)
              \/ ClaimFull(h) \/ StoreFails(h) \/ RefusedByPolicy(h)
              \/ RefusedContext(h) \/ RefusedBusy(h)
RunJob(h)  == \/ EnqueueDurable(h) \/ EnqueueLive(h) \/ MarkStarted(h)
              \/ MarkStartedFails(h) \/ Spawn(h) \/ AgentReplies(h)
              \/ AgentFails(h) \/ ResumeGone(h) \/ AgentCanceled(h)
Answer(h)  == \/ SealAndMark(h) \/ SealAndLeave(h) \/ SealFails(h)
              \/ MarkTerminal(h) \/ MarkTerminalFails(h)
Proceed(h) == /\ Accept(h) \/ RunJob(h) \/ Answer(h)
              /\ UNCHANGED <<now, connected, stopped, deliveries>>

Next ==
    \/ Tick \/ Connect \/ Disconnect \/ Stop \/ Restart \/ ProcessEnds
    \/ \E h \in Slots : Proceed(h)
    \/ \E h \in Slots, c \in Calls : Deliver(h, c)
    \/ \E c \in Calls : CancelRunning(c) \/ CancelUnknown(c) \/ Forks(c)

Spec == Init /\ [][Next]_vars

\* Awaits are settled: key fetches, locks and agents have timeouts.
FairSpec == Spec /\ \A h \in Slots : WF_vars(Proceed(h))
=============================================================================
