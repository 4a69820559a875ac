------------------------------ MODULE HandleDO ------------------------------
(***************************************************************************)
(* The relay's per-handle Durable Object (apps/relay/src/do.ts): live      *)
(* calls, the owner-enabled mailbox of ciphertext, delivery leases, the    *)
(* timer index, quotas, idempotency records and the call-audit outbox.     *)
(*                                                                         *)
(* The runtime's input gate is modelled as it is: no event is delivered    *)
(* while a handler awaits storage, so everything between two D1 awaits is  *)
(* one uninterrupted run of stages; the two D1 awaits ("flush" and         *)
(* "authority") let any other event in.  A crash may fall between stages.  *)
(*                                                                         *)
(* A definition marked "mutant" is the next one with a plausible bug: put  *)
(* in its place it shows that a property can fail.  Nothing else uses it.  *)
(***************************************************************************)
EXTENDS Integers, FiniteSets, Sequences

CONSTANTS
    Calls,             \* call ids; numbers, because index keys are ordered
    Callers,           \* calling agents
    Messages,          \* client message ids of durable requests
    NoMessage,         \* a synchronous request carries none
    LiveMessages,      \* what frames that may reach a listener directly carry
    NoCaller,          \* the caller of a missing record
    Capabilities,      \* what connecting listeners claim: durable-mailbox-v1
    Handlers,          \* slots for the events being processed; numbers
    MailboxTtl, TombstoneTtl, RelayCallTimeout, AuditRetry,
    StartWindow,       \* durations
    \* The overrides of a connection's query: a caller's socket carries one
    \* call, so its timeout is given per call; a listener's per session.
    TimeoutMs,         \* att.timeoutMs; absent is any value above the limits
    LeaseMs,           \* the session's delivery lease
    ExecutionMs,       \* executionTimeoutMs, or RelayCallTimeout when absent
    MaxAttempts, MaxStartsPerDay, MaxQueuedTasks, MaxPerCaller,
    MaxStoredBytes, DrainLimit,                             \* limits
    RequestSizes, OutcomeSizes,                             \* ciphertext sizes
    Outcomes,          \* the terminal states a listener's outcome may name
    Frames,            \* the frames listeners send in the instance
    Cancellable,       \* calls whose caller asks for cancellation
    MaxTime, LastSubmit, MaxSessions, MaxFailures           \* model bounds

ASSUME HandleDOAssumption ==
    /\ Calls \subseteq Nat /\ IsFiniteSet(Calls) /\ Handlers \subseteq Nat
    /\ LiveMessages \subseteq Messages \cup {NoMessage}
    /\ Capabilities \subseteq BOOLEAN /\ Outcomes \subseteq {"completed", "failed"}
    /\ NoMessage \notin Messages /\ NoCaller \notin Callers
    /\ RequestSizes \subseteq Nat /\ OutcomeSizes \subseteq Nat
    /\ TimeoutMs \in [Calls -> Nat]
    /\ LeaseMs \in [0..MaxSessions -> Nat] /\ ExecutionMs \in [0..MaxSessions -> Nat]
    /\ \A n \in {MailboxTtl, TombstoneTtl, RelayCallTimeout, AuditRetry,
                 StartWindow, MaxQueuedTasks, MaxPerCaller, MaxStoredBytes,
                 MaxTime, LastSubmit, MaxSessions, MaxFailures} : n \in Nat
    /\ \A n \in {MaxAttempts, DrainLimit, MaxStartsPerDay} : n \in Nat \ {0}

VARIABLES
    now,               \* Date.now()
    \* durable storage of the object
    task,              \* "call:" records
    issued,            \* call ids drawn so far (crypto.randomUUID)
    queue, due,        \* "queue:" and "due:" keys, <<time, call>>
    active,            \* meta:active-durable-call
    dedupe,            \* "dedupe:" records
    outstanding, callerOutstanding, storedBytes,            \* "quota:"
    starts,            \* "start:" keys, <<time, call>>
    outbox,            \* "audit:" intents
    alarm,             \* the object's single alarm
    \* outside the object
    rows,              \* D1 org_events: rank of an event's row id in its call, or 0
    session, sessions, capable, \* the listener socket, how many there were
    seen,              \* last frame each call's caller socket was sent
    \* volatile
    waiting,           \* calls with a cancellation request awaiting an answer
    handler,           \* what each running event handler has left to do
    failures           \* crashes and D1 errors so far

quota    == <<outstanding, callerOutstanding, storedBytes>>
records  == <<task, issued, queue, due, active, dedupe, quota, starts>>
durables == <<records, outbox, alarm>>
sockets  == <<session, sessions, capable>>
outside  == <<rows, sockets, seen, waiting, failures>>
vars     == <<now, durables, outside, handler>>
-----------------------------------------------------------------------------
NoCall  == -1
NoAlarm == -1
NoLease == [session |-> 0, expires_at |-> 0, attempt |-> 0]
NoKey   == <<0, NoCall>>

TerminalStates == {"completed", "failed", "canceled", "rejected"}
DurableStates  == {"queued", "leased", "started", "terminal"}
TerminalEvents == {"complete", "fail", "cancel", "timeout"}
Events         == {"submit", "accept"} \cup TerminalEvents
CallStates     == {"ringing", "answered", "working"}

\* A live call's record has no delivery_state; "absent" is a missing record.
NoTask == [delivery_state |-> "absent", state |-> "ringing",
           task_state |-> "submitted", from |-> NoCaller,
           message_id |-> NoMessage, created_at |-> 0, deadline |-> 0,
           execute_by |-> 0,
           lease |-> NoLease, request_envelope |-> FALSE,
           outcome_envelope |-> FALSE, ciphertext_bytes |-> 0,
           quota_released |-> FALSE]

\* What an event handler has left to do, and the values its frames hold.
Stages == {"flush", "authority", "dispatch", "lease", "finish", "redispatch",
           "recover", "expire", "rearm", "receipt", "ring", "status", "notify"}
Awaits == {"flush", "authority"}
Idle == [todo |-> <<>>, call |-> NoCall, session |-> 0, state |-> "ringing",
         candidate |-> NoKey, batch |-> {}, stored |-> FALSE, keys |-> {},
         timedOut |-> {}]
-----------------------------------------------------------------------------
AtLeast0(n)   == IF n < 0 THEN 0 ELSE n
Least(m, n)   == IF m < n THEN m ELSE n
Earlier(a, t) == IF a = NoAlarm \/ a > t THEN t ELSE a
ExecuteBy(t)  == t.execute_by
PurgeAtExpiry(t) == ExecuteBy(t)                                   \* mutant
PurgeAt(t)    == ExecuteBy(t) + TombstoneTtl
TaskIsTerminal(t) == t.task_state \in TerminalStates
IsDurable(t)  == t.delivery_state \in DurableStates
Exists(c)     == task[c].delivery_state # "absent"
QueueKey(t, c) == <<t.created_at, c>>
DueKey(t, c)   == <<t.deadline, c>>

\* Storage.list is lexicographic in the zero-padded time, then the call id.
KeyBefore(j, k) == j[1] < k[1] \/ (j[1] = k[1] /\ j[2] <= k[2])
IsFirst(k, S)   == k \in S /\ \A j \in S : KeyBefore(k, j)
FirstKeys(S)    ==
    {k \in S : Cardinality({j \in S : KeyBefore(j, k)}) <= DrainLimit}

CallAuditUnranked(e) == 0                                          \* mutant
CallAuditRank(e) == IF e = "submit" THEN 0 ELSE IF e = "accept" THEN 1 ELSE 2
IntentBefore(i, j) ==
    \/ i.at < j.at
    \/ /\ i.at = j.at
       /\ \/ CallAuditRank(i.event) < CallAuditRank(j.event)
          \/ CallAuditRank(i.event) = CallAuditRank(j.event) /\ i.call <= j.call
FirstIntents(S) ==
    {i \in S : Cardinality({j \in S : IntentBefore(j, i)}) <= DrainLimit}

CallAuditIntent(c, e) == [at |-> now, call |-> c, event |-> e]
AuditRetryUnarmed     == alarm                                     \* mutant
AuditRetryArmed       == Earlier(alarm, now + AuditRetry)

\* scheduleNextAlarm: the earliest of the first due key, the active call's
\* lease and the audit retry replaces whatever alarm was set.
AlarmTimesWithoutLease(ob) ==                                      \* mutant
    {k[1] : k \in due} \cup (IF ob # {} THEN {now + AuditRetry} ELSE {})
AlarmTimesWithoutDue(ob) == IF ob # {} THEN {now + AuditRetry} ELSE {} \* mutant
AlarmTimes(ob) ==
    {k[1] : k \in due}
      \cup (IF active # NoCall /\ task[active].lease # NoLease
            THEN {task[active].lease.expires_at} ELSE {})
      \cup (IF ob # {} THEN {now + AuditRetry} ELSE {})
ScheduleNextAlarm(ob) ==
    IF AlarmTimes(ob) = {} THEN UNCHANGED alarm
    ELSE \E t \in AlarmTimes(ob) :
            (\A u \in AlarmTimes(ob) : t <= u) /\ alarm' = t
-----------------------------------------------------------------------------
(* Handlers.  Events and the answers of D1 are delivered through the gate. *)

Head1(h)  == Head(handler[h].todo)
Running(h) == handler[h].todo # <<>>
GateOpen  == \A h \in Handlers : Running(h) => Head1(h) \in Awaits
\* Slots are interchangeable: an event takes the first idle one.
Free(h)   == GateOpen /\ ~Running(h) /\ \A g \in Handlers : g < h => Running(g)
At(h, stage) == Running(h) /\ Head1(h) = stage
IsAlarm(h) == \E i \in 1..Len(handler[h].todo) : handler[h].todo[i] = "rearm"

SetHandler(h, hd) ==
    handler' = [handler EXCEPT ![h] = IF hd.todo = <<>> THEN Idle ELSE hd]
Do(h, hd, todo) == SetHandler(h, [hd EXCEPT !.todo = todo])
Rest(h) == Tail(handler[h].todo)

\* flushAuditOutbox reads the outbox as it stands; an empty one is no wait.
FlushThen(h, hd, ob, todo) ==
    IF ob = {} THEN Do(h, hd, todo)
    ELSE SetHandler(h, [hd EXCEPT !.todo = <<"flush">> \o todo,
                                  !.batch = FirstIntents(ob),
                                  !.stored = FALSE])

\* The whole object stops; its alarm is retried if it was being handled.
RetryAlarm(h) == alarm' = IF IsAlarm(h) THEN Earlier(alarm, now) ELSE alarm
-----------------------------------------------------------------------------
(* Pieces of the transactions.                                             *)

ReleaseAllBytes(old, new) ==                                       \* mutant
    IF IsDurable(old) /\ ~old.quota_released
    THEN /\ outstanding' = AtLeast0(outstanding - 1)
         /\ callerOutstanding' =
              [callerOutstanding EXCEPT ![old.from] = AtLeast0(@ - 1)]
         /\ storedBytes' = AtLeast0(storedBytes - old.ciphertext_bytes)
    ELSE UNCHANGED quota
ReleaseDurableQuota(old, new) ==
    IF IsDurable(old) /\ ~old.quota_released
    THEN /\ outstanding' = AtLeast0(outstanding - 1)
         /\ callerOutstanding' =
              [callerOutstanding EXCEPT ![old.from] = AtLeast0(@ - 1)]
         /\ storedBytes' = AtLeast0(storedBytes - old.ciphertext_bytes
                                                + new.ciphertext_bytes)
    ELSE UNCHANGED quota

TerminateKeepTimer(c, new, event) ==                               \* mutant
    LET final == [new EXCEPT !.quota_released = @ \/ IsDurable(task[c])] IN
    /\ task' = [task EXCEPT ![c] = final]
    /\ due' = due \cup {DueKey(final, c)}
    /\ ReleaseDurableQuota(task[c], new)
    /\ outbox' = outbox \cup {CallAuditIntent(c, event)}
    /\ alarm' = AuditRetryArmed

\* Every transition to a terminal state: the record, its quota, its timer and
\* its audit intent in one transaction.
Terminate(c, new, event) ==
    LET old   == task[c]
        final == [new EXCEPT !.quota_released = @ \/ IsDurable(old)] IN
    /\ task' = [task EXCEPT ![c] = final]
    /\ due' = (due \ {DueKey(old, c)}) \cup {DueKey(final, c)}
    /\ ReleaseDurableQuota(old, new)
    /\ outbox' = outbox \cup {CallAuditIntent(c, event)}
    /\ alarm' = AuditRetryArmed

\* A durable record drops its request, lease and bytes and keeps a tombstone;
\* a live record keeps everything but its state.
Ended(t, task_state) ==
    IF IsDurable(t)
    THEN [t EXCEPT !.task_state = task_state, !.delivery_state = "terminal",
                   !.deadline = PurgeAt(t), !.request_envelope = FALSE,
                   !.lease = NoLease, !.ciphertext_bytes = 0]
    ELSE [t EXCEPT !.task_state = task_state]

\* The last transaction before a delivery takes the place of the active call.
LeaseAnyway == TRUE                                                \* mutant
LeaseFree   == active = NoCall

\* An unstarted lease comes back when it has run out, not before.
LeaseDropped(c) == c # NoCall /\ task[c].delivery_state = "leased" \* mutant
LeaseRanOut(c)  == /\ c # NoCall /\ task[c].delivery_state = "leased"
                   /\ task[c].lease.expires_at <= now

\* Started work is bounded by its listener's execution timeout and never by
\* more than was left of the mailbox's.
UnboundedExecution(t) == now + ExecutionMs[session]                \* mutant
ExecutionDeadline(t)  == Least(ExecuteBy(t), now + ExecutionMs[session])

\* A purged call's message id may be used again.
KeepSubmission(t)   == UNCHANGED dedupe                            \* mutant
ForgetSubmission(t) == dedupe' = [dedupe EXCEPT ![t.from][t.message_id] = NoCall]

\* What is left when the batch's keys are deleted.
DrainedAll(ob, batch) == {}                                        \* mutant
Drained(ob, batch)    == ob \ batch

\* Too little of the mailbox's time is left to start the candidate, which is
\* kept as its execute_by and its call.
TooLate(k) == k[1] - now < RelayCallTimeout

Dequeue(c) == /\ queue' = queue \ {QueueKey(task[c], c)}
              /\ active' = IF active = c THEN NoCall ELSE active
-----------------------------------------------------------------------------
Init ==
    /\ now = 0
    /\ task = [c \in Calls |-> NoTask]
    /\ issued = {} /\ queue = {} /\ due = {} /\ active = NoCall
    /\ dedupe = [k \in Callers |-> [m \in Messages |-> NoCall]]
    /\ outstanding = 0 /\ callerOutstanding = [k \in Callers |-> 0]
    /\ storedBytes = 0 /\ starts = {} /\ outbox = {} /\ alarm = NoAlarm
    /\ rows = [c \in Calls |-> [e \in Events |-> 0]]
    /\ session = 0 /\ sessions = 0 /\ capable = FALSE
    /\ seen = [c \in Calls |-> "none"]
    /\ waiting = {}
    /\ handler = [h \in Handlers |-> Idle]
    /\ failures = 0
-----------------------------------------------------------------------------
(* Events.                                                                 *)

\* The clock waits for nothing: alarms and answers of D1 may be late.
Tick ==
    /\ GateOpen /\ now < MaxTime
    /\ now' = now + 1
    /\ UNCHANGED <<durables, outside, handler>>

\* A listener's socket replaces the one there was; a mailbox-capable one is
\* given work before its upgrade is answered.
Connect(h, mailboxCapable) ==
    /\ Free(h) /\ sessions < MaxSessions
    /\ session' = sessions + 1 /\ sessions' = sessions + 1
    /\ capable' = mailboxCapable
    /\ IF mailboxCapable
       THEN Do(h, [Idle EXCEPT !.session = sessions + 1], <<"dispatch">>)
       ELSE UNCHANGED handler
    /\ UNCHANGED <<now, durables, rows, seen, waiting, failures>>

Disconnect ==
    /\ GateOpen /\ session # 0
    /\ session' = 0 /\ capable' = FALSE
    /\ UNCHANGED <<now, durables, rows, sessions, seen, waiting, handler,
                   failures>>

\* A durable frame that goes to the mailbox.  A known message id is answered
\* with its receipt and changes nothing, and so does a frame over a limit.
SubmitDurable(h, k, m, bytes) ==
    /\ Free(h) /\ now <= LastSubmit
    /\ dedupe[k][m] = NoCall
    /\ session = 0 \/ queue # {}
    /\ outstanding < MaxQueuedTasks /\ callerOutstanding[k] < MaxPerCaller
    /\ storedBytes + bytes <= MaxStoredBytes
    /\ \E c \in Calls \ issued :
         LET t == [NoTask EXCEPT !.delivery_state = "queued", !.from = k,
                     !.message_id = m, !.created_at = now,
                     !.deadline = now + Least(MailboxTtl, TimeoutMs[c]),
                     !.execute_by = now + Least(MailboxTtl, TimeoutMs[c]),
                     !.request_envelope = TRUE, !.ciphertext_bytes = bytes] IN
         /\ issued' = issued \cup {c}
         /\ task' = [task EXCEPT ![c] = t]
         /\ dedupe' = [dedupe EXCEPT ![k][m] = c]
         /\ queue' = queue \cup {QueueKey(t, c)}
         /\ due' = due \cup {DueKey(t, c)}
         /\ outbox' = outbox \cup {CallAuditIntent(c, "submit")}
         /\ FlushThen(h, [Idle EXCEPT !.call = c], outbox', <<"receipt">>)
    /\ outstanding' = outstanding + 1
    /\ callerOutstanding' = [callerOutstanding EXCEPT ![k] = @ + 1]
    /\ storedBytes' = storedBytes + bytes
    /\ alarm' = AuditRetryArmed
    /\ UNCHANGED <<now, active, starts, outside>>

\* A frame that goes to the connected listener: synchronous, or durable with
\* no backlog (or a mailbox its caller may not use).  Its message id is kept
\* in the record here for the properties; the code stores none.
SubmitLive(h, k, m, mailboxEnabled) ==
    /\ Free(h) /\ now <= LastSubmit /\ session # 0
    /\ m # NoMessage => /\ dedupe[k][m] = NoCall
                        /\ queue = {} \/ ~mailboxEnabled
    /\ \E c \in Calls \ issued :
         LET t == [NoTask EXCEPT !.delivery_state = "live", !.from = k,
                     !.message_id = m, !.created_at = now,
                     !.deadline = now + Least(TimeoutMs[c], RelayCallTimeout)] IN
         /\ issued' = issued \cup {c}
         /\ task' = [task EXCEPT ![c] = t]
         /\ due' = due \cup {DueKey(t, c)}
         /\ outbox' = outbox \cup {CallAuditIntent(c, "submit")}
         /\ FlushThen(h, [Idle EXCEPT !.call = c], outbox', <<"ring">>)
    /\ alarm' = AuditRetryArmed
    /\ UNCHANGED <<now, queue, active, dedupe, quota, starts, outside>>

\* The guards every listener frame passes: a record, not terminal, and for a
\* durable call the lease it was delivered under.  A live call's listener has
\* been sent its incoming_call.
MayReportEnded(c) ==                                               \* mutant
    /\ Exists(c) /\ session # 0
    /\ IF IsDurable(task[c])
       THEN task[c].lease # NoLease /\ task[c].lease.session = session
       ELSE seen[c] # "none"
MayReport(c) ==
    /\ Exists(c) /\ ~TaskIsTerminal(task[c]) /\ session # 0
    /\ IF IsDurable(task[c])
       THEN task[c].lease # NoLease /\ task[c].lease.session = session
       ELSE seen[c] # "none"

CallAccepted(h, c) ==
    /\ Free(h) /\ MayReport(c) /\ task[c].state = "ringing"
    /\ task' = [task EXCEPT ![c].state = "answered"]
    /\ outbox' = outbox \cup {CallAuditIntent(c, "accept")}
    /\ alarm' = AuditRetryArmed
    /\ FlushThen(h, [Idle EXCEPT !.call = c, !.state = "answered"], outbox',
                 <<"status">>)
    /\ UNCHANGED <<now, issued, queue, due, active, dedupe, quota, starts,
                   outside>>

CallStarted(h, c) ==
    LET old == task[c]
        durable == IsDurable(old)
        new == [old EXCEPT !.state = "working", !.task_state = "working",
                  !.delivery_state = IF durable THEN "started" ELSE @,
                  !.deadline = IF durable THEN ExecutionDeadline(old) ELSE @]
        hd == [Idle EXCEPT !.call = c, !.state = "working"] IN
    /\ Free(h) /\ MayReport(c) /\ old.state # "working"
    /\ task' = [task EXCEPT ![c] = new]
    /\ due' = (due \ {DueKey(old, c)}) \cup {DueKey(new, c)}
    /\ starts' = IF durable THEN starts \cup {<<now, c>>} ELSE starts
    /\ IF old.state = "ringing"
       THEN /\ outbox' = outbox \cup {CallAuditIntent(c, "accept")}
            /\ alarm' = IF durable THEN Earlier(AuditRetryArmed, new.deadline)
                        ELSE AuditRetryArmed
            /\ FlushThen(h, hd, outbox', <<"status">>)
       ELSE /\ alarm' = IF durable THEN Earlier(alarm, new.deadline) ELSE alarm
            /\ Do(h, hd, <<"status">>)
            /\ UNCHANGED outbox
    /\ UNCHANGED <<now, issued, queue, active, dedupe, quota, outside>>

\* call_cancelled, call_rejected and call_outcome.  A durable call then gives
\* up its place and the listener is given the next; only a rejected call's
\* caller is told before that.
CallCancelled(h, c) ==
    /\ Free(h) /\ MayReport(c)
    /\ Terminate(c, Ended(task[c], "canceled"), "cancel")
    /\ FlushThen(h, [Idle EXCEPT !.call = c, !.session = session], outbox',
                 IF IsDurable(task[c]) THEN <<"finish", "notify">>
                 ELSE <<"notify">>)
    /\ UNCHANGED <<now, issued, queue, active, dedupe, starts, outside>>

CallRejected(h, c) ==
    /\ Free(h) /\ MayReport(c)
    /\ Terminate(c, Ended(task[c], "failed"), "fail")
    /\ FlushThen(h, [Idle EXCEPT !.call = c, !.session = session], outbox',
                 IF IsDurable(task[c]) THEN <<"notify", "finish">>
                 ELSE <<"notify">>)
    /\ UNCHANGED <<now, issued, queue, active, dedupe, starts, outside>>

\* A durable record keeps the sealed outcome until execute_by.
CallOutcome(h, c, task_state, bytes) ==
    LET new == [Ended(task[c], task_state) EXCEPT
                  !.outcome_envelope = TRUE,
                  !.deadline = IF IsDurable(task[c]) THEN ExecuteBy(task[c])
                               ELSE @,
                  !.ciphertext_bytes = IF IsDurable(task[c]) THEN bytes
                                       ELSE @] IN
    /\ Free(h) /\ MayReport(c)
    /\ Terminate(c, new, IF task_state = "completed" THEN "complete" ELSE "fail")
    /\ FlushThen(h, [Idle EXCEPT !.call = c, !.session = session], outbox',
                 IF IsDurable(task[c]) THEN <<"finish", "notify">>
                 ELSE <<"notify">>)
    /\ UNCHANGED <<now, issued, queue, active, dedupe, starts, outside>>

\* The listener refuses: whoever asked is told, the call goes on.
CallNotCancelled(c) ==
    /\ GateOpen /\ MayReport(c) /\ c \in waiting
    /\ waiting' = waiting \ {c}
    /\ UNCHANGED <<now, durables, rows, sockets, seen, handler, failures>>

\* CancelTask on a call no listener has started: the relay decides alone.
CancelUnstarted(h, c) ==
    /\ Free(h) /\ c \in Cancellable /\ ~TaskIsTerminal(task[c])
    /\ task[c].delivery_state \in {"queued", "leased"}
    /\ Terminate(c, Ended(task[c], "canceled"), "cancel")
    /\ Dequeue(c)
    /\ FlushThen(h, Idle, outbox', <<"redispatch">>)
    /\ UNCHANGED <<now, issued, dedupe, starts, outside>>

\* CancelTask otherwise: the request waits for the listener's answer, for at
\* most CANCEL_CONFIRM_TIMEOUT_MS.
CancelAtListener(c) ==
    /\ GateOpen /\ c \in Cancellable \ waiting /\ session # 0
    /\ task[c].delivery_state \in {"live", "started"} /\ ~TaskIsTerminal(task[c])
    /\ waiting' = waiting \cup {c}
    /\ UNCHANGED <<now, durables, rows, sockets, seen, handler, failures>>

CancelTimeout(c) ==
    /\ GateOpen /\ c \in waiting
    /\ waiting' = waiting \ {c}
    /\ UNCHANGED <<now, durables, rows, sockets, seen, handler, failures>>

\* The runtime clears the alarm and runs alarm(), one at a time.
AlarmFires(h) ==
    /\ Free(h) /\ alarm # NoAlarm /\ alarm <= now
    /\ \A g \in Handlers : ~IsAlarm(g)
    /\ alarm' = NoAlarm
    /\ Do(h, Idle, <<"recover", "expire", "redispatch", "rearm">>)
    /\ UNCHANGED <<now, records, outbox, outside>>
-----------------------------------------------------------------------------
(* D1 and the ends of its waits.                                           *)

\* INSERT ... ON CONFLICT(event_key) DO NOTHING; ids grow in insertion order,
\* and only their order within a call is kept.
D1Insert(h) ==
    LET hd == handler[h]
        fresh == {i \in hd.batch : rows[i.call][i.event] = 0}
        id(i) == Cardinality({e \in Events : rows[i.call][e] # 0})
                   + Cardinality({j \in fresh : /\ j.call = i.call
                                                /\ IntentBefore(j, i)}) IN
    /\ At(h, "flush") /\ ~hd.stored
    /\ rows' = [c \in Calls |-> [e \in Events |->
                 IF \E i \in fresh : i.call = c /\ i.event = e
                 THEN id(CHOOSE i \in fresh : i.call = c /\ i.event = e)
                 ELSE rows[c][e]]]
    /\ handler' = [handler EXCEPT ![h].stored = TRUE]
    /\ UNCHANGED <<now, durables, sockets, seen, waiting, failures>>

FlushDone(h) ==
    /\ GateOpen /\ At(h, "flush") /\ handler[h].stored
    /\ outbox' = Drained(outbox, handler[h].batch)
    /\ ScheduleNextAlarm(outbox')
    /\ Do(h, [handler[h] EXCEPT !.batch = {}, !.stored = FALSE], Rest(h))
    /\ UNCHANGED <<now, records, outside>>

\* The batch may have been committed when its answer is an error.
FlushFails(h) ==
    /\ GateOpen /\ At(h, "flush")
    /\ failures < MaxFailures /\ now + AuditRetry <= MaxTime
    /\ failures' = failures + 1
    /\ alarm' = now + AuditRetry
    /\ Do(h, [handler[h] EXCEPT !.batch = {}, !.stored = FALSE], Rest(h))
    /\ UNCHANGED <<now, records, outbox, rows, sockets, seen, waiting>>

\* D1 answers whether sender, recipient and card still allow the candidate.
AuthorityCurrent(h) ==
    /\ GateOpen /\ At(h, "authority")
    /\ Do(h, handler[h], IF TooLate(handler[h].candidate) THEN Rest(h)
                         ELSE <<"lease">> \o Rest(h))
    /\ UNCHANGED <<now, durables, outside>>

\* The candidate is revoked if it is still queued, and the next one tried.
AuthorityLost(h) ==
    /\ GateOpen /\ At(h, "authority")
    /\ \E c \in Calls :
         /\ c = handler[h].candidate[2]
         /\ IF task[c].delivery_state = "queued"
            THEN /\ Terminate(c, Ended(task[c], "rejected"), "fail")
                 /\ queue' = queue \ {QueueKey(task[c], c)}
            ELSE UNCHANGED <<task, queue, due, quota, outbox, alarm>>
    /\ FlushThen(h, [handler[h] EXCEPT !.candidate = NoKey], outbox',
                 <<"dispatch">> \o Rest(h))
    /\ UNCHANGED <<now, issued, active, dedupe, starts, outside>>

\* The D1 error leaves the handler: whatever it had left to do is dropped.
AuthorityFails(h) ==
    /\ GateOpen /\ At(h, "authority")
    /\ failures < MaxFailures /\ failures' = failures + 1
    /\ RetryAlarm(h)
    /\ Do(h, Idle, <<>>)
    /\ UNCHANGED <<now, records, outbox, rows, sockets, seen, waiting>>
-----------------------------------------------------------------------------
(* Stages that run without a wait.                                         *)

FinishDurableTask(h) ==
    /\ At(h, "finish")
    /\ Dequeue(handler[h].call)
    /\ Do(h, handler[h], <<"dispatch">> \o Rest(h))
    /\ UNCHANGED <<now, task, issued, due, dedupe, quota, starts, outbox,
                   alarm, outside>>

\* dispatchNext with an active call: started work is offered again under a
\* lease of the given listener; a leased call just keeps its lease.
Rebind(h) ==
    /\ At(h, "dispatch") /\ active # NoCall
    /\ task' = IF task[active].delivery_state = "started"
               THEN [task EXCEPT ![active].lease =
                       [session |-> handler[h].session,
                        expires_at |-> task[active].deadline,
                        attempt |-> task[active].lease.attempt]]
               ELSE task
    /\ Do(h, handler[h], Rest(h))
    /\ UNCHANGED <<now, issued, queue, due, active, dedupe, quota, starts,
                   outbox, alarm, outside>>

\* dispatchNext with none: the head of the queue, if it is queued, must pass
\* the daily start budget and then an authority check by D1.
LiveStarts == {k \in starts : k[1] + StartWindow > now}
ConsiderHead(h) ==
    /\ At(h, "dispatch") /\ active = NoCall
    /\ \E k \in queue : /\ IsFirst(k, queue)
                        /\ task[k[2]].delivery_state = "queued"
                        /\ IF Cardinality(LiveStarts) >= MaxStartsPerDay
                           THEN Do(h, handler[h], Rest(h))
                           ELSE Do(h, [handler[h] EXCEPT !.candidate =
                                         <<ExecuteBy(task[k[2]]), k[2]>>],
                                   <<"authority">> \o Rest(h))
    /\ starts' = LiveStarts
    /\ IF Cardinality(LiveStarts) >= MaxStartsPerDay
       THEN \E k \in LiveStarts : /\ IsFirst(k, LiveStarts)
                                  /\ alarm' = Earlier(alarm, k[1] + StartWindow)
       ELSE UNCHANGED alarm
    /\ UNCHANGED <<now, task, issued, queue, due, active, dedupe, quota,
                   outbox, outside>>

\* No head, or one that is not queued: straight to the lease transaction.
SkipHead(h) ==
    /\ At(h, "dispatch") /\ active = NoCall
    /\ ~ \E k \in queue : /\ IsFirst(k, queue)
                          /\ task[k[2]].delivery_state = "queued"
    /\ Do(h, handler[h], <<"lease">> \o Rest(h))
    /\ UNCHANGED <<now, durables, outside>>

\* The lease transaction reads the head of the queue again; the listener is
\* sent incoming_call when it commits.
LeaseHead(h) ==
    /\ At(h, "lease") /\ LeaseFree
    /\ \E k \in queue :
         LET c == k[2]
             lease == [session |-> handler[h].session,
                       expires_at |-> now + LeaseMs[handler[h].session],
                       attempt |-> task[c].lease.attempt + 1] IN
         /\ IsFirst(k, queue)
         /\ IF task[c].delivery_state = "queued"
            THEN /\ task' = [task EXCEPT ![c].delivery_state = "leased",
                                         ![c].lease = lease]
                 /\ active' = c
                 /\ alarm' = Earlier(alarm, lease.expires_at)
                 /\ UNCHANGED queue
            ELSE /\ queue' = queue \ {k}
                 /\ UNCHANGED <<task, active, alarm>>
    /\ Do(h, [handler[h] EXCEPT !.candidate = NoKey], Rest(h))
    /\ UNCHANGED <<now, issued, due, dedupe, quota, starts, outbox, outside>>

NothingToLease(h) ==
    /\ At(h, "lease") /\ (~LeaseFree \/ queue = {})
    /\ Do(h, [handler[h] EXCEPT !.candidate = NoKey], Rest(h))
    /\ UNCHANGED <<now, durables, outside>>

\* recoverExpiredLease: an unstarted lease that ran out returns its call to
\* the queue, or ends it at the last attempt.  Then the due keys are listed.
RecoverExpiredLease(h) ==
    LET c == active
        expired == LeaseRanOut(c) IN
    /\ At(h, "recover")
    /\ active' = IF expired THEN NoCall ELSE active
    /\ \/ /\ expired /\ task[c].lease.attempt < MaxAttempts
          /\ task' = [task EXCEPT ![c].delivery_state = "queued"]
          /\ UNCHANGED <<queue, due, quota, outbox, alarm>>
       \/ /\ expired /\ task[c].lease.attempt >= MaxAttempts
          /\ Terminate(c, Ended(task[c], "failed"), "fail")
          /\ queue' = queue \ {QueueKey(task[c], c)}
       \/ /\ ~expired
          /\ UNCHANGED <<task, queue, due, quota, outbox, alarm>>
    /\ Do(h, [handler[h] EXCEPT !.keys = {k \in FirstKeys(due') : k[1] <= now}],
          Rest(h))
    /\ UNCHANGED <<now, issued, dedupe, starts, outside>>

\* expireTask's outcomes for the call of a due key.
Timeout(c) ==                                   \* a durable call ran out
    /\ IsDurable(task[c]) /\ ~TaskIsTerminal(task[c])
    /\ Terminate(c, Ended(task[c], "failed"), "timeout")
    /\ Dequeue(c)
    /\ UNCHANGED dedupe

DropOutcome(c) ==                               \* tombstone without outcome
    LET old == task[c]
        new == [old EXCEPT !.deadline = PurgeAt(old), !.outcome_envelope = FALSE,
                  !.ciphertext_bytes = IF old.outcome_envelope THEN 0 ELSE @] IN
    /\ IsDurable(old) /\ TaskIsTerminal(old) /\ PurgeAt(old) > now
    /\ task' = [task EXCEPT ![c] = new]
    /\ due' = (due \ {DueKey(old, c)}) \cup {DueKey(new, c)}
    /\ storedBytes' = IF old.outcome_envelope
                      THEN AtLeast0(storedBytes - old.ciphertext_bytes)
                      ELSE storedBytes
    /\ UNCHANGED <<queue, active, dedupe, outstanding, callerOutstanding,
                   outbox, alarm>>

Purge(c) ==                                     \* the tombstone ran out
    LET old == task[c] IN
    /\ IsDurable(old) /\ TaskIsTerminal(old) /\ PurgeAt(old) <= now
    /\ task' = [task EXCEPT ![c] = NoTask]
    /\ due' = due \ {DueKey(old, c)}
    /\ ForgetSubmission(old)
    /\ storedBytes' = IF old.quota_released
                      THEN AtLeast0(storedBytes - old.ciphertext_bytes)
                      ELSE storedBytes
    /\ Dequeue(c)
    /\ UNCHANGED <<outstanding, callerOutstanding, outbox, alarm>>

DeleteLive(c) ==                                \* a live call ran out
    /\ task[c].delivery_state = "live"
    /\ task' = [task EXCEPT ![c] = NoTask]
    /\ due' = due \ {DueKey(task[c], c)}
    /\ IF TaskIsTerminal(task[c]) THEN UNCHANGED <<outbox, alarm>>
       ELSE /\ outbox' = outbox \cup {CallAuditIntent(c, "timeout")}
            /\ alarm' = AuditRetryArmed
    /\ UNCHANGED <<queue, active, dedupe, quota>>

\* One due key of the alarm's list; a key whose call is not due is dropped.
ExpireTask(h, k) ==
    LET c == k[2]
        isDue == Exists(c) /\ task[c].deadline <= now
        timedOut == isDue /\ ~TaskIsTerminal(task[c])
        hd == [handler[h] EXCEPT !.keys = @ \ {k},
                 !.timedOut = IF timedOut THEN @ \cup {c} ELSE @] IN
    /\ At(h, "expire") /\ IsFirst(k, handler[h].keys)
    /\ IF isDue
       THEN Timeout(c) \/ DropOutcome(c) \/ Purge(c) \/ DeleteLive(c)
       ELSE /\ due' = due \ {k}
            /\ UNCHANGED <<task, queue, active, dedupe, quota, outbox, alarm>>
    /\ SetHandler(h, hd)
    /\ UNCHANGED <<now, issued, starts, outside>>

ExpireDone(h) ==
    /\ At(h, "expire") /\ handler[h].keys = {}
    /\ FlushThen(h, handler[h], outbox, Rest(h))
    /\ UNCHANGED <<now, durables, outside>>

\* Tell the callers of timed-out calls, then give the listener work.
Redispatch(h) ==
    /\ At(h, "redispatch")
    /\ seen' = [c \in Calls |->
                  IF c \in handler[h].timedOut THEN "done" ELSE seen[c]]
    /\ waiting' = waiting \ handler[h].timedOut
    /\ Do(h, [handler[h] EXCEPT !.session = IF capable THEN session ELSE 0,
                                !.timedOut = {}],
          IF capable THEN <<"dispatch">> \o Rest(h) ELSE Rest(h))
    /\ UNCHANGED <<now, durables, rows, sockets, failures>>

Rearm(h) ==
    /\ At(h, "rearm")
    /\ ScheduleNextAlarm(outbox)
    /\ Do(h, handler[h], Rest(h))
    /\ UNCHANGED <<now, records, outbox, outside>>

\* A frame to the caller's socket; a closed socket takes none.
Show(c, frame) ==
    seen' = [seen EXCEPT ![c] = IF @ = "done" THEN @ ELSE frame]

\* The admission's last steps: the alarm, then the receipt or "ringing".
Receipt(h) ==
    /\ \/ At(h, "receipt") /\ Show(handler[h].call, "done")
       \/ At(h, "ring") /\ Show(handler[h].call, "ringing")
    /\ ScheduleNextAlarm(outbox)
    /\ Do(h, handler[h], Rest(h))
    /\ UNCHANGED <<now, records, outbox, rows, sockets, waiting, failures>>

SendStatus(h) ==
    /\ At(h, "status")
    /\ Show(handler[h].call, handler[h].state)
    /\ Do(h, handler[h], Rest(h))
    /\ UNCHANGED <<now, durables, rows, sockets, waiting, failures>>

SendTerminal(h) ==
    /\ At(h, "notify")
    /\ Show(handler[h].call, "done")
    /\ waiting' = waiting \ {handler[h].call}
    /\ Do(h, handler[h], Rest(h))
    /\ UNCHANGED <<now, durables, rows, sockets, failures>>

\* Everything volatile is lost; hibernated sockets may or may not survive.
Crash ==
    /\ failures < MaxFailures /\ now < MaxTime
    /\ \E h \in Handlers : Running(h)
    /\ failures' = failures + 1
    /\ handler' = [h \in Handlers |-> Idle]
    /\ waiting' = {}
    /\ alarm' = IF \E h \in Handlers : IsAlarm(h) THEN Earlier(alarm, now)
                ELSE alarm
    /\ \/ UNCHANGED <<session, capable>>
       \/ session' = 0 /\ capable' = FALSE
    /\ UNCHANGED <<now, records, outbox, rows, sessions, seen>>
-----------------------------------------------------------------------------
Receive(h) ==
    \/ \E cap \in Capabilities : Connect(h, cap)
    \/ \E k \in Callers :
         \/ \E m \in Messages, b \in RequestSizes : SubmitDurable(h, k, m, b)
         \/ \E m \in LiveMessages, e \in BOOLEAN : SubmitLive(h, k, m, e)
    \/ \E c \in Calls :
         \/ CancelUnstarted(h, c)
         \/ "call_accepted" \in Frames /\ CallAccepted(h, c)
         \/ "call_started" \in Frames /\ CallStarted(h, c)
         \/ "call_cancelled" \in Frames /\ CallCancelled(h, c)
         \/ "call_rejected" \in Frames /\ CallRejected(h, c)
         \/ /\ "call_outcome" \in Frames
            /\ \E s \in Outcomes, b \in OutcomeSizes : CallOutcome(h, c, s, b)

\* The rest of a handler, which the runtime carries on with.
Continue(h) ==
    \/ D1Insert(h) \/ FlushDone(h) \/ AuthorityCurrent(h)
    \/ FinishDurableTask(h) \/ Rebind(h) \/ ConsiderHead(h) \/ SkipHead(h)
    \/ LeaseHead(h) \/ NothingToLease(h) \/ RecoverExpiredLease(h)
    \/ (\E k \in handler[h].keys : ExpireTask(h, k)) \/ ExpireDone(h)
    \/ Redispatch(h) \/ Rearm(h) \/ Receipt(h) \/ SendStatus(h)
    \/ SendTerminal(h)

Next ==
    \/ Tick \/ Disconnect \/ Crash
    \/ \E c \in Calls : CancelAtListener(c) \/ CancelTimeout(c) \/ CallNotCancelled(c)
    \/ \E h \in Handlers : \/ Receive(h) \/ AlarmFires(h) \/ Continue(h)
                           \/ FlushFails(h) \/ AuthorityLost(h)
                           \/ AuthorityFails(h)

Spec == Init /\ [][Next]_vars

\* The runtime resumes handlers and runs the alarm, D1 answers; the clock goes
\* on however busy the object is.  Callers, listeners and failures are free to
\* do nothing.
Fairness ==
    /\ SF_vars(Tick)
    /\ \A h \in Handlers : WF_vars(Continue(h)) /\ WF_vars(AlarmFires(h))
FairSpec == Spec /\ Fairness
=============================================================================
