------------------------- MODULE HandleDOProperties -------------------------
(***************************************************************************)
(* What the handle object must keep true, for TLC and for the proofs.      *)
(***************************************************************************)
EXTENDS HandleDO

-----------------------------------------------------------------------------
\* Every variable stays within the values its code can give it.
Times == Nat
Lease == [session : 0..MaxSessions, expires_at : Times, attempt : Nat]
Task  == [delivery_state : DurableStates \cup {"live", "absent"},
          state : CallStates,
          task_state : {"submitted", "working"} \cup TerminalStates,
          from : Callers \cup {NoCaller}, message_id : Messages \cup {NoMessage},
          created_at : Times, deadline : Times, execute_by : Times, lease : Lease,
          request_envelope : BOOLEAN, outcome_envelope : BOOLEAN,
          ciphertext_bytes : Nat, quota_released : BOOLEAN]
Intent == [at : Times, call : Calls, event : Events]
Handler == [todo : Seq(Stages), call : Calls \cup {NoCall},
            session : 0..MaxSessions, state : CallStates,
            candidate : Times \X (Calls \cup {NoCall}), batch : SUBSET Intent,
            stored : BOOLEAN, keys : SUBSET (Times \X Calls),
            timedOut : SUBSET Calls]
TypeOK ==
    /\ now \in 0..MaxTime
    /\ task \in [Calls -> Task]
    /\ issued \in SUBSET Calls
    /\ queue \in SUBSET (Times \X Calls) /\ due \in SUBSET (Times \X Calls)
    /\ starts \in SUBSET (Times \X Calls)
    /\ active \in Calls \cup {NoCall}
    /\ dedupe \in [Callers -> [Messages -> Calls \cup {NoCall}]]
    /\ outstanding \in Nat /\ callerOutstanding \in [Callers -> Nat]
    /\ storedBytes \in Nat
    /\ outbox \in SUBSET Intent
    /\ alarm \in Times \cup {NoAlarm}
    /\ rows \in [Calls -> [Events -> Nat]]
    /\ session \in 0..MaxSessions /\ sessions \in 0..MaxSessions
    /\ capable \in BOOLEAN
    /\ seen \in [Calls -> CallStates \cup {"none", "done"}]
    /\ waiting \in SUBSET Calls
    /\ handler \in [Handlers -> Handler]
    /\ failures \in 0..MaxFailures

Unreleased == {c \in Calls : IsDurable(task[c]) /\ ~task[c].quota_released}

\* The stored bytes one by one: byte n of the record of call c.
BytesKept == UNION {{c} \X (1..task[c].ciphertext_bytes) :
                      c \in {x \in Calls : IsDurable(task[x])}}

\* The mailbox counters are what the records say: a call counts against the
\* limits from its admission to its end exactly once, through leases, retries,
\* revocation, expiry and purge, and its stored bytes are given back with it.
QuotaExact ==
    /\ Unreleased = {c \in Calls : IsDurable(task[c]) /\ ~TaskIsTerminal(task[c])}
    /\ outstanding = Cardinality(Unreleased)
    /\ \A k \in Callers : callerOutstanding[k] =
                            Cardinality({c \in Unreleased : task[c].from = k})
    /\ storedBytes = Cardinality(BytesKept)

\* The timer index has one key per record, at the record's deadline: no record
\* outlives its deadline for want of a timer and no timer outlives its record.
DueExact == due = {DueKey(task[c], c) : c \in {x \in Calls : Exists(x)}}

\* A call waiting for delivery is in the queue, and a leased call is the active
\* one, so no second call is leased beside it.
DeliveryStatesAgree ==
    \A c \in Calls :
      /\ task[c].delivery_state \in {"queued", "leased"}
           => QueueKey(task[c], c) \in queue
      /\ task[c].delivery_state = "leased" => active = c
      /\ task[c].delivery_state = "queued" => active # c

\* A message id names its call as long as the call's record exists, so a
\* retried submission finds it.
DedupeExact ==
    \A k \in Callers, m \in Messages, c \in Calls :
      dedupe[k][m] = c <=> /\ IsDurable(task[c])
                           /\ task[c].from = k /\ task[c].message_id = m

\* docs/spec/v1.md "A submission is protected until execute_by +
\* MAILBOX_TOMBSTONE_TTL_MS".
SubmissionProtected ==
    [][\A k \in Callers, m \in Messages :
         dedupe[k][m] # NoCall =>
           \/ dedupe'[k][m] = dedupe[k][m]
           \/ now >= task[dedupe[k][m]].execute_by + TombstoneTtl]_vars

\* No call is delivered a second time while its lease runs, nor more than
\* MaxAttempts times before it is started.
OneDelivery ==
    [][\A c \in Calls :
         task'[c].lease.attempt > task[c].lease.attempt =>
           /\ task[c].lease.expires_at <= now
           /\ task'[c].lease.attempt <= MaxAttempts]_vars

\* docs/spec/v1.md "Delivery is attempted until execute_by. The relay MUST NOT
\* extend that deadline": work in progress only ever gets less time.
DeadlineNotExtended ==
    [][\A c \in Calls :
         /\ IsDurable(task[c]) /\ ~TaskIsTerminal(task[c])
         /\ IsDurable(task'[c]) /\ ~TaskIsTerminal(task'[c])
         => task'[c].deadline <= task[c].deadline]_vars

\* The alarm is never later than anything the object has to wake for (a failed
\* audit batch may put it off by AuditRetry), except while alarm() itself runs
\* and will set it again.
WakesBy(t) == alarm # NoAlarm /\ (alarm <= t \/ alarm <= now + AuditRetry)
AlarmArmed ==
    \/ \E h \in Handlers : IsAlarm(h)
    \/ /\ outbox # {} => WakesBy(now)
       /\ \A k \in due : WakesBy(k[1])
       /\ \A c \in Calls : task[c].delivery_state = "leased" =>
            WakesBy(task[c].lease.expires_at)

\* An audit intent leaves the outbox only when its row is in D1.
NoIntentLost ==
    [][\A i \in outbox : i \in outbox' \/ rows[i.call][i.event] # 0]_vars

\* D1 row ids keep each call's own order: submission, acceptance, end.
AuditOrder ==
    \A c \in Calls, e \in TerminalEvents :
      rows[c][e] # 0 => /\ 0 < rows[c]["submit"] /\ rows[c]["submit"] < rows[c][e]
                        /\ rows[c]["accept"] < rows[c][e]
                        /\ rows[c]["accept"] # 0 =>
                             rows[c]["submit"] < rows[c]["accept"]

\* The detailed state as CallLifecycle sees it.
Phase(c) ==
    IF ~Exists(c) THEN (IF c \in issued THEN "gone" ELSE "none")
    ELSE IF TaskIsTerminal(task[c]) THEN task[c].task_state ELSE task[c].state
Trail(c) == {e \in Events : \/ rows[c][e] # 0
                            \/ \E i \in outbox : i.call = c /\ i.event = e}
Lifecycle == INSTANCE CallLifecycle WITH phase <- [c \in Calls |-> Phase(c)],
                                         trail <- [c \in Calls |-> Trail(c)]

\* Every step of the object, failures included, is a step of the promised
\* lifecycle or none: one end per call, and evidence for each transition.
LifecycleKept == Lifecycle!Spec
-----------------------------------------------------------------------------
\* No record or idempotency key is kept forever: every call admitted is over
\* and purged in the end, whatever the listener does.
EveryCallEnds == (\E c \in Calls : Exists(c)) ~> (\A c \in Calls : ~Exists(c))

\* The audit outbox drains to D1 through failed batches and crashes.
AuditDelivered == outbox # {} ~> outbox = {}
-----------------------------------------------------------------------------
(* What the specification says and the code does not keep.                 *)

\* docs/spec/v1.md:212 "a retry MUST NOT create a second call".
RetryIsOneCall ==
    \A b, c \in Calls :
      /\ Exists(b) /\ Exists(c) /\ task[b].message_id # NoMessage
      /\ task[b].from = task[c].from /\ task[b].message_id = task[c].message_id
      => b = c

\* docs/site/guides/tasks-and-policy.mdx:76 "queued work is revalidated before
\* lease": the call that is leased is the one this handler checked.
RevalidatedBeforeLease ==
    [][\A c \in Calls :
         task[c].delivery_state = "queued" /\ task'[c].delivery_state = "leased"
           => \E h \in Handlers : At(h, "lease") /\ handler[h].candidate[2] = c]_vars

\* docs/spec/v1.md:182 "An implementation MUST enforce them", of the limits that
\* line 196 has "Durable starts per day" among: no more than MaxStartsPerDay
\* starts in one window.
StartBudget == Cardinality(LiveStarts) <= MaxStartsPerDay
=============================================================================
