--------------------------- MODULE HandleDOProofs ---------------------------
(***************************************************************************)
(* What is proved of the handle object for any calls, callers, limits and  *)
(* durations.  The parts, in order: every step keeps the types; nothing    *)
(* recorded is lost, and the indexes agree with the records; every step    *)
(* makes one of a few changes to one call, or none, and on that list rest  *)
(* the deadlines, the deliveries, the promised lifecycle and the counters. *)
(***************************************************************************)
EXTENDS HandleDOProperties, FiniteSetTheorems, SequenceTheorems, TLAPS

\* The empty handler has the type of one.
LEMMA IdleType == Idle \in Handler
<1>1. <<>> \in Seq(Stages)  OBVIOUS
<1> QED  BY <1>1, HandleDOAssumption DEF Idle, Handler, NoKey, CallStates, Times

\* Setting a handler to a typed one keeps the handlers typed.
LEMMA SetHandlerType ==
    ASSUME handler \in [Handlers -> Handler], NEW h \in Handlers,
           NEW hd \in Handler, SetHandler(h, hd)
    PROVE  handler' \in [Handlers -> Handler]
BY IdleType DEF SetHandler

\* SetHandler and Do put a well-typed handler in its slot.
LEMMA DoType ==
    ASSUME handler \in [Handlers -> Handler], NEW h \in Handlers,
           NEW hd \in Handler, NEW todo \in Seq(Stages), Do(h, hd, todo)
    PROVE  handler' \in [Handlers -> Handler]
<1>1. [hd EXCEPT !.todo = todo] \in Handler  BY DEF Handler
<1> QED  BY <1>1, SetHandlerType DEF Do

\* So does a handler that first waits for the flush of the outbox.
LEMMA FlushThenType ==
    ASSUME handler \in [Handlers -> Handler], NEW h \in Handlers,
           NEW hd \in Handler, NEW ob \in SUBSET Intent,
           NEW todo \in Seq(Stages), FlushThen(h, hd, ob, todo)
    PROVE  handler' \in [Handlers -> Handler]
<1>1. CASE ob = {}  BY <1>1, DoType DEF FlushThen
<1>2. CASE ob # {}
  <2>1. <<"flush">> \o todo \in Seq(Stages)
    <3>1. <<"flush">> \in Seq(Stages)  BY DEF Stages
    <3> QED  BY <3>1, ConcatProperties
  <2>2. FirstIntents(ob) \in SUBSET Intent  BY DEF FirstIntents
  <2>3. [hd EXCEPT !.todo = <<"flush">> \o todo, !.batch = FirstIntents(ob),
                   !.stored = FALSE] \in Handler
    BY <2>1, <2>2 DEF Handler
  <2> QED  BY <1>2, <2>3, SetHandlerType DEF FlushThen
<1> QED  BY <1>1, <1>2

\* What a running handler has left to do after its current stage.
LEMMA RestType ==
    ASSUME handler \in [Handlers -> Handler], NEW h \in Handlers, Running(h)
    PROVE  Rest(h) \in Seq(Stages)
<1>1. handler[h].todo \in Seq(Stages)  BY DEF Handler
<1> QED  BY <1>1, HeadTailProperties DEF Rest, Running

\* Constants the types are closed under.
LEMMA ConstantTypes ==
    /\ MailboxTtl \in Nat /\ TombstoneTtl \in Nat /\ RelayCallTimeout \in Nat
    /\ AuditRetry \in Nat /\ StartWindow \in Nat
    /\ MaxTime \in Nat /\ MaxSessions \in Nat /\ MaxFailures \in Nat
    /\ NoTask \in Task /\ NoLease \in Lease
<1>1. /\ MailboxTtl \in Nat /\ TombstoneTtl \in Nat /\ RelayCallTimeout \in Nat
      /\ AuditRetry \in Nat /\ StartWindow \in Nat
      /\ MaxTime \in Nat /\ MaxSessions \in Nat /\ MaxFailures \in Nat
  BY HandleDOAssumption
<1>2. NoLease \in Lease  BY <1>1 DEF NoLease, Lease, Times
<1>3. NoTask \in Task
  BY <1>2 DEF NoTask, Task, Times, CallStates, DurableStates, TerminalStates
<1> QED  BY <1>1, <1>2, <1>3

\* The inputs an event may carry.
LEMMA InputTypes ==
    /\ Capabilities \subseteq BOOLEAN /\ RequestSizes \subseteq Nat
    /\ LiveMessages \subseteq Messages \cup {NoMessage}
    /\ MaxAttempts \in Nat \ {0}
    /\ \A c \in Calls : c \in Nat /\ c # NoCall
BY HandleDOAssumption DEF NoCall

\* What a connection's query may override is a time.
LEMMA OverrideTypes ==
    /\ \A c \in Calls, t \in Nat : /\ t + Least(MailboxTtl, TimeoutMs[c]) \in Nat
                                   /\ t + Least(TimeoutMs[c], RelayCallTimeout) \in Nat
    /\ \A s \in 0..MaxSessions, t \in Nat : /\ t + LeaseMs[s] \in Nat
                                            /\ t + ExecutionMs[s] \in Nat
<1>1. ASSUME NEW c \in Calls
      PROVE  TimeoutMs[c] \in Nat
  BY HandleDOAssumption
<1>2. ASSUME NEW s \in 0..MaxSessions
      PROVE  LeaseMs[s] \in Nat /\ ExecutionMs[s] \in Nat
  BY HandleDOAssumption
<1> QED  BY <1>1, <1>2, ConstantTypes DEF Least

\* The alarm is set to a time.
LEMMA ScheduleType ==
    ASSUME TypeOK, NEW ob, ScheduleNextAlarm(ob)
    PROVE  alarm' \in Times \cup {NoAlarm}
<1>1. AlarmTimes(ob) \subseteq Nat
  BY ConstantTypes DEF AlarmTimes, TypeOK, Times, Task, Lease, NoCall
<1> QED  BY <1>1 DEF ScheduleNextAlarm, TypeOK, Times

\* Earlier returns an alarm time.
LEMMA EarlierType ==
    ASSUME NEW t \in Times, alarm \in Times \cup {NoAlarm}
    PROVE  Earlier(alarm, t) \in Times
BY DEF Earlier

\* Giving back a call's share of the limits leaves counters.
LEMMA QuotaType ==
    ASSUME TypeOK, NEW old \in Task, NEW new \in Task,
           ReleaseDurableQuota(old, new)
    PROVE  /\ outstanding' \in Nat /\ callerOutstanding' \in [Callers -> Nat]
           /\ storedBytes' \in Nat
<1>1. /\ outstanding \in Nat /\ callerOutstanding \in [Callers -> Nat]
      /\ storedBytes \in Nat
  BY DEF TypeOK
<1>2. /\ old.ciphertext_bytes \in Nat /\ new.ciphertext_bytes \in Nat
      /\ old.from \in Callers \cup {NoCaller}
  BY DEF Task
<1>3. \A n \in Int : AtLeast0(n) \in Nat
  BY DEF AtLeast0
<1>4. CASE ~(IsDurable(old) /\ ~old.quota_released)
  BY <1>1, <1>4 DEF ReleaseDurableQuota, quota
<1>5. CASE IsDurable(old) /\ ~old.quota_released
  <2>1. outstanding' = AtLeast0(outstanding - 1)  BY <1>5 DEF ReleaseDurableQuota
  <2>2. callerOutstanding' = [callerOutstanding EXCEPT
                ![old.from] = AtLeast0(callerOutstanding[old.from] - 1)]
    BY <1>5 DEF ReleaseDurableQuota
  <2>3. storedBytes' = AtLeast0(storedBytes - old.ciphertext_bytes
                                            + new.ciphertext_bytes)
    BY <1>5 DEF ReleaseDurableQuota
  <2>4. outstanding' \in Nat  BY <1>1, <1>3, <2>1
  <2>5. callerOutstanding' \in [Callers -> Nat]
    <3>1. ASSUME NEW n \in Callers  PROVE callerOutstanding'[n] \in Nat
      <4>1. callerOutstanding[n] - 1 \in Int  BY <1>1
      <4> QED  BY <1>1, <1>3, <2>2, <4>1
    <3> QED  BY <1>1, <2>2, <3>1
  <2>6. storedBytes' \in Nat
    <3>1. storedBytes - old.ciphertext_bytes + new.ciphertext_bytes \in Int
      BY <1>1, <1>2
    <3> QED  BY <3>1, <1>3, <2>3
  <2> QED  BY <2>4, <2>5, <2>6
<1> QED  BY <1>4, <1>5

\* Ending a call leaves everything the transaction writes typed.
LEMMA TerminateType ==
    ASSUME TypeOK, NEW c \in Calls, NEW new \in Task, NEW e \in Events,
           Terminate(c, new, e)
    PROVE  /\ task' \in [Calls -> Task] /\ due' \in SUBSET (Times \X Calls)
           /\ outstanding' \in Nat /\ callerOutstanding' \in [Callers -> Nat]
           /\ storedBytes' \in Nat /\ outbox' \in SUBSET Intent
           /\ alarm' \in Times \cup {NoAlarm}
<1> DEFINE final == [new EXCEPT !.quota_released = @ \/ IsDurable(task[c])]
<1>1. task[c] \in Task  BY DEF TypeOK
<1>2. final \in Task  BY DEF Task
<1>3. task' = [task EXCEPT ![c] = final]  BY DEF Terminate
<1>4. task' \in [Calls -> Task]  BY <1>2, <1>3 DEF TypeOK
<1>5. due' \in SUBSET (Times \X Calls)
  <2>1. due' = (due \ {DueKey(task[c], c)}) \cup {DueKey(final, c)}
    BY DEF Terminate
  <2>2. DueKey(final, c) \in Times \X Calls  BY <1>2 DEF DueKey, Task
  <2> QED  BY <2>1, <2>2 DEF TypeOK
<1>6. /\ outstanding' \in Nat /\ callerOutstanding' \in [Callers -> Nat]
      /\ storedBytes' \in Nat
  BY <1>1, QuotaType DEF Terminate
<1>7. outbox' \in SUBSET Intent
  BY DEF Terminate, CallAuditIntent, TypeOK, Intent, Times
<1>8. alarm' \in Times \cup {NoAlarm}
  BY ConstantTypes, EarlierType DEF Terminate, AuditRetryArmed, TypeOK, Times
<1> QED  BY <1>4, <1>5, <1>6, <1>7, <1>8

\* The record a transition to a terminal state writes is a record.
LEMMA EndedType ==
    ASSUME NEW t \in Task, NEW s \in TerminalStates
    PROVE  Ended(t, s) \in Task
<1>1. PurgeAt(t) \in Times
  BY ConstantTypes DEF PurgeAt, ExecuteBy, Task, Times
<1>2. CASE IsDurable(t)
  BY <1>1, <1>2, ConstantTypes DEF Ended, Task, DurableStates
<1>3. CASE ~IsDurable(t)
  BY <1>3 DEF Ended, Task
<1> QED  BY <1>2, <1>3
-----------------------------------------------------------------------------
(* Each event and each stage keeps the types.                              *)

\* The clock keeps the types.
LEMMA TickType == TypeOK /\ Tick => TypeOK'
BY ConstantTypes DEF TypeOK, Tick, records, quota, durables, sockets, outside

\* A listener's connection keeps the types.
LEMMA ConnectType ==
    ASSUME TypeOK, NEW h \in Handlers, NEW cap \in Capabilities, Connect(h, cap)
    PROVE  TypeOK'
<1>1. handler' \in [Handlers -> Handler]
  <2>1. <<"dispatch">> \in Seq(Stages)  BY DEF Stages
  <2>2. sessions + 1 \in 0..MaxSessions
    BY ConstantTypes DEF Connect, TypeOK
  <2>3. [Idle EXCEPT !.session = sessions + 1] \in Handler
    BY <2>2, IdleType DEF Handler
  <2> QED  BY <2>1, <2>3, DoType DEF Connect, TypeOK
<1>2. /\ session' \in 0..MaxSessions /\ sessions' \in 0..MaxSessions
      /\ capable' \in BOOLEAN
  BY ConstantTypes, InputTypes DEF TypeOK, Connect
<1> QED  BY <1>1, <1>2 DEF TypeOK, Connect, records, quota, durables, sockets, outside

\* The loss of the listener's socket keeps the types.
LEMMA DisconnectType == ASSUME TypeOK, Disconnect PROVE TypeOK'
<1>1. session' \in 0..MaxSessions  BY ConstantTypes DEF Disconnect
<1>2. capable' \in BOOLEAN  BY Zenon DEF Disconnect
<1> QED  BY <1>1, <1>2 DEF TypeOK, Disconnect, records, quota, durables, sockets, outside

\* An admission to the mailbox keeps the types.
LEMMA SubmitDurableType ==
    ASSUME TypeOK, NEW h \in Handlers, NEW k \in Callers, NEW m \in Messages,
           NEW b \in RequestSizes, SubmitDurable(h, k, m, b)
    PROVE  TypeOK'
<1>1. PICK c \in Calls \ issued :
        LET t == [NoTask EXCEPT !.delivery_state = "queued", !.from = k,
                    !.message_id = m, !.created_at = now,
                    !.deadline = now + Least(MailboxTtl, TimeoutMs[c]),
                    !.execute_by = now + Least(MailboxTtl, TimeoutMs[c]),
                    !.request_envelope = TRUE, !.ciphertext_bytes = b] IN
        /\ issued' = issued \cup {c}
        /\ task' = [task EXCEPT ![c] = t]
        /\ dedupe' = [dedupe EXCEPT ![k][m] = c]
        /\ queue' = queue \cup {QueueKey(t, c)}
        /\ due' = due \cup {DueKey(t, c)}
        /\ outbox' = outbox \cup {CallAuditIntent(c, "submit")}
        /\ FlushThen(h, [Idle EXCEPT !.call = c], outbox', <<"receipt">>)
  BY DEF SubmitDurable
<1> DEFINE t == [NoTask EXCEPT !.delivery_state = "queued", !.from = k,
                    !.message_id = m, !.created_at = now,
                    !.deadline = now + Least(MailboxTtl, TimeoutMs[c]),
                    !.execute_by = now + Least(MailboxTtl, TimeoutMs[c]),
                    !.request_envelope = TRUE, !.ciphertext_bytes = b]
<1>2. t \in Task
  <2>1. now \in Times /\ now + Least(MailboxTtl, TimeoutMs[c]) \in Times /\ b \in Nat
    BY ConstantTypes, OverrideTypes, InputTypes DEF TypeOK, Times
  <2> QED  BY <2>1, ConstantTypes DEF Task, DurableStates
<1>3. outbox' \in SUBSET Intent
  BY <1>1, ConstantTypes
  DEF TypeOK, CallAuditIntent, Intent, Events, Times
<1>4. handler' \in [Handlers -> Handler]
  <2>1. <<"receipt">> \in Seq(Stages)  BY DEF Stages
  <2>2. [Idle EXCEPT !.call = c] \in Handler  BY IdleType DEF Handler
  <2> QED  BY <1>1, <1>3, <2>1, <2>2, FlushThenType DEF TypeOK
<1>5. /\ task' \in [Calls -> Task]
      /\ queue' \in SUBSET (Times \X Calls) /\ due' \in SUBSET (Times \X Calls)
  <2>1. QueueKey(t, c) \in Times \X Calls /\ DueKey(t, c) \in Times \X Calls
    BY <1>2 DEF QueueKey, DueKey, Task
  <2>2. task' = [task EXCEPT ![c] = t]  BY <1>1
  <2>3. /\ queue' = queue \cup {QueueKey(t, c)}
        /\ due' = due \cup {DueKey(t, c)}
    BY <1>1
  <2> QED  BY <1>2, <2>1, <2>2, <2>3 DEF TypeOK
<1>6. dedupe' \in [Callers -> [Messages -> Calls \cup {NoCall}]]
  BY <1>1 DEF TypeOK
<1>7. /\ outstanding' \in Nat /\ callerOutstanding' \in [Callers -> Nat]
      /\ storedBytes' \in Nat
  <2>1. b \in Nat  BY HandleDOAssumption
  <2> QED  BY <2>1 DEF TypeOK, SubmitDurable
<1>8. alarm' \in Times \cup {NoAlarm}
  BY SMTT(30), ConstantTypes, EarlierType
  DEF SubmitDurable, AuditRetryArmed, TypeOK, Times
<1> QED  BY <1>1, <1>3, <1>4, <1>5, <1>6, <1>7, <1>8
         DEF TypeOK, SubmitDurable, records, quota, durables, sockets, outside

\* A call that goes straight to the listener keeps the types.
LEMMA SubmitLiveType ==
    ASSUME TypeOK, NEW h \in Handlers, NEW k \in Callers,
           NEW m \in LiveMessages, NEW e \in BOOLEAN, SubmitLive(h, k, m, e)
    PROVE  TypeOK'
<1>1. PICK c \in Calls \ issued :
        LET t == [NoTask EXCEPT !.delivery_state = "live", !.from = k,
                    !.message_id = m, !.created_at = now,
                    !.deadline = now + Least(TimeoutMs[c], RelayCallTimeout)] IN
        /\ issued' = issued \cup {c}
        /\ task' = [task EXCEPT ![c] = t]
        /\ due' = due \cup {DueKey(t, c)}
        /\ outbox' = outbox \cup {CallAuditIntent(c, "submit")}
        /\ FlushThen(h, [Idle EXCEPT !.call = c], outbox', <<"ring">>)
  BY DEF SubmitLive
<1> DEFINE t == [NoTask EXCEPT !.delivery_state = "live", !.from = k,
                    !.message_id = m, !.created_at = now,
                    !.deadline = now + Least(TimeoutMs[c], RelayCallTimeout)]
<1>2. t \in Task
  <2>1. now \in Times /\ now + Least(TimeoutMs[c], RelayCallTimeout) \in Times
        /\ m \in Messages \cup {NoMessage}
    BY ConstantTypes, OverrideTypes, InputTypes DEF TypeOK, Times
  <2> QED  BY <2>1, ConstantTypes DEF Task
<1>3. outbox' \in SUBSET Intent
  BY <1>1, ConstantTypes
  DEF TypeOK, CallAuditIntent, Intent, Events, Times
<1>4. handler' \in [Handlers -> Handler]
  <2>1. <<"ring">> \in Seq(Stages)  BY DEF Stages
  <2>2. [Idle EXCEPT !.call = c] \in Handler  BY IdleType DEF Handler
  <2> QED  BY <1>1, <1>3, <2>1, <2>2, FlushThenType DEF TypeOK
<1>5. task' \in [Calls -> Task] /\ due' \in SUBSET (Times \X Calls)
  <2>1. DueKey(t, c) \in Times \X Calls  BY <1>2 DEF DueKey, Task
  <2>2. task' = [task EXCEPT ![c] = t] /\ due' = due \cup {DueKey(t, c)}
    BY <1>1
  <2> QED  BY <1>2, <2>1, <2>2 DEF TypeOK
<1>6. alarm' \in Times \cup {NoAlarm}
  BY ConstantTypes, EarlierType DEF SubmitLive, AuditRetryArmed, TypeOK, Times
<1> QED  BY <1>1, <1>3, <1>4, <1>5, <1>6 DEF TypeOK, SubmitLive, records, quota, durables, sockets, outside

\* call_accepted keeps the types.
LEMMA CallAcceptedType ==
    ASSUME TypeOK, NEW h \in Handlers, NEW c \in Calls, CallAccepted(h, c)
    PROVE  TypeOK'
<1>1. task' \in [Calls -> Task]
  <2>. task[c] \in Task  BY DEF TypeOK
  <2>1. [task[c] EXCEPT !.state = "answered"] \in Task
    BY DEF Task, CallStates
  <2>2. task' = [task EXCEPT ![c] = [task[c] EXCEPT !.state = "answered"]]
    BY DEF CallAccepted
  <2> QED  BY <2>1, <2>2 DEF TypeOK
<1>2. outbox' \in SUBSET Intent
  BY ConstantTypes
  DEF CallAccepted, TypeOK, CallAuditIntent, Intent, Events, Times
<1>3. handler' \in [Handlers -> Handler]
  <2>1. <<"status">> \in Seq(Stages)  BY DEF Stages
  <2>2. [Idle EXCEPT !.call = c, !.state = "answered"] \in Handler
    BY IdleType DEF Handler, CallStates
  <2> QED  BY <1>2, <2>1, <2>2, FlushThenType DEF TypeOK, CallAccepted
<1>4. alarm' \in Times \cup {NoAlarm}
  BY ConstantTypes, EarlierType DEF CallAccepted, AuditRetryArmed, TypeOK, Times
<1> QED  BY <1>1, <1>2, <1>3, <1>4 DEF TypeOK, CallAccepted, records, quota, durables, sockets, outside

\* call_started, with its new deadline, keeps the types.
LEMMA CallStartedType ==
    ASSUME TypeOK, NEW h \in Handlers, NEW c \in Calls, CallStarted(h, c)
    PROVE  TypeOK'
<1> DEFINE old == task[c]
           new == [old EXCEPT !.state = "working", !.task_state = "working",
                     !.delivery_state = IF IsDurable(old) THEN "started" ELSE @,
                     !.deadline = IF IsDurable(old) THEN ExecutionDeadline(old)
                                  ELSE @]
           hd == [Idle EXCEPT !.call = c, !.state = "working"]
<1>1. old \in Task /\ now \in Times
  BY ConstantTypes DEF TypeOK, Times
<1>2. ExecutionDeadline(old) \in Times
  <2>1. now + ExecutionMs[session] \in Nat  BY <1>1, OverrideTypes DEF TypeOK, Times
  <2> QED  BY <1>1, <2>1 DEF ExecutionDeadline, ExecuteBy, Least, Task, Times
<1>3. new \in Task
  <2>1. CASE IsDurable(old)
    BY <1>1, <1>2, <2>1 DEF Task, CallStates, DurableStates
  <2>2. CASE ~IsDurable(old)  BY <1>1, <2>2 DEF Task, CallStates
  <2> QED  BY <2>1, <2>2
<1>4. task' \in [Calls -> Task]
  BY <1>3 DEF TypeOK, CallStarted
<1>5. due' \in SUBSET (Times \X Calls)
  <2>1. DueKey(new, c) \in Times \X Calls  BY <1>3 DEF DueKey, Task
  <2>2. due' = (due \ {DueKey(old, c)}) \cup {DueKey(new, c)}
    BY DEF CallStarted
  <2> QED  BY <2>1, <2>2 DEF TypeOK
<1>6. starts' \in SUBSET (Times \X Calls)
  BY <1>1 DEF TypeOK, CallStarted
<1>7. outbox' \in SUBSET Intent
  BY <1>1 DEF CallStarted, TypeOK, CallAuditIntent, Intent, Events
<1>8. handler' \in [Handlers -> Handler]
  <2>1. <<"status">> \in Seq(Stages)  BY DEF Stages
  <2>2. hd \in Handler  BY IdleType DEF Handler, CallStates
  <2>3. FlushThen(h, hd, outbox', <<"status">>) \/ Do(h, hd, <<"status">>)
    BY DEF CallStarted
  <2> QED  BY <1>7, <2>1, <2>2, <2>3, FlushThenType, DoType DEF TypeOK
<1>9. alarm' \in Times \cup {NoAlarm}
  <2>1. new.deadline \in Times  BY <1>3 DEF Task
  <2>2. AuditRetryArmed \in Times
    BY <1>1, ConstantTypes, EarlierType DEF AuditRetryArmed, TypeOK, Times
  <2>3. /\ Earlier(AuditRetryArmed, new.deadline) \in Times
        /\ Earlier(alarm, new.deadline) \in Times
    BY <2>1, <2>2 DEF Earlier, TypeOK
  <2>4. alarm' \in {Earlier(AuditRetryArmed, new.deadline), AuditRetryArmed,
                    Earlier(alarm, new.deadline), alarm}
    BY DEF CallStarted
  <2> QED  BY <2>2, <2>3, <2>4 DEF TypeOK
<1> QED  BY <1>4, <1>5, <1>6, <1>7, <1>8, <1>9 DEF TypeOK, CallStarted, records, quota, durables, sockets, outside

\* call_cancelled keeps the types.
LEMMA CallCancelledType ==
    ASSUME TypeOK, NEW h \in Handlers, NEW c \in Calls, CallCancelled(h, c)
    PROVE  TypeOK'
<1>1. Ended(task[c], "canceled") \in Task
  BY EndedType DEF TypeOK, TerminalStates
<1>2. Terminate(c, Ended(task[c], "canceled"), "cancel")  BY DEF CallCancelled
<1>3. "cancel" \in Events  BY DEF Events, TerminalEvents
<1>4. /\ task' \in [Calls -> Task] /\ due' \in SUBSET (Times \X Calls)
      /\ outstanding' \in Nat /\ callerOutstanding' \in [Callers -> Nat]
      /\ storedBytes' \in Nat /\ outbox' \in SUBSET Intent
      /\ alarm' \in Times \cup {NoAlarm}
  BY <1>1, <1>2, <1>3, TerminateType
<1>5. handler' \in [Handlers -> Handler]
  <2>1. /\ <<"finish", "notify">> \in Seq(Stages)
        /\ <<"notify">> \in Seq(Stages)
    BY DEF Stages
  <2>2. [Idle EXCEPT !.call = c, !.session = session] \in Handler
    BY IdleType DEF Handler, TypeOK
  <2> QED  BY <1>4, <2>1, <2>2, FlushThenType DEF TypeOK, CallCancelled
<1> QED  BY <1>4, <1>5 DEF TypeOK, CallCancelled, records, quota, durables, sockets, outside

\* call_rejected keeps the types.
LEMMA CallRejectedType ==
    ASSUME TypeOK, NEW h \in Handlers, NEW c \in Calls, CallRejected(h, c)
    PROVE  TypeOK'
<1>1. Ended(task[c], "failed") \in Task
  BY EndedType DEF TypeOK, TerminalStates
<1>2. Terminate(c, Ended(task[c], "failed"), "fail")  BY DEF CallRejected
<1>3. "fail" \in Events  BY DEF Events, TerminalEvents
<1>4. /\ task' \in [Calls -> Task] /\ due' \in SUBSET (Times \X Calls)
      /\ outstanding' \in Nat /\ callerOutstanding' \in [Callers -> Nat]
      /\ storedBytes' \in Nat /\ outbox' \in SUBSET Intent
      /\ alarm' \in Times \cup {NoAlarm}
  BY <1>1, <1>2, <1>3, TerminateType
<1>5. handler' \in [Handlers -> Handler]
  <2>1. /\ <<"notify", "finish">> \in Seq(Stages)
        /\ <<"notify">> \in Seq(Stages)
    BY DEF Stages
  <2>2. [Idle EXCEPT !.call = c, !.session = session] \in Handler
    BY IdleType DEF Handler, TypeOK
  <2> QED  BY <1>4, <2>1, <2>2, FlushThenType DEF TypeOK, CallRejected
<1> QED  BY <1>4, <1>5 DEF TypeOK, CallRejected, records, quota, durables, sockets, outside

\* call_outcome, which stores the sealed answer, keeps the types.
LEMMA CallOutcomeType ==
    ASSUME TypeOK, NEW h \in Handlers, NEW c \in Calls, NEW s \in Outcomes,
           NEW b \in OutcomeSizes, CallOutcome(h, c, s, b)
    PROVE  TypeOK'
<1> DEFINE new == [Ended(task[c], s) EXCEPT
                     !.outcome_envelope = TRUE,
                     !.deadline = IF IsDurable(task[c]) THEN ExecuteBy(task[c])
                                  ELSE @,
                     !.ciphertext_bytes = IF IsDurable(task[c]) THEN b ELSE @]
           e == IF s = "completed" THEN "complete" ELSE "fail"
<1>1. new \in Task
  <2>1. Ended(task[c], s) \in Task
    BY EndedType, HandleDOAssumption DEF TypeOK, TerminalStates
  <2>2. ExecuteBy(task[c]) \in Times
    BY ConstantTypes DEF TypeOK, ExecuteBy, Task, Times
  <2>3. b \in Nat  BY HandleDOAssumption
  <2>4. CASE IsDurable(task[c])  BY <2>1, <2>2, <2>3, <2>4 DEF Task
  <2>5. CASE ~IsDurable(task[c])  BY <2>1, <2>5 DEF Task
  <2> QED  BY <2>4, <2>5
<1>2. Terminate(c, new, e)  BY DEF CallOutcome
<1>3. e \in Events  BY DEF Events, TerminalEvents
<1>4. /\ task' \in [Calls -> Task] /\ due' \in SUBSET (Times \X Calls)
      /\ outstanding' \in Nat /\ callerOutstanding' \in [Callers -> Nat]
      /\ storedBytes' \in Nat /\ outbox' \in SUBSET Intent
      /\ alarm' \in Times \cup {NoAlarm}
  BY <1>1, <1>2, <1>3, TerminateType
<1>5. handler' \in [Handlers -> Handler]
  <2>1. /\ <<"finish", "notify">> \in Seq(Stages)
        /\ <<"notify">> \in Seq(Stages)
    BY DEF Stages
  <2>2. [Idle EXCEPT !.call = c, !.session = session] \in Handler
    BY IdleType DEF Handler, TypeOK
  <2> QED  BY <1>4, <2>1, <2>2, FlushThenType DEF TypeOK, CallOutcome
<1> QED  BY <1>4, <1>5 DEF TypeOK, CallOutcome, records, quota, durables, sockets, outside

\* The relay's own cancellation keeps the types.
LEMMA CancelUnstartedType ==
    ASSUME TypeOK, NEW h \in Handlers, NEW c \in Calls, CancelUnstarted(h, c)
    PROVE  TypeOK'
<1>1. Ended(task[c], "canceled") \in Task
  BY EndedType DEF TypeOK, TerminalStates
<1>2. Terminate(c, Ended(task[c], "canceled"), "cancel")  BY DEF CancelUnstarted
<1>3. "cancel" \in Events  BY DEF Events, TerminalEvents
<1>4. /\ task' \in [Calls -> Task] /\ due' \in SUBSET (Times \X Calls)
      /\ outstanding' \in Nat /\ callerOutstanding' \in [Callers -> Nat]
      /\ storedBytes' \in Nat /\ outbox' \in SUBSET Intent
      /\ alarm' \in Times \cup {NoAlarm}
  BY <1>1, <1>2, <1>3, TerminateType
<1>5. /\ queue' \in SUBSET (Times \X Calls)
      /\ active' \in Calls \cup {NoCall}
  BY DEF TypeOK, CancelUnstarted, Dequeue
<1>6. handler' \in [Handlers -> Handler]
  <2>1. <<"redispatch">> \in Seq(Stages)  BY DEF Stages
  <2> QED  BY <1>4, <2>1, IdleType, FlushThenType DEF TypeOK, CancelUnstarted
<1> QED  BY <1>4, <1>5, <1>6 DEF TypeOK, CancelUnstarted, records, quota, durables, sockets, outside

\* Cancellations that wait for the listener keep the types.
LEMMA CancelWaitType ==
    ASSUME TypeOK, NEW c \in Calls,
           CancelAtListener(c) \/ CancelTimeout(c) \/ CallNotCancelled(c)
    PROVE  TypeOK'
<1>1. waiting' \in SUBSET Calls
  BY DEF TypeOK, CancelAtListener, CancelTimeout, CallNotCancelled
<1> QED  BY <1>1 DEF TypeOK, CancelAtListener, CancelTimeout, CallNotCancelled,
            records, quota, durables, sockets, outside

\* The start of alarm() keeps the types.
LEMMA AlarmFiresType ==
    ASSUME TypeOK, NEW h \in Handlers, AlarmFires(h)
    PROVE  TypeOK'
<1>1. handler' \in [Handlers -> Handler]
  <2>1. <<"recover", "expire", "redispatch", "rearm">> \in Seq(Stages)
    BY DEF Stages
  <2> QED  BY <2>1, IdleType, DoType DEF TypeOK, AlarmFires
<1> QED  BY <1>1 DEF TypeOK, AlarmFires, records, quota, durables, sockets, outside
-----------------------------------------------------------------------------
(* The answers of D1.                                                      *)

\* The outbox and what is sent to D1 of it are finite.
Finite == /\ IsFiniteSet(outbox)
          /\ \A h \in Handlers : IsFiniteSet(handler[h].batch)

\* The rank D1Insert gives a new row of a batch is a positive number.
LEMMA RowIdType ==
    ASSUME NEW S \in SUBSET Intent, IsFiniteSet(S), NEW i \in S, NEW r
    PROVE  LET id == Cardinality({e \in Events : r[e] # 0})
                       + Cardinality({j \in S : /\ j.call = i.call
                                                /\ IntentBefore(j, i)}) IN
           id \in Nat \ {0}
<1> DEFINE older == {e \in Events : r[e] # 0}
           upTo == {j \in S : j.call = i.call /\ IntentBefore(j, i)}
<1>1. Cardinality(older) \in Nat
  <2>1. IsFiniteSet(Events)
    <3>1. Events = {"submit", "accept", "complete", "fail", "cancel", "timeout"}
      BY DEF Events, TerminalEvents
    <3>2. IsFiniteSet({}) /\ \A T, x : IsFiniteSet(T) => IsFiniteSet(T \cup {x})
      BY FS_EmptySet, FS_AddElement
    <3>3. Events = (((((({} \cup {"submit"}) \cup {"accept"}) \cup {"complete"})
                     \cup {"fail"}) \cup {"cancel"}) \cup {"timeout"})
      BY <3>1
    <3> QED  BY <3>2, <3>3, Zenon
  <2>2. older \subseteq Events  OBVIOUS
  <2> QED  BY <2>1, <2>2, FS_Subset, FS_CardinalityType
<1>2. Cardinality(upTo) \in Nat \ {0}
  <2>1. upTo \subseteq S  OBVIOUS
  <2>2. IsFiniteSet(upTo)  BY <2>1, FS_Subset
  <2>3. i \in upTo
    <3>1. i.call \in Nat  BY HandleDOAssumption DEF Intent
    <3> QED  BY <3>1 DEF IntentBefore
  <2> QED  BY <2>2, <2>3, FS_EmptySet, FS_CardinalityType
<1> QED  BY <1>1, <1>2

\* The rows D1 holds after a batch are row ids.
LEMMA D1InsertRows ==
    ASSUME TypeOK, Finite, NEW h \in Handlers, D1Insert(h)
    PROVE  /\ rows' \in [Calls -> [Events -> Nat]]
           /\ \A i \in handler[h].batch : rows'[i.call][i.event] # 0
           /\ \A c \in Calls, e \in Events :
                rows[c][e] # 0 => rows'[c][e] = rows[c][e]
<1> DEFINE fresh == {i \in handler[h].batch : rows[i.call][i.event] = 0}
           id(i) == Cardinality({e \in Events : rows[i.call][e] # 0})
                      + Cardinality({j \in fresh : /\ j.call = i.call
                                                   /\ IntentBefore(j, i)})
           of(c, e) == CHOOSE i \in fresh : i.call = c /\ i.event = e
<1>1. handler[h].batch \in SUBSET Intent
  BY DEF TypeOK, Handler
<1>2. fresh \in SUBSET Intent /\ IsFiniteSet(fresh)
  <2>1. fresh \subseteq handler[h].batch  OBVIOUS
  <2> QED  BY <1>1, <2>1, FS_Subset DEF Finite
<1>3. \A i \in fresh : id(i) \in Nat \ {0}
  BY <1>2, RowIdType
<1>4. \A c, e : (\E i \in fresh : i.call = c /\ i.event = e) =>
        /\ of(c, e) \in fresh /\ id(of(c, e)) \in Nat \ {0}
  BY <1>3
<1> HIDE DEF id
<1>5. rows' = [c \in Calls |-> [e \in Events |->
                IF \E i \in fresh : i.call = c /\ i.event = e
                THEN id(of(c, e)) ELSE rows[c][e]]]
  BY DEF D1Insert, id
<1> HIDE DEF of
<1>6. rows' \in [Calls -> [Events -> Nat]]
  BY <1>4, <1>5 DEF TypeOK
<1>7. ASSUME NEW i \in handler[h].batch
      PROVE  rows'[i.call][i.event] # 0
  <2>1. i.call \in Calls /\ i.event \in Events  BY <1>1 DEF Intent
  <2> QED  BY <1>4, <1>5, <2>1
<1>8. ASSUME NEW c \in Calls, NEW e \in Events, rows[c][e] # 0
      PROVE  rows'[c][e] = rows[c][e]
  BY <1>5, <1>8
<1> QED  BY <1>6, <1>7, <1>8

\* D1's insertion of a batch keeps the types.
LEMMA D1InsertType ==
    ASSUME TypeOK, Finite, NEW h \in Handlers, D1Insert(h)
    PROVE  TypeOK'
<1>1. [handler[h] EXCEPT !.stored = TRUE] \in Handler
  <2>. handler[h] \in Handler  BY DEF TypeOK
  <2> QED  BY DEF Handler
<1>2. handler' \in [Handlers -> Handler]
  BY <1>1 DEF D1Insert, TypeOK
<1> QED  BY <1>2, D1InsertRows DEF TypeOK, D1Insert, records, quota, durables,
            sockets

\* The end of a flush keeps the types.
LEMMA FlushDoneType ==
    ASSUME TypeOK, NEW h \in Handlers, FlushDone(h)
    PROVE  TypeOK'
<1>1. outbox' \in SUBSET Intent  BY DEF FlushDone, Drained, TypeOK
<1>2. alarm' \in Times \cup {NoAlarm}  BY ScheduleType DEF FlushDone
<1>3. handler' \in [Handlers -> Handler]
  <2>. handler[h] \in Handler  BY DEF TypeOK
  <2>1. [handler[h] EXCEPT !.batch = {}, !.stored = FALSE] \in Handler
    BY DEF Handler
  <2>2. Rest(h) \in Seq(Stages)
    BY RestType DEF TypeOK, FlushDone, At
  <2> QED  BY <2>1, <2>2, DoType DEF FlushDone, TypeOK
<1> QED  BY <1>1, <1>2, <1>3 DEF TypeOK, FlushDone, records, quota, durables, sockets, outside

\* A failed flush keeps the types.
LEMMA FlushFailsType ==
    ASSUME TypeOK, NEW h \in Handlers, FlushFails(h)
    PROVE  TypeOK'
<1>1. alarm' \in Times \cup {NoAlarm}
  BY ConstantTypes DEF FlushFails, TypeOK, Times
<1>2. handler' \in [Handlers -> Handler]
  <2>. handler[h] \in Handler  BY DEF TypeOK
  <2>1. [handler[h] EXCEPT !.batch = {}, !.stored = FALSE] \in Handler
    BY DEF Handler
  <2>2. Rest(h) \in Seq(Stages)
    BY RestType DEF TypeOK, FlushFails, At
  <2> QED  BY <2>1, <2>2, DoType DEF FlushFails, TypeOK
<1>3. failures' \in 0..MaxFailures
  BY ConstantTypes DEF FlushFails, TypeOK
<1> QED  BY <1>1, <1>2, <1>3 DEF TypeOK, FlushFails, records, quota, durables, sockets, outside

\* A positive authority check keeps the types.
LEMMA AuthorityCurrentType ==
    ASSUME TypeOK, NEW h \in Handlers, AuthorityCurrent(h)
    PROVE  TypeOK'
<1>1. handler' \in [Handlers -> Handler]
  <2>1. Rest(h) \in Seq(Stages)
    BY RestType DEF TypeOK, AuthorityCurrent, At
  <2>2. <<"lease">> \o Rest(h) \in Seq(Stages)
    <3>1. <<"lease">> \in Seq(Stages)  BY DEF Stages
    <3> QED  BY <2>1, <3>1, ConcatProperties
  <2>3. handler[h] \in Handler  BY DEF TypeOK
  <2> QED  BY <2>1, <2>2, <2>3, DoType DEF AuthorityCurrent, TypeOK
<1> QED  BY <1>1 DEF TypeOK, AuthorityCurrent, records, quota, durables, sockets, outside

\* A revocation keeps the types.
LEMMA AuthorityLostType ==
    ASSUME TypeOK, NEW h \in Handlers, AuthorityLost(h)
    PROVE  TypeOK'
<1>1. handler[h] \in Handler /\ Rest(h) \in Seq(Stages)
  BY RestType DEF TypeOK, AuthorityLost, At
<1>2. PICK c \in Calls :
        IF task[c].delivery_state = "queued"
        THEN /\ Terminate(c, Ended(task[c], "rejected"), "fail")
             /\ queue' = queue \ {QueueKey(task[c], c)}
        ELSE UNCHANGED <<task, queue, due, quota, outbox, alarm>>
  BY DEF AuthorityLost
<1>3. /\ task' \in [Calls -> Task] /\ due' \in SUBSET (Times \X Calls)
      /\ queue' \in SUBSET (Times \X Calls)
      /\ outstanding' \in Nat /\ callerOutstanding' \in [Callers -> Nat]
      /\ storedBytes' \in Nat /\ outbox' \in SUBSET Intent
      /\ alarm' \in Times \cup {NoAlarm}
  <2>1. CASE task[c].delivery_state = "queued"
    <3>1. Ended(task[c], "rejected") \in Task
      BY EndedType DEF TypeOK, TerminalStates
    <3>2. "fail" \in Events  BY DEF Events, TerminalEvents
    <3>3. queue' \in SUBSET (Times \X Calls)  BY <1>2, <2>1 DEF TypeOK
    <3> QED  BY <1>2, <2>1, <3>1, <3>2, <3>3, TerminateType
  <2>2. CASE task[c].delivery_state # "queued"
    BY <1>2, <2>2 DEF TypeOK, quota
  <2> QED  BY <2>1, <2>2
<1>4. handler' \in [Handlers -> Handler]
  <2>1. <<"dispatch">> \o Rest(h) \in Seq(Stages)
    <3>1. <<"dispatch">> \in Seq(Stages)  BY DEF Stages
    <3> QED  BY <1>1, <3>1, ConcatProperties
  <2>2. [handler[h] EXCEPT !.candidate = NoKey] \in Handler
    BY <1>1 DEF Handler, NoKey, Times
  <2> QED  BY <1>3, <2>1, <2>2, FlushThenType DEF AuthorityLost, TypeOK
<1> QED  BY <1>3, <1>4 DEF TypeOK, AuthorityLost, records, quota, durables, sockets, outside

\* A failed authority check keeps the types.
LEMMA AuthorityFailsType ==
    ASSUME TypeOK, NEW h \in Handlers, AuthorityFails(h)
    PROVE  TypeOK'
<1>1. alarm' \in Times \cup {NoAlarm}
  BY DEF AuthorityFails, RetryAlarm, Earlier, TypeOK, Times
<1>2. handler' \in [Handlers -> Handler]
  <2>1. <<>> \in Seq(Stages)  OBVIOUS
  <2> QED  BY <2>1, IdleType, DoType DEF AuthorityFails, TypeOK
<1>3. failures' \in 0..MaxFailures
  BY ConstantTypes DEF AuthorityFails, TypeOK
<1> QED  BY <1>1, <1>2, <1>3 DEF TypeOK, AuthorityFails, records, quota, durables, sockets, outside
-----------------------------------------------------------------------------
(* The stages that run without a wait.                                     *)

\* A handler may be given one more dispatch.
LEMMA DispatchPushType ==
    ASSUME TypeOK, NEW h \in Handlers, Running(h), NEW s \in Stages
    PROVE  /\ handler[h] \in Handler /\ Rest(h) \in Seq(Stages)
           /\ <<s>> \o Rest(h) \in Seq(Stages)
<1>1. handler[h] \in Handler /\ Rest(h) \in Seq(Stages)
  BY RestType DEF TypeOK
<1>2. <<s>> \in Seq(Stages)  OBVIOUS
<1> QED  BY <1>1, <1>2, ConcatProperties

\* Giving up the delivery slot keeps the types.
LEMMA FinishDurableTaskType ==
    ASSUME TypeOK, NEW h \in Handlers, FinishDurableTask(h)
    PROVE  TypeOK'
<1>1. queue' \in SUBSET (Times \X Calls) /\ active' \in Calls \cup {NoCall}
  BY DEF TypeOK, FinishDurableTask, Dequeue
<1>2. handler' \in [Handlers -> Handler]
  BY DispatchPushType, DoType DEF FinishDurableTask, TypeOK, At, Stages
<1> QED  BY <1>1, <1>2 DEF TypeOK, FinishDurableTask, records, quota, durables, sockets, outside

\* Offering started work again keeps the types.
LEMMA RebindType ==
    ASSUME TypeOK, NEW h \in Handlers, Rebind(h)
    PROVE  TypeOK'
<1>1. handler[h] \in Handler /\ Rest(h) \in Seq(Stages)
  BY RestType DEF TypeOK, Rebind, At
<1>2. active \in Calls /\ task[active] \in Task  BY DEF Rebind, TypeOK
<1>3. task' \in [Calls -> Task]
  <2> DEFINE lease == [session |-> handler[h].session,
                       expires_at |-> task[active].deadline,
                       attempt |-> task[active].lease.attempt]
  <2>1. lease \in Lease  BY <1>1, <1>2 DEF Handler, Task, Lease
  <2>2. task' \in {task, [task EXCEPT ![active].lease = lease]}
    BY DEF Rebind
  <2>3. [task[active] EXCEPT !.lease = lease] \in Task  BY <1>2, <2>1 DEF Task
  <2> QED  BY <1>2, <2>2, <2>3 DEF TypeOK
<1>4. handler' \in [Handlers -> Handler]
  BY <1>1, DoType DEF Rebind, TypeOK
<1> QED  BY <1>3, <1>4 DEF TypeOK, Rebind, records, quota, durables, sockets, outside

\* The choice of a candidate keeps the types.
LEMMA ConsiderHeadType ==
    ASSUME TypeOK, NEW h \in Handlers, ConsiderHead(h)
    PROVE  TypeOK'
<1>1. /\ handler[h] \in Handler /\ Rest(h) \in Seq(Stages)
      /\ <<"authority">> \o Rest(h) \in Seq(Stages)
  BY DispatchPushType DEF TypeOK, ConsiderHead, At, Stages
<1>2. handler' \in [Handlers -> Handler]
  <2>1. PICK k \in queue :
          \/ Do(h, handler[h], Rest(h))
          \/ Do(h, [handler[h] EXCEPT !.candidate =
                      <<ExecuteBy(task[k[2]]), k[2]>>], <<"authority">> \o Rest(h))
    BY DEF ConsiderHead
  <2>2. <<ExecuteBy(task[k[2]]), k[2]>> \in Times \X Calls
    BY DEF TypeOK, Task, ExecuteBy
  <2>3. [handler[h] EXCEPT !.candidate = <<ExecuteBy(task[k[2]]), k[2]>>]
          \in Handler
    BY <1>1, <2>2 DEF Handler
  <2> QED  BY <1>1, <2>1, <2>3, DoType DEF TypeOK
<1>3. LiveStarts \subseteq starts  BY DEF LiveStarts
<1>4. starts' \in SUBSET (Times \X Calls)
  BY <1>3 DEF ConsiderHead, TypeOK
<1>5. alarm' \in Times \cup {NoAlarm}
  <2>1. \A k \in LiveStarts : k[1] + StartWindow \in Times
    BY <1>3, ConstantTypes DEF TypeOK, Times
  <2> QED  BY <2>1, EarlierType DEF ConsiderHead, TypeOK
<1> QED  BY <1>2, <1>4, <1>5 DEF TypeOK, ConsiderHead, records, quota, durables, sockets, outside

\* The lease transaction keeps the types.
LEMMA LeaseHeadType ==
    ASSUME TypeOK, NEW h \in Handlers, LeaseHead(h)
    PROVE  TypeOK'
<1> DEFINE lease(c) == [session |-> handler[h].session,
                        expires_at |-> now + LeaseMs[handler[h].session],
                        attempt |-> task[c].lease.attempt + 1]
<1>1. handler[h] \in Handler /\ Rest(h) \in Seq(Stages)
  BY RestType DEF TypeOK, LeaseHead, At
<1>2. PICK k \in queue :
        \/ /\ task' = [task EXCEPT ![k[2]].delivery_state = "leased",
                                   ![k[2]].lease = lease(k[2])]
           /\ active' = k[2]
           /\ alarm' = Earlier(alarm, lease(k[2]).expires_at)
           /\ UNCHANGED queue
        \/ queue' = queue \ {k} /\ UNCHANGED <<task, active, alarm>>
  BY DEF LeaseHead
<1>3. k[2] \in Calls /\ task[k[2]] \in Task  BY DEF TypeOK
<1>4. lease(k[2]) \in Lease
  <2>1. now + LeaseMs[handler[h].session] \in Nat
    <3>1. now \in Nat /\ handler[h].session \in 0..MaxSessions
      BY <1>1, ConstantTypes DEF TypeOK, Handler
    <3> QED  BY <3>1, OverrideTypes
  <2>2. task[k[2]].lease.attempt + 1 \in Nat  BY <1>3 DEF Task, Lease
  <2> QED  BY <1>1, <2>1, <2>2 DEF Handler, Lease, Times
<1>5. task' \in [Calls -> Task]
  <2>1. [task[k[2]] EXCEPT !.delivery_state = "leased", !.lease = lease(k[2])]
          \in Task
    BY <1>3, <1>4 DEF Task, DurableStates
  <2> QED  BY <1>2, <1>3, <2>1 DEF TypeOK
<1>6. queue' \in SUBSET (Times \X Calls) /\ active' \in Calls \cup {NoCall}
  BY <1>2, <1>3 DEF TypeOK
<1>7. alarm' \in Times \cup {NoAlarm}
  <2>1. lease(k[2]).expires_at \in Times  BY <1>4 DEF Lease
  <2> QED  BY <1>2, <2>1, EarlierType DEF TypeOK
<1>8. handler' \in [Handlers -> Handler]
  <2>1. [handler[h] EXCEPT !.candidate = NoKey] \in Handler
    BY <1>1 DEF Handler, NoKey, Times
  <2> QED  BY <1>1, <2>1, DoType DEF LeaseHead, TypeOK
<1> QED  BY <1>5, <1>6, <1>7, <1>8 DEF TypeOK, LeaseHead, records, quota, durables, sockets, outside

\* A handler may drop its first stage.
LEMMA PopType ==
    ASSUME TypeOK, NEW h \in Handlers, Running(h), NEW hd \in Handler,
           Do(h, hd, Rest(h))
    PROVE  handler' \in [Handlers -> Handler]
BY RestType, DoType DEF TypeOK

\* Passing over a stale head keeps the types.
LEMMA SkipHeadType ==
    ASSUME TypeOK, NEW h \in Handlers, SkipHead(h)
    PROVE  TypeOK'
<1>1. handler' \in [Handlers -> Handler]
  BY DispatchPushType, DoType DEF SkipHead, TypeOK, At, Stages
<1> QED  BY <1>1 DEF TypeOK, SkipHead, records, quota, durables, sockets, outside

\* An empty lease transaction keeps the types.
LEMMA NothingToLeaseType ==
    ASSUME TypeOK, NEW h \in Handlers, NothingToLease(h)
    PROVE  TypeOK'
<1>1. handler' \in [Handlers -> Handler]
  <2>. handler[h] \in Handler  BY DEF TypeOK
  <2>1. [handler[h] EXCEPT !.candidate = NoKey] \in Handler
    BY DEF Handler, NoKey, Times
  <2> QED  BY <2>1, PopType DEF NothingToLease, At
<1> QED  BY <1>1 DEF TypeOK, NothingToLease, records, quota, durables, sockets, outside

\* The recovery of an expired lease keeps the types.
LEMMA RecoverExpiredLeaseType ==
    ASSUME TypeOK, NEW h \in Handlers, RecoverExpiredLease(h)
    PROVE  TypeOK'
<1>1. /\ task' \in [Calls -> Task] /\ due' \in SUBSET (Times \X Calls)
      /\ queue' \in SUBSET (Times \X Calls)
      /\ outstanding' \in Nat /\ callerOutstanding' \in [Callers -> Nat]
      /\ storedBytes' \in Nat /\ outbox' \in SUBSET Intent
      /\ alarm' \in Times \cup {NoAlarm}
  <2>1. CASE /\ LeaseRanOut(active)
             /\ task' = [task EXCEPT ![active].delivery_state = "queued"]
             /\ UNCHANGED <<queue, due, quota, outbox, alarm>>
    <3>1. active \in Calls /\ task[active] \in Task
      BY <2>1 DEF LeaseRanOut, TypeOK
    <3>2. [task[active] EXCEPT !.delivery_state = "queued"] \in Task
      BY <3>1 DEF Task, DurableStates
    <3> QED  BY <2>1, <3>1, <3>2 DEF TypeOK, quota
  <2>2. CASE /\ LeaseRanOut(active)
             /\ Terminate(active, Ended(task[active], "failed"), "fail")
             /\ queue' = queue \ {QueueKey(task[active], active)}
    <3>1. active \in Calls /\ task[active] \in Task
      BY <2>2 DEF LeaseRanOut, TypeOK
    <3>2. Ended(task[active], "failed") \in Task
      BY <3>1, EndedType DEF TerminalStates
    <3>3. "fail" \in Events  BY DEF Events, TerminalEvents
    <3>4. queue' \in SUBSET (Times \X Calls)  BY <2>2 DEF TypeOK
    <3> QED  BY <2>2, <3>1, <3>2, <3>3, <3>4, TerminateType
  <2>3. CASE UNCHANGED <<task, queue, due, quota, outbox, alarm>>
    BY <2>3 DEF TypeOK, quota
  <2> QED  BY <2>1, <2>2, <2>3 DEF RecoverExpiredLease
<1>2. active' \in Calls \cup {NoCall}
  BY DEF RecoverExpiredLease, TypeOK
<1>3. handler' \in [Handlers -> Handler]
  <2>. handler[h] \in Handler  BY DEF TypeOK
  <2>1. {k \in FirstKeys(due') : k[1] <= now} \in SUBSET (Times \X Calls)
    BY <1>1 DEF FirstKeys
  <2>2. [handler[h] EXCEPT !.keys = {k \in FirstKeys(due') : k[1] <= now}]
          \in Handler
    BY <2>1 DEF Handler
  <2> QED  BY <2>2, PopType DEF RecoverExpiredLease, At
<1> QED  BY <1>1, <1>2, <1>3 DEF TypeOK, RecoverExpiredLease, records, quota, durables, sockets, outside

\* What the transaction of one due key writes.
LEMMA ExpireOneType ==
    ASSUME TypeOK, NEW c \in Calls,
           Timeout(c) \/ DropOutcome(c) \/ Purge(c) \/ DeleteLive(c)
    PROVE  /\ task' \in [Calls -> Task] /\ due' \in SUBSET (Times \X Calls)
           /\ queue' \in SUBSET (Times \X Calls)
           /\ active' \in Calls \cup {NoCall}
           /\ dedupe' \in [Callers -> [Messages -> Calls \cup {NoCall}]]
           /\ outstanding' \in Nat /\ callerOutstanding' \in [Callers -> Nat]
           /\ storedBytes' \in Nat /\ outbox' \in SUBSET Intent
           /\ alarm' \in Times \cup {NoAlarm}
<1> DEFINE old == task[c]
<1>1. old \in Task  BY DEF TypeOK
<1>2. CASE Timeout(c)
  <2>1. Ended(old, "failed") \in Task  BY <1>1, EndedType DEF TerminalStates
  <2>2. "timeout" \in Events  BY DEF Events, TerminalEvents
  <2>3. Terminate(c, Ended(old, "failed"), "timeout")  BY <1>2 DEF Timeout
  <2>4. /\ queue' \in SUBSET (Times \X Calls)
        /\ active' \in Calls \cup {NoCall}
        /\ dedupe' \in [Callers -> [Messages -> Calls \cup {NoCall}]]
    BY <1>2 DEF Timeout, Dequeue, TypeOK
  <2> QED  BY <2>1, <2>2, <2>3, <2>4, TerminateType
<1>3. CASE DropOutcome(c)
  <2> DEFINE new == [old EXCEPT !.deadline = PurgeAt(old),
                !.outcome_envelope = FALSE,
                !.ciphertext_bytes = IF old.outcome_envelope THEN 0 ELSE @]
  <2>1. PurgeAt(old) \in Times
    BY <1>1, ConstantTypes DEF PurgeAt, ExecuteBy, Task, Times
  <2>2. new \in Task
    <3>1. CASE old.outcome_envelope  BY <1>1, <2>1, <3>1 DEF Task
    <3>2. CASE ~old.outcome_envelope  BY <1>1, <2>1, <3>2 DEF Task
    <3> QED  BY <3>1, <3>2
  <2>3. task' = [task EXCEPT ![c] = new]  BY <1>3 DEF DropOutcome
  <2>4. due' = (due \ {DueKey(old, c)}) \cup {DueKey(new, c)}
    BY <1>3 DEF DropOutcome
  <2>5. DueKey(new, c) \in Times \X Calls  BY <2>2 DEF DueKey, Task
  <2>6. storedBytes' \in Nat
    BY <1>1, <1>3 DEF DropOutcome, AtLeast0, Task, TypeOK
  <2> QED  BY <1>3, <2>2, <2>3, <2>4, <2>5, <2>6 DEF DropOutcome, TypeOK
<1>4. CASE Purge(c)
  <2>1. storedBytes' \in Nat
    BY <1>1, <1>4 DEF Purge, AtLeast0, Task, TypeOK
  <2>2. dedupe' \in [Callers -> [Messages -> Calls \cup {NoCall}]]
    BY <1>4 DEF Purge, ForgetSubmission, TypeOK
  <2>3. task' \in [Calls -> Task]  BY <1>4, ConstantTypes DEF Purge, TypeOK
  <2> QED  BY <1>4, <2>1, <2>2, <2>3 DEF Purge, Dequeue, TypeOK
<1>5. CASE DeleteLive(c)
  <2>1. task' \in [Calls -> Task]  BY <1>5, ConstantTypes DEF DeleteLive, TypeOK
  <2>2. now \in Times  BY ConstantTypes DEF TypeOK, Times
  <2>3. outbox' \in SUBSET Intent
    BY <1>5, <2>2 DEF DeleteLive, CallAuditIntent, Intent, Events, TerminalEvents,
                      TypeOK
  <2>4. alarm' \in Times \cup {NoAlarm}
    BY <1>5, <2>2, ConstantTypes, EarlierType
    DEF DeleteLive, AuditRetryArmed, TypeOK, Times
  <2> QED  BY <1>5, <2>1, <2>3, <2>4 DEF DeleteLive, TypeOK, quota
<1> QED  BY <1>2, <1>3, <1>4, <1>5

\* Each of expireTask's outcomes keeps the types.
LEMMA ExpireTaskType ==
    ASSUME TypeOK, NEW h \in Handlers, NEW k \in handler[h].keys,
           ExpireTask(h, k)
    PROVE  TypeOK'
<1> DEFINE c == k[2]
           isDue == Exists(c) /\ task[c].deadline <= now
           timedOut == isDue /\ ~TaskIsTerminal(task[c])
           hd == [handler[h] EXCEPT !.keys = @ \ {k},
                    !.timedOut = IF timedOut THEN @ \cup {c} ELSE @]
<1>1. handler[h] \in Handler /\ k \in Times \X Calls /\ c \in Calls
  BY DEF TypeOK, Handler
<1>2. /\ task' \in [Calls -> Task] /\ due' \in SUBSET (Times \X Calls)
      /\ queue' \in SUBSET (Times \X Calls)
      /\ active' \in Calls \cup {NoCall}
      /\ dedupe' \in [Callers -> [Messages -> Calls \cup {NoCall}]]
      /\ outstanding' \in Nat /\ callerOutstanding' \in [Callers -> Nat]
      /\ storedBytes' \in Nat /\ outbox' \in SUBSET Intent
      /\ alarm' \in Times \cup {NoAlarm}
  <2>1. CASE isDue
    <3>1. Timeout(c) \/ DropOutcome(c) \/ Purge(c) \/ DeleteLive(c)
      BY <2>1 DEF ExpireTask
    <3> QED  BY <1>1, <3>1, ExpireOneType
  <2>2. CASE ~isDue
    <3>1. /\ due' = due \ {k}
          /\ UNCHANGED <<task, queue, active, dedupe, quota, outbox, alarm>>
      BY <2>2 DEF ExpireTask
    <3> QED  BY <3>1 DEF TypeOK, quota
  <2> QED  BY <2>1, <2>2
<1>3. handler' \in [Handlers -> Handler]
  <2>1. hd \in Handler
    <3>1. CASE timedOut  BY <1>1, <3>1 DEF Handler
    <3>2. CASE ~timedOut  BY <1>1, <3>2 DEF Handler
    <3> QED  BY <3>1, <3>2
  <2>2. SetHandler(h, hd)  BY DEF ExpireTask
  <2> QED  BY <2>1, <2>2, SetHandlerType DEF TypeOK
<1> QED  BY <1>2, <1>3 DEF TypeOK, ExpireTask, records, quota, durables, sockets, outside

\* The end of the due list keeps the types.
LEMMA ExpireDoneType ==
    ASSUME TypeOK, NEW h \in Handlers, ExpireDone(h)
    PROVE  TypeOK'
<1>1. handler' \in [Handlers -> Handler]
  <2>1. handler[h] \in Handler /\ Rest(h) \in Seq(Stages)
    BY RestType DEF TypeOK, ExpireDone, At
  <2> QED  BY <2>1, FlushThenType DEF ExpireDone, TypeOK
<1> QED  BY <1>1 DEF TypeOK, ExpireDone, records, quota, durables, sockets, outside

\* The alarm's notifications keep the types.
LEMMA RedispatchType ==
    ASSUME TypeOK, NEW h \in Handlers, Redispatch(h)
    PROVE  TypeOK'
<1>1. seen' \in [Calls -> CallStates \cup {"none", "done"}]
  BY DEF Redispatch, TypeOK
<1>2. waiting' \in SUBSET Calls  BY DEF Redispatch, TypeOK
<1>3. handler' \in [Handlers -> Handler]
  <2>1. /\ handler[h] \in Handler /\ Rest(h) \in Seq(Stages)
        /\ <<"dispatch">> \o Rest(h) \in Seq(Stages)
    BY DispatchPushType DEF Redispatch, At, Stages
  <2>2. (IF capable THEN session ELSE 0) \in 0..MaxSessions
    BY ConstantTypes DEF TypeOK
  <2>3. [handler[h] EXCEPT !.session = IF capable THEN session ELSE 0,
                           !.timedOut = {}] \in Handler
    BY <2>1, <2>2 DEF Handler
  <2> QED  BY <2>1, <2>3, DoType DEF Redispatch, TypeOK
<1> QED  BY <1>1, <1>2, <1>3 DEF TypeOK, Redispatch, records, quota, durables, sockets, outside

\* Setting the next alarm keeps the types.
LEMMA RearmType ==
    ASSUME TypeOK, NEW h \in Handlers, Rearm(h)
    PROVE  TypeOK'
<1>1. alarm' \in Times \cup {NoAlarm}  BY ScheduleType DEF Rearm
<1>2. handler' \in [Handlers -> Handler]
  <2>1. handler[h] \in Handler  BY DEF TypeOK
  <2> QED  BY <2>1, PopType DEF Rearm, At
<1> QED  BY <1>1, <1>2 DEF TypeOK, Rearm, records, quota, durables, sockets, outside

\* Frames to the caller keep the types.
LEMMA SendType ==
    ASSUME TypeOK, NEW h \in Handlers,
           Receipt(h) \/ SendStatus(h) \/ SendTerminal(h)
    PROVE  TypeOK'
<1>1. handler[h] \in Handler  BY DEF TypeOK
<1>2. handler' \in [Handlers -> Handler]
  BY <1>1, PopType DEF Receipt, SendStatus, SendTerminal, At
<1>3. seen' \in [Calls -> CallStates \cup {"none", "done"}]
  <2>1. \E f \in CallStates \cup {"done"} : Show(handler[h].call, f)
    BY <1>1 DEF Receipt, SendStatus, SendTerminal, Handler, CallStates
  <2> QED  BY <2>1 DEF Show, TypeOK
<1>4. alarm' \in Times \cup {NoAlarm}
  BY ScheduleType DEF Receipt, SendStatus, SendTerminal, TypeOK, durables
<1>5. waiting' \in SUBSET Calls
  BY DEF Receipt, SendStatus, SendTerminal, TypeOK
<1> QED  BY <1>2, <1>3, <1>4, <1>5
         DEF TypeOK, Receipt, SendStatus, SendTerminal, records, quota, durables, sockets, outside

\* A crash keeps the types.
LEMMA CrashType == ASSUME TypeOK, Crash PROVE TypeOK'
<1>1. handler' \in [Handlers -> Handler]  BY IdleType DEF Crash
<1>2. alarm' \in Times \cup {NoAlarm}
  BY DEF Crash, Earlier, TypeOK, Times
<1>3. session' \in 0..MaxSessions  BY ConstantTypes DEF Crash, TypeOK
<1>4. capable' \in BOOLEAN
  <2>1. capable \in BOOLEAN  BY DEF TypeOK
  <2>2. capable' = capable \/ capable' = FALSE  BY DEF Crash
  <2> QED  BY <2>1, <2>2, Zenon
<1>5. failures' \in 0..MaxFailures  BY ConstantTypes DEF Crash, TypeOK
<1>6. waiting' \in SUBSET Calls  BY DEF Crash
<1> QED  BY <1>1, <1>2, <1>3, <1>4, <1>5, <1>6 DEF TypeOK, Crash, records, quota, durables, sockets, outside

\* Every event a handler can start with keeps the types.
LEMMA ReceiveType ==
    ASSUME TypeOK, NEW h \in Handlers, Receive(h)
    PROVE  TypeOK'
BY ConnectType, SubmitDurableType, SubmitLiveType, CancelUnstartedType,
   CallAcceptedType, CallStartedType, CallCancelledType, CallRejectedType,
   CallOutcomeType
DEF Receive

\* Every stage of a handler keeps the types.
LEMMA ContinueType ==
    ASSUME TypeOK, Finite, NEW h \in Handlers, Continue(h)
    PROVE  TypeOK'
BY D1InsertType, FlushDoneType, AuthorityCurrentType, FinishDurableTaskType,
   RebindType, ConsiderHeadType, SkipHeadType, LeaseHeadType,
   NothingToLeaseType, RecoverExpiredLeaseType, ExpireTaskType, ExpireDoneType,
   RedispatchType, RearmType, SendType
DEF Continue

\* Every step keeps the types.
LEMMA TypeStep ==
    ASSUME TypeOK, Finite, [Next]_vars
    PROVE  TypeOK'
<1>1. CASE Tick \/ Disconnect \/ Crash
  BY <1>1, TickType, DisconnectType, CrashType
<1>2. CASE \E c \in Calls :
             CancelAtListener(c) \/ CancelTimeout(c) \/ CallNotCancelled(c)
  BY <1>2, CancelWaitType
<1>3. ASSUME NEW h \in Handlers,
             \/ Receive(h) \/ AlarmFires(h) \/ Continue(h)
             \/ FlushFails(h) \/ AuthorityLost(h) \/ AuthorityFails(h)
      PROVE  TypeOK'
  BY <1>3, ReceiveType, AlarmFiresType, ContinueType, FlushFailsType,
     AuthorityLostType, AuthorityFailsType
<1>4. CASE UNCHANGED vars
  BY <1>4 DEF TypeOK, vars, records, quota, durables, sockets, outside
<1> QED  BY <1>1, <1>2, <1>3, <1>4 DEF Next
-----------------------------------------------------------------------------
(* Handlers hold only intents that are or were in the outbox, and only keys *)
(* that were due: what they do after a wait rests on it.                    *)

Past == {k \in Times \X Calls : k[1] <= now}

\* What a step may make of a handler's batch and keys.
Keeps(old, new, ob) ==
    /\ \/ new.batch = old.batch /\ new.stored = old.stored
       \/ new.batch \in {{}, FirstIntents(ob)} /\ new.stored = FALSE
    /\ new.keys \subseteq old.keys \cup Past
HandlersKept == \A g \in Handlers : Keeps(handler[g], handler'[g], outbox')

\* Idle, and hence every handler an event starts, has no batch and no keys.
LEMMA SetHandlerKeeps ==
    ASSUME TypeOK, NEW h \in Handlers, NEW hd, SetHandler(h, hd),
           Keeps(handler[h], hd, outbox')
    PROVE  HandlersKept
<1>1. ASSUME NEW g \in Handlers
      PROVE  /\ handler'[g] \in {handler[g], hd, Idle}
             /\ g # h => handler'[g] = handler[g]
  BY DEF SetHandler, TypeOK
<1>2. Keeps(handler[h], Idle, outbox')  BY DEF Keeps, Idle
<1>3. \A g \in Handlers : Keeps(handler[g], handler[g], outbox')  BY DEF Keeps
<1> QED  BY <1>1, <1>2, <1>3 DEF HandlersKept

\* A handler that is given other stages keeps its batch and its keys.
LEMMA DoKeeps ==
    ASSUME TypeOK, NEW h \in Handlers, NEW hd, NEW todo, Do(h, hd, todo),
           {"batch", "stored", "keys"} \subseteq DOMAIN hd,
           Keeps(handler[h], hd, outbox')
    PROVE  HandlersKept
<1> DEFINE new == [hd EXCEPT !.todo = todo]
<1>1. new.batch = hd.batch /\ new.stored = hd.stored /\ new.keys = hd.keys
  OBVIOUS
<1>2. Keeps(handler[h], new, outbox')  BY <1>1 DEF Keeps
<1> QED  BY <1>2, SetHandlerKeeps DEF Do

\* A handler that starts a flush takes a batch of the outbox as it stands.
LEMMA FlushThenKeeps ==
    ASSUME TypeOK, NEW h \in Handlers, NEW hd, NEW todo,
           FlushThen(h, hd, outbox', todo),
           {"batch", "stored", "keys"} \subseteq DOMAIN hd,
           Keeps(handler[h], hd, outbox')
    PROVE  HandlersKept
<1>1. CASE outbox' = {}  BY <1>1, DoKeeps DEF FlushThen
<1>2. CASE outbox' # {}
  <2> DEFINE new == [hd EXCEPT !.todo = <<"flush">> \o todo,
                       !.batch = FirstIntents(outbox'), !.stored = FALSE]
  <2>1. /\ new.batch = FirstIntents(outbox') /\ new.stored = FALSE
        /\ new.keys = hd.keys
    OBVIOUS
  <2>2. Keeps(handler[h], new, outbox')  BY <2>1 DEF Keeps
  <2> QED  BY <1>2, <2>2, SetHandlerKeeps DEF FlushThen
<1> QED  BY <1>1, <1>2

\* An event's handler starts with no batch but one of the outbox.
LEMMA ReceiveKeeps ==
    ASSUME TypeOK, NEW h \in Handlers, Receive(h) \/ AlarmFires(h)
    PROVE  HandlersKept
<1>1. ASSUME NEW hd, {"batch", "stored", "keys"} \subseteq DOMAIN hd,
             hd.batch = {}, hd.stored = FALSE, hd.keys = {}
      PROVE  Keeps(handler[h], hd, outbox')
  BY <1>1 DEF Keeps
<1>2. ASSUME NEW c, NEW ss, NEW st
      PROVE  \A hd \in {Idle, [Idle EXCEPT !.session = ss], [Idle EXCEPT !.call = c],
                       [Idle EXCEPT !.call = c, !.state = st],
                       [Idle EXCEPT !.call = c, !.session = ss]} :
               /\ {"batch", "stored", "keys"} \subseteq DOMAIN hd
               /\ Keeps(handler[h], hd, outbox')
  BY <1>1 DEF Idle
<1>3. HandlersKept \/ \E hd, todo :
         /\ Do(h, hd, todo) \/ FlushThen(h, hd, outbox', todo)
         /\ {"batch", "stored", "keys"} \subseteq DOMAIN hd
         /\ Keeps(handler[h], hd, outbox')
  <2>0. UNCHANGED handler => HandlersKept  BY DEF HandlersKept, Keeps
  <2>1. CASE \E cap \in Capabilities : Connect(h, cap)
    BY <1>2, <2>0, <2>1 DEF Connect
  <2>2. CASE AlarmFires(h)  BY <1>2, <2>2 DEF AlarmFires
  <2>3. CASE \E k \in Callers, m \in Messages, b \in RequestSizes :
               SubmitDurable(h, k, m, b)
    <3>1. \E c : FlushThen(h, [Idle EXCEPT !.call = c], outbox', <<"receipt">>)
      BY ZenonT(30), <2>3 DEF SubmitDurable
    <3> QED  BY <1>2, <3>1
  <2>4. CASE \E k \in Callers, m \in LiveMessages, e \in BOOLEAN :
               SubmitLive(h, k, m, e)
    BY <1>2, <2>4 DEF SubmitLive
  <2>5. CASE \E c \in Calls : CancelUnstarted(h, c)
    BY <1>2, <2>5 DEF CancelUnstarted
  <2>6. CASE \E c \in Calls : CallAccepted(h, c)
    BY <1>2, <2>6 DEF CallAccepted
  <2>7. CASE \E c \in Calls : CallStarted(h, c)
    BY <1>2, <2>7 DEF CallStarted
  <2>8. CASE \E c \in Calls : CallCancelled(h, c)
    BY <1>2, <2>8 DEF CallCancelled
  <2>9. CASE \E c \in Calls : CallRejected(h, c)
    BY <1>2, <2>9 DEF CallRejected
  <2>10. CASE \E c \in Calls, s \in Outcomes, b \in OutcomeSizes :
                CallOutcome(h, c, s, b)
    BY <1>2, <2>10 DEF CallOutcome
  <2> QED  BY <2>1, <2>2, <2>3, <2>4, <2>5, <2>6, <2>7, <2>8, <2>9, <2>10
           DEF Receive
<1> QED  BY <1>3, DoKeeps, FlushThenKeeps

\* Every stage keeps, drops or renews the batch of its handler.
LEMMA ContinueKeeps ==
    ASSUME TypeOK, NEW h \in Handlers,
           Continue(h) \/ FlushFails(h) \/ AuthorityLost(h) \/ AuthorityFails(h)
    PROVE  D1Insert(h) \/ HandlersKept
<1> DEFINE fits(hd) == /\ {"batch", "stored", "keys"} \subseteq DOMAIN hd
                       /\ Keeps(handler[h], hd, outbox')
           result == \E hd, todo : /\ Do(h, hd, todo) \/ FlushThen(h, hd, outbox', todo)
                                   /\ fits(hd)
<1>1. /\ handler[h] \in Handler
      /\ {"batch", "stored", "keys", "candidate", "session", "timedOut"}
           \subseteq DOMAIN handler[h]
  <2>1. handler[h] \in Handler  BY DEF TypeOK
  <2> QED  BY <2>1 DEF Handler
<1>2. fits(handler[h]) /\ fits(Idle)
  BY <1>1 DEF Keeps, Idle
<1>3. \A k : fits([handler[h] EXCEPT !.candidate = k])
  BY <1>1 DEF Keeps
<1>4. fits([handler[h] EXCEPT !.batch = {}, !.stored = FALSE])
  BY <1>1 DEF Keeps
<1>5. \A ss : fits([handler[h] EXCEPT !.session = ss, !.timedOut = {}])
  BY <1>1 DEF Keeps
<1> HIDE DEF fits
<1>6. CASE FlushDone(h) \/ FlushFails(h)
  <2>1. result  BY <1>4, <1>6 DEF FlushDone, FlushFails
  <2> QED  BY <2>1, DoKeeps, FlushThenKeeps DEF fits
<1>7. CASE AuthorityCurrent(h) \/ AuthorityLost(h) \/ AuthorityFails(h)
  <2>1. result  BY <1>2, <1>3, <1>7 DEF AuthorityCurrent, AuthorityLost, AuthorityFails
  <2> QED  BY <2>1, DoKeeps, FlushThenKeeps DEF fits
<1>8. CASE FinishDurableTask(h) \/ Rebind(h) \/ SkipHead(h) \/ Rearm(h)
  <2>1. result  BY <1>2, <1>8 DEF FinishDurableTask, Rebind, SkipHead, Rearm
  <2> QED  BY <2>1, DoKeeps, FlushThenKeeps DEF fits
<1>9. CASE ConsiderHead(h)
  <2>1. result  BY <1>2, <1>3, <1>9 DEF ConsiderHead
  <2> QED  BY <2>1, DoKeeps, FlushThenKeeps DEF fits
<1>10. CASE LeaseHead(h) \/ NothingToLease(h)
  <2>1. result  BY <1>3, <1>10 DEF LeaseHead, NothingToLease
  <2> QED  BY <2>1, DoKeeps, FlushThenKeeps DEF fits
<1>11. CASE RecoverExpiredLease(h)
  <2> DEFINE ks == {k \in FirstKeys(due') : k[1] <= now}
  <2>1. due' \in SUBSET (Times \X Calls)
    BY <1>11, RecoverExpiredLeaseType DEF TypeOK
  <2>2. ks \subseteq Past  BY <2>1 DEF FirstKeys, Past
  <2>3. fits([handler[h] EXCEPT !.keys = ks])
    <3> HIDE DEF ks
    <3> QED  BY <1>1, <2>2 DEF Keeps, fits
  <2>4. Do(h, [handler[h] EXCEPT !.keys = ks], Rest(h))
    BY <1>11 DEF RecoverExpiredLease
  <2> QED  BY <2>3, <2>4, DoKeeps DEF fits
<1>12. CASE \E k \in handler[h].keys : ExpireTask(h, k)
  <2>1. PICK k, s :
          SetHandler(h, [handler[h] EXCEPT !.keys = @ \ {k}, !.timedOut = s])
    BY <1>1, <1>12 DEF ExpireTask
  <2>2. fits([handler[h] EXCEPT !.keys = @ \ {k}, !.timedOut = s])
    BY <1>1 DEF Keeps, fits
  <2> QED  BY <2>1, <2>2, SetHandlerKeeps DEF fits
<1>13. CASE ExpireDone(h)
  <2>1. FlushThen(h, handler[h], outbox', Rest(h))
    BY <1>13 DEF ExpireDone, durables
  <2> QED  BY <1>2, <2>1, FlushThenKeeps DEF fits
<1>14. CASE Redispatch(h)
  <2>1. result  BY <1>5, <1>14 DEF Redispatch
  <2> QED  BY <2>1, DoKeeps, FlushThenKeeps DEF fits
<1>15. CASE Receipt(h) \/ SendStatus(h) \/ SendTerminal(h)
  <2>1. result  BY <1>2, <1>15 DEF Receipt, SendStatus, SendTerminal
  <2> QED  BY <2>1, DoKeeps, FlushThenKeeps DEF fits
<1> QED  BY <1>6, <1>7, <1>8, <1>9, <1>10, <1>11, <1>12, <1>13, <1>14, <1>15
         DEF Continue

\* What holds of events and stages holds of every step.
LEMMA StepKeeps ==
    ASSUME TypeOK, [Next]_vars
    PROVE  HandlersKept \/ \E h \in Handlers : D1Insert(h)
<1>1. UNCHANGED handler => HandlersKept  BY DEF HandlersKept, Keeps
<1>2. CASE Tick \/ Disconnect \/ UNCHANGED vars
  BY <1>1, <1>2 DEF Tick, Disconnect, vars
<1>3. CASE Crash  BY <1>3 DEF Crash, HandlersKept, Keeps, Idle
<1>4. CASE \E c \in Calls :
             CancelAtListener(c) \/ CancelTimeout(c) \/ CallNotCancelled(c)
  BY <1>1, <1>4 DEF CancelAtListener, CancelTimeout, CallNotCancelled
<1> QED  BY <1>2, <1>3, <1>4, ReceiveKeeps, ContinueKeeps DEF Next
-----------------------------------------------------------------------------
(* The outbox.                                                             *)

\* Only the answer of D1 takes intents out; every other step adds at most one.
OutboxGrows == outbox' = outbox \/ \E x : outbox' = outbox \cup {x}

\* A transition to a terminal state only adds to the outbox.
LEMMA TerminateGrows ==
    ASSUME NEW c, NEW new, NEW e, Terminate(c, new, e)
    PROVE  OutboxGrows
BY DEF Terminate, OutboxGrows

\* A step shrinks the outbox only by a batch D1 has stored.
LEMMA OutboxStep ==
    ASSUME [Next]_vars
    PROVE  OutboxGrows \/ \E h \in Handlers : FlushDone(h)
<1>0. UNCHANGED outbox => OutboxGrows  BY DEF OutboxGrows
<1>1. CASE Tick \/ Disconnect \/ Crash \/ UNCHANGED vars
  BY <1>0, <1>1 DEF Tick, Disconnect, Crash, vars, durables
<1>2. CASE \E c \in Calls :
             CancelAtListener(c) \/ CancelTimeout(c) \/ CallNotCancelled(c)
  BY <1>0, <1>2 DEF CancelAtListener, CancelTimeout, CallNotCancelled, durables
<1>3. ASSUME NEW h \in Handlers, Receive(h) \/ AlarmFires(h)
      PROVE  OutboxGrows
  <2>1. ASSUME NEW c, CallCancelled(h, c) \/ CallRejected(h, c) \/ CancelUnstarted(h, c)
        PROVE  OutboxGrows
    BY <2>1, TerminateGrows DEF CallCancelled, CallRejected, CancelUnstarted
  <2>2. ASSUME NEW c, NEW s, NEW b, CallOutcome(h, c, s, b)  PROVE OutboxGrows
    BY <2>2, TerminateGrows DEF CallOutcome
  <2>3. ASSUME NEW c, CallAccepted(h, c) \/ CallStarted(h, c)  PROVE OutboxGrows
    BY <2>3 DEF CallAccepted, CallStarted, OutboxGrows
  <2>4. ASSUME NEW k, NEW m, NEW b, SubmitDurable(h, k, m, b) \/ SubmitLive(h, k, m, b)
        PROVE  OutboxGrows
    BY <2>4 DEF SubmitDurable, SubmitLive, OutboxGrows
  <2>5. ASSUME NEW cap, Connect(h, cap) \/ AlarmFires(h)  PROVE OutboxGrows
    BY <1>0, <2>5 DEF Connect, AlarmFires, durables
  <2> QED  BY <1>3, <2>1, <2>2, <2>3, <2>4, <2>5 DEF Receive
<1>4. ASSUME NEW h \in Handlers,
             Continue(h) \/ FlushFails(h) \/ AuthorityLost(h) \/ AuthorityFails(h)
      PROVE  OutboxGrows \/ FlushDone(h)
  <2>1. CASE AuthorityLost(h)
    BY <1>0, <2>1, TerminateGrows DEF AuthorityLost
  <2>2. CASE RecoverExpiredLease(h)
    BY <1>0, <2>2, TerminateGrows DEF RecoverExpiredLease
  <2>3. CASE \E k \in handler[h].keys : ExpireTask(h, k)
    <3>1. PICK c : \/ Timeout(c) \/ DropOutcome(c) \/ Purge(c) \/ DeleteLive(c)
                   \/ UNCHANGED outbox
      BY <2>3 DEF ExpireTask
    <3>2. CASE Timeout(c)  BY <3>2, TerminateGrows DEF Timeout
    <3>3. CASE DropOutcome(c) \/ Purge(c)  BY <1>0, <3>3 DEF DropOutcome, Purge
    <3>4. CASE DeleteLive(c)  BY <1>0, <3>4 DEF DeleteLive, OutboxGrows
    <3> QED  BY <1>0, <3>1, <3>2, <3>3, <3>4
  <2>4. CASE \/ FlushFails(h) \/ AuthorityFails(h) \/ D1Insert(h)
             \/ AuthorityCurrent(h) \/ FinishDurableTask(h) \/ Rebind(h)
             \/ ConsiderHead(h) \/ SkipHead(h) \/ LeaseHead(h)
             \/ NothingToLease(h) \/ ExpireDone(h) \/ Redispatch(h)
             \/ Rearm(h) \/ Receipt(h) \/ SendStatus(h) \/ SendTerminal(h)
    BY <1>0, <2>4
    DEF FlushFails, AuthorityFails, D1Insert, AuthorityCurrent,
        FinishDurableTask, Rebind, ConsiderHead, SkipHead, LeaseHead,
        NothingToLease, ExpireDone, Redispatch, Rearm, Receipt, SendStatus,
        SendTerminal, durables
  <2> QED  BY <1>4, <2>1, <2>2, <2>3, <2>4 DEF Continue
<1> QED  BY <1>1, <1>2, <1>3, <1>4 DEF Next

\* Rows are only ever added.
LEMMA RowsStep ==
    ASSUME [Next]_vars
    PROVE  rows' = rows \/ \E h \in Handlers : D1Insert(h)
<1>1. CASE Tick \/ Disconnect \/ Crash \/ UNCHANGED vars
  BY <1>1 DEF Tick, Disconnect, Crash, vars, outside
<1>2. CASE \E c \in Calls :
             CancelAtListener(c) \/ CancelTimeout(c) \/ CallNotCancelled(c)
  BY <1>2 DEF CancelAtListener, CancelTimeout, CallNotCancelled
<1>3. ASSUME NEW h \in Handlers, Receive(h) \/ AlarmFires(h)
      PROVE  rows' = rows
  BY ZenonT(30), <1>3 DEF Receive, AlarmFires, Connect, SubmitDurable, SubmitLive,
     CancelUnstarted, CallAccepted, CallStarted, CallCancelled, CallRejected,
     CallOutcome, outside
<1>4. ASSUME NEW h \in Handlers,
             Continue(h) \/ FlushFails(h) \/ AuthorityLost(h) \/ AuthorityFails(h)
      PROVE  rows' = rows \/ D1Insert(h)
  BY <1>4 DEF Continue, FlushFails, AuthorityFails, AuthorityLost, FlushDone,
     AuthorityCurrent, FinishDurableTask, Rebind, ConsiderHead, SkipHead,
     LeaseHead, NothingToLease, RecoverExpiredLease, ExpireTask, ExpireDone,
     Redispatch, Rearm, Receipt, SendStatus, SendTerminal, outside
<1> QED  BY <1>1, <1>2, <1>3, <1>4 DEF Next

\* Only Tick moves the clock.
LEMMA ClockStep ==
    ASSUME [Next]_vars
    PROVE  now' = now \/ now' = now + 1
<1>1. CASE Tick \/ Disconnect \/ Crash \/ UNCHANGED vars
  BY <1>1 DEF Tick, Disconnect, Crash, vars
<1>2. CASE \E c \in Calls :
             CancelAtListener(c) \/ CancelTimeout(c) \/ CallNotCancelled(c)
  BY <1>2 DEF CancelAtListener, CancelTimeout, CallNotCancelled
<1>3. ASSUME NEW h \in Handlers, Receive(h) \/ AlarmFires(h)
      PROVE  now' = now
  BY <1>3 DEF Receive, AlarmFires, Connect, SubmitDurable, SubmitLive,
     CancelUnstarted, CallAccepted, CallStarted, CallCancelled, CallRejected,
     CallOutcome
<1>4. ASSUME NEW h \in Handlers,
             Continue(h) \/ FlushFails(h) \/ AuthorityLost(h) \/ AuthorityFails(h)
      PROVE  now' = now
  BY <1>4 DEF Continue, FlushFails, AuthorityFails, AuthorityLost, FlushDone,
     D1Insert, AuthorityCurrent, FinishDurableTask, Rebind, ConsiderHead,
     SkipHead, LeaseHead, NothingToLease, RecoverExpiredLease, ExpireTask,
     ExpireDone, Redispatch, Rearm, Receipt, SendStatus, SendTerminal
<1> QED  BY <1>1, <1>2, <1>3, <1>4 DEF Next

\* What a handler believes stored is stored, also while others write.
Stored == \A h \in Handlers : handler[h].stored =>
             \A i \in handler[h].batch : rows[i.call][i.event] # 0
KeysPast == \A h \in Handlers : handler[h].keys \subseteq Past

\* The invariant of the outbox, its batches and the alarm's keys.
FlushInv == TypeOK /\ Finite /\ Stored /\ KeysPast

\* FlushInv holds at first.
LEMMA InitFlush == Init => FlushInv
<1> SUFFICES ASSUME Init PROVE FlushInv  OBVIOUS
<1>1. TypeOK
  <2>1. task \in [Calls -> Task]  BY ConstantTypes DEF Init
  <2>2. handler \in [Handlers -> Handler]  BY IdleType DEF Init
  <2>3. /\ now \in 0..MaxTime /\ session \in 0..MaxSessions
        /\ sessions \in 0..MaxSessions /\ failures \in 0..MaxFailures
    BY ConstantTypes DEF Init
  <2>4. capable \in BOOLEAN  BY Zenon DEF Init
  <2> QED  BY <2>1, <2>2, <2>3, <2>4 DEF Init, TypeOK
<1>2. Finite  BY FS_EmptySet DEF Init, Finite, Idle
<1>3. Stored /\ KeysPast  BY DEF Init, Stored, KeysPast, Idle
<1> QED  BY <1>1, <1>2, <1>3 DEF FlushInv

\* Every step keeps FlushInv.
LEMMA FlushStep ==
    ASSUME FlushInv, [Next]_vars
    PROVE  FlushInv'
<1>1. TypeOK'  BY TypeStep DEF FlushInv
<1>2. now' >= now /\ now \in Nat /\ now' \in Nat
  BY <1>1, ClockStep, ConstantTypes DEF FlushInv, TypeOK
<1>3. Past \subseteq Past'
  <2>1. \A t \in Nat : t <= now => t <= now'  BY <1>2
  <2> QED  BY <2>1 DEF Past, Times
<1>4. ASSUME NEW h \in Handlers, D1Insert(h)
      PROVE  Finite' /\ Stored' /\ KeysPast'
  <2>1. /\ \A g \in Handlers : /\ handler'[g].batch = handler[g].batch
                               /\ handler'[g].keys = handler[g].keys
                               /\ g # h => handler'[g].stored = handler[g].stored
        /\ outbox' = outbox
    <3>1. handler' = [handler EXCEPT ![h].stored = TRUE]  BY <1>4 DEF D1Insert
    <3>2. \A g \in Handlers : handler[g] \in Handler  BY DEF FlushInv, TypeOK
    <3>3. outbox' = outbox  BY <1>4 DEF D1Insert, durables
    <3> QED  BY <3>1, <3>2, <3>3 DEF FlushInv, TypeOK, Handler
  <2>2. Finite'  BY <2>1 DEF FlushInv, Finite
  <2>3. Stored'
    <3>1. \A g \in Handlers : handler[g].batch \subseteq Intent
      BY DEF FlushInv, TypeOK, Handler
    <3>2. /\ \A i \in handler[h].batch : rows'[i.call][i.event] # 0
          /\ \A c \in Calls, e \in Events :
               rows[c][e] # 0 => rows'[c][e] = rows[c][e]
      BY <1>4, D1InsertRows DEF FlushInv
    <3> QED  BY <2>1, <3>1, <3>2 DEF FlushInv, Stored, Intent
  <2>4. KeysPast'  BY <1>3, <2>1 DEF FlushInv, KeysPast
  <2> QED  BY <2>2, <2>3, <2>4
<1>5. ASSUME HandlersKept, rows' = rows
      PROVE  Finite' /\ Stored' /\ KeysPast'
  <2>1. IsFiniteSet(outbox')
    <3>1. CASE OutboxGrows
      BY <3>1, FS_AddElement DEF FlushInv, Finite, OutboxGrows
    <3>2. CASE \E h \in Handlers : FlushDone(h)
      <4>1. outbox' \subseteq outbox  BY <3>2 DEF FlushDone, Drained
      <4> QED  BY <4>1, FS_Subset DEF FlushInv, Finite
    <3> QED  BY <3>1, <3>2, OutboxStep
  <2>2. Finite'
    <3>1. ASSUME NEW g \in Handlers PROVE IsFiniteSet(handler'[g].batch)
      <4>1. \/ handler'[g].batch = handler[g].batch
            \/ handler'[g].batch \subseteq outbox'
        BY <1>5 DEF HandlersKept, Keeps, FirstIntents
      <4> QED  BY <2>1, <4>1, FS_Subset DEF FlushInv, Finite
    <3> QED  BY <2>1, <3>1 DEF Finite
  <2>3. Stored'  BY <1>5 DEF FlushInv, Stored, HandlersKept, Keeps
  <2>4. KeysPast'  BY <1>3, <1>5 DEF FlushInv, KeysPast, HandlersKept, Keeps
  <2> QED  BY <2>2, <2>3, <2>4
<1>6. Finite' /\ Stored' /\ KeysPast'
  BY <1>4, <1>5, StepKeeps, RowsStep DEF FlushInv
<1> QED  BY <1>1, <1>6 DEF FlushInv

\* FlushInv is invariant.
LEMMA FlushInvariant == Spec => []FlushInv
BY InitFlush, FlushStep, PTL DEF Spec

\* Every variable keeps to the values the object's code can give it.
THEOREM TypeCorrect == Spec => []TypeOK
<1>1. FlushInv => TypeOK  BY DEF FlushInv
<1> QED  BY <1>1, FlushInvariant, PTL

\* NoIntentLost: the object deletes an audit intent only in FlushDone, and a
\* handler that gets there has the rows of its batch in D1, because rows are
\* never removed and a batch changes only together with its "stored" mark.
THEOREM IntentsReachD1 == Spec => NoIntentLost
<1>1. ASSUME FlushInv, [Next]_vars
      PROVE  \A i \in outbox : i \in outbox' \/ rows[i.call][i.event] # 0
  <2>1. CASE OutboxGrows  BY <2>1 DEF OutboxGrows
  <2>2. ASSUME NEW h \in Handlers, FlushDone(h)
        PROVE  \A i \in outbox : i \in outbox' \/ rows[i.call][i.event] # 0
    BY <1>1, <2>2 DEF FlushDone, Drained, FlushInv, Stored
  <2> QED  BY <1>1, <2>1, <2>2, OutboxStep
<1> QED  BY <1>1, FlushInvariant, PTL DEF Spec, NoIntentLost

-----------------------------------------------------------------------------

(***************************************************************************)
(* The object's indexes agree with its records: one timer per record, and  *)
(* one idempotency key per durable record.  From that, a submission's key  *)
(* is protected until its tombstone runs out.                              *)
(***************************************************************************)

\* Only drawn call ids have records.
IssuedExist == \A c \in Calls : Exists(c) => c \in issued

IndexInv  == FlushInv /\ DueExact /\ IssuedExist /\ DedupeExact
IndexKept == DueExact' /\ IssuedExist' /\ DedupeExact'

\* The record u may stand for the call of the record t.
SameCall(t, u) ==
    /\ u \in Task /\ t.delivery_state # "absent" /\ u.delivery_state # "absent"
    /\ IsDurable(t) <=> IsDurable(u)
    /\ u.from = t.from /\ u.message_id = t.message_id

\* A terminal record still stands for its call.
LEMMA EndedSame ==
    ASSUME NEW t \in Task, t.delivery_state # "absent", NEW s \in TerminalStates
    PROVE  SameCall(t, Ended(t, s))
<1>1. Ended(t, s) \in Task  BY EndedType
<1>2. CASE IsDurable(t)
  BY <1>1, <1>2 DEF SameCall, Ended, IsDurable, DurableStates, Task
<1>3. CASE ~IsDurable(t)
  BY <1>1, <1>3 DEF SameCall, Ended, IsDurable, Task
<1> QED  BY <1>2, <1>3
-----------------------------------------------------------------------------
(* The ways a step may change a record and its index entries.              *)

\* A step that leaves records and indexes alone keeps the invariant.
LEMMA SameIndex ==
    ASSUME IndexInv, UNCHANGED <<task, due, dedupe, issued>>
    PROVE  IndexKept
BY DEF IndexInv, IndexKept, DueExact, IssuedExist, DedupeExact, Exists, DueKey,
       IsDurable

\* Membership in the timer index, one key at a time.
LEMMA DueMember ==
    ASSUME DueExact
    PROVE  \A k : k \in due <=> \E c \in Calls : Exists(c) /\ k = DueKey(task[c], c)
BY DEF DueExact

\* So does one that rewrites a record and moves its timer with it.
LEMMA ChangedRecord ==
    ASSUME IndexInv, NEW c \in Calls, NEW t, SameCall(task[c], t),
           task' = [task EXCEPT ![c] = t],
           \/ due' = (due \ {DueKey(task[c], c)}) \cup {DueKey(t, c)}
           \/ due' = due /\ t.deadline = task[c].deadline,
           UNCHANGED <<dedupe, issued>>
    PROVE  IndexKept
<1>1. task'[c] = t /\ \A x \in Calls : x # c => task'[x] = task[x]
  BY DEF IndexInv, FlushInv, TypeOK
<1>2. \A x \in Calls : Exists(x)' <=> Exists(x)
  BY <1>1 DEF Exists, SameCall
<1>3. Exists(c)  BY DEF SameCall, Exists
<1>4. due' = (due \ {DueKey(task[c], c)}) \cup {DueKey(t, c)}
  BY <1>3, DueMember DEF IndexInv, DueKey
<1>5. DueExact'
  <2>1. \A k : k \in due' <=> \E x \in Calls : Exists(x)' /\ k = DueKey(task'[x], x)
    BY <1>1, <1>2, <1>3, <1>4, DueMember DEF IndexInv, DueKey
  <2> QED  BY <2>1 DEF DueExact
<1>6. IssuedExist'  BY <1>2 DEF IndexInv, IssuedExist
<1>7. DedupeExact'
  BY <1>1 DEF IndexInv, DedupeExact, SameCall
<1> QED  BY <1>5, <1>6, <1>7 DEF IndexKept

\* A durable submission names its call; a live one names none.
LEMMA NewRecord ==
    ASSUME IndexInv, NEW c \in Calls \ issued, NEW t \in Task,
           t.delivery_state # "absent",
           task' = [task EXCEPT ![c] = t], due' = due \cup {DueKey(t, c)},
           issued' = issued \cup {c},
           \/ IsDurable(t) /\ /\ t.from \in Callers /\ t.message_id \in Messages
                              /\ dedupe[t.from][t.message_id] = NoCall
                              /\ dedupe' = [dedupe EXCEPT ![t.from][t.message_id] = c]
           \/ ~IsDurable(t) /\ UNCHANGED dedupe
    PROVE  IndexKept
<1>1. task'[c] = t /\ \A x \in Calls : x # c => task'[x] = task[x]
  BY DEF IndexInv, FlushInv, TypeOK
<1>2. ~Exists(c)  BY DEF IndexInv, IssuedExist
<1>3. Exists(c)' /\ \A x \in Calls : x # c => (Exists(x)' <=> Exists(x))
  BY <1>1 DEF Exists
<1>4. DueExact'
  <2>1. \A k : k \in due' <=> \E x \in Calls : Exists(x)' /\ k = DueKey(task'[x], x)
    BY <1>1, <1>2, <1>3, DueMember DEF IndexInv, DueKey
  <2> QED  BY <2>1 DEF DueExact
<1>5. IssuedExist'  BY <1>3 DEF IndexInv, IssuedExist
<1>6. DedupeExact'
  <2>1. ~IsDurable(task[c])  BY <1>2 DEF Exists, IsDurable, DurableStates
  <2>2. c # NoCall  BY HandleDOAssumption DEF NoCall
  <2>3. dedupe \in [Callers -> [Messages -> Calls \cup {NoCall}]]
    BY DEF IndexInv, FlushInv, TypeOK
  <2>4. CASE IsDurable(t)
    <3>1. /\ t.from \in Callers /\ t.message_id \in Messages
          /\ dedupe[t.from][t.message_id] = NoCall
          /\ dedupe' = [dedupe EXCEPT ![t.from][t.message_id] = c]
      BY <2>4
    <3>2. \A k \in Callers, m \in Messages :
            dedupe'[k][m] = IF k = t.from /\ m = t.message_id THEN c
                            ELSE dedupe[k][m]
      BY <2>3, <3>1
    <3>3. \A k \in Callers, m \in Messages : dedupe[k][m] # c
      BY <2>1 DEF IndexInv, DedupeExact
    <3>4. \A x \in Calls : ~(IsDurable(task[x]) /\ task[x].from = t.from
                              /\ task[x].message_id = t.message_id)
      <4>1. \A x \in Calls : x # NoCall  BY HandleDOAssumption DEF NoCall
      <4> QED  BY <3>1, <4>1 DEF IndexInv, DedupeExact
    <3> QED  BY <1>1, <2>4, <3>2, <3>3, <3>4 DEF IndexInv, DedupeExact
  <2>5. CASE ~IsDurable(t)
    BY <1>1, <2>1, <2>5 DEF IndexInv, DedupeExact
  <2> QED  BY <2>4, <2>5
<1> QED  BY <1>4, <1>5, <1>6 DEF IndexKept

\* A record goes with its timer, and with its idempotency key if it had one.
LEMMA DroppedRecord ==
    ASSUME IndexInv, NEW c \in Calls, Exists(c),
           task' = [task EXCEPT ![c] = NoTask], due' = due \ {DueKey(task[c], c)},
           issued' = issued,
           \/ IsDurable(task[c]) /\ ForgetSubmission(task[c])
           \/ ~IsDurable(task[c]) /\ UNCHANGED dedupe
    PROVE  IndexKept
<1>1. task'[c] = NoTask /\ \A x \in Calls : x # c => task'[x] = task[x]
  BY DEF IndexInv, FlushInv, TypeOK
<1>2. ~Exists(c)' /\ \A x \in Calls : x # c => (Exists(x)' <=> Exists(x))
  BY <1>1 DEF Exists, NoTask
<1>3. DueExact'
  <2>1. \A k : k \in due' <=> \E x \in Calls : Exists(x)' /\ k = DueKey(task'[x], x)
    BY <1>1, <1>2, DueMember DEF IndexInv, DueKey
  <2> QED  BY <2>1 DEF DueExact
<1>4. IssuedExist'  BY <1>2 DEF IndexInv, IssuedExist
<1>5. DedupeExact'
  <2>1. ~IsDurable(NoTask)  BY DEF IsDurable, DurableStates, NoTask
  <2>2. \A x \in Calls : x # NoCall  BY HandleDOAssumption DEF NoCall
  <2>3. dedupe \in [Callers -> [Messages -> Calls \cup {NoCall}]]
    BY DEF IndexInv, FlushInv, TypeOK
  <2>4. CASE IsDurable(task[c]) /\ ForgetSubmission(task[c])
    <3>1. \A k \in Callers, m \in Messages :
            dedupe'[k][m] = IF k = task[c].from /\ m = task[c].message_id
                            THEN NoCall ELSE dedupe[k][m]
      BY <2>3, <2>4 DEF ForgetSubmission
    <3>2. ASSUME NEW k \in Callers, NEW m \in Messages, NEW x \in Calls
          PROVE  dedupe'[k][m] = x <=> /\ IsDurable(task'[x])
                                       /\ task'[x].from = k
                                       /\ task'[x].message_id = m
      <4>1. CASE k = task[c].from /\ m = task[c].message_id
        <5>1. dedupe[k][m] = c  BY <2>4, <4>1 DEF IndexInv, DedupeExact
        <5>2. x # c => ~(IsDurable(task[x]) /\ task[x].from = k
                           /\ task[x].message_id = m)
          BY <5>1 DEF IndexInv, DedupeExact
        <5> QED  BY <1>1, <2>1, <2>2, <3>1, <4>1, <5>2
      <4>2. CASE ~(k = task[c].from /\ m = task[c].message_id)
        <5>1. dedupe'[k][m] = dedupe[k][m]  BY <3>1, <4>2
        <5>2. dedupe[k][m] # c  BY <4>2 DEF IndexInv, DedupeExact
        <5>3. CASE x = c  BY <1>1, <2>1, <5>1, <5>2, <5>3
        <5>4. CASE x # c  BY <1>1, <5>1, <5>4 DEF IndexInv, DedupeExact
        <5> QED  BY <5>3, <5>4
      <4> QED  BY <4>1, <4>2
    <3> QED  BY <3>2 DEF DedupeExact
  <2>5. CASE ~IsDurable(task[c]) /\ UNCHANGED dedupe
    BY <1>1, <2>1, <2>5 DEF IndexInv, DedupeExact
  <2> QED  BY <2>4, <2>5
<1> QED  BY <1>3, <1>4, <1>5 DEF IndexKept

\* So does a transition to a terminal state.
LEMMA Terminated ==
    ASSUME IndexInv, NEW c \in Calls, NEW t, SameCall(task[c], t), NEW e,
           Terminate(c, t, e), UNCHANGED <<dedupe, issued>>
    PROVE  IndexKept
<1> DEFINE final == [t EXCEPT !.quota_released = @ \/ IsDurable(task[c])]
<1>1. /\ task' = [task EXCEPT ![c] = final]
      /\ due' = (due \ {DueKey(task[c], c)}) \cup {DueKey(final, c)}
  BY DEF Terminate
<1>2. SameCall(task[c], final)
  <2>1. t \in Task  BY DEF SameCall
  <2>2. final \in Task  BY <2>1 DEF Task
  <2>3. /\ final.delivery_state = t.delivery_state
        /\ final.from = t.from /\ final.message_id = t.message_id
    BY <2>1 DEF Task
  <2> QED  BY <2>2, <2>3 DEF SameCall, IsDurable
<1> QED  BY <1>1, <1>2, ChangedRecord
-----------------------------------------------------------------------------
(* Each step.                                                              *)

\* Every event keeps the indexes.
LEMMA ReceiveIndex ==
    ASSUME IndexInv, NEW h \in Handlers, Receive(h) \/ AlarmFires(h)
    PROVE  IndexKept
<1>0. TypeOK /\ \A c \in Calls : task[c] \in Task
  BY DEF IndexInv, FlushInv, TypeOK
<1>1. ASSUME NEW cap \in Capabilities, Connect(h, cap)
      PROVE  IndexKept
  BY <1>1, SameIndex DEF Connect, durables, records
<1>2. ASSUME NEW k \in Callers, NEW m \in Messages, NEW b \in RequestSizes,
             SubmitDurable(h, k, m, b)
      PROVE  IndexKept
  <2>0. PICK c \in Calls \ issued :
          LET t == [NoTask EXCEPT !.delivery_state = "queued", !.from = k,
                      !.message_id = m, !.created_at = now,
                      !.deadline = now + Least(MailboxTtl, TimeoutMs[c]),
                      !.execute_by = now + Least(MailboxTtl, TimeoutMs[c]),
                      !.request_envelope = TRUE, !.ciphertext_bytes = b] IN
          /\ issued' = issued \cup {c} /\ task' = [task EXCEPT ![c] = t]
          /\ dedupe' = [dedupe EXCEPT ![k][m] = c]
          /\ due' = due \cup {DueKey(t, c)}
    BY <1>2 DEF SubmitDurable
  <2> DEFINE t == [NoTask EXCEPT !.delivery_state = "queued", !.from = k,
                    !.message_id = m, !.created_at = now,
                    !.deadline = now + Least(MailboxTtl, TimeoutMs[c]),
                    !.execute_by = now + Least(MailboxTtl, TimeoutMs[c]),
                    !.request_envelope = TRUE, !.ciphertext_bytes = b]
  <2>1. /\ issued' = issued \cup {c} /\ task' = [task EXCEPT ![c] = t]
        /\ dedupe' = [dedupe EXCEPT ![k][m] = c]
        /\ due' = due \cup {DueKey(t, c)}
    BY <2>0
  <2>2. task'[c] = t  BY <1>0, <2>1 DEF TypeOK
  <2>3. t \in Task
    <3>1. TypeOK'  BY <1>0, <1>2, SubmitDurableType
    <3> QED  BY <2>2, <3>1 DEF TypeOK
  <2>4. /\ t.delivery_state = "queued" /\ t.from = k /\ t.message_id = m
    BY DEF NoTask
  <2>5. dedupe[k][m] = NoCall  BY <1>2 DEF SubmitDurable
  <2> HIDE DEF t
  <2> QED  BY <2>1, <2>3, <2>4, <2>5, NewRecord DEF IsDurable, DurableStates
<1>3. ASSUME NEW k \in Callers, NEW m \in LiveMessages, NEW e \in BOOLEAN,
             SubmitLive(h, k, m, e)
      PROVE  IndexKept
  <2>0. PICK c \in Calls \ issued :
          LET t == [NoTask EXCEPT !.delivery_state = "live", !.from = k,
                      !.message_id = m, !.created_at = now,
                      !.deadline = now + Least(TimeoutMs[c], RelayCallTimeout)] IN
          /\ issued' = issued \cup {c} /\ task' = [task EXCEPT ![c] = t]
          /\ due' = due \cup {DueKey(t, c)}
    BY <1>3 DEF SubmitLive
  <2> DEFINE t == [NoTask EXCEPT !.delivery_state = "live", !.from = k,
                    !.message_id = m, !.created_at = now,
                    !.deadline = now + Least(TimeoutMs[c], RelayCallTimeout)]
  <2>1. /\ issued' = issued \cup {c} /\ task' = [task EXCEPT ![c] = t]
        /\ due' = due \cup {DueKey(t, c)}
    BY <2>0
  <2>2. task'[c] = t  BY <1>0, <2>1 DEF TypeOK
  <2>3. t \in Task
    <3>1. TypeOK'  BY <1>0, <1>3, SubmitLiveType
    <3> QED  BY <2>2, <3>1 DEF TypeOK
  <2>4. t.delivery_state = "live"  BY DEF NoTask
  <2>5. UNCHANGED dedupe  BY <1>3 DEF SubmitLive
  <2> HIDE DEF t
  <2> QED  BY <2>1, <2>3, <2>4, <2>5, NewRecord DEF IsDurable, DurableStates
<1>4. ASSUME NEW c \in Calls, CallAccepted(h, c)
      PROVE  IndexKept
  <2> DEFINE t == [task[c] EXCEPT !.state = "answered"]
  <2>1. SameCall(task[c], t)
    BY <1>0, <1>4
    DEF CallAccepted, MayReport, Exists, SameCall, IsDurable, Task, CallStates
  <2>2. /\ task' = [task EXCEPT ![c] = t] /\ due' = due
        /\ t.deadline = task[c].deadline /\ UNCHANGED <<dedupe, issued>>
    BY <1>0, <1>4 DEF CallAccepted, Task
  <2> QED  BY <2>1, <2>2, ChangedRecord
<1>5. ASSUME NEW c \in Calls, CallStarted(h, c)
      PROVE  IndexKept
  <2> DEFINE old == task[c]
             t == [old EXCEPT !.state = "working", !.task_state = "working",
                     !.delivery_state = IF IsDurable(old) THEN "started" ELSE @,
                     !.deadline = IF IsDurable(old) THEN ExecutionDeadline(old)
                                  ELSE @]
  <2>1. /\ task' = [task EXCEPT ![c] = t]
        /\ due' = (due \ {DueKey(old, c)}) \cup {DueKey(t, c)}
        /\ UNCHANGED <<dedupe, issued>>
    BY <1>5 DEF CallStarted
  <2>2. t \in Task
    <3>1. TypeOK'
      BY <1>0, <1>5, CallStartedType
    <3>2. task'[c] = t  BY <1>0, <2>1 DEF TypeOK
    <3> QED  BY <3>1, <3>2 DEF TypeOK
  <2>3. Exists(c)  BY <1>5 DEF CallStarted, MayReport
  <2>4. SameCall(old, t)
    <3>1. t.from = old.from /\ t.message_id = old.message_id  BY <1>0 DEF Task
    <3>2. t.delivery_state = IF IsDurable(old) THEN "started" ELSE old.delivery_state
      BY <1>0 DEF Task
    <3> QED  BY <2>2, <2>3, <3>1, <3>2 DEF SameCall, Exists, IsDurable, DurableStates
  <2> QED  BY <2>1, <2>4, ChangedRecord
<1>6. ASSUME NEW c \in Calls,
             CallCancelled(h, c) \/ CallRejected(h, c) \/ CancelUnstarted(h, c)
      PROVE  IndexKept
  <2>1. task[c].delivery_state # "absent"
    BY <1>6 DEF CallCancelled, CallRejected, CancelUnstarted, MayReport, Exists
  <2>2. \A s \in TerminalStates : SameCall(task[c], Ended(task[c], s))
    BY <1>0, <2>1, EndedSame
  <2>3. \E s \in TerminalStates : \E e : Terminate(c, Ended(task[c], s), e)
    BY <1>6 DEF CallCancelled, CallRejected, CancelUnstarted, TerminalStates
  <2>4. UNCHANGED <<dedupe, issued>>
    BY <1>6 DEF CallCancelled, CallRejected, CancelUnstarted
  <2> QED  BY <2>2, <2>3, <2>4, Terminated
<1>7. ASSUME NEW c \in Calls, NEW s \in Outcomes, NEW b \in OutcomeSizes,
             CallOutcome(h, c, s, b)
      PROVE  IndexKept
  <2> DEFINE t == [Ended(task[c], s) EXCEPT
                     !.outcome_envelope = TRUE,
                     !.deadline = IF IsDurable(task[c]) THEN ExecuteBy(task[c])
                                  ELSE @,
                     !.ciphertext_bytes = IF IsDurable(task[c]) THEN b ELSE @]
  <2>1. task[c].delivery_state # "absent"
    BY <1>7 DEF CallOutcome, MayReport, Exists
  <2>2. SameCall(task[c], Ended(task[c], s))
    BY <1>0, <2>1, EndedSame, HandleDOAssumption DEF TerminalStates
  <2>3. t \in Task
    <3>1. Ended(task[c], s) \in Task  BY <2>2 DEF SameCall
    <3>2. ExecuteBy(task[c]) \in Times
      BY <1>0, ConstantTypes DEF ExecuteBy, Task, Times
    <3>3. b \in Nat  BY HandleDOAssumption
    <3>4. CASE IsDurable(task[c])  BY <3>1, <3>2, <3>3, <3>4 DEF Task
    <3>5. CASE ~IsDurable(task[c])  BY <3>1, <3>5 DEF Task
    <3> QED  BY <3>4, <3>5
  <2>4. SameCall(task[c], t)
    <3>1. Ended(task[c], s) \in Task  BY <2>2 DEF SameCall
    <3>2. /\ t.delivery_state = Ended(task[c], s).delivery_state
          /\ t.from = Ended(task[c], s).from
          /\ t.message_id = Ended(task[c], s).message_id
      BY <3>1 DEF Task
    <3> QED  BY <2>2, <2>3, <3>2 DEF SameCall, IsDurable
  <2>5. \E e : Terminate(c, t, e)  BY <1>7 DEF CallOutcome
  <2>6. UNCHANGED <<dedupe, issued>>  BY <1>7 DEF CallOutcome
  <2> QED  BY <2>4, <2>5, <2>6, Terminated
<1>8. CASE AlarmFires(h)  BY <1>8, SameIndex DEF AlarmFires, records
<1> QED  BY <1>1, <1>2, <1>3, <1>4, <1>5, <1>6, <1>7, <1>8 DEF Receive

\* One due key of the alarm: a key it drops as stale was in no record's name,
\* because a listed key's time is past and a call that is due is not stale.
LEMMA ExpireIndex ==
    ASSUME IndexInv, NEW h \in Handlers, NEW k \in handler[h].keys,
           ExpireTask(h, k)
    PROVE  IndexKept
<1> DEFINE c == k[2]
           old == task[c]
           isDue == Exists(c) /\ old.deadline <= now
<1>1. k \in Times \X Calls /\ k[1] <= now /\ c \in Calls /\ old \in Task
  BY DEF IndexInv, FlushInv, KeysPast, Past, TypeOK
<1>2. UNCHANGED issued  BY DEF ExpireTask
<1>3. CASE ~isDue
  <2>1. k \notin due
    BY <1>1, <1>3, DueMember DEF IndexInv, DueKey
  <2>2. due' = due /\ UNCHANGED <<task, dedupe>>
    BY <1>3, <2>1 DEF ExpireTask
  <2> QED  BY <1>2, <2>2, SameIndex
<1>4. CASE Timeout(c)
  <2>1. old.delivery_state # "absent"
    BY <1>4 DEF Timeout, IsDurable, DurableStates
  <2>2. SameCall(old, Ended(old, "failed"))
    BY <1>1, <2>1, EndedSame DEF TerminalStates
  <2> QED  BY <1>1, <1>2, <1>4, <2>2, Terminated DEF Timeout
<1>5. CASE DropOutcome(c)
  <2> DEFINE t == [old EXCEPT !.deadline = PurgeAt(old), !.outcome_envelope = FALSE,
                     !.ciphertext_bytes = IF old.outcome_envelope THEN 0 ELSE @]
  <2>1. /\ task' = [task EXCEPT ![c] = t]
        /\ due' = (due \ {DueKey(old, c)}) \cup {DueKey(t, c)}
        /\ UNCHANGED dedupe /\ IsDurable(old)
    BY <1>5 DEF DropOutcome
  <2>2. t \in Task
    <3>1. PurgeAt(old) \in Times
      BY <1>1, ConstantTypes DEF PurgeAt, ExecuteBy, Task, Times
    <3>2. CASE old.outcome_envelope  BY <1>1, <3>1, <3>2 DEF Task
    <3>3. CASE ~old.outcome_envelope  BY <1>1, <3>1, <3>3 DEF Task
    <3> QED  BY <3>2, <3>3
  <2>3. SameCall(old, t)
    BY <1>1, <2>1, <2>2 DEF SameCall, IsDurable, DurableStates, Task
  <2> QED  BY <1>1, <1>2, <2>1, <2>3, ChangedRecord
<1>6. CASE Purge(c)
  <2>1. Exists(c)  BY <1>6 DEF Purge, IsDurable, DurableStates, Exists
  <2> QED  BY <1>1, <1>2, <1>6, <2>1, DroppedRecord DEF Purge
<1>7. CASE DeleteLive(c)
  <2>1. Exists(c) /\ ~IsDurable(old)
    BY <1>7 DEF DeleteLive, IsDurable, DurableStates, Exists
  <2> QED  BY <1>1, <1>2, <1>7, <2>1, DroppedRecord DEF DeleteLive
<1> QED  BY <1>3, <1>4, <1>5, <1>6, <1>7 DEF ExpireTask

\* Every stage keeps the indexes.
LEMMA ContinueIndex ==
    ASSUME IndexInv, NEW h \in Handlers,
           Continue(h) \/ FlushFails(h) \/ AuthorityLost(h) \/ AuthorityFails(h)
    PROVE  IndexKept
<1>0. TypeOK /\ \A c \in Calls : task[c] \in Task
  BY DEF IndexInv, FlushInv, TypeOK
<1>1. CASE \/ FlushFails(h) \/ AuthorityFails(h) \/ D1Insert(h)
           \/ AuthorityCurrent(h) \/ FinishDurableTask(h) \/ FlushDone(h)
           \/ ConsiderHead(h) \/ SkipHead(h) \/ NothingToLease(h)
           \/ ExpireDone(h) \/ Redispatch(h) \/ Rearm(h) \/ Receipt(h)
           \/ SendStatus(h) \/ SendTerminal(h)
  <2>1. UNCHANGED <<task, due, dedupe, issued>>
    BY <1>1
    DEF FlushFails, AuthorityFails, D1Insert, AuthorityCurrent,
        FinishDurableTask, FlushDone, ConsiderHead, SkipHead, NothingToLease,
        ExpireDone, Redispatch, Rearm, Receipt, SendStatus, SendTerminal,
        durables, records
  <2> QED  BY <2>1, SameIndex
<1>2. CASE AuthorityLost(h)
  <2>1. PICK c \in Calls :
          IF task[c].delivery_state = "queued"
          THEN Terminate(c, Ended(task[c], "rejected"), "fail")
          ELSE UNCHANGED <<task, due>>
    BY <1>2 DEF AuthorityLost
  <2>2. UNCHANGED <<dedupe, issued>>  BY <1>2 DEF AuthorityLost
  <2>3. CASE task[c].delivery_state = "queued"
    <3>1. SameCall(task[c], Ended(task[c], "rejected"))
      BY <1>0, <2>3, EndedSame DEF TerminalStates
    <3> QED  BY <2>1, <2>2, <2>3, <3>1, Terminated
  <2>4. CASE task[c].delivery_state # "queued"
    BY <2>1, <2>2, <2>4, SameIndex
  <2> QED  BY <2>3, <2>4
<1>3. CASE Rebind(h)
  <2> DEFINE lease == [session |-> handler[h].session,
                       expires_at |-> task[active].deadline,
                       attempt |-> task[active].lease.attempt]
             t == [task[active] EXCEPT !.lease = lease]
  <2>1. active \in Calls  BY <1>0, <1>3 DEF Rebind, TypeOK
  <2>2. UNCHANGED <<due, dedupe, issued>>  BY <1>3 DEF Rebind
  <2>3. CASE task[active].delivery_state = "started"
    <3>1. task' = [task EXCEPT ![active] = t]  BY <1>0, <1>3, <2>1, <2>3 DEF Rebind
    <3>2. task'[active] = t  BY <1>0, <2>1, <3>1 DEF TypeOK
    <3>3. TypeOK'  BY <1>0, <1>3, RebindType
    <3>4. SameCall(task[active], t) /\ t.deadline = task[active].deadline
      <4>1. task[active] \in Task  BY <1>0, <2>1 DEF TypeOK
      <4>2. t \in Task
        <5>1. task'[active] \in Task  BY <2>1, <3>3 DEF TypeOK
        <5> QED  BY <3>2, <5>1
      <4>3. /\ t.delivery_state = task[active].delivery_state
            /\ t.from = task[active].from
            /\ t.message_id = task[active].message_id
            /\ t.deadline = task[active].deadline
        BY <4>1 DEF Task
      <4> HIDE DEF t
      <4> QED  BY <2>3, <4>1, <4>2, <4>3 DEF SameCall, IsDurable
    <3> QED  BY <2>1, <2>2, <3>1, <3>4, ChangedRecord
  <2>4. CASE task[active].delivery_state # "started"
    <3>1. task' = task  BY <1>3, <2>4 DEF Rebind
    <3> QED  BY <2>2, <3>1, SameIndex
  <2> QED  BY <2>3, <2>4
<1>4. CASE LeaseHead(h)
  <2>1. PICK k \in queue : \E l :
          \/ /\ task[k[2]].delivery_state = "queued"
             /\ task' = [task EXCEPT ![k[2]].delivery_state = "leased",
                                     ![k[2]].lease = l]
          \/ task' = task
    BY <1>4 DEF LeaseHead
  <2>2. PICK l :
          \/ /\ task[k[2]].delivery_state = "queued"
             /\ task' = [task EXCEPT ![k[2]].delivery_state = "leased",
                                     ![k[2]].lease = l]
          \/ task' = task
    BY <2>1
  <2>3. UNCHANGED <<due, dedupe, issued>>  BY <1>4 DEF LeaseHead
  <2>4. CASE task' # task
    <3> DEFINE c == k[2]
               t == [task[c] EXCEPT !.delivery_state = "leased", !.lease = l]
    <3>1. c \in Calls  BY <1>0 DEF TypeOK
    <3>2. task' = [task EXCEPT ![c] = t]  BY <1>0, <2>2, <2>4, <3>1 DEF TypeOK
    <3>3. task'[c] = t /\ TypeOK'
      BY <1>0, <1>4, <3>1, <3>2, LeaseHeadType DEF TypeOK
    <3>4. SameCall(task[c], t) /\ t.deadline = task[c].deadline
      BY <1>0, <2>2, <2>4, <3>1, <3>3
      DEF SameCall, IsDurable, DurableStates, Task, TypeOK
    <3> QED  BY <2>3, <3>1, <3>2, <3>4, ChangedRecord
  <2>5. CASE task' = task  BY <2>3, <2>5, SameIndex
  <2> QED  BY <2>4, <2>5
<1>5. CASE RecoverExpiredLease(h)
  <2>1. UNCHANGED <<dedupe, issued>>  BY <1>5 DEF RecoverExpiredLease
  <2>2. CASE LeaseRanOut(active)
    <3> DEFINE t == [task[active] EXCEPT !.delivery_state = "queued"]
    <3>1. active \in Calls /\ task[active].delivery_state = "leased"
      BY <1>0, <2>2 DEF LeaseRanOut, TypeOK
    <3>2. CASE task' = [task EXCEPT ![active].delivery_state = "queued"]
                 /\ UNCHANGED due
      <4>1. task' = [task EXCEPT ![active] = t]  BY <1>0, <3>1, <3>2 DEF TypeOK
      <4>2. SameCall(task[active], t) /\ t.deadline = task[active].deadline
        BY <1>0, <3>1 DEF SameCall, IsDurable, DurableStates, Task
      <4> QED  BY <2>1, <3>1, <3>2, <4>1, <4>2, ChangedRecord
    <3>3. CASE Terminate(active, Ended(task[active], "failed"), "fail")
      <4>1. SameCall(task[active], Ended(task[active], "failed"))
        BY <1>0, <3>1, EndedSame DEF TerminalStates
      <4> QED  BY <2>1, <3>1, <3>3, <4>1, Terminated
    <3> QED  BY <1>5, <2>2, <3>2, <3>3 DEF RecoverExpiredLease
  <2>3. CASE ~LeaseRanOut(active)
    BY <1>5, <2>1, <2>3, SameIndex DEF RecoverExpiredLease
  <2> QED  BY <2>2, <2>3
<1> QED  BY <1>1, <1>2, <1>3, <1>4, <1>5, ExpireIndex DEF Continue

\* Every step keeps the indexes.
LEMMA IndexStep ==
    ASSUME IndexInv, [Next]_vars
    PROVE  IndexInv'
<1>1. FlushInv'  BY FlushStep DEF IndexInv
<1>2. CASE \/ Tick \/ Disconnect \/ Crash \/ UNCHANGED vars
           \/ \E c \in Calls :
                CancelAtListener(c) \/ CancelTimeout(c) \/ CallNotCancelled(c)
  <2>1. UNCHANGED <<task, due, dedupe, issued>>
    BY <1>2 DEF Tick, Disconnect, Crash, vars, CancelAtListener, CancelTimeout,
       CallNotCancelled, durables, records
  <2> QED  BY <1>1, <2>1, SameIndex DEF IndexInv, IndexKept
<1>3. CASE \E h \in Handlers :
             \/ Receive(h) \/ AlarmFires(h) \/ Continue(h)
             \/ FlushFails(h) \/ AuthorityLost(h) \/ AuthorityFails(h)
  BY <1>1, <1>3, ReceiveIndex, ContinueIndex DEF IndexInv, IndexKept
<1> QED  BY <1>2, <1>3 DEF Next

\* The indexes agree at first.
LEMMA InitIndex == Init => IndexInv
<1> SUFFICES ASSUME Init PROVE IndexInv  OBVIOUS
<1>1. FlushInv  BY InitFlush
<1>2. \A c \in Calls : ~Exists(c) /\ ~IsDurable(task[c])
  BY DEF Init, Exists, IsDurable, DurableStates, NoTask
<1>3. DueExact /\ IssuedExist  BY <1>2 DEF Init, DueExact, IssuedExist
<1>4. DedupeExact
  <2>1. \A c \in Calls : c # NoCall  BY HandleDOAssumption DEF NoCall
  <2> QED  BY <1>2, <2>1 DEF Init, DedupeExact
<1> QED  BY <1>1, <1>3, <1>4 DEF IndexInv

\* IndexInv is invariant.
LEMMA IndexInvariant == Spec => []IndexInv
BY InitIndex, IndexStep, PTL DEF Spec
-----------------------------------------------------------------------------
\* DueExact: the timer index has exactly one key per record, at the record's
\* deadline, so alarm() misses no record and finds no leftover.
THEOREM TimersMatchRecords == Spec => []DueExact
<1>1. IndexInv => DueExact  BY DEF IndexInv
<1> QED  BY <1>1, IndexInvariant, PTL

\* DedupeExact: an idempotency key is there exactly as long as the durable
\* record of the submission it names.
THEOREM KeysMatchRecords == Spec => []DedupeExact
<1>1. IndexInv => DedupeExact  BY DEF IndexInv
<1> QED  BY <1>1, IndexInvariant, PTL

\* Idempotency keys are written by a submission that found none and deleted by
\* a purge.
LEMMA DedupeStep ==
    ASSUME TypeOK, [Next]_vars
    PROVE  \/ UNCHANGED dedupe
           \/ \E k \in Callers, m \in Messages, c \in Calls :
                dedupe[k][m] = NoCall /\ dedupe' = [dedupe EXCEPT ![k][m] = c]
           \/ \E c \in Calls : Purge(c)
<1>1. CASE \/ Tick \/ Disconnect \/ Crash \/ UNCHANGED vars
           \/ \E c \in Calls :
                CancelAtListener(c) \/ CancelTimeout(c) \/ CallNotCancelled(c)
  BY <1>1 DEF Tick, Disconnect, Crash, vars, CancelAtListener, CancelTimeout,
     CallNotCancelled, durables, records
<1>2. ASSUME NEW h \in Handlers, Receive(h) \/ AlarmFires(h)
      PROVE  \/ UNCHANGED dedupe
             \/ \E k \in Callers, m \in Messages, c \in Calls :
                  dedupe[k][m] = NoCall /\ dedupe' = [dedupe EXCEPT ![k][m] = c]
  <2>1. CASE \E k \in Callers, m \in Messages, b \in RequestSizes :
               SubmitDurable(h, k, m, b)
    <3>1. PICK k \in Callers, m \in Messages, b \in RequestSizes :
            SubmitDurable(h, k, m, b)
      BY <2>1
    <3>2. \E c \in Calls : dedupe' = [dedupe EXCEPT ![k][m] = c]
      BY <3>1 DEF SubmitDurable
    <3>3. dedupe[k][m] = NoCall  BY <3>1 DEF SubmitDurable
    <3> QED  BY <3>2, <3>3
  <2>2. CASE ~ \E k \in Callers, m \in Messages, b \in RequestSizes :
                 SubmitDurable(h, k, m, b)
    BY <1>2, <2>2 DEF Receive, AlarmFires, Connect, SubmitLive, CancelUnstarted,
       CallAccepted, CallStarted, CallCancelled, CallRejected, CallOutcome,
       durables, records
  <2> QED  BY <2>1, <2>2
<1>3. ASSUME NEW h \in Handlers,
             Continue(h) \/ FlushFails(h) \/ AuthorityLost(h) \/ AuthorityFails(h)
      PROVE  UNCHANGED dedupe \/ \E c \in Calls : Purge(c)
  <2>1. CASE \E k \in handler[h].keys : ExpireTask(h, k)
    <3>1. PICK k \in handler[h].keys : ExpireTask(h, k)  BY <2>1
    <3>2. k[2] \in Calls  BY DEF TypeOK, Handler
    <3> QED  BY <3>1, <3>2 DEF ExpireTask, Timeout, DropOutcome, DeleteLive
  <2>2. CASE ~ \E k \in handler[h].keys : ExpireTask(h, k)
    BY <1>3, <2>2
    DEF Continue, FlushFails, AuthorityFails, AuthorityLost, FlushDone, D1Insert,
        AuthorityCurrent, FinishDurableTask, Rebind, ConsiderHead, SkipHead,
        LeaseHead, NothingToLease, RecoverExpiredLease, ExpireDone, Redispatch,
        Rearm, Receipt, SendStatus, SendTerminal, durables, records
  <2> QED  BY <2>1, <2>2
<1> QED  BY <1>1, <1>2, <1>3 DEF Next

\* SubmissionProtected: the only step that frees a key purges the record the
\* key names (KeysMatchRecords), which the code does after the tombstone only.
THEOREM SubmissionsProtected == Spec => SubmissionProtected
<1>1. ASSUME IndexInv, [Next]_vars
      PROVE  \A k \in Callers, m \in Messages :
               dedupe[k][m] # NoCall =>
                 \/ dedupe'[k][m] = dedupe[k][m]
                 \/ now >= task[dedupe[k][m]].execute_by + TombstoneTtl
  <2>1. dedupe \in [Callers -> [Messages -> Calls \cup {NoCall}]]
    BY <1>1 DEF IndexInv, FlushInv, TypeOK
  <2>2. CASE UNCHANGED dedupe  BY <2>2
  <2>3. ASSUME NEW j \in Callers, NEW n \in Messages, NEW c \in Calls,
               dedupe[j][n] = NoCall, dedupe' = [dedupe EXCEPT ![j][n] = c]
        PROVE  \A k \in Callers, m \in Messages :
                 dedupe[k][m] # NoCall => dedupe'[k][m] = dedupe[k][m]
    BY <2>1, <2>3
  <2>4. ASSUME NEW c \in Calls, Purge(c),
               NEW k \in Callers, NEW m \in Messages, dedupe'[k][m] # dedupe[k][m]
        PROVE  now >= task[dedupe[k][m]].execute_by + TombstoneTtl
    <3>1. k = task[c].from /\ m = task[c].message_id
      BY <2>1, <2>4 DEF Purge, ForgetSubmission
    <3>2. dedupe[k][m] = c  BY <1>1, <2>4, <3>1 DEF Purge, IndexInv, DedupeExact
    <3>3. PurgeAt(task[c]) <= now  BY <2>4 DEF Purge
    <3>4. now \in Nat /\ task[c].execute_by \in Nat
      BY <1>1 DEF IndexInv, FlushInv, TypeOK, Task, Times
    <3> QED  BY <3>2, <3>3, <3>4, ConstantTypes DEF PurgeAt, ExecuteBy
  <2>5. TypeOK  BY <1>1 DEF IndexInv, FlushInv
  <2> QED  BY <1>1, <2>2, <2>3, <2>4, <2>5, DedupeStep
<1> QED  BY <1>1, IndexInvariant, PTL DEF Spec, SubmissionProtected

-----------------------------------------------------------------------------
(* What becomes of one call.  Every step of the object is one of a few     *)
(* changes to one record, its place in the queue and its audit trail, or   *)
(* none; the theorems about deliveries, deadlines, the promised lifecycle, *)
(* the counters and the order of audit rows all rest on that list.         *)

\* What a record's fields say of each other.  A durable call is over exactly
\* in its terminal state, and then its share of the limits is given back; until
\* its work starts its deadline is the mailbox's.  A call waits in the queue
\* with no lease running and an attempt left.
DurableRecord(t) ==
    /\ t.delivery_state = "terminal" <=> TaskIsTerminal(t)
    /\ t.quota_released <=> TaskIsTerminal(t)
    /\ t.state # "working" /\ ~TaskIsTerminal(t) => t.deadline = ExecuteBy(t)
Waiting(t, n) ==
    /\ t.delivery_state = "queued" =>
         t.lease.expires_at <= n /\ t.lease.attempt < MaxAttempts
    /\ t.delivery_state = "leased" => t.lease.attempt > 0
RecordInv == \A c \in Calls : /\ IsDurable(task[c]) => DurableRecord(task[c])
                              /\ Waiting(task[c], now)

\* The events that record an end.
Records(e, s) == \/ s = "completed" /\ e = "complete"
                 \/ s = "failed" /\ e \in {"fail", "timeout"}
                 \/ s = "canceled" /\ e = "cancel"
                 \/ s = "rejected" /\ e = "fail"

Put(c, t) == t \in Task /\ task' = [task EXCEPT ![c] = t]

\* An admission: the record t of a call with a fresh id.
Begun(c, t) ==
    /\ c \notin issued /\ issued' = issued \cup {c} /\ Put(c, t)
    /\ t.state = "ringing" /\ t.task_state = "submitted"
    /\ t.created_at = now /\ t.lease = NoLease /\ ~t.quota_released
    /\ \/ /\ t.delivery_state = "queued" /\ t.deadline = ExecuteBy(t)
          /\ t.from \in Callers /\ queue' = queue \cup {QueueKey(t, c)}
          /\ outstanding' = outstanding + 1
          /\ callerOutstanding' = [callerOutstanding EXCEPT ![t.from] = @ + 1]
          /\ storedBytes' = storedBytes + t.ciphertext_bytes
       \/ t.delivery_state = "live" /\ UNCHANGED <<queue, quota>>
    /\ active' = active
    /\ outbox' = outbox \cup {CallAuditIntent(c, "submit")}

\* call_accepted and call_started.
Answered(c) ==
    /\ Exists(c) /\ ~TaskIsTerminal(task[c]) /\ task[c].state = "ringing"
    /\ Put(c, [task[c] EXCEPT !.state = "answered"])
    /\ outbox' = outbox \cup {CallAuditIntent(c, "accept")}
    /\ UNCHANGED <<issued, queue, active, quota>>
StartedRecord(t) ==
    [t EXCEPT !.state = "working", !.task_state = "working",
              !.delivery_state = IF IsDurable(t) THEN "started" ELSE @,
              !.deadline = IF IsDurable(t) THEN ExecutionDeadline(t) ELSE @]
Started(c) ==
    /\ Exists(c) /\ ~TaskIsTerminal(task[c]) /\ task[c].state # "working"
    /\ Put(c, StartedRecord(task[c]))
    /\ outbox' = IF task[c].state = "ringing"
                 THEN outbox \cup {CallAuditIntent(c, "accept")} ELSE outbox
    /\ UNCHANGED <<issued, queue, active, quota>>

\* A transition to a terminal state, whoever brings it about.
Ending(old, t) ==
    /\ t.task_state \in TerminalStates
    /\ t.delivery_state = IF IsDurable(old) THEN "terminal" ELSE old.delivery_state
    /\ t.lease = IF IsDurable(old) THEN NoLease ELSE old.lease
    /\ t.quota_released = (old.quota_released \/ IsDurable(old))
    /\ t.state = old.state /\ t.created_at = old.created_at
    /\ t.execute_by = old.execute_by /\ t.from = old.from
Over(c, t, e) ==
    /\ Exists(c) /\ ~TaskIsTerminal(task[c])
    /\ Put(c, t) /\ Ending(task[c], t) /\ Records(e, t.task_state)
    /\ ReleaseDurableQuota(task[c], t)
    /\ outbox' = outbox \cup {CallAuditIntent(c, e)}
    /\ queue' = queue \/ queue' = queue \ {QueueKey(task[c], c)}
    /\ active' = active \/ (active = c /\ active' = NoCall)
    /\ UNCHANGED issued

\* Deliveries: a lease of the first in the queue, its return to the queue, and
\* started work offered again.
Leased(c, l) ==
    /\ task[c].delivery_state = "queued" /\ active = NoCall /\ active' = c
    /\ \E h \in Handlers : /\ At(h, "lease")
                            /\ l.expires_at = now + LeaseMs[handler[h].session]
    /\ \E k \in queue : k[2] = c /\ IsFirst(k, queue)
    /\ l.attempt = task[c].lease.attempt + 1
    /\ Put(c, [task[c] EXCEPT !.delivery_state = "leased", !.lease = l])
    /\ UNCHANGED <<issued, queue, outbox, quota>>
Requeued(c) ==
    /\ active = c /\ LeaseRanOut(c) /\ task[c].lease.attempt < MaxAttempts
    /\ Put(c, [task[c] EXCEPT !.delivery_state = "queued"]) /\ active' = NoCall
    /\ UNCHANGED <<issued, queue, outbox, quota>>
Offered(c, l) ==
    /\ task[c].delivery_state = "started" /\ l.attempt = task[c].lease.attempt
    /\ Put(c, [task[c] EXCEPT !.lease = l])
    /\ UNCHANGED <<issued, queue, active, outbox, quota>>

\* Tombstones: the outcome goes first, then the record; a live call's record
\* goes at its deadline, over or not.
Trimmed(c) ==
    LET old == task[c]
        t == [old EXCEPT !.deadline = PurgeAt(old), !.outcome_envelope = FALSE,
                !.ciphertext_bytes = IF old.outcome_envelope THEN 0 ELSE @] IN
    /\ IsDurable(old) /\ TaskIsTerminal(old) /\ Put(c, t)
    /\ storedBytes' = IF old.outcome_envelope
                      THEN AtLeast0(storedBytes - old.ciphertext_bytes)
                      ELSE storedBytes
    /\ UNCHANGED <<issued, queue, active, outbox, outstanding, callerOutstanding>>
Forgotten(c) ==
    /\ Exists(c) /\ Put(c, NoTask)
    /\ \/ /\ IsDurable(task[c]) /\ TaskIsTerminal(task[c])
          /\ queue' = queue \ {QueueKey(task[c], c)}
          /\ active' = IF active = c THEN NoCall ELSE active
          /\ storedBytes' = IF task[c].quota_released
                            THEN AtLeast0(storedBytes - task[c].ciphertext_bytes)
                            ELSE storedBytes
          /\ outbox' = outbox
       \/ /\ ~IsDurable(task[c]) /\ UNCHANGED <<queue, active, storedBytes>>
          /\ outbox' = IF TaskIsTerminal(task[c]) THEN outbox
                       ELSE outbox \cup {CallAuditIntent(c, "timeout")}
    /\ UNCHANGED <<issued, outstanding, callerOutstanding>>

\* What a step does to the calls: it changes one as above, or none, and then
\* the queue may lose the key of a call that is over or no longer waits.
ChangesOf(c) ==
    \/ \E t : Begun(c, t)
    \/ Answered(c) \/ Started(c)
    \/ \E t, e : Over(c, t, e)
    \/ \E l : Leased(c, l) \/ Offered(c, l)
    \/ Requeued(c) \/ Trimmed(c) \/ Forgotten(c)
Untouched ==
    /\ UNCHANGED <<task, issued, quota>>
    /\ outbox' = outbox \/ \E h \in Handlers : FlushDone(h)
    /\ \/ UNCHANGED <<queue, active>>
       \/ \E h \in Handlers : FinishDurableTask(h)
       \/ /\ active = NoCall /\ active' = NoCall
          /\ \E k \in queue : /\ task[k[2]].delivery_state # "queued"
                              /\ queue' = queue \ {k}
Changed == Untouched \/ \E c \in Calls : ChangesOf(c)
-----------------------------------------------------------------------------
(* Every step is on the list.                                              *)

\* The record Terminate writes differs from the one it is given in the mark.
Final(old, new) == [new EXCEPT !.quota_released = @ \/ IsDurable(old)]
LEMMA FinalRecord ==
    ASSUME NEW old, NEW new \in Task
    PROVE  /\ Final(old, new) \in Task
           /\ Final(old, new).quota_released = (new.quota_released \/ IsDurable(old))
           /\ Final(old, new).task_state = new.task_state
           /\ Final(old, new).delivery_state = new.delivery_state
           /\ Final(old, new).state = new.state
           /\ Final(old, new).lease = new.lease
           /\ Final(old, new).from = new.from
           /\ Final(old, new).created_at = new.created_at
           /\ Final(old, new).execute_by = new.execute_by
           /\ Final(old, new).ciphertext_bytes = new.ciphertext_bytes
BY DEF Final, Task

\* The fields of a record that has ended.
LEMMA EndedFields ==
    ASSUME NEW old \in Task, NEW s \in TerminalStates
    PROVE  LET new == Ended(old, s) IN
           /\ new \in Task /\ new.task_state = s
           /\ new.delivery_state = IF IsDurable(old) THEN "terminal"
                                   ELSE old.delivery_state
           /\ new.lease = IF IsDurable(old) THEN NoLease ELSE old.lease
           /\ new.quota_released = old.quota_released
           /\ new.state = old.state /\ new.created_at = old.created_at
           /\ new.execute_by = old.execute_by
           /\ new.from = old.from
<1>1. Ended(old, s) \in Task  BY EndedType
<1>2. CASE IsDurable(old)  BY <1>1, <1>2 DEF Ended, Task
<1>3. CASE ~IsDurable(old)  BY <1>1, <1>3 DEF Ended, Task
<1> QED  BY <1>2, <1>3

\* The transaction of Terminate ends a call that was not over.
LEMMA TerminateIsOver ==
    ASSUME TypeOK, NEW c \in Calls, Exists(c), ~TaskIsTerminal(task[c]),
           NEW new \in Task, NEW e, Terminate(c, new, e),
           new.task_state \in TerminalStates, Records(e, new.task_state),
           new.delivery_state = IF IsDurable(task[c]) THEN "terminal"
                                ELSE task[c].delivery_state,
           new.lease = IF IsDurable(task[c]) THEN NoLease ELSE task[c].lease,
           new.quota_released = task[c].quota_released,
           new.state = task[c].state, new.created_at = task[c].created_at,
           new.execute_by = task[c].execute_by,
           new.from = task[c].from, UNCHANGED issued,
           queue' = queue \/ queue' = queue \ {QueueKey(task[c], c)},
           active' = active \/ (active = c /\ active' = NoCall)
    PROVE  Changed
<1> DEFINE t == Final(task[c], new)
<1>1. Put(c, t)  BY FinalRecord DEF Put, Terminate, Final
<1>2. Ending(task[c], t) /\ t.task_state = new.task_state
  BY FinalRecord DEF Ending
<1>3. ReleaseDurableQuota(task[c], t)
  BY FinalRecord DEF Terminate, ReleaseDurableQuota
<1>4. outbox' = outbox \cup {CallAuditIntent(c, e)}  BY DEF Terminate
<1> HIDE DEF t
<1>5. Over(c, t, e)  BY <1>1, <1>2, <1>3, <1>4 DEF Over
<1> QED  BY <1>5 DEF Changed, ChangesOf

\* Ending a call by Ended, with what the queue loses.
LEMMA EndedIsOver ==
    ASSUME TypeOK, NEW c \in Calls, Exists(c), ~TaskIsTerminal(task[c]),
           NEW s \in TerminalStates, NEW e, Records(e, s),
           Terminate(c, Ended(task[c], s), e), UNCHANGED issued,
           queue' = queue \/ queue' = queue \ {QueueKey(task[c], c)},
           active' = active \/ (active = c /\ active' = NoCall)
    PROVE  Changed
<1> DEFINE new == Ended(task[c], s)
<1>1. task[c] \in Task  BY DEF TypeOK
<1>2. /\ new \in Task /\ new.task_state = s
      /\ new.delivery_state = IF IsDurable(task[c]) THEN "terminal"
                              ELSE task[c].delivery_state
      /\ new.lease = IF IsDurable(task[c]) THEN NoLease ELSE task[c].lease
      /\ new.quota_released = task[c].quota_released
      /\ new.state = task[c].state /\ new.created_at = task[c].created_at
      /\ new.execute_by = task[c].execute_by
      /\ new.from = task[c].from
  BY <1>1, EndedFields
<1> HIDE DEF new
<1>3. Terminate(c, new, e)  BY DEF new
<1> QED  BY <1>2, <1>3, TerminateIsOver

\* Every event is on the list.
LEMMA ReceiveChanged ==
    ASSUME TypeOK, NEW h \in Handlers, Receive(h) \/ AlarmFires(h)
    PROVE  Changed
<1>0. \A c \in Calls : task[c] \in Task  BY DEF TypeOK
<1>1. ASSUME NEW cap \in Capabilities, Connect(h, cap)
      PROVE  Changed
  BY <1>1 DEF Connect, durables, records, quota, Changed, Untouched
<1>2. ASSUME NEW k \in Callers, NEW m \in Messages, NEW b \in RequestSizes,
             SubmitDurable(h, k, m, b)
      PROVE  Changed
  <2>0. PICK c \in Calls \ issued :
          LET t == [NoTask EXCEPT !.delivery_state = "queued", !.from = k,
                      !.message_id = m, !.created_at = now,
                      !.deadline = now + Least(MailboxTtl, TimeoutMs[c]),
                      !.execute_by = now + Least(MailboxTtl, TimeoutMs[c]),
                      !.request_envelope = TRUE, !.ciphertext_bytes = b] IN
          /\ issued' = issued \cup {c} /\ task' = [task EXCEPT ![c] = t]
          /\ queue' = queue \cup {QueueKey(t, c)}
          /\ outbox' = outbox \cup {CallAuditIntent(c, "submit")}
    BY <1>2 DEF SubmitDurable
  <2> DEFINE t == [NoTask EXCEPT !.delivery_state = "queued", !.from = k,
                    !.message_id = m, !.created_at = now,
                    !.deadline = now + Least(MailboxTtl, TimeoutMs[c]),
                    !.execute_by = now + Least(MailboxTtl, TimeoutMs[c]),
                    !.request_envelope = TRUE, !.ciphertext_bytes = b]
  <2>1. /\ issued' = issued \cup {c} /\ task' = [task EXCEPT ![c] = t]
        /\ queue' = queue \cup {QueueKey(t, c)}
        /\ outbox' = outbox \cup {CallAuditIntent(c, "submit")}
    BY <2>0
  <2>2. t \in Task
    <3>1. TypeOK'  BY <1>2, SubmitDurableType
    <3>2. task'[c] = t  BY <2>1 DEF TypeOK
    <3> QED  BY <3>1, <3>2 DEF TypeOK
  <2>3. /\ t.state = "ringing" /\ t.task_state = "submitted"
        /\ t.created_at = now /\ t.lease = NoLease /\ ~t.quota_released
        /\ t.delivery_state = "queued" /\ t.deadline = ExecuteBy(t)
        /\ t.from = k /\ t.ciphertext_bytes = b
    BY DEF NoTask, ExecuteBy
  <2>4. /\ outstanding' = outstanding + 1 /\ active' = active
        /\ callerOutstanding' = [callerOutstanding EXCEPT ![k] = @ + 1]
        /\ storedBytes' = storedBytes + b
    BY <1>2 DEF SubmitDurable
  <2> HIDE DEF t
  <2>5. Begun(c, t)  BY <2>1, <2>2, <2>3, <2>4 DEF Begun, Put
  <2> QED  BY <2>5 DEF Changed, ChangesOf
<1>3. ASSUME NEW k \in Callers, NEW m \in LiveMessages, NEW e \in BOOLEAN,
             SubmitLive(h, k, m, e)
      PROVE  Changed
  <2>0. PICK c \in Calls \ issued :
          LET t == [NoTask EXCEPT !.delivery_state = "live", !.from = k,
                      !.message_id = m, !.created_at = now,
                      !.deadline = now + Least(TimeoutMs[c], RelayCallTimeout)] IN
          /\ issued' = issued \cup {c} /\ task' = [task EXCEPT ![c] = t]
          /\ outbox' = outbox \cup {CallAuditIntent(c, "submit")}
    BY <1>3 DEF SubmitLive
  <2> DEFINE t == [NoTask EXCEPT !.delivery_state = "live", !.from = k,
                    !.message_id = m, !.created_at = now,
                    !.deadline = now + Least(TimeoutMs[c], RelayCallTimeout)]
  <2>1. /\ issued' = issued \cup {c} /\ task' = [task EXCEPT ![c] = t]
        /\ outbox' = outbox \cup {CallAuditIntent(c, "submit")}
    BY <2>0
  <2>2. t \in Task
    <3>1. TypeOK'  BY <1>3, SubmitLiveType
    <3>2. task'[c] = t  BY <2>1 DEF TypeOK
    <3> QED  BY <3>1, <3>2 DEF TypeOK
  <2>3. /\ t.state = "ringing" /\ t.task_state = "submitted"
        /\ t.created_at = now /\ t.lease = NoLease /\ ~t.quota_released
        /\ t.delivery_state = "live"
    BY DEF NoTask
  <2>4. UNCHANGED <<queue, quota, active>>
    BY <1>3 DEF SubmitLive
  <2> HIDE DEF t
  <2>5. Begun(c, t)  BY <2>1, <2>2, <2>3, <2>4 DEF Begun, Put
  <2> QED  BY <2>5 DEF Changed, ChangesOf
<1>4. ASSUME NEW c \in Calls, CallAccepted(h, c)
      PROVE  Changed
  <2>1. [task[c] EXCEPT !.state = "answered"] \in Task
    BY <1>0 DEF Task, CallStates
  <2>2. task' = [task EXCEPT ![c] = [task[c] EXCEPT !.state = "answered"]]
    BY <1>4 DEF CallAccepted
  <2>3. Answered(c)
    BY <1>4, <2>1, <2>2 DEF CallAccepted, MayReport, Answered, Put
  <2> QED  BY <2>3 DEF Changed, ChangesOf
<1>5. ASSUME NEW c \in Calls, CallStarted(h, c)
      PROVE  Changed
  <2>1. task' = [task EXCEPT ![c] = StartedRecord(task[c])]
    BY <1>5 DEF CallStarted, StartedRecord
  <2>2. StartedRecord(task[c]) \in Task
    <3>1. TypeOK'  BY <1>5, CallStartedType
    <3>2. task'[c] = StartedRecord(task[c])  BY <2>1 DEF TypeOK
    <3> QED  BY <3>1, <3>2 DEF TypeOK
  <2>3. outbox' = IF task[c].state = "ringing"
                  THEN outbox \cup {CallAuditIntent(c, "accept")} ELSE outbox
    BY <1>5 DEF CallStarted
  <2>4. /\ Exists(c) /\ ~TaskIsTerminal(task[c]) /\ task[c].state # "working"
        /\ UNCHANGED <<issued, queue, active, quota>>
    BY <1>5 DEF CallStarted, MayReport
  <2>5. Started(c)  BY <2>1, <2>2, <2>3, <2>4 DEF Started, Put
  <2> QED  BY <2>5 DEF Changed, ChangesOf
<1>6. ASSUME NEW c \in Calls,
             CallCancelled(h, c) \/ CallRejected(h, c) \/ CancelUnstarted(h, c)
      PROVE  Changed
  <2>1. Exists(c) /\ ~TaskIsTerminal(task[c])
    BY <1>6 DEF CallCancelled, CallRejected, CancelUnstarted, MayReport, Exists
  <2>2. \E s \in TerminalStates : \E e :
          Records(e, s) /\ Terminate(c, Ended(task[c], s), e)
    BY <1>6 DEF CallCancelled, CallRejected, CancelUnstarted, TerminalStates, Records
  <2>3. /\ issued' = issued
        /\ queue' = queue \/ queue' = queue \ {QueueKey(task[c], c)}
        /\ active' = active \/ (active = c /\ active' = NoCall)
    BY <1>6 DEF CallCancelled, CallRejected, CancelUnstarted, Dequeue
  <2> QED  BY <2>1, <2>2, <2>3, EndedIsOver
<1>7. ASSUME NEW c \in Calls, NEW s \in Outcomes, NEW b \in OutcomeSizes,
             CallOutcome(h, c, s, b)
      PROVE  Changed
  <2> DEFINE old == task[c]
             deadline == IF IsDurable(old) THEN ExecuteBy(old)
                         ELSE Ended(old, s).deadline
             bytes == IF IsDurable(old) THEN b ELSE Ended(old, s).ciphertext_bytes
             new == [Ended(old, s) EXCEPT !.outcome_envelope = TRUE,
                       !.deadline = deadline, !.ciphertext_bytes = bytes]
             e == IF s = "completed" THEN "complete" ELSE "fail"
  <2>1. s \in TerminalStates /\ Records(e, s)
    BY HandleDOAssumption DEF TerminalStates, Records
  <2>2. /\ Ended(old, s) \in Task /\ Ended(old, s).task_state = s
        /\ Ended(old, s).delivery_state = IF IsDurable(old) THEN "terminal"
                                          ELSE old.delivery_state
        /\ Ended(old, s).lease = IF IsDurable(old) THEN NoLease ELSE old.lease
        /\ Ended(old, s).quota_released = old.quota_released
        /\ Ended(old, s).state = old.state
        /\ Ended(old, s).created_at = old.created_at
        /\ Ended(old, s).execute_by = old.execute_by
        /\ Ended(old, s).from = old.from
    BY <1>0, <2>1, EndedFields
  <2>3. deadline \in Times /\ bytes \in Nat
    <3>1. ExecuteBy(old) \in Times
      BY <1>0, ConstantTypes DEF ExecuteBy, Task, Times
    <3>2. b \in Nat  BY HandleDOAssumption
    <3> QED  BY <2>2, <3>1, <3>2 DEF Task
  <2>4. Terminate(c, new, e)  BY <1>7 DEF CallOutcome
  <2>5. /\ Exists(c) /\ ~TaskIsTerminal(old)
        /\ UNCHANGED <<issued, queue, active>>
    BY <1>7 DEF CallOutcome, MayReport
  <2> HIDE DEF deadline, bytes, e
  <2>6. /\ new \in Task /\ new.task_state = s
        /\ new.delivery_state = IF IsDurable(old) THEN "terminal"
                                ELSE old.delivery_state
        /\ new.lease = IF IsDurable(old) THEN NoLease ELSE old.lease
        /\ new.quota_released = old.quota_released
        /\ new.state = old.state /\ new.created_at = old.created_at
        /\ new.execute_by = old.execute_by
        /\ new.from = old.from
    <3> DEFINE base == Ended(old, s)
    <3> HIDE DEF base
    <3>1. base \in Task  BY <2>2 DEF base
    <3>2. /\ [base EXCEPT !.outcome_envelope = TRUE, !.deadline = deadline,
                          !.ciphertext_bytes = bytes] \in Task
          /\ [base EXCEPT !.outcome_envelope = TRUE, !.deadline = deadline,
                !.ciphertext_bytes = bytes].delivery_state = base.delivery_state
          /\ [base EXCEPT !.outcome_envelope = TRUE, !.deadline = deadline,
                !.ciphertext_bytes = bytes].task_state = base.task_state
          /\ [base EXCEPT !.outcome_envelope = TRUE, !.deadline = deadline,
                !.ciphertext_bytes = bytes].lease = base.lease
          /\ [base EXCEPT !.outcome_envelope = TRUE, !.deadline = deadline,
                !.ciphertext_bytes = bytes].quota_released = base.quota_released
          /\ [base EXCEPT !.outcome_envelope = TRUE, !.deadline = deadline,
                !.ciphertext_bytes = bytes].state = base.state
          /\ [base EXCEPT !.outcome_envelope = TRUE, !.deadline = deadline,
                !.ciphertext_bytes = bytes].created_at = base.created_at
          /\ [base EXCEPT !.outcome_envelope = TRUE, !.deadline = deadline,
                !.ciphertext_bytes = bytes].execute_by = base.execute_by
          /\ [base EXCEPT !.outcome_envelope = TRUE, !.deadline = deadline,
                !.ciphertext_bytes = bytes].from = base.from
      BY <2>3, <3>1 DEF Task
    <3> QED  BY <2>2, <3>2 DEF base
  <2> HIDE DEF new
  <2>7. /\ new.task_state \in TerminalStates /\ Records(e, new.task_state)
        /\ issued' = issued /\ queue' = queue /\ active' = active
    BY <2>1, <2>5, <2>6
  <2>8. new \in Task  BY <2>6
  <2> QED  BY <2>4, <2>5, <2>6, <2>7, <2>8, TerminateIsOver DEF old
<1>8. CASE AlarmFires(h)
  BY <1>8 DEF AlarmFires, records, quota, Changed, Untouched
<1> QED  BY <1>1, <1>2, <1>3, <1>4, <1>5, <1>6, <1>7, <1>8 DEF Receive

\* So is each outcome of a due key.
LEMMA ExpireChanged ==
    ASSUME FlushInv, NEW h \in Handlers, NEW k \in handler[h].keys,
           ExpireTask(h, k)
    PROVE  Changed
<1> DEFINE c == k[2]
           old == task[c]
<1>1. k \in Times \X Calls /\ c \in Calls /\ old \in Task
  BY DEF FlushInv, KeysPast, Past, TypeOK
<1>2. UNCHANGED issued  BY DEF ExpireTask
<1>3. CASE UNCHANGED <<task, queue, active, quota, outbox>>
  BY <1>2, <1>3 DEF Changed, Untouched
<1>4. CASE Timeout(c)
  <2>1. Exists(c) /\ ~TaskIsTerminal(old) /\ Terminate(c, Ended(old, "failed"), "timeout")
    BY <1>4 DEF Timeout, IsDurable, DurableStates, Exists
  <2>2. /\ queue' = queue \/ queue' = queue \ {QueueKey(task[c], c)}
        /\ active' = active \/ (active = c /\ active' = NoCall)
    BY <1>4 DEF Timeout, Dequeue
  <2>3. Records("timeout", "failed") /\ "failed" \in TerminalStates
    BY DEF Records, TerminalStates
  <2> QED  BY <1>1, <1>2, <2>1, <2>2, <2>3, EndedIsOver DEF FlushInv
<1>5. CASE DropOutcome(c)
  <2> DEFINE t == [old EXCEPT !.deadline = PurgeAt(old), !.outcome_envelope = FALSE,
                     !.ciphertext_bytes = IF old.outcome_envelope THEN 0 ELSE @]
  <2>1. t \in Task
    <3>1. PurgeAt(old) \in Times
      BY <1>1, ConstantTypes DEF PurgeAt, ExecuteBy, Task, Times
    <3>2. CASE old.outcome_envelope  BY <1>1, <3>1, <3>2 DEF Task
    <3>3. CASE ~old.outcome_envelope  BY <1>1, <3>1, <3>3 DEF Task
    <3> QED  BY <3>2, <3>3
  <2>2. Trimmed(c)  BY <1>2, <1>5, <2>1 DEF DropOutcome, Trimmed, Put
  <2> QED  BY <1>1, <2>2 DEF Changed, ChangesOf
<1>6. CASE Purge(c)
  <2>1. Exists(c)  BY <1>6 DEF Purge, IsDurable, DurableStates, Exists
  <2>2. Forgotten(c)
    BY <1>2, <1>6, <2>1, ConstantTypes DEF Purge, Forgotten, Dequeue, Put
  <2> QED  BY <1>1, <2>2 DEF Changed, ChangesOf
<1>7. CASE DeleteLive(c)
  <2>1. Exists(c) /\ ~IsDurable(old)
    BY <1>7 DEF DeleteLive, IsDurable, DurableStates, Exists
  <2>2. Forgotten(c)
    BY <1>2, <1>7, <2>1, ConstantTypes DEF DeleteLive, Forgotten, Put, quota
  <2> QED  BY <1>1, <2>2 DEF Changed, ChangesOf
<1> QED  BY <1>3, <1>4, <1>5, <1>6, <1>7 DEF ExpireTask

\* So is every stage.
LEMMA ContinueChanged ==
    ASSUME FlushInv, RecordInv, NEW h \in Handlers,
           Continue(h) \/ FlushFails(h) \/ AuthorityLost(h) \/ AuthorityFails(h)
    PROVE  Changed
<1>0. TypeOK /\ \A c \in Calls : task[c] \in Task
  BY DEF FlushInv, TypeOK
<1>9. \A c \in Calls : task[c].delivery_state \in {"queued", "leased"} =>
        ~TaskIsTerminal(task[c])
  BY DEF RecordInv, DurableRecord, IsDurable, DurableStates
<1>1. CASE \/ FlushFails(h) \/ AuthorityFails(h) \/ D1Insert(h)
           \/ AuthorityCurrent(h) \/ ConsiderHead(h) \/ SkipHead(h)
           \/ NothingToLease(h) \/ ExpireDone(h) \/ Redispatch(h) \/ Rearm(h)
           \/ Receipt(h) \/ SendStatus(h) \/ SendTerminal(h)
  <2>1. UNCHANGED <<task, issued, quota, outbox, queue, active>>
    BY <1>1
    DEF FlushFails, AuthorityFails, D1Insert, AuthorityCurrent, ConsiderHead,
        SkipHead, NothingToLease, ExpireDone, Redispatch, Rearm, Receipt,
        SendStatus, SendTerminal, durables, records, quota
  <2> QED  BY <2>1 DEF Changed, Untouched
<1>2. CASE FlushDone(h)
  BY <1>2 DEF FlushDone, records, quota, Changed, Untouched
<1>3. CASE FinishDurableTask(h)
  BY <1>3 DEF FinishDurableTask, quota, Changed, Untouched
<1>4. CASE AuthorityLost(h)
  <2>1. PICK c \in Calls :
          IF task[c].delivery_state = "queued"
          THEN /\ Terminate(c, Ended(task[c], "rejected"), "fail")
               /\ queue' = queue \ {QueueKey(task[c], c)}
          ELSE UNCHANGED <<task, queue, quota, outbox>>
    BY <1>4 DEF AuthorityLost
  <2>2. issued' = issued /\ active' = active  BY <1>4 DEF AuthorityLost
  <2>3. CASE task[c].delivery_state = "queued"
    <3>1. Exists(c)  BY <2>3 DEF Exists
    <3>2. Records("fail", "rejected") /\ "rejected" \in TerminalStates
      BY DEF Records, TerminalStates
    <3> QED  BY <1>0, <1>9, <2>1, <2>2, <2>3, <3>1, <3>2, EndedIsOver
  <2>4. CASE task[c].delivery_state # "queued"
    BY <2>1, <2>2, <2>4 DEF Changed, Untouched
  <2> QED  BY <2>3, <2>4
<1>5. CASE Rebind(h)
  <2> DEFINE lease == [session |-> handler[h].session,
                       expires_at |-> task[active].deadline,
                       attempt |-> task[active].lease.attempt]
             t == [task[active] EXCEPT !.lease = lease]
  <2>1. active \in Calls  BY <1>0, <1>5 DEF Rebind, TypeOK
  <2>2. UNCHANGED <<issued, queue, active, outbox, quota>>
    BY <1>5 DEF Rebind, quota
  <2>3. CASE task[active].delivery_state = "started"
    <3>1. task' = [task EXCEPT ![active] = t]  BY <1>0, <1>5, <2>1, <2>3 DEF Rebind
    <3>2. task'[active] = t  BY <1>0, <2>1, <3>1 DEF TypeOK
    <3>3. t \in Task  BY <1>0, <1>5, <2>1, <3>2, RebindType DEF TypeOK
    <3>4. Offered(active, lease)  BY <2>2, <2>3, <3>1, <3>3 DEF Offered, Put
    <3> QED  BY <2>1, <3>4 DEF Changed, ChangesOf
  <2>4. CASE task[active].delivery_state # "started"
    <3>1. task' = task  BY <1>5, <2>4 DEF Rebind
    <3> QED  BY <2>2, <3>1 DEF Changed, Untouched
  <2> QED  BY <2>3, <2>4
<1>6. CASE LeaseHead(h)
  <2>1. PICK k \in queue :
          LET c == k[2]
              lease == [session |-> handler[h].session,
                        expires_at |-> now + LeaseMs[handler[h].session],
                        attempt |-> task[c].lease.attempt + 1] IN
          /\ IsFirst(k, queue)
          /\ IF task[c].delivery_state = "queued"
             THEN /\ task' = [task EXCEPT ![c].delivery_state = "leased",
                                          ![c].lease = lease]
                  /\ active' = c /\ UNCHANGED queue
             ELSE queue' = queue \ {k} /\ UNCHANGED <<task, active>>
    BY <1>6 DEF LeaseHead
  <2>2. active = NoCall /\ UNCHANGED <<issued, outbox, quota>> /\ At(h, "lease")
    BY <1>6 DEF LeaseHead, LeaseFree
  <2> DEFINE c == k[2]
             lease == [session |-> handler[h].session,
                       expires_at |-> now + LeaseMs[handler[h].session],
                       attempt |-> task[c].lease.attempt + 1]
             t == [task[c] EXCEPT !.delivery_state = "leased", !.lease = lease]
  <2>3. c \in Calls  BY <1>0 DEF TypeOK
  <2>4. CASE task[c].delivery_state = "queued"
    <3>1. task' = [task EXCEPT ![c] = t]  BY <1>0, <2>1, <2>3, <2>4 DEF TypeOK
    <3>2. task'[c] = t  BY <1>0, <2>3, <3>1 DEF TypeOK
    <3>3. t \in Task  BY <1>0, <1>6, <2>3, <3>2, LeaseHeadType DEF TypeOK
    <3>4. lease.attempt = task[c].lease.attempt + 1
          /\ lease.expires_at = now + LeaseMs[handler[h].session]
      OBVIOUS
    <3>5. active' = c /\ queue' = queue /\ IsFirst(k, queue)  BY <2>1, <2>4
    <3>6. Leased(c, lease)
      BY <2>2, <2>4, <3>1, <3>3, <3>4, <3>5 DEF Leased, Put
    <3> QED  BY <2>3, <3>6 DEF Changed, ChangesOf
  <2>5. CASE task[c].delivery_state # "queued"
    BY <2>1, <2>2, <2>5 DEF Changed, Untouched
  <2> QED  BY <2>4, <2>5
<1>7. CASE RecoverExpiredLease(h)
  <2>1. issued' = issued  BY <1>7 DEF RecoverExpiredLease
  <2>2. CASE LeaseRanOut(active)
    <3> DEFINE t == [task[active] EXCEPT !.delivery_state = "queued"]
    <3>1. active \in Calls /\ task[active].delivery_state = "leased"
      BY <1>0, <2>2 DEF LeaseRanOut, TypeOK
    <3>2. active' = NoCall  BY <1>7, <2>2 DEF RecoverExpiredLease
    <3>3. CASE /\ task[active].lease.attempt < MaxAttempts
               /\ task' = [task EXCEPT ![active].delivery_state = "queued"]
               /\ UNCHANGED <<queue, quota, outbox>>
      <4>1. task' = [task EXCEPT ![active] = t]  BY <1>0, <3>1, <3>3 DEF TypeOK
      <4>2. t \in Task  BY <1>0, <3>1 DEF Task, DurableStates
      <4>3. Requeued(active)
        BY <2>1, <2>2, <3>2, <3>3, <4>1, <4>2 DEF Requeued, Put
      <4> QED  BY <3>1, <4>3 DEF Changed, ChangesOf
    <3>4. CASE /\ Terminate(active, Ended(task[active], "failed"), "fail")
               /\ queue' = queue \ {QueueKey(task[active], active)}
      <4>1. Exists(active)  BY <3>1 DEF Exists
      <4>2. Records("fail", "failed") /\ "failed" \in TerminalStates
        BY DEF Records, TerminalStates
      <4> QED  BY <1>0, <1>9, <2>1, <3>1, <3>2, <3>4, <4>1, <4>2, EndedIsOver
    <3> QED  BY <1>7, <2>2, <3>3, <3>4 DEF RecoverExpiredLease
  <2>3. CASE ~LeaseRanOut(active)
    BY <1>7, <2>1, <2>3 DEF RecoverExpiredLease, Changed, Untouched
  <2> QED  BY <2>2, <2>3
<1> QED  BY <1>1, <1>2, <1>3, <1>4, <1>5, <1>6, <1>7, ExpireChanged DEF Continue

\* And so is every step.
LEMMA StepChanged ==
    ASSUME FlushInv, RecordInv, [Next]_vars
    PROVE  Changed
<1>1. CASE \/ Tick \/ Disconnect \/ Crash \/ UNCHANGED vars
           \/ \E c \in Calls :
                CancelAtListener(c) \/ CancelTimeout(c) \/ CallNotCancelled(c)
  <2>1. UNCHANGED <<task, issued, quota, outbox, queue, active>>
    BY <1>1 DEF Tick, Disconnect, Crash, vars, CancelAtListener, CancelTimeout,
       CallNotCancelled, durables, records, quota
  <2> QED  BY <2>1 DEF Changed, Untouched
<1>2. CASE \E h \in Handlers :
             \/ Receive(h) \/ AlarmFires(h) \/ Continue(h)
             \/ FlushFails(h) \/ AuthorityLost(h) \/ AuthorityFails(h)
  BY <1>2, ReceiveChanged, ContinueChanged DEF FlushInv
<1> QED  BY <1>1, <1>2 DEF Next

-----------------------------------------------------------------------------
(* What a record's fields say of each other.                               *)

\* A change to one record leaves the others alone.
LEMMA PutOnly ==
    ASSUME TypeOK, NEW c \in Calls, NEW t, Put(c, t)
    PROVE  /\ task'[c] = t /\ t \in Task
           /\ \A x \in Calls : x # c => task'[x] = task[x]
BY DEF TypeOK, Put

\* What each change leaves of the record, field by field.
LEMMA ChangedFields ==
    ASSUME TypeOK, NEW c \in Calls
    PROVE  LET old == task[c]
               new == task'[c] IN
           /\ \A t : Begun(c, t) => new = t
           /\ Answered(c) =>
                /\ new.state = "answered" /\ new.task_state = old.task_state
                /\ new.delivery_state = old.delivery_state
                /\ new.deadline = old.deadline /\ new.lease = old.lease
                /\ new.created_at = old.created_at
                /\ new.execute_by = old.execute_by /\ new.from = old.from
                /\ new.quota_released = old.quota_released
                /\ new.ciphertext_bytes = old.ciphertext_bytes
           /\ Started(c) =>
                /\ new.state = "working" /\ new.task_state = "working"
                /\ new.delivery_state = IF IsDurable(old) THEN "started"
                                        ELSE old.delivery_state
                /\ new.deadline = IF IsDurable(old) THEN ExecutionDeadline(old)
                                  ELSE old.deadline
                /\ new.lease = old.lease
                /\ new.created_at = old.created_at
                /\ new.execute_by = old.execute_by /\ new.from = old.from
                /\ new.quota_released = old.quota_released
                /\ new.ciphertext_bytes = old.ciphertext_bytes
           /\ \A t, e : Over(c, t, e) => new = t /\ Ending(old, new)
           /\ \A l : Leased(c, l) =>
                /\ new.delivery_state = "leased" /\ new.lease = l
                /\ new.state = old.state /\ new.task_state = old.task_state
                /\ new.deadline = old.deadline
                /\ new.created_at = old.created_at
                /\ new.execute_by = old.execute_by /\ new.from = old.from
                /\ new.quota_released = old.quota_released
                /\ new.ciphertext_bytes = old.ciphertext_bytes
           /\ Requeued(c) =>
                /\ new.delivery_state = "queued" /\ new.lease = old.lease
                /\ new.state = old.state /\ new.task_state = old.task_state
                /\ new.deadline = old.deadline
                /\ new.created_at = old.created_at
                /\ new.execute_by = old.execute_by /\ new.from = old.from
                /\ new.quota_released = old.quota_released
                /\ new.ciphertext_bytes = old.ciphertext_bytes
           /\ \A l : Offered(c, l) =>
                /\ new.delivery_state = "started" /\ new.lease = l
                /\ new.state = old.state /\ new.task_state = old.task_state
                /\ new.deadline = old.deadline
                /\ new.created_at = old.created_at
                /\ new.execute_by = old.execute_by /\ new.from = old.from
                /\ new.quota_released = old.quota_released
                /\ new.ciphertext_bytes = old.ciphertext_bytes
           /\ Trimmed(c) =>
                /\ new.delivery_state = old.delivery_state
                /\ new.state = old.state /\ new.task_state = old.task_state
                /\ new.lease = old.lease
                /\ new.created_at = old.created_at
                /\ new.execute_by = old.execute_by /\ new.from = old.from
                /\ new.quota_released = old.quota_released
                /\ new.ciphertext_bytes = IF old.outcome_envelope THEN 0
                                          ELSE old.ciphertext_bytes
           /\ Forgotten(c) => new = NoTask
<1>0. task[c] \in Task  BY DEF TypeOK
<1>1. \A t : Begun(c, t) => task'[c] = t  BY PutOnly DEF Begun
<1>2. Answered(c) => task'[c] = [task[c] EXCEPT !.state = "answered"]
  BY PutOnly DEF Answered
<1>3. Started(c) => task'[c] = StartedRecord(task[c])  BY PutOnly DEF Started
<1>4. \A t, e : Over(c, t, e) => task'[c] = t /\ Ending(task[c], task'[c])
  BY PutOnly DEF Over
<1>5. \A l : Leased(c, l) =>
        task'[c] = [task[c] EXCEPT !.delivery_state = "leased", !.lease = l]
  BY PutOnly DEF Leased
<1>6. Requeued(c) => task'[c] = [task[c] EXCEPT !.delivery_state = "queued"]
  BY PutOnly DEF Requeued
<1>7. \A l : Offered(c, l) => /\ task'[c] = [task[c] EXCEPT !.lease = l]
                              /\ task[c].delivery_state = "started"
  BY PutOnly DEF Offered
<1>8. Trimmed(c) =>
        task'[c] = [task[c] EXCEPT !.deadline = PurgeAt(task[c]),
                      !.outcome_envelope = FALSE,
                      !.ciphertext_bytes = IF task[c].outcome_envelope THEN 0 ELSE @]
  BY PutOnly DEF Trimmed
<1>9. Forgotten(c) => task'[c] = NoTask  BY PutOnly DEF Forgotten
<1> DEFINE old == task[c]
           new == task'[c]
           same == /\ new.created_at = old.created_at
                   /\ new.execute_by = old.execute_by /\ new.from = old.from
                   /\ new.quota_released = old.quota_released
                   /\ new.ciphertext_bytes = old.ciphertext_bytes
<1>10. Answered(c) =>
         /\ new.state = "answered" /\ new.task_state = old.task_state
         /\ new.delivery_state = old.delivery_state
         /\ new.deadline = old.deadline /\ new.lease = old.lease /\ same
  BY <1>0, <1>2 DEF Task
<1>11. Started(c) =>
         /\ new.state = "working" /\ new.task_state = "working"
         /\ new.delivery_state = IF IsDurable(old) THEN "started"
                                 ELSE old.delivery_state
         /\ new.deadline = IF IsDurable(old) THEN ExecutionDeadline(old)
                           ELSE old.deadline
         /\ new.lease = old.lease /\ same
  BY <1>0, <1>3 DEF Task, StartedRecord
<1>12. ASSUME NEW l, Leased(c, l)
       PROVE  /\ new.delivery_state = "leased" /\ new.lease = l
              /\ new.state = old.state /\ new.task_state = old.task_state
              /\ new.deadline = old.deadline /\ same
  <2> DEFINE r == [old EXCEPT !.delivery_state = "leased", !.lease = l]
  <2>1. /\ r.delivery_state = "leased" /\ r.lease = l
        /\ r.state = old.state /\ r.task_state = old.task_state
        /\ r.deadline = old.deadline
        /\ r.created_at = old.created_at
        /\ r.execute_by = old.execute_by /\ r.from = old.from
        /\ r.quota_released = old.quota_released
        /\ r.ciphertext_bytes = old.ciphertext_bytes
    BY <1>0 DEF Task
  <2>2. new = r  BY <1>5, <1>12
  <2> HIDE DEF r, old, new
  <2> QED  BY <1>5, <1>12, <2>1, <2>2 DEF old
<1>13. Requeued(c) =>
         /\ new.delivery_state = "queued" /\ new.lease = old.lease
         /\ new.state = old.state /\ new.task_state = old.task_state
         /\ new.deadline = old.deadline /\ same
  BY <1>0, <1>6 DEF Task
<1>14. ASSUME NEW l, Offered(c, l)
       PROVE  /\ new.delivery_state = "started" /\ new.lease = l
              /\ new.state = old.state /\ new.task_state = old.task_state
              /\ new.deadline = old.deadline /\ same
  <2> DEFINE r == [old EXCEPT !.lease = l]
  <2>1. /\ r.delivery_state = old.delivery_state /\ r.lease = l
        /\ r.state = old.state /\ r.task_state = old.task_state
        /\ r.deadline = old.deadline
        /\ r.created_at = old.created_at
        /\ r.execute_by = old.execute_by /\ r.from = old.from
        /\ r.quota_released = old.quota_released
        /\ r.ciphertext_bytes = old.ciphertext_bytes
    BY <1>0 DEF Task
  <2>2. new = r  BY <1>7, <1>14
  <2> HIDE DEF r, old, new
  <2> QED  BY <1>7, <1>14, <2>1, <2>2 DEF old
<1>15. Trimmed(c) =>
         /\ new.delivery_state = old.delivery_state
         /\ new.state = old.state /\ new.task_state = old.task_state
         /\ new.lease = old.lease
         /\ new.created_at = old.created_at
         /\ new.execute_by = old.execute_by /\ new.from = old.from
         /\ new.quota_released = old.quota_released
         /\ new.ciphertext_bytes = IF old.outcome_envelope THEN 0
                                   ELSE old.ciphertext_bytes
  BY <1>0, <1>8 DEF Task
<1> QED  BY <1>1, <1>4, <1>9, <1>10, <1>11, <1>12, <1>13, <1>14, <1>15

\* The record every change writes is consistent.
LEMMA ChangedRecordOk ==
    ASSUME TypeOK, RecordInv, now' \in {now, now + 1}, NEW c \in Calls, ChangesOf(c)
    PROVE  /\ \A x \in Calls : x # c => task'[x] = task[x]
           /\ IsDurable(task'[c]) => DurableRecord(task'[c])
           /\ Waiting(task'[c], now')
<1>0. /\ task[c] \in Task /\ now \in Nat /\ now' \in Nat /\ now <= now'
      /\ MaxAttempts \in Nat \ {0}
      /\ IsDurable(task[c]) => DurableRecord(task[c])
      /\ Waiting(task[c], now)
  BY ConstantTypes, InputTypes DEF TypeOK, RecordInv
<1>1. ASSUME NEW t, Begun(c, t)
      PROVE  /\ \A x \in Calls : x # c => task'[x] = task[x]
             /\ IsDurable(task'[c]) => DurableRecord(task'[c])
             /\ Waiting(task'[c], now')
  <2>1. task'[c] = t /\ \A x \in Calls : x # c => task'[x] = task[x]
    BY <1>1, PutOnly DEF Begun
  <2>2. DurableRecord(t) \/ ~IsDurable(t)
    BY <1>1 DEF Begun, DurableRecord, TaskIsTerminal, TerminalStates, IsDurable,
       DurableStates
  <2>3. t.delivery_state # "leased" /\ t.lease.expires_at <= now' /\ t.lease.attempt < MaxAttempts
    BY <1>0, <1>1 DEF Begun, NoLease
  <2> QED  BY <2>1, <2>2, <2>3 DEF Waiting
<1>2. CASE Answered(c)
  <2> DEFINE t == [task[c] EXCEPT !.state = "answered"]
  <2>1. task'[c] = t /\ \A x \in Calls : x # c => task'[x] = task[x]
    BY <1>2, PutOnly DEF Answered
  <2>2. /\ IsDurable(task[c]) <=> IsDurable(t)
        /\ DurableRecord(task[c]) /\ IsDurable(task[c]) => DurableRecord(t)
    BY <1>0, <1>2
    DEF Answered, DurableRecord, TaskIsTerminal, IsDurable, ExecuteBy, Task
  <2>3. t.lease = task[c].lease /\ t.delivery_state = task[c].delivery_state
    BY <1>0 DEF Task
  <2>4. t.lease.expires_at <= now => t.lease.expires_at <= now'
    BY <1>0, <2>3 DEF Task, Lease, Times
  <2> QED  BY <1>0, <2>1, <2>2, <2>3, <2>4 DEF Waiting
<1>3. CASE Started(c)
  <2> DEFINE t == StartedRecord(task[c])
  <2>1. task'[c] = t /\ \A x \in Calls : x # c => task'[x] = task[x]
    BY <1>3, PutOnly DEF Started
  <2>2. /\ t.delivery_state = IF IsDurable(task[c]) THEN "started"
                              ELSE task[c].delivery_state
        /\ t.state = "working" /\ t.task_state = "working"
        /\ t.quota_released = task[c].quota_released
    BY <1>0 DEF StartedRecord, Task
  <2> HIDE DEF t
  <2>3. IsDurable(t) => DurableRecord(t)
    BY <1>0, <1>3, <2>2
    DEF Started, DurableRecord, TaskIsTerminal, TerminalStates, IsDurable, DurableStates
  <2>4. t.delivery_state \notin {"queued", "leased"}
    BY <2>2 DEF IsDurable, DurableStates
  <2> QED  BY <2>1, <2>3, <2>4 DEF Waiting
<1>4. ASSUME NEW t, NEW e, Over(c, t, e)
      PROVE  /\ \A x \in Calls : x # c => task'[x] = task[x]
             /\ IsDurable(task'[c]) => DurableRecord(task'[c])
             /\ Waiting(task'[c], now')
  <2>1. task'[c] = t /\ t \in Task /\ \A x \in Calls : x # c => task'[x] = task[x]
    BY <1>4, PutOnly DEF Over
  <2>2. t.delivery_state \notin {"queued", "leased"}
    BY <1>4 DEF Over, Ending, IsDurable, DurableStates
  <2>3. IsDurable(t) => DurableRecord(t)
    BY <1>4, <2>1 DEF Over, Ending, IsDurable, DurableRecord, TaskIsTerminal
  <2> QED  BY <2>1, <2>2, <2>3 DEF Waiting
<1>5. ASSUME NEW l, Leased(c, l)
      PROVE  /\ \A x \in Calls : x # c => task'[x] = task[x]
             /\ IsDurable(task'[c]) => DurableRecord(task'[c])
             /\ Waiting(task'[c], now')
  <2> DEFINE t == [task[c] EXCEPT !.delivery_state = "leased", !.lease = l]
  <2>1. task'[c] = t /\ \A x \in Calls : x # c => task'[x] = task[x]
    BY <1>5, PutOnly DEF Leased
  <2>2. IsDurable(task[c]) /\ task[c].delivery_state = "queued"
    BY <1>5 DEF Leased, IsDurable, DurableStates
  <2>3. DurableRecord(t)
    BY <1>0, <2>2 DEF DurableRecord, TaskIsTerminal, ExecuteBy, Task
  <2>4. t.delivery_state = "leased" /\ t.lease = l  BY <1>0 DEF Task
  <2>5. l.attempt > 0  BY <1>0, <1>5 DEF Leased, Task, Lease
  <2> QED  BY <2>1, <2>3, <2>4, <2>5 DEF Waiting
<1>6. CASE Requeued(c)
  <2> DEFINE t == [task[c] EXCEPT !.delivery_state = "queued"]
  <2>1. task'[c] = t /\ \A x \in Calls : x # c => task'[x] = task[x]
    BY <1>6, PutOnly DEF Requeued
  <2>2. IsDurable(task[c]) /\ task[c].delivery_state = "leased"
    BY <1>6 DEF Requeued, LeaseRanOut, IsDurable, DurableStates
  <2>3. DurableRecord(t)
    BY <1>0, <2>2 DEF DurableRecord, TaskIsTerminal, ExecuteBy, Task
  <2>4. t.delivery_state = "queued" /\ t.lease = task[c].lease  BY <1>0 DEF Task
  <2>5. task[c].lease.expires_at <= now' /\ task[c].lease.attempt < MaxAttempts
    BY <1>0, <1>6 DEF Requeued, LeaseRanOut, Task, Lease, Times
  <2> QED  BY <2>1, <2>3, <2>4, <2>5 DEF Waiting
<1>7. ASSUME NEW l, Offered(c, l)
      PROVE  /\ \A x \in Calls : x # c => task'[x] = task[x]
             /\ IsDurable(task'[c]) => DurableRecord(task'[c])
             /\ Waiting(task'[c], now')
  <2> DEFINE t == [task[c] EXCEPT !.lease = l]
  <2>1. task'[c] = t /\ \A x \in Calls : x # c => task'[x] = task[x]
    BY <1>7, PutOnly DEF Offered
  <2>2. IsDurable(task[c]) /\ task[c].delivery_state = "started"
    BY <1>7 DEF Offered, IsDurable, DurableStates
  <2>3. DurableRecord(t) /\ t.delivery_state = "started"
    BY <1>0, <2>2 DEF DurableRecord, TaskIsTerminal, ExecuteBy, Task
  <2> QED  BY <2>1, <2>3 DEF Waiting
<1>8. CASE Trimmed(c)
  <2> DEFINE t == [task[c] EXCEPT !.deadline = PurgeAt(task[c]),
                     !.outcome_envelope = FALSE,
                     !.ciphertext_bytes = IF task[c].outcome_envelope THEN 0 ELSE @]
  <2>1. task'[c] = t /\ \A x \in Calls : x # c => task'[x] = task[x]
    BY <1>8, PutOnly DEF Trimmed
  <2>2. IsDurable(task[c]) /\ TaskIsTerminal(task[c])  BY <1>8 DEF Trimmed
  <2>3. /\ t.delivery_state = task[c].delivery_state /\ t.state = task[c].state
        /\ t.task_state = task[c].task_state
        /\ t.quota_released = task[c].quota_released
    BY <1>0 DEF Task
  <2> HIDE DEF t
  <2>4. DurableRecord(t)  BY <1>0, <2>2, <2>3 DEF DurableRecord, TaskIsTerminal
  <2>5. t.delivery_state \notin {"queued", "leased"}
    BY <1>0, <2>2, <2>3 DEF DurableRecord
  <2> QED  BY <2>1, <2>4, <2>5 DEF Waiting
<1>9. CASE Forgotten(c)
  <2>1. task'[c] = NoTask /\ \A x \in Calls : x # c => task'[x] = task[x]
    BY <1>9, PutOnly DEF Forgotten
  <2> QED  BY <2>1 DEF NoTask, IsDurable, DurableStates, Waiting
<1> QED  BY <1>1, <1>2, <1>3, <1>4, <1>5, <1>6, <1>7, <1>8, <1>9 DEF ChangesOf

\* Every step leaves the records consistent.
LEMMA RecordStep ==
    ASSUME FlushInv, RecordInv, [Next]_vars
    PROVE  RecordInv'
<1>0. TypeOK /\ Changed  BY StepChanged DEF FlushInv
<1>1. now \in Nat /\ now' \in {now, now + 1}  BY <1>0, ClockStep DEF TypeOK
<1>2. \A x \in Calls : Waiting(task[x], now) => Waiting(task[x], now')
  <2>1. \A x \in Calls : task[x].lease.expires_at \in Nat
    BY <1>0 DEF TypeOK, Task, Lease, Times
  <2>2. \A n \in Nat : n <= now => n <= now'  BY <1>1
  <2> QED  BY <2>1, <2>2 DEF Waiting
<1>3. CASE Untouched
  <2>1. task' = task  BY <1>3 DEF Untouched
  <2>2. \A x \in Calls : Waiting(task'[x], now')  BY <1>2, <2>1 DEF RecordInv
  <2>3. \A x \in Calls : IsDurable(task'[x]) => DurableRecord(task'[x])
    BY <2>1 DEF RecordInv
  <2> QED  BY <2>2, <2>3 DEF RecordInv, DurableRecord, IsDurable, TaskIsTerminal, ExecuteBy
<1>4. ASSUME NEW c \in Calls, ChangesOf(c)
      PROVE  RecordInv'
  <2>1. /\ \A x \in Calls : x # c => task'[x] = task[x]
        /\ IsDurable(task'[c]) => DurableRecord(task'[c])
        /\ Waiting(task'[c], now')
    BY <1>0, <1>1, <1>4, ChangedRecordOk
  <2>2. \A x \in Calls : Waiting(task'[x], now')  BY <1>2, <2>1 DEF RecordInv
  <2>3. \A x \in Calls : IsDurable(task'[x]) => DurableRecord(task'[x])
    BY <2>1 DEF RecordInv
  <2> QED  BY <2>2, <2>3 DEF RecordInv, DurableRecord, IsDurable, TaskIsTerminal, ExecuteBy
<1> QED  BY <1>0, <1>3, <1>4 DEF Changed

\* RecordInv is invariant, with the indexes.
LEMMA RecordInvariant == Spec => [](IndexInv /\ RecordInv)
<1>1. Init => IndexInv /\ RecordInv
  <2> SUFFICES ASSUME Init PROVE RecordInv  BY InitIndex
  <2>1. \A c \in Calls : task[c] = NoTask  BY DEF Init
  <2> QED  BY <2>1 DEF RecordInv, NoTask, IsDurable, DurableStates, Waiting
<1>2. IndexInv /\ RecordInv /\ [Next]_vars => (IndexInv /\ RecordInv)'
  BY IndexStep, RecordStep DEF IndexInv
<1> QED  BY <1>1, <1>2, PTL DEF Spec
-----------------------------------------------------------------------------
(* Deadlines and attempts.                                                 *)

\* DeadlineNotExtended: the one change that moves a running call's deadline is
\* the start of its work, which until then had the mailbox's (RecordInv); the
\* new one is never later.
THEOREM DeadlinesKept == Spec => DeadlineNotExtended
<1>1. ASSUME IndexInv, RecordInv, [Next]_vars
      PROVE  \A c \in Calls :
               /\ IsDurable(task[c]) /\ ~TaskIsTerminal(task[c])
               /\ IsDurable(task'[c]) /\ ~TaskIsTerminal(task'[c])
               => task'[c].deadline <= task[c].deadline
  <2>0. FlushInv /\ TypeOK /\ Changed  BY <1>1, StepChanged DEF IndexInv, FlushInv
  <2>1. SUFFICES ASSUME NEW c \in Calls,
                        IsDurable(task[c]), ~TaskIsTerminal(task[c]),
                        IsDurable(task'[c]), ~TaskIsTerminal(task'[c])
                 PROVE  task'[c].deadline <= task[c].deadline
    OBVIOUS
  <2>2. task[c] \in Task /\ task[c].deadline \in Nat
    BY <2>0 DEF TypeOK, Task, Times
  <2>3. CASE task'[c] = task[c]  BY <2>2, <2>3
  <2>4. CASE ChangesOf(c)
    <3>1. CASE \E t : Begun(c, t)
      <4>1. c \notin issued  BY <3>1 DEF Begun
      <4> QED  BY <1>1, <2>1, <4>1 DEF IndexInv, IssuedExist, Exists, IsDurable,
                  DurableStates
    <3>2. CASE Started(c)
      <4>1. task'[c] = StartedRecord(task[c])  BY <2>0, <3>2, PutOnly DEF Started
      <4>2. task'[c].deadline = ExecutionDeadline(task[c])
        BY <2>1, <2>2, <4>1 DEF StartedRecord, Task
      <4>3. task[c].deadline = ExecuteBy(task[c])
        BY <1>1, <2>1, <3>2 DEF Started, RecordInv, DurableRecord
      <4>4. now + ExecutionMs[session] \in Nat /\ ExecuteBy(task[c]) \in Nat
        <5>1. now \in Nat /\ session \in 0..MaxSessions
          BY <2>0, ConstantTypes DEF TypeOK
        <5> QED  BY <2>2, <4>3, <5>1, OverrideTypes
      <4> QED  BY <4>2, <4>3, <4>4 DEF ExecutionDeadline, Least
    <3>3. CASE \E t, e : Over(c, t, e)
      <4>1. PICK t, e : Over(c, t, e)  BY <3>3
      <4>2. task'[c] = t  BY <2>0, <4>1, PutOnly DEF Over
      <4> QED  BY <2>1, <4>1, <4>2 DEF Over, Ending, TaskIsTerminal
    <3>4. CASE Trimmed(c) \/ Forgotten(c)
      <4>1. CASE Trimmed(c)
        BY <2>0, <2>1, <4>1, ChangedFields DEF Trimmed, TaskIsTerminal
      <4>2. CASE Forgotten(c)
        BY <2>0, <2>1, <4>2, ChangedFields DEF NoTask, IsDurable, DurableStates
      <4> QED  BY <3>4, <4>1, <4>2
    <3>5. CASE \/ Answered(c) \/ (\E l : Leased(c, l) \/ Offered(c, l)) \/ Requeued(c)
      <4>1. task'[c].deadline = task[c].deadline
        BY <2>0, <3>5, ChangedFields
      <4> QED  BY <2>2, <4>1
    <3> QED  BY <2>4, <3>1, <3>2, <3>3, <3>4, <3>5 DEF ChangesOf
  <2>5. ASSUME NEW x \in Calls, ChangesOf(x), x # c
        PROVE  task'[c] = task[c]
    <3>1. now' \in {now, now + 1}  BY <1>1, ClockStep
    <3> QED  BY <1>1, <2>0, <2>5, <3>1, ChangedRecordOk
  <2> QED  BY <2>0, <2>3, <2>4, <2>5 DEF Changed, Untouched
<1> QED  BY <1>1, RecordInvariant, PTL DEF Spec, DeadlineNotExtended

\* OneDelivery: an attempt is counted only when a queued call is leased, and a
\* queued call has no lease running and an attempt left (RecordInv).
THEOREM DeliveredOnce == Spec => OneDelivery
<1>1. ASSUME IndexInv, RecordInv, [Next]_vars
      PROVE  \A c \in Calls :
               task'[c].lease.attempt > task[c].lease.attempt =>
                 /\ task[c].lease.expires_at <= now
                 /\ task'[c].lease.attempt <= MaxAttempts
  <2>0. FlushInv /\ TypeOK /\ Changed  BY <1>1, StepChanged DEF IndexInv, FlushInv
  <2>1. SUFFICES ASSUME NEW c \in Calls,
                        task'[c].lease.attempt > task[c].lease.attempt
                 PROVE  /\ task[c].lease.expires_at <= now
                        /\ task'[c].lease.attempt <= MaxAttempts
    OBVIOUS
  <2>2. task[c] \in Task /\ task[c].lease.attempt \in Nat /\ MaxAttempts \in Nat
    BY <2>0, HandleDOAssumption DEF TypeOK, Task, Lease
  <2>3. CASE task'[c].lease.attempt = task[c].lease.attempt
    BY <2>1, <2>2, <2>3
  <2>4. CASE ChangesOf(c)
    <3>1. CASE \E l : Leased(c, l)
      <4>1. PICK l : Leased(c, l)  BY <3>1
      <4>2. task'[c].lease.attempt = task[c].lease.attempt + 1
        <5>1. task'[c].lease = l  BY <2>0, <4>1, ChangedFields
        <5> QED  BY <4>1, <5>1 DEF Leased
      <4>3. Waiting(task[c], now) /\ task[c].delivery_state = "queued"
        BY <1>1, <4>1 DEF RecordInv, Leased
      <4> QED  BY <2>2, <4>2, <4>3 DEF Waiting
    <3>2. CASE \E l : Offered(c, l)
      BY <2>0, <2>3, <3>2, ChangedFields DEF Offered
    <3>3. CASE Answered(c) \/ Started(c) \/ Requeued(c) \/ Trimmed(c)
      <4>1. task'[c].lease = task[c].lease
        BY <2>0, <3>3, ChangedFields
      <4> QED  BY <2>3, <4>1
    <3>4. CASE (\E t : Begun(c, t)) \/ (\E t, e : Over(c, t, e)) \/ Forgotten(c)
      <4>1. task'[c].lease.attempt \in {0, task[c].lease.attempt}
        <5>1. CASE \E t : Begun(c, t)
          BY <2>0, <5>1, PutOnly DEF Begun, NoLease
        <5>2. CASE \E t, e : Over(c, t, e)
          BY <2>0, <5>2, PutOnly DEF Over, Ending, NoLease
        <5>3. CASE Forgotten(c)
          BY <2>0, <5>3, PutOnly DEF Forgotten, NoTask, NoLease
        <5> QED  BY <3>4, <5>1, <5>2, <5>3
      <4> QED  BY <2>1, <2>2, <4>1
    <3> QED  BY <2>4, <3>1, <3>2, <3>3, <3>4 DEF ChangesOf
  <2>5. ASSUME NEW x \in Calls, ChangesOf(x), x # c
        PROVE  task'[c] = task[c]
    <3>1. now' \in {now, now + 1}  BY <1>1, ClockStep
    <3> QED  BY <1>1, <2>0, <2>5, <3>1, ChangedRecordOk
  <2> QED  BY <2>0, <2>3, <2>4, <2>5 DEF Changed, Untouched
<1> QED  BY <1>1, RecordInvariant, PTL DEF Spec, OneDelivery

-----------------------------------------------------------------------------
(* The promised lifecycle.  A call's trail is its rows in D1 and its       *)
(* intents in the outbox; it always fits the call's phase.                 *)

BatchesKnown == \A h \in Handlers : \A i \in handler[h].batch :
                   i \in outbox \/ rows[i.call][i.event] # 0
TrailFits(p, trail) ==
    /\ p = "none" => trail = {}
    /\ p = "ringing" => trail = {"submit"}
    /\ p \in {"answered", "working"} => trail = {"submit", "accept"}
    /\ p # "none" => "submit" \in trail
TrailInv == BatchesKnown /\ \A c \in Calls : TrailFits(Phase(c), Trail(c))

\* An intent put in the outbox adds its event to its call's trail.
LEMMA TrailAdds ==
    ASSUME TypeOK, NEW c \in Calls, NEW e \in Events, rows' = rows,
           outbox' = outbox \cup {CallAuditIntent(c, e)}
    PROVE  \A x \in Calls : Trail(x)' = IF x = c THEN Trail(x) \cup {e} ELSE Trail(x)
<1>1. /\ CallAuditIntent(c, e).call = c /\ CallAuditIntent(c, e).event = e
  BY DEF CallAuditIntent
<1> QED  BY <1>1 DEF Trail

\* A batch on its way to D1, or taken out of the outbox, changes no trail.
LEMMA TrailSame ==
    ASSUME FlushInv, BatchesKnown, NEW h \in Handlers, D1Insert(h) \/ FlushDone(h)
    PROVE  \A x \in Calls : Trail(x)' = Trail(x)
<1>1. handler[h].batch \subseteq Intent  BY DEF FlushInv, TypeOK, Handler
<1>2. CASE D1Insert(h)
  <2>1. outbox' = outbox  BY <1>2 DEF D1Insert, durables
  <2>2. ASSUME NEW x \in Calls, NEW e \in Events
        PROVE  rows'[x][e] # 0 <=>
                 \/ rows[x][e] # 0
                 \/ \E i \in handler[h].batch : i.call = x /\ i.event = e
    <3>1. /\ \A i \in handler[h].batch : rows'[i.call][i.event] # 0
          /\ rows[x][e] # 0 => rows'[x][e] = rows[x][e]
      BY <1>2, D1InsertRows DEF FlushInv
    <3>2. (~ \E i \in handler[h].batch : i.call = x /\ i.event = e)
             => rows'[x][e] = rows[x][e]
      BY <1>2 DEF D1Insert
    <3> QED  BY <3>1, <3>2
  <2>3. ASSUME NEW x \in Calls, NEW e \in Events,
               \E i \in handler[h].batch : i.call = x /\ i.event = e
        PROVE  \/ rows[x][e] # 0
               \/ \E i \in outbox : i.call = x /\ i.event = e
    BY <2>3 DEF BatchesKnown
  <2>4. ASSUME NEW x \in Calls, NEW e \in Events
        PROVE  (rows'[x][e] # 0 \/ \E i \in outbox' : i.call = x /\ i.event = e)
                 <=> (rows[x][e] # 0 \/ \E i \in outbox : i.call = x /\ i.event = e)
    BY <2>1, <2>2, <2>3
  <2> QED  BY <2>4 DEF Trail
<1>3. CASE FlushDone(h)
  <2>1. rows' = rows /\ outbox' = outbox \ handler[h].batch
    BY <1>3 DEF FlushDone, Drained, outside
  <2>2. \A i \in handler[h].batch : rows[i.call][i.event] # 0
    BY <1>3 DEF FlushDone, FlushInv, Stored
  <2>3. ASSUME NEW x \in Calls, NEW e \in Events
        PROVE  (rows'[x][e] # 0 \/ \E i \in outbox' : i.call = x /\ i.event = e)
                 <=> (rows[x][e] # 0 \/ \E i \in outbox : i.call = x /\ i.event = e)
    BY <2>1, <2>2
  <2> QED  BY <2>3 DEF Trail
<1> QED  BY <1>2, <1>3

\* No batch holds an intent that was never in the outbox.
LEMMA BatchesStep ==
    ASSUME FlushInv, BatchesKnown, [Next]_vars
    PROVE  BatchesKnown'
<1>1. \A g \in Handlers : handler[g].batch \subseteq Intent
  BY DEF FlushInv, TypeOK, Handler
<1>2. ASSUME NEW i \in Intent, rows[i.call][i.event] # 0
      PROVE  rows'[i.call][i.event] # 0
  <2>1. i.call \in Calls /\ i.event \in Events  BY DEF Intent
  <2>2. CASE rows' = rows  BY <1>2, <2>2
  <2>3. ASSUME NEW h \in Handlers, D1Insert(h)
        PROVE  rows'[i.call][i.event] # 0
    BY <1>2, <2>1, <2>3, D1InsertRows DEF FlushInv
  <2> QED  BY <2>2, <2>3, RowsStep
<1>3. ASSUME NEW i \in Intent, i \in outbox
      PROVE  i \in outbox' \/ rows'[i.call][i.event] # 0
  <2>1. CASE OutboxGrows  BY <1>3, <2>1 DEF OutboxGrows
  <2>2. ASSUME NEW h \in Handlers, FlushDone(h)
        PROVE  i \in outbox' \/ rows'[i.call][i.event] # 0
    BY <1>2, <1>3, <2>2 DEF FlushDone, Drained, FlushInv, Stored
  <2> QED  BY <2>1, <2>2, OutboxStep
<1>4. CASE HandlersKept
  <2>1. ASSUME NEW g \in Handlers, NEW i \in handler'[g].batch
        PROVE  i \in outbox' \/ rows'[i.call][i.event] # 0
    <3>1. CASE i \in handler[g].batch
      <4>1. i \in Intent  BY <1>1, <3>1
      <4> QED  BY <1>2, <1>3, <3>1, <4>1 DEF BatchesKnown
    <3> QED  BY <1>4, <2>1, <3>1 DEF HandlersKept, Keeps, FirstIntents
  <2> QED  BY <2>1 DEF BatchesKnown
<1>5. ASSUME NEW h \in Handlers, D1Insert(h)
      PROVE  BatchesKnown'
  <2>1. handler' = [handler EXCEPT ![h].stored = TRUE]  BY <1>5 DEF D1Insert
  <2>2. \A g \in Handlers : handler'[g].batch = handler[g].batch
    <3>1. \A g \in Handlers : handler[g] \in Handler  BY DEF FlushInv, TypeOK
    <3> QED  BY <2>1, <3>1 DEF FlushInv, TypeOK, Handler
  <2>3. ASSUME NEW g \in Handlers, NEW i \in handler'[g].batch
        PROVE  i \in outbox' \/ rows'[i.call][i.event] # 0
    <3>1. i \in Intent /\ i \in handler[g].batch  BY <1>1, <2>2, <2>3
    <3> QED  BY <1>2, <1>3, <3>1 DEF BatchesKnown
  <2> QED  BY <2>3 DEF BatchesKnown
<1> QED  BY <1>4, <1>5, StepKeeps DEF FlushInv

\* What a change does to the phase of its call, and the event that records it.
Recorded(c, e) == outbox' = outbox \cup {CallAuditIntent(c, e)}
Advance(c, p, q) ==
    \/ p = "none" /\ q = "ringing" /\ Recorded(c, "submit")
    \/ p = "ringing" /\ q \in {"answered", "working"} /\ Recorded(c, "accept")
    \/ p = "answered" /\ q = "working" /\ outbox' = outbox
    \/ /\ p \in CallStates /\ q \in TerminalStates
       /\ \E e : Records(e, q) /\ Recorded(c, e)
    \/ p \in TerminalStates /\ q = "gone" /\ outbox' = outbox
    \/ p \in CallStates /\ q = "gone" /\ Recorded(c, "timeout")
    \/ p = q /\ outbox' = outbox

\* The phase of a record that is not over is its state.
LEMMA PhaseOf ==
    ASSUME TypeOK, NEW c \in Calls
    PROVE  /\ Exists(c) /\ TaskIsTerminal(task[c]) =>
                Phase(c) = task[c].task_state /\ Phase(c) \in TerminalStates
           /\ Exists(c) /\ ~TaskIsTerminal(task[c]) =>
                Phase(c) = task[c].state /\ Phase(c) \in CallStates
           /\ ~Exists(c) => Phase(c) = IF c \in issued THEN "gone" ELSE "none"
BY DEF TypeOK, Task, Phase, TaskIsTerminal

\* Every change advances the phase of its call, or leaves it, and no other's.
LEMMA PhaseStep ==
    ASSUME TypeOK, TypeOK', IssuedExist, NEW c \in Calls, ChangesOf(c)
    PROVE  /\ \A x \in Calls : x # c => Phase(x)' = Phase(x)
           /\ Advance(c, Phase(c), Phase(c)')
<1> DEFINE old == task[c]
           new == task'[c]
<1>0. /\ Exists(c)' <=> new.delivery_state # "absent"
      /\ TaskIsTerminal(task[c])' <=> new.task_state \in TerminalStates
      /\ Exists(c) <=> old.delivery_state # "absent"
      /\ TaskIsTerminal(old) <=> old.task_state \in TerminalStates
  BY DEF Exists, TaskIsTerminal
<1>1. \A x \in Calls : x # c => task'[x] = task[x] /\ (x \in issued' <=> x \in issued)
  <2>1. ASSUME NEW t, Begun(c, t)
        PROVE  \A x \in Calls : x # c => task'[x] = task[x] /\ (x \in issued' <=> x \in issued)
    BY <2>1, PutOnly DEF Begun
  <2>2. ASSUME ~ \E t : Begun(c, t)
        PROVE  issued' = issued /\ \E t : Put(c, t)
    BY <2>2 DEF ChangesOf, Answered, Started, Over, Leased, Offered, Requeued,
       Trimmed, Forgotten
  <2> QED  BY <2>1, <2>2, PutOnly
<1>2. \A x \in Calls : x # c => Phase(x)' = Phase(x)
  BY <1>1 DEF Phase, Exists, TaskIsTerminal
<1>3. SUFFICES Advance(c, Phase(c), Phase(c)')  BY <1>2
<1>4. /\ Exists(c)' /\ TaskIsTerminal(task[c])' => Phase(c)' = new.task_state
      /\ Exists(c)' /\ ~TaskIsTerminal(task[c])' => Phase(c)' = new.state
      /\ ~Exists(c)' => Phase(c)' = IF c \in issued' THEN "gone" ELSE "none"
  BY DEF Phase
<1>5. ASSUME NEW t, Begun(c, t)  PROVE Advance(c, Phase(c), Phase(c)')
  <2>1. ~Exists(c) /\ c \notin issued  BY <1>5 DEF Begun, IssuedExist
  <2>2. Phase(c) = "none"  BY <2>1, PhaseOf
  <2>3. new = t  BY <1>5, PutOnly DEF Begun
  <2>4. Phase(c)' = "ringing"
    BY <1>0, <1>4, <1>5, <2>3 DEF Begun, TerminalStates
  <2> QED  BY <1>5, <2>2, <2>4 DEF Advance, Begun, Recorded
<1>6. CASE Answered(c)
  <2>1. Phase(c) = "ringing"  BY <1>6, PhaseOf DEF Answered
  <2>2. Phase(c)' = "answered"
    BY <1>0, <1>4, <1>6, ChangedFields DEF Answered
  <2> QED  BY <1>6, <2>1, <2>2 DEF Advance, Answered, Recorded
<1>7. CASE Started(c)
  <2>1. /\ Phase(c) = old.state /\ Phase(c) # "working" /\ Phase(c) \in CallStates
    BY <1>7, PhaseOf DEF Started
  <2>2. Phase(c)' = "working"
    <3>1. new.state = "working" /\ new.task_state = "working"
          /\ new.delivery_state # "absent"
      BY <1>0, <1>7, ChangedFields DEF Started, IsDurable, DurableStates
    <3> QED  BY <1>0, <1>4, <3>1 DEF TerminalStates
  <2> QED  BY <1>7, <2>1, <2>2 DEF Advance, Started, Recorded, CallStates
<1>8. ASSUME NEW t, NEW e, Over(c, t, e)  PROVE Advance(c, Phase(c), Phase(c)')
  <2>1. Phase(c) \in CallStates  BY <1>8, PhaseOf DEF Over
  <2>2. new = t  BY <1>8, PutOnly DEF Over
  <2>3. Phase(c)' = t.task_state /\ t.task_state \in TerminalStates
    BY <1>0, <1>4, <1>8, <2>2 DEF Over, Ending
  <2> QED  BY <1>8, <2>1, <2>3 DEF Advance, Over, Recorded
<1>9. CASE (\E l : Leased(c, l) \/ Offered(c, l)) \/ Requeued(c) \/ Trimmed(c)
  <2>1. /\ new.state = old.state /\ new.task_state = old.task_state
        /\ new.delivery_state # "absent"
    BY <1>9, ChangedFields DEF Trimmed, IsDurable, DurableStates
  <2>2. Exists(c) /\ outbox' = outbox
    BY <1>0, <1>9 DEF Leased, Offered, Requeued, LeaseRanOut, Trimmed, IsDurable,
       DurableStates
  <2>3. Phase(c)' = Phase(c)  BY <1>0, <1>4, <2>1, <2>2, PhaseOf
  <2> QED  BY <2>2, <2>3 DEF Advance
<1>10. CASE Forgotten(c)
  <2>1. new = NoTask /\ c \in issued'
    BY <1>10, ChangedFields DEF Forgotten, IssuedExist
  <2>2. Phase(c)' = "gone"  BY <1>0, <1>4, <2>1 DEF NoTask
  <2>3. Exists(c)  BY <1>10 DEF Forgotten
  <2>4. CASE TaskIsTerminal(old)
    BY <1>10, <2>2, <2>3, <2>4, PhaseOf DEF Advance, Forgotten
  <2>5. CASE ~TaskIsTerminal(old)
    BY <1>10, <2>2, <2>3, <2>5, PhaseOf DEF Advance, Forgotten, Recorded
  <2> QED  BY <2>4, <2>5
<1> QED  BY <1>5, <1>6, <1>7, <1>8, <1>9, <1>10 DEF ChangesOf

\* An advance keeps the trail fitting the phase and is a step of the lifecycle.
LEMMA AdvanceStep ==
    ASSUME TypeOK, rows' = rows, NEW c \in Calls, TrailFits(Phase(c), Trail(c)),
           \A x \in Calls : x # c => Phase(x)' = Phase(x),
           Advance(c, Phase(c), Phase(c)')
    PROVE  /\ \A x \in Calls : x # c => Trail(x)' = Trail(x)
           /\ TrailFits(Phase(c)', Trail(c)')
           /\ \/ Lifecycle!Next
              \/ Phase(c)' = Phase(c) /\ Trail(c)' = Trail(c)
<1>0. /\ CallStates = {"ringing", "answered", "working"}
      /\ TerminalStates = {"completed", "failed", "canceled", "rejected"}
      /\ Events = {"submit", "accept", "complete", "fail", "cancel", "timeout"}
  BY DEF CallStates, TerminalStates, Events, TerminalEvents
<1>1. outbox' = outbox => \A x \in Calls : Trail(x)' = Trail(x)
  BY DEF Trail
<1>2. \A e \in Events : Recorded(c, e) =>
        \A x \in Calls : Trail(x)' = IF x = c THEN Trail(x) \cup {e} ELSE Trail(x)
  BY TrailAdds DEF Recorded
<1>3. ASSUME NEW q, NEW evs, Phase(c)' = q, Trail(c)' = Trail(c) \cup evs,
             \A x \in Calls : x # c => Trail(x)' = Trail(x)
      PROVE  Lifecycle!Move(c, q, evs)
  BY <1>3 DEF Lifecycle!Move
<1>4. /\ [x \in Calls |-> Phase(x)][c] = Phase(c)
      /\ [x \in Calls |-> Trail(x)][c] = Trail(c)
  OBVIOUS
<1>5. CASE Phase(c) = "none" /\ Phase(c)' = "ringing" /\ Recorded(c, "submit")
  <2>1. Trail(c) = {} /\ Trail(c)' = {"submit"}
    BY <1>0, <1>2, <1>5 DEF TrailFits
  <2>2. Lifecycle!Begin(c)
    BY <1>0, <1>2, <1>3, <1>4, <1>5 DEF Lifecycle!Begin
  <2> QED  BY <1>0, <1>2, <1>5, <2>1, <2>2 DEF Lifecycle!Next, TrailFits
<1>6. CASE /\ Phase(c) = "ringing" /\ Phase(c)' \in {"answered", "working"}
           /\ Recorded(c, "accept")
  <2>1. Trail(c) = {"submit"} /\ Trail(c)' = {"submit", "accept"}
    BY <1>0, <1>2, <1>6 DEF TrailFits
  <2>2. Lifecycle!Accept(c) \/ Lifecycle!Start(c)
    BY <1>0, <1>2, <1>3, <1>4, <1>6 DEF Lifecycle!Accept, Lifecycle!Start
  <2> QED  BY <1>0, <1>2, <1>6, <2>1, <2>2 DEF Lifecycle!Next, TrailFits
<1>7. CASE Phase(c) = "answered" /\ Phase(c)' = "working" /\ outbox' = outbox
  <2>1. Trail(c) = {"submit", "accept"} /\ Trail(c)' = Trail(c)
    BY <1>1, <1>7 DEF TrailFits
  <2>2. Trail(c)' = Trail(c) \cup {"accept"}  BY <2>1
  <2>3. Lifecycle!Start(c)
    BY <1>1, <1>3, <1>4, <1>7, <2>2 DEF Lifecycle!Start
  <2> QED  BY <1>1, <1>7, <2>1, <2>3 DEF Lifecycle!Next, TrailFits
<1>8. ASSUME Phase(c) \in CallStates, Phase(c)' \in TerminalStates,
             NEW e, Records(e, Phase(c)'), Recorded(c, e)
      PROVE  /\ \A x \in Calls : x # c => Trail(x)' = Trail(x)
             /\ TrailFits(Phase(c)', Trail(c)') /\ Lifecycle!Next
  <2>1. e \in Events  BY <1>0, <1>8 DEF Records
  <2>2. "submit" \in Trail(c) /\ Trail(c)' = Trail(c) \cup {e}
    BY <1>0, <1>2, <1>8, <2>1 DEF TrailFits
  <2>3. Lifecycle!Move(c, Phase(c)', {e})
    BY <1>2, <1>3, <2>1, <1>8
  <2>4. e \in Lifecycle!EndEvents[Phase(c)'] /\ Phase(c)' \in Lifecycle!Ends
    BY <1>0, <1>8 DEF Records, Lifecycle!EndEvents, Lifecycle!Ends
  <2>5. Lifecycle!End(c, Phase(c)')
    BY <1>0, <1>4, <1>8, <2>3, <2>4 DEF Lifecycle!End, Lifecycle!LivePhases
  <2> QED  BY <1>0, <1>2, <1>8, <2>1, <2>2, <2>4, <2>5 DEF Lifecycle!Next, TrailFits
<1>9. CASE Phase(c) \in TerminalStates /\ Phase(c)' = "gone" /\ outbox' = outbox
  <2>1. "submit" \in Trail(c) /\ Trail(c)' = Trail(c) \cup {}
    BY <1>0, <1>1, <1>9 DEF TrailFits
  <2>2. Phase(c) \in Lifecycle!Ends
    BY <1>0, <1>9 DEF Lifecycle!EndEvents, Lifecycle!Ends
  <2>3. Lifecycle!Forget(c)
    BY <1>1, <1>3, <1>4, <1>9, <2>1, <2>2 DEF Lifecycle!Forget
  <2> QED  BY <1>1, <1>9, <2>1, <2>3 DEF Lifecycle!Next, TrailFits
<1>10. CASE Phase(c) \in CallStates /\ Phase(c)' = "gone" /\ Recorded(c, "timeout")
  <2>1. "submit" \in Trail(c) /\ Trail(c)' = Trail(c) \cup {"timeout"}
    BY <1>0, <1>2, <1>10 DEF TrailFits
  <2>2. Lifecycle!Expire(c)
    BY <1>0, <1>2, <1>3, <1>4, <1>10, <2>1 DEF Lifecycle!Expire, Lifecycle!LivePhases
  <2> QED  BY <1>0, <1>2, <1>10, <2>1, <2>2 DEF Lifecycle!Next, TrailFits
<1>11. CASE Phase(c) = Phase(c)' /\ outbox' = outbox
  <2>1. Trail(c)' = Trail(c)  BY <1>1, <1>11
  <2>2. TrailFits(Phase(c)', Trail(c)')  BY <1>11, <2>1 DEF TrailFits
  <2> QED  BY <1>1, <1>11, <2>1, <2>2
<1> QED  BY <1>5, <1>6, <1>7, <1>8, <1>9, <1>10, <1>11 DEF Advance

\* Every step keeps the trails and is a step of the lifecycle or none.
LEMMA LifecycleStep ==
    ASSUME IndexInv, RecordInv, TrailInv, [Next]_vars
    PROVE  /\ TrailInv'
           /\ Lifecycle!Next \/ UNCHANGED <<[c \in Calls |-> Phase(c)],
                                            [c \in Calls |-> Trail(c)]>>
<1>0. FlushInv /\ TypeOK /\ TypeOK' /\ Changed /\ BatchesKnown'
  BY StepChanged, TypeStep, BatchesStep DEF IndexInv, FlushInv, TrailInv
<1>1. ASSUME \A x \in Calls : Phase(x)' = Phase(x) /\ Trail(x)' = Trail(x)
      PROVE  /\ TrailInv'
             /\ UNCHANGED <<[c \in Calls |-> Phase(c)], [c \in Calls |-> Trail(c)]>>
  <2>1. \A x \in Calls : TrailFits(Phase(x)', Trail(x)')  BY <1>1 DEF TrailInv
  <2> QED  BY <1>0, <1>1, <2>1 DEF TrailInv, TrailFits
<1>2. ASSUME UNCHANGED <<task, issued>>
      PROVE  \A x \in Calls : Phase(x)' = Phase(x)
  BY <1>2 DEF Phase, Exists, TaskIsTerminal
<1>3. ASSUME NEW h \in Handlers, D1Insert(h) \/ FlushDone(h)
      PROVE  \A x \in Calls : Phase(x)' = Phase(x) /\ Trail(x)' = Trail(x)
  <2>1. UNCHANGED <<task, issued>>
    BY <1>3 DEF D1Insert, FlushDone, durables, records
  <2> QED  BY <1>0, <1>2, <1>3, <2>1, TrailSame DEF TrailInv
<1>4. CASE Untouched /\ rows' = rows
  <2>1. CASE outbox' = outbox
    <3>1. \A x \in Calls : Trail(x)' = Trail(x)  BY <1>4, <2>1 DEF Trail
    <3> QED  BY <1>1, <1>2, <1>4, <3>1 DEF Untouched
  <2>2. CASE \E h \in Handlers : FlushDone(h)  BY <1>1, <1>3, <2>2
  <2> QED  BY <1>4, <2>1, <2>2 DEF Untouched
<1>5. ASSUME NEW c \in Calls, ChangesOf(c), rows' = rows
      PROVE  /\ TrailInv'
             /\ Lifecycle!Next \/ UNCHANGED <<[x \in Calls |-> Phase(x)],
                                              [x \in Calls |-> Trail(x)]>>
  <2>1. /\ \A x \in Calls : x # c => Phase(x)' = Phase(x)
        /\ Advance(c, Phase(c), Phase(c)')
    BY <1>0, <1>5, PhaseStep DEF IndexInv
  <2>2. /\ \A x \in Calls : x # c => Trail(x)' = Trail(x)
        /\ TrailFits(Phase(c)', Trail(c)')
        /\ \/ Lifecycle!Next
           \/ Phase(c)' = Phase(c) /\ Trail(c)' = Trail(c)
    BY <1>0, <1>5, <2>1, AdvanceStep DEF TrailInv
  <2>3. \A x \in Calls : TrailFits(Phase(x)', Trail(x)')
    BY <2>1, <2>2 DEF TrailInv
  <2>4. TrailInv'  BY <1>0, <2>3 DEF TrailInv, TrailFits
  <2>5. CASE Phase(c)' = Phase(c) /\ Trail(c)' = Trail(c)
    BY <1>1, <2>1, <2>2, <2>5
  <2> QED  BY <2>2, <2>4, <2>5
<1> QED  BY <1>0, <1>1, <1>3, <1>4, <1>5, RowsStep DEF Changed

\* TrailInv is invariant, with the indexes and the records.
LEMMA TrailInvariant == Spec => [](IndexInv /\ RecordInv /\ TrailInv)
<1>1. Init => TrailInv
  <2> SUFFICES ASSUME Init PROVE TrailInv  OBVIOUS
  <2>1. BatchesKnown  BY DEF Init, BatchesKnown, Idle
  <2>2. \A c \in Calls : Phase(c) = "none" /\ Trail(c) = {}
    BY DEF Init, Phase, Exists, NoTask, Trail
  <2> QED  BY <2>1, <2>2 DEF TrailInv, TrailFits
<1>2. IndexInv /\ RecordInv /\ TrailInv /\ [Next]_vars => TrailInv'
  BY LifecycleStep
<1> QED  BY <1>1, <1>2, RecordInvariant, PTL DEF Spec

\* LifecycleKept: the object implements CallLifecycle.  Every change to a
\* record advances the phase of its call alone and puts the event of that
\* advance in the outbox in the same step, or changes neither; flushing the
\* outbox moves events between it and D1 and so changes no trail.
THEOREM LifecycleImplemented == Spec => LifecycleKept
<1>1. Init => Lifecycle!Init
  BY DEF Init, Lifecycle!Init, Phase, Exists, NoTask, Trail
<1>2. IndexInv /\ RecordInv /\ TrailInv /\ [Next]_vars =>
        [Lifecycle!Next]_<<[c \in Calls |-> Phase(c)], [c \in Calls |-> Trail(c)]>>
  BY LifecycleStep
<1> QED  BY <1>1, <1>2, TrailInvariant, PTL DEF Spec, LifecycleKept, Lifecycle!Spec

-----------------------------------------------------------------------------
(* The mailbox's counters.  Each change of a call moves it into the        *)
(* calls that count, out of them, or neither, and the counters with it.    *)

\* Of the callers' counters, the one of the call's own caller moves.
OwnCalls(k) == {c \in Unreleased : task[c].from = k}
CountsInv ==
    /\ outstanding = Cardinality(Unreleased)
    /\ \A k \in Callers : callerOutstanding[k] = Cardinality(OwnCalls(k))
BytesInv == IsFiniteSet(BytesKept) /\ storedBytes = Cardinality(BytesKept)

\* What a record counts for in the stored bytes.
Weight(t) == IF IsDurable(t) THEN t.ciphertext_bytes ELSE 0

\* What a change does to a call's share of the counters.
Joins(c) ==
    /\ c \notin Unreleased /\ Unreleased' = Unreleased \cup {c}
    /\ outstanding' = outstanding + 1
    /\ callerOutstanding' = [callerOutstanding EXCEPT ![task'[c].from] = @ + 1]
Leaves(c) ==
    /\ c \in Unreleased /\ Unreleased' = Unreleased \ {c}
    /\ outstanding' = AtLeast0(outstanding - 1)
    /\ callerOutstanding' =
         [callerOutstanding EXCEPT ![task[c].from] = AtLeast0(@ - 1)]
Stays(c) ==
    /\ Unreleased' = Unreleased /\ UNCHANGED <<outstanding, callerOutstanding>>
    /\ c \in Unreleased => task'[c].from = task[c].from
Reweighed(c) ==
    storedBytes' = AtLeast0(storedBytes - Weight(task[c]) + Weight(task'[c]))

\* The ids of calls are finitely many, so are those that count.
LEMMA CountsFinite ==
    /\ IsFiniteSet(Unreleased) /\ \A k : IsFiniteSet(OwnCalls(k))
BY HandleDOAssumption, FS_Subset DEF Unreleased, OwnCalls

\* The counters follow a change of one call.
LEMMA CountsFollow ==
    ASSUME TypeOK, TypeOK', CountsInv, NEW c \in Calls,
           \A x \in Calls : x # c => task'[x] = task[x],
           Joins(c) \/ Leaves(c) \/ Stays(c)
    PROVE  CountsInv'
<1>0. /\ Unreleased \subseteq Calls /\ Unreleased' \subseteq Calls
      /\ outstanding \in Nat /\ callerOutstanding \in [Callers -> Nat]
  BY DEF Unreleased, TypeOK
<1>1. CASE Joins(c)
  <2>1. outstanding' = Cardinality(Unreleased')
    BY <1>1, CountsFinite, FS_AddElement DEF CountsInv, Joins
  <2>2. ASSUME NEW k \in Callers
        PROVE  callerOutstanding'[k] = Cardinality(OwnCalls(k)')
    <3>1. CASE task'[c].from = k
      <4>1. OwnCalls(k)' = OwnCalls(k) \cup {c}
        BY <1>0, <1>1, <3>1 DEF OwnCalls, Joins
      <4>2. c \notin OwnCalls(k)  BY <1>1 DEF OwnCalls, Joins
      <4>3. callerOutstanding'[k] = callerOutstanding[k] + 1
        BY <1>0, <1>1, <3>1 DEF Joins
      <4> QED  BY <4>1, <4>2, <4>3, CountsFinite, FS_AddElement DEF CountsInv
    <3>2. CASE task'[c].from # k
      <4>1. OwnCalls(k)' = OwnCalls(k)
        BY <1>0, <1>1, <3>2 DEF OwnCalls, Joins
      <4>2. callerOutstanding'[k] = callerOutstanding[k]
        BY <1>0, <1>1, <3>2 DEF Joins
      <4> QED  BY <4>1, <4>2 DEF CountsInv
    <3> QED  BY <3>1, <3>2
  <2> QED  BY <2>1, <2>2 DEF CountsInv
<1>2. CASE Leaves(c)
  <2>1. outstanding' = Cardinality(Unreleased')
    <3>1. Cardinality(Unreleased \ {c}) = outstanding - 1
          /\ Cardinality(Unreleased \ {c}) \in Nat
      BY <1>2, CountsFinite, FS_RemoveElement, FS_CardinalityType DEF CountsInv, Leaves
    <3> QED  BY <1>0, <1>2, <3>1 DEF Leaves, AtLeast0
  <2>2. ASSUME NEW k \in Callers
        PROVE  callerOutstanding'[k] = Cardinality(OwnCalls(k)')
    <3>1. CASE task[c].from = k
      <4>1. OwnCalls(k)' = OwnCalls(k) \ {c} /\ c \in OwnCalls(k)
        BY <1>0, <1>2, <3>1 DEF OwnCalls, Leaves
      <4>2. /\ Cardinality(OwnCalls(k) \ {c}) = callerOutstanding[k] - 1
            /\ Cardinality(OwnCalls(k) \ {c}) \in Nat
        BY <4>1, CountsFinite, FS_RemoveElement, FS_CardinalityType DEF CountsInv
      <4>3. callerOutstanding'[k] = AtLeast0(callerOutstanding[k] - 1)
        BY <1>0, <1>2, <3>1 DEF Leaves
      <4>4. callerOutstanding[k] \in Nat  BY <1>0
      <4> QED  BY <4>1, <4>2, <4>3, <4>4 DEF AtLeast0
    <3>2. CASE task[c].from # k
      <4>1. OwnCalls(k)' = OwnCalls(k)
        BY <1>0, <1>2, <3>2 DEF OwnCalls, Leaves
      <4>2. callerOutstanding'[k] = callerOutstanding[k]
        BY <1>0, <1>2, <3>2 DEF Leaves
      <4> QED  BY <4>1, <4>2 DEF CountsInv
    <3> QED  BY <3>1, <3>2
  <2> QED  BY <2>1, <2>2 DEF CountsInv
<1>3. CASE Stays(c)
  <2>1. \A k \in Callers : OwnCalls(k)' = OwnCalls(k)
    BY <1>0, <1>3 DEF OwnCalls, Stays
  <2> QED  BY <1>3, <2>1 DEF CountsInv, Stays
<1> QED  BY <1>1, <1>2, <1>3

\* The first n of the bytes of a call are n.
LEMMA BytesOfCall ==
    ASSUME NEW c, NEW n \in Nat
    PROVE  IsFiniteSet({c} \X (1..n)) /\ Cardinality({c} \X (1..n)) = n
<1>1. IsFiniteSet(1..n) /\ Cardinality(1..n) = n  BY FS_Interval
<1>2. IsFiniteSet({c}) /\ Cardinality({c}) = 1  BY FS_Singleton
<1>3. IsFiniteSet({c} \X (1..n))  BY <1>1, <1>2, FS_Product
<1>4. Cardinality({c} \X (1..n)) = Cardinality({c}) * Cardinality(1..n)
  BY <1>1, <1>2, FS_Product
<1>5. 1 * n = n  OBVIOUS
<1> QED  BY <1>1, <1>2, <1>3, <1>4, <1>5

\* So do the stored bytes.
LEMMA BytesFollow ==
    ASSUME TypeOK, TypeOK', BytesInv, NEW c \in Calls,
           \A x \in Calls : x # c => task'[x] = task[x],
           Reweighed(c)
    PROVE  BytesInv'
<1> DEFINE old == {c} \X (1..Weight(task[c]))
           new == {c} \X (1..Weight(task'[c]))
           rest == BytesKept \ old
<1>1. Weight(task[c]) \in Nat /\ Weight(task'[c]) \in Nat /\ storedBytes \in Nat
  BY DEF TypeOK, Task, Weight
<1>2. /\ IsFiniteSet(old) /\ Cardinality(old) = Weight(task[c])
      /\ IsFiniteSet(new) /\ Cardinality(new) = Weight(task'[c])
  <2>1. \A n \in Nat : IsFiniteSet({c} \X (1..n)) /\ Cardinality({c} \X (1..n)) = n
    BY BytesOfCall
  <2> QED  BY <1>1, <2>1
<1>3. \A p : p \in BytesKept <=>
        \E x \in Calls : IsDurable(task[x]) /\ p \in {x} \X (1..task[x].ciphertext_bytes)
  BY DEF BytesKept
<1>4. \A p : p \in BytesKept' <=>
        \E x \in Calls : IsDurable(task'[x]) /\ p \in {x} \X (1..task'[x].ciphertext_bytes)
  BY DEF BytesKept, IsDurable
<1>5. old \subseteq BytesKept
  <2>1. CASE IsDurable(task[c])  BY <1>3, <2>1 DEF Weight
  <2>2. CASE ~IsDurable(task[c])  BY <2>2 DEF Weight
  <2> QED  BY <2>1, <2>2
<1>6. \A p : p \in rest <=>
        \E x \in Calls \ {c} : IsDurable(task[x]) /\ p \in {x} \X (1..task[x].ciphertext_bytes)
  <2>1. ASSUME NEW p \in BytesKept, p \notin old
        PROVE  \E x \in Calls \ {c} :
                 IsDurable(task[x]) /\ p \in {x} \X (1..task[x].ciphertext_bytes)
    <3>1. PICK x \in Calls : IsDurable(task[x]) /\ p \in {x} \X (1..task[x].ciphertext_bytes)
      BY <1>3, <2>1
    <3>2. x # c  BY <2>1, <3>1 DEF Weight
    <3> QED  BY <3>1, <3>2
  <2>2. ASSUME NEW x \in Calls \ {c}, IsDurable(task[x]),
               NEW p \in {x} \X (1..task[x].ciphertext_bytes)
        PROVE  p \in BytesKept /\ p \notin old
    BY <1>3, <2>2
  <2> QED  BY <2>1, <2>2
<1>7. BytesKept' = rest \cup new
  <2>1. ASSUME NEW p \in BytesKept' PROVE p \in rest \cup new
    <3>1. PICK x \in Calls : IsDurable(task'[x]) /\ p \in {x} \X (1..task'[x].ciphertext_bytes)
      BY <1>4, <2>1
    <3>2. CASE x = c  BY <3>1, <3>2 DEF Weight
    <3>3. CASE x # c
      <4>1. task'[x] = task[x]  BY <3>3
      <4> HIDE DEF rest, new
      <4> QED  BY <1>6, <3>1, <3>3, <4>1
    <3> QED  BY <3>2, <3>3
  <2>2. ASSUME NEW p \in rest PROVE p \in BytesKept'
    <3>1. PICK x \in Calls \ {c} :
            IsDurable(task[x]) /\ p \in {x} \X (1..task[x].ciphertext_bytes)
      BY <1>6, <2>2
    <3>2. task'[x] = task[x]  BY <3>1
    <3> QED  BY <1>4, <3>1, <3>2
  <2>3. ASSUME NEW p \in new PROVE p \in BytesKept'
    <3>1. CASE IsDurable(task'[c])  BY <1>4, <2>3, <3>1 DEF Weight
    <3>2. CASE ~IsDurable(task'[c])  BY <2>3, <3>2 DEF Weight
    <3> QED  BY <3>1, <3>2
  <2> HIDE DEF rest, new
  <2> QED  BY <2>1, <2>2, <2>3
<1>8. rest \cap new = {}
  <2>1. ASSUME NEW p \in rest, p \in new PROVE FALSE
    <3>1. PICK x \in Calls \ {c} : p \in {x} \X (1..task[x].ciphertext_bytes)
      BY <1>6, <2>1
    <3> QED  BY <2>1, <3>1
  <2> QED  BY <2>1
<1> HIDE DEF old, new
<1>9. /\ IsFiniteSet(rest) /\ Cardinality(rest) \in Nat
      /\ Cardinality(rest) = storedBytes - Weight(task[c])
  <2>1. BytesKept \cap old = old  BY <1>5
  <2>2. /\ IsFiniteSet(BytesKept \ old)
        /\ Cardinality(BytesKept \ old) = Cardinality(BytesKept) - Cardinality(BytesKept \cap old)
    BY FS_Difference DEF BytesInv
  <2>3. Cardinality(BytesKept \ old) \in Nat  BY <2>2, FS_CardinalityType
  <2> QED  BY <1>2, <2>1, <2>2, <2>3 DEF BytesInv
<1> HIDE DEF rest
<1>10. /\ IsFiniteSet(rest \cup new)
       /\ Cardinality(rest \cup new) = Cardinality(rest) + Weight(task'[c])
  <2>1. Cardinality(rest \cap new) = 0  BY <1>8, FS_EmptySet
  <2>2. /\ IsFiniteSet(rest \cup new)
        /\ Cardinality(rest \cup new) =
             Cardinality(rest) + Cardinality(new) - Cardinality(rest \cap new)
    BY <1>2, <1>9, FS_Union
  <2>3. \A m, n \in Nat : m + n - 0 = m + n  OBVIOUS
  <2> QED  BY <1>1, <1>2, <1>9, <2>1, <2>2, <2>3
<1>11. storedBytes' = Cardinality(rest) + Weight(task'[c])
  BY <1>1, <1>9 DEF Reweighed, AtLeast0
<1> QED  BY <1>7, <1>10, <1>11 DEF BytesInv

\* What each change does to the calls that count.  A durable call that is over
\* has given its share back, one that is not has not.
LEMMA ChangeCounts ==
    ASSUME IndexInv, RecordInv, NEW c \in Calls, ChangesOf(c),
           \A x \in Calls : x # c => task'[x] = task[x]
    PROVE  (Joins(c) \/ Leaves(c) \/ Stays(c)) /\ Reweighed(c)
<1> DEFINE old == task[c]
           new == task'[c]
           Counts(t) == IsDurable(t) /\ ~t.quota_released
<1>0. /\ TypeOK /\ old \in Task /\ storedBytes \in Nat
      /\ old.ciphertext_bytes \in Nat
  BY DEF IndexInv, FlushInv, TypeOK, Task
<1>1. c \in Unreleased <=> Counts(old)  BY DEF Unreleased
<1>2. /\ Counts(new) => Unreleased' = Unreleased \cup {c}
      /\ ~Counts(new) => Unreleased' = Unreleased \ {c}
  BY DEF Unreleased, IsDurable
<1>3. Counts(old) <=> IsDurable(old) /\ ~TaskIsTerminal(old)
  BY DEF RecordInv, DurableRecord
<1>4. ASSUME Counts(old) <=> Counts(new), UNCHANGED <<outstanding, callerOutstanding>>,
             new.from = old.from
      PROVE  Stays(c)
  BY <1>1, <1>2, <1>4 DEF Stays
<1>5. ASSUME UNCHANGED quota, IsDurable(old) <=> IsDurable(new),
             new.ciphertext_bytes = old.ciphertext_bytes,
             new.quota_released = old.quota_released, new.from = old.from
      PROVE  (Joins(c) \/ Leaves(c) \/ Stays(c)) /\ Reweighed(c)
  <2>1. Stays(c)  BY <1>4, <1>5 DEF quota
  <2>2. Weight(old) = Weight(new) /\ Weight(old) \in Nat  BY <1>0, <1>5 DEF Weight
  <2>3. storedBytes' = storedBytes  BY <1>5 DEF quota
  <2> HIDE DEF old, new
  <2>4. storedBytes = AtLeast0(storedBytes - Weight(old) + Weight(new))
    BY <1>0, <2>2 DEF AtLeast0
  <2> QED  BY <2>1, <2>3, <2>4 DEF Reweighed, old, new
<1>6. ASSUME NEW t, Begun(c, t) PROVE (Joins(c) \/ Stays(c)) /\ Reweighed(c)
  <2>1. new = t /\ t \in Task /\ ~t.quota_released
    BY <1>0, <1>6, PutOnly DEF Begun
  <2>2. ~Exists(c)  BY <1>6 DEF Begun, IndexInv, IssuedExist
  <2>3. ~IsDurable(old)  BY <2>2 DEF Exists, IsDurable, DurableStates
  <2>4. CASE t.delivery_state = "queued"
    <3>1. IsDurable(new)  BY <2>1, <2>4 DEF IsDurable, DurableStates
    <3>2. /\ outstanding' = outstanding + 1
          /\ callerOutstanding' = [callerOutstanding EXCEPT ![new.from] = @ + 1]
          /\ storedBytes' = storedBytes + new.ciphertext_bytes
      BY <1>6, <2>1, <2>4 DEF Begun
    <3>3. Joins(c)  BY <1>1, <1>2, <2>1, <2>3, <3>1, <3>2 DEF Joins
    <3>4. Weight(old) = 0 /\ Weight(new) = new.ciphertext_bytes /\ new.ciphertext_bytes \in Nat
      BY <2>1, <2>3, <3>1 DEF Weight, Task
    <3> HIDE DEF old, new
    <3>5. storedBytes' = AtLeast0(storedBytes - Weight(old) + Weight(new))
      BY <1>0, <3>2, <3>4 DEF AtLeast0
    <3> QED  BY <3>3, <3>5 DEF Reweighed, old, new
  <2>5. CASE t.delivery_state # "queued"
    <3>1. t.delivery_state = "live" /\ UNCHANGED quota  BY <1>6, <2>5 DEF Begun
    <3>2. ~IsDurable(new)  BY <2>1, <3>1 DEF IsDurable, DurableStates
    <3>3. Stays(c)  BY <1>1, <1>2, <2>3, <3>1, <3>2 DEF Stays, quota
    <3>4. Weight(old) = 0 /\ Weight(new) = 0  BY <2>3, <3>2 DEF Weight
    <3>5. storedBytes' = storedBytes  BY <3>1 DEF quota
    <3> HIDE DEF old, new
    <3>6. storedBytes = AtLeast0(storedBytes - Weight(old) + Weight(new))
      BY <1>0, <3>4 DEF AtLeast0
    <3> QED  BY <3>3, <3>5, <3>6 DEF Reweighed, old, new
  <2> QED  BY <2>4, <2>5
<1>7. ASSUME NEW t, NEW e, Over(c, t, e)
      PROVE  (Leaves(c) \/ Stays(c)) /\ Reweighed(c)
  <2>1. new = t /\ t \in Task /\ Ending(old, t) /\ ~TaskIsTerminal(old)
    BY <1>0, <1>7, PutOnly DEF Over
  <2>2. ReleaseDurableQuota(old, new)  BY <1>7, <2>1 DEF Over
  <2>3. CASE IsDurable(old)
    <3>1. IsDurable(new) /\ new.quota_released
      BY <2>1, <2>3 DEF Ending, IsDurable, DurableStates
    <3>2. Counts(old) /\ ~Counts(new)  BY <1>3, <2>1, <2>3, <3>1
    <3>3. /\ outstanding' = AtLeast0(outstanding - 1)
          /\ callerOutstanding' = [callerOutstanding EXCEPT ![old.from] = AtLeast0(@ - 1)]
          /\ storedBytes' = AtLeast0(storedBytes - old.ciphertext_bytes + new.ciphertext_bytes)
      BY <2>2, <3>2 DEF ReleaseDurableQuota
    <3>4. Leaves(c)  BY <1>1, <1>2, <3>2, <3>3 DEF Leaves
    <3>5. Weight(old) = old.ciphertext_bytes /\ Weight(new) = new.ciphertext_bytes
      BY <2>3, <3>1 DEF Weight
    <3> QED  BY <3>3, <3>4, <3>5 DEF Reweighed
  <2>4. CASE ~IsDurable(old)
    <3>1. UNCHANGED quota  BY <2>2, <2>4 DEF ReleaseDurableQuota
    <3>2. ~IsDurable(new)
      BY <1>0, <2>1, <2>4 DEF Ending, IsDurable, DurableStates
    <3>3. Stays(c)  BY <1>1, <1>2, <2>4, <3>1, <3>2 DEF Stays, quota
    <3>4. Weight(old) = 0 /\ Weight(new) = 0  BY <2>4, <3>2 DEF Weight
    <3>5. storedBytes' = storedBytes  BY <3>1 DEF quota
    <3> HIDE DEF old, new
    <3>6. storedBytes = AtLeast0(storedBytes - Weight(old) + Weight(new))
      BY <1>0, <3>4 DEF AtLeast0
    <3> QED  BY <3>3, <3>5, <3>6 DEF Reweighed, old, new
  <2> QED  BY <2>3, <2>4
<1>8. ASSUME Trimmed(c) PROVE Stays(c) /\ Reweighed(c)
  <2>1. /\ IsDurable(old) /\ TaskIsTerminal(old)
        /\ UNCHANGED <<outstanding, callerOutstanding>>
        /\ storedBytes' = IF old.outcome_envelope
                          THEN AtLeast0(storedBytes - old.ciphertext_bytes)
                          ELSE storedBytes
    BY <1>8 DEF Trimmed
  <2>2. /\ new.delivery_state = old.delivery_state /\ new.from = old.from
        /\ new.quota_released = old.quota_released
        /\ new.ciphertext_bytes = IF old.outcome_envelope THEN 0 ELSE old.ciphertext_bytes
    BY <1>0, <1>8, ChangedFields
  <2>3. IsDurable(new)  BY <2>1, <2>2 DEF IsDurable
  <2>4. Stays(c)  BY <1>4, <2>1, <2>2, <2>3
  <2>5. /\ Weight(old) = old.ciphertext_bytes
        /\ Weight(new) = IF old.outcome_envelope THEN 0 ELSE old.ciphertext_bytes
    BY <2>1, <2>2, <2>3 DEF Weight
  <2> HIDE DEF old, new
  <2>6. storedBytes' = AtLeast0(storedBytes - Weight(old) + Weight(new))
    <3>1. CASE old.outcome_envelope
      <4>1. Weight(new) = 0  BY <2>5, <3>1
      <4> QED  BY <1>0, <2>1, <2>5, <3>1, <4>1 DEF AtLeast0
    <3>2. CASE ~old.outcome_envelope
      <4>1. Weight(new) = old.ciphertext_bytes  BY <2>5, <3>2
      <4> QED  BY <1>0, <2>1, <2>5, <3>2, <4>1 DEF AtLeast0
    <3> QED  BY <3>1, <3>2
  <2> QED  BY <2>4, <2>6 DEF Reweighed, old, new
<1>9. ASSUME Forgotten(c) PROVE Stays(c) /\ Reweighed(c)
  <2>1. new = NoTask  BY <1>0, <1>9, ChangedFields
  <2>2. ~IsDurable(new)  BY <2>1 DEF NoTask, IsDurable, DurableStates
  <2>3. UNCHANGED <<outstanding, callerOutstanding>>  BY <1>9 DEF Forgotten
  <2>4. ~Counts(old)  BY <1>3, <1>9 DEF Forgotten
  <2>5. Stays(c)  BY <1>1, <1>2, <2>2, <2>3, <2>4 DEF Stays
  <2>6. CASE IsDurable(old)
    <3>1. old.quota_released  BY <2>4, <2>6
    <3>2. storedBytes' = AtLeast0(storedBytes - old.ciphertext_bytes)
      BY <1>9, <2>6, <3>1 DEF Forgotten
    <3>3. Weight(old) = old.ciphertext_bytes /\ Weight(new) = 0
      BY <2>2, <2>6 DEF Weight
    <3> HIDE DEF old, new
    <3>4. storedBytes' = AtLeast0(storedBytes - Weight(old) + Weight(new))
      BY <1>0, <3>2, <3>3 DEF AtLeast0
    <3> QED  BY <2>5, <3>4 DEF Reweighed, old, new
  <2>7. CASE ~IsDurable(old)
    <3>1. storedBytes' = storedBytes  BY <1>9, <2>7 DEF Forgotten
    <3>2. Weight(old) = 0 /\ Weight(new) = 0  BY <2>2, <2>7 DEF Weight
    <3> HIDE DEF old, new
    <3>3. storedBytes = AtLeast0(storedBytes - Weight(old) + Weight(new))
      BY <1>0, <3>2 DEF AtLeast0
    <3> QED  BY <2>5, <3>1, <3>3 DEF Reweighed, old, new
  <2> QED  BY <2>6, <2>7
<1>10. CASE \/ Answered(c) \/ Started(c) \/ Requeued(c)
            \/ \E l : Leased(c, l) \/ Offered(c, l)
  <2>1. /\ new.ciphertext_bytes = old.ciphertext_bytes
        /\ new.quota_released = old.quota_released /\ new.from = old.from
    BY <1>0, <1>10, ChangedFields
  <2>2. UNCHANGED quota
    BY <1>10 DEF Answered, Started, Requeued, Leased, Offered
  <2>3. IsDurable(old) <=> IsDurable(new)
    <3>1. CASE Answered(c)
      <4>1. new.delivery_state = old.delivery_state  BY <1>0, <3>1, ChangedFields
      <4> QED  BY <4>1 DEF IsDurable
    <3>2. CASE Started(c)
      <4>1. new.delivery_state = IF IsDurable(old) THEN "started" ELSE old.delivery_state
        BY <1>0, <3>2, ChangedFields
      <4> QED  BY <4>1 DEF IsDurable, DurableStates
    <3>3. CASE Requeued(c)
      <4>1. new.delivery_state = "queued"  BY <1>0, <3>3, ChangedFields
      <4>2. old.delivery_state = "leased"  BY <3>3 DEF Requeued, LeaseRanOut
      <4> QED  BY <4>1, <4>2 DEF IsDurable, DurableStates
    <3>4. ASSUME NEW l, Leased(c, l) \/ Offered(c, l)
          PROVE  IsDurable(old) <=> IsDurable(new)
      <4>1. new.delivery_state \in {"leased", "started"}
        BY <1>0, <3>4, ChangedFields
      <4>2. old.delivery_state \in {"queued", "started"}
        BY <3>4 DEF Leased, Offered
      <4> QED  BY <4>1, <4>2 DEF IsDurable, DurableStates
    <3> QED  BY <1>10, <3>1, <3>2, <3>3, <3>4
  <2> QED  BY <1>5, <2>1, <2>2, <2>3
<1> QED  BY <1>6, <1>7, <1>8, <1>9, <1>10 DEF ChangesOf

\* The mailbox's counters are exact at every moment: each is what the records
\* say it is, through admission, leases, retries, expiry, revocation and purge.
THEOREM QuotaIsExact == Spec => []QuotaExact
<1>1. Init => CountsInv /\ BytesInv
  <2> SUFFICES ASSUME Init PROVE CountsInv /\ BytesInv
    OBVIOUS
  <2>1. \A c \in Calls : ~IsDurable(task[c])
    BY DEF Init, NoTask, IsDurable, DurableStates
  <2>2. Unreleased = {} /\ BytesKept = {} /\ \A k : OwnCalls(k) = {}
    BY <2>1 DEF Unreleased, BytesKept, OwnCalls
  <2> QED  BY <2>2, FS_EmptySet DEF Init, CountsInv, BytesInv
<1>2. ASSUME IndexInv, IndexInv', RecordInv, CountsInv, BytesInv, [Next]_vars
      PROVE  (CountsInv /\ BytesInv)'
  <2>0. TypeOK /\ TypeOK' /\ Changed
    BY <1>2, StepChanged DEF IndexInv, FlushInv
  <2>1. CASE Untouched
    <3>1. UNCHANGED <<task, outstanding, callerOutstanding, storedBytes>>
      BY <2>1 DEF Untouched, quota
    <3>2. Unreleased' = Unreleased /\ BytesKept' = BytesKept
      BY <3>1 DEF Unreleased, BytesKept, IsDurable
    <3>3. \A k \in Callers : OwnCalls(k)' = OwnCalls(k)  BY <3>1, <3>2 DEF OwnCalls
    <3> QED  BY <1>2, <3>1, <3>2, <3>3 DEF CountsInv, BytesInv
  <2>2. ASSUME NEW c \in Calls, ChangesOf(c) PROVE (CountsInv /\ BytesInv)'
    <3>1. \A x \in Calls : x # c => task'[x] = task[x]
      <4>1. \E t : Put(c, t)
        BY <2>2 DEF ChangesOf, Begun, Answered, Started, Over, Leased, Offered,
                    Requeued, Trimmed, Forgotten
      <4> QED  BY <2>0, <4>1, PutOnly
    <3>2. (Joins(c) \/ Leaves(c) \/ Stays(c)) /\ Reweighed(c)
      BY <1>2, <2>2, <3>1, ChangeCounts
    <3>3. CountsInv'  BY <1>2, <2>0, <3>1, <3>2, CountsFollow
    <3>4. BytesInv'  BY <1>2, <2>0, <3>1, <3>2, BytesFollow
    <3> QED  BY <3>3, <3>4
  <2> QED  BY <2>0, <2>1, <2>2 DEF Changed
<1>3. RecordInv /\ CountsInv /\ BytesInv => QuotaExact
  <2> SUFFICES ASSUME RecordInv, CountsInv, BytesInv PROVE QuotaExact
    OBVIOUS
  <2>1. Unreleased = {c \in Calls : IsDurable(task[c]) /\ ~TaskIsTerminal(task[c])}
    BY DEF RecordInv, DurableRecord, Unreleased
  <2> QED  BY <2>1 DEF CountsInv, BytesInv, OwnCalls, QuotaExact
<1>4. (IndexInv /\ RecordInv) /\ (IndexInv /\ RecordInv)' /\ (CountsInv /\ BytesInv)
        /\ [Next]_vars => (CountsInv /\ BytesInv)'
  BY <1>2
<1> QED  BY <1>1, <1>3, <1>4, RecordInvariant, PTL DEF Spec
=============================================================================
