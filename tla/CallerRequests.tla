--------------------------- MODULE CallerRequests ---------------------------
(***************************************************************************)
(* What callers ask of one handle object besides the calls themselves      *)
(* (which HandleDO models): the hourly allowance with its paged cleaning   *)
(* (apps/relay/src/call-rate-limit.ts, the frames and the alarm of do.ts)  *)
(* and the paged list of tasks (apps/relay/src/task-store.ts).             *)
(*                                                                         *)
(* As in HandleDO, a handler runs to its next D1 wait without another      *)
(* event.  A wait falls where the audit outbox is flushed: after the       *)
(* record of a call is stored, and in the alarm.  Here D1 answers: what a  *)
(* failed flush does to the alarm, and a crash, are HandleDO's.            *)
(*                                                                         *)
(* A definition marked "mutant" is the next one with a plausible bug.      *)
(***************************************************************************)
EXTENDS Integers, FiniteSets, Sequences, FiniteSetsExt

CONSTANTS
    Callers,           \* numbers: the "rl:" keys are ordered
    Slots,             \* the caller frames processed at the same time
    Ids,               \* call ids; numbers, ordered like UUIDs; never reused
    HourlyLimit, Window, PruneInterval, ContinueDelay,
    PageSize, MaxPages,          \* of the cleaning
    CallTimeout, MailboxTtl, TombstoneTtl, AuditRetry, MaxOutstanding,
    Lister,            \* the caller who lists its tasks
    Queries,           \* what its requests ask for
    MaxListSize,       \* the largest page it may ask for
    MaxTime, LastFrame, Lag      \* model bounds

ASSUME CallerRequestsAssumption ==
    /\ Callers \subseteq Nat /\ Ids \subseteq Nat /\ Lister \in Callers
    /\ \A n \in {HourlyLimit, Window, PruneInterval, ContinueDelay, PageSize,
                 MaxPages, MaxListSize, Lag} : n \in Nat \ {0}
    /\ \A n \in {CallTimeout, MailboxTtl, TombstoneTtl, AuditRetry,
                 MaxOutstanding, MaxTime, LastFrame} : n \in Nat

VARIABLES
    now,               \* Date.now()
    task,              \* "call:" records, as far as the list shows them
    stamps,            \* "rl:<caller>" keys; <<>> is an absent key
    prunedAt, sweep,   \* meta:rl-pruned-at and meta:rl-maintenance
    alarm,             \* the object's alarm
    frame,             \* what each running frame handler holds over its D1 wait
    timer,             \* Date.now() of the running alarm handler
    listing            \* the lister's reading of its tasks, page by page

allowance == <<stamps, prunedAt, sweep>>
vars == <<now, task, allowance, alarm, frame, timer, listing>>

Never   == -1                           \* no time, no key
NoSweep == [cursor |-> Never, due |-> Never]
NoTask  == [st |-> "absent", durable |-> FALSE, from |-> Never,
            created_at |-> 0, updated_at |-> 0, deadline |-> 0]
Idle    == [st |-> "idle", from |-> Never, at |-> 0, stamps |-> <<>>]
TaskStates == {"submitted", "working", "terminal"}

\* A query may ask for one state and for a change since a time.
AnyState == "any"
TaskListQuery ==
    [status : TaskStates \cup {AnyState}, statusTimestampAfter : Nat, pageSize : Nat]
NoQuery == [status |-> AnyState, statusTimestampAfter |-> 0, pageSize |-> 1]
Parses(query) == query \in TaskListQuery /\ query.pageSize \in 1..MaxListSize
Held    == {i \in Ids : task[i].st \in TaskStates}

Init ==
    /\ now = 0 /\ alarm = Never /\ timer = Never
    /\ task = [i \in Ids |-> NoTask]
    /\ stamps = [c \in Callers |-> <<>>] /\ prunedAt = Never /\ sweep = NoSweep
    /\ frame = [s \in Slots |-> Idle]
    /\ listing = [pc |-> "idle", query |-> NoQuery, cursor |-> <<>>,
                  listed |-> [i \in Ids |-> 0], steady |-> {}]
-----------------------------------------------------------------------------
\* The allowance.  A caller's key holds the times of its charged frames.
ReadLiveStamps(c, t) == SelectSeq(stamps[c], LAMBDA at : t - at < Window)

\* A sweep looks at a bounded number of keys after its cursor and deletes the
\* stale ones; it is over when it saw fewer keys than it may look at.
KeysAfter(k) == {c \in Callers : stamps[c] # <<>> /\ c > k}
Looked(k) == {c \in KeysAfter(k) :
                Cardinality({d \in KeysAfter(k) : d < c}) < PageSize * MaxPages}
Stale(c, t) == ReadLiveStamps(c, t) = <<>>
SweepIsDue(t) == sweep # NoSweep \/ prunedAt = Never \/ t - prunedAt >= PruneInterval
SweepLeft(seen, t) ==
    IF Cardinality(seen) < PageSize * MaxPages THEN NoSweep
    ELSE [cursor |-> Max(seen), due |-> t + ContinueDelay]

PruneStaleKeys(t) ==
    IF ~SweepIsDue(t)
    THEN [stamps |-> stamps, at |-> prunedAt, sweep |-> sweep]
    ELSE LET seen == Looked(sweep.cursor) IN
         [stamps |-> [c \in Callers |-> IF c \in seen /\ Stale(c, t) THEN <<>> ELSE stamps[c]],
          at |-> t, sweep |-> SweepLeft(seen, t)]

RecordHit(c, live, t) ==
    LET pruned == PruneStaleKeys(t) IN
    /\ stamps' = [pruned.stamps EXCEPT ![c] = Append(live, t)]
    /\ prunedAt' = pruned.at /\ sweep' = pruned.sweep

ContinueMaintenance(t) ==
    IF sweep = NoSweep \/ sweep.due > t THEN UNCHANGED allowance
    ELSE LET pruned == PruneStaleKeys(t) IN
         stamps' = pruned.stamps /\ prunedAt' = pruned.at /\ sweep' = pruned.sweep

\* The earliest of what the object waits for.  Whether an audit intent or a
\* lease waits too is HandleDO's; here one may at any time.
ScheduleTasksOnly(ts, sw) ==                                       \* mutant
    \E other \in {{}, {now + AuditRetry}} :
      LET times == {ts[i].deadline : i \in {j \in Ids : ts[j].st \in TaskStates}} \cup other
      IN alarm' = IF times = {} THEN alarm ELSE Min(times)
ScheduleNextAlarm(ts, sw) ==
    \E other \in {{}, {now + AuditRetry}} :
      LET times == {ts[i].deadline : i \in {j \in Ids : ts[j].st \in TaskStates}}
                     \cup (IF sw = NoSweep THEN {} ELSE {sw.due}) \cup other
      IN alarm' = IF times = {} THEN alarm ELSE Min(times)

-----------------------------------------------------------------------------
\* A caller's frame: webSocketMessage of do.ts.  A frame over the limit, of a
\* wrong shape, or met by no listener changes nothing.
Arrives(s, c) ==
    /\ now <= LastFrame /\ frame[s] = Idle
    /\ Len(ReadLiveStamps(c, now)) < HourlyLimit

Waits(s, c, st) ==
    frame' = [frame EXCEPT ![s] = [st |-> st, from |-> c, at |-> now,
                                   stamps |-> ReadLiveStamps(c, now)]]

Stored(c, durable) ==
    \E i \in Ids :
      /\ task[i] = NoTask
      /\ task' = [task EXCEPT ![i] =
           [st |-> "submitted", durable |-> durable, from |-> c, created_at |-> now,
            updated_at |-> now,
            deadline |-> now + (IF durable THEN MailboxTtl ELSE CallTimeout)]]

\* Charged, although it is refused for its size.
Oversized(s, c) ==
    /\ Arrives(s, c)
    /\ RecordHit(c, ReadLiveStamps(c, now), now)
    /\ ScheduleNextAlarm(task, sweep')
    /\ UNCHANGED <<now, task, frame, timer, listing>>

\* To the listener: charged, stored, and announced after the D1 wait.
LiveFrame(s, c) ==
    /\ Arrives(s, c)
    /\ RecordHit(c, ReadLiveStamps(c, now), now)
    /\ Stored(c, FALSE)
    /\ Waits(s, c, "ring")
    /\ UNCHANGED <<now, alarm, timer, listing>>

LiveAnnounced(s) ==
    /\ frame[s].st = "ring"
    /\ ScheduleNextAlarm(task, sweep)
    /\ frame' = [frame EXCEPT ![s] = Idle]
    /\ UNCHANGED <<now, task, allowance, timer, listing>>

\* To the mailbox: stored first, charged only after the D1 wait, with the
\* stamps read before it; a full mailbox charges at once.
Outstanding == {i \in Held : task[i].durable /\ task[i].st # "terminal"}
DurableFrame(s, c) ==
    /\ Arrives(s, c)
    /\ Cardinality(Outstanding) < MaxOutstanding
    /\ Stored(c, TRUE)
    /\ Waits(s, c, "charge")
    /\ UNCHANGED <<now, allowance, alarm, timer, listing>>

DurableRefused(s, c) ==
    /\ Arrives(s, c)
    /\ Cardinality(Outstanding) >= MaxOutstanding
    /\ RecordHit(c, ReadLiveStamps(c, now), now)
    /\ UNCHANGED <<now, task, alarm, frame, timer, listing>>

DurableCharged(s) ==
    /\ frame[s].st = "charge"
    /\ RecordHit(frame[s].from, frame[s].stamps, frame[s].at)
    /\ ScheduleNextAlarm(task, sweep')
    /\ frame' = [frame EXCEPT ![s] = Idle]
    /\ UNCHANGED <<now, task, timer, listing>>
-----------------------------------------------------------------------------
\* The listener's frames move a call, or a lease is given back; HandleDO models
\* how.  What the list of tasks shows is the state and the time of the change.
\* Only a change with audit evidence flushes, and schedules.
TaskMoves(i) ==
    /\ task[i].st \in {"submitted", "working"}
    /\ \E st \in TaskStates \ (IF task[i].st = "working" THEN {"submitted"} ELSE {}) :
         task' = [task EXCEPT ![i].st = st, ![i].updated_at = now]
    /\ task' # task
    /\ ScheduleNextAlarm(task', sweep) \/ UNCHANGED alarm
    /\ UNCHANGED <<now, allowance, frame, timer, listing>>

PurgeAt(t) == t.created_at + MailboxTtl + TombstoneTtl
AfterDeadline(t) ==
    IF t.durable /\ (t.st # "terminal" \/ now < PurgeAt(t))
    THEN [t EXCEPT !.deadline = PurgeAt(t), !.st = "terminal",
                   !.updated_at = IF t.st = "terminal" THEN @ ELSE now]
    ELSE [t EXCEPT !.st = "deleted"]

AlarmFires ==
    /\ timer = Never /\ alarm # Never /\ alarm <= now
    /\ task' = [i \in Ids |-> IF i \in Held /\ task[i].deadline <= now
                              THEN AfterDeadline(task[i]) ELSE task[i]]
    /\ timer' = now /\ alarm' = Never
    /\ UNCHANGED <<now, allowance, frame, listing>>

AlarmEnds ==
    /\ timer # Never
    /\ ContinueMaintenance(timer)
    /\ ScheduleNextAlarm(task, sweep')
    /\ timer' = Never
    /\ UNCHANGED <<now, task, frame, listing>>
-----------------------------------------------------------------------------
\* The list of tasks: newest first, one page per request.  The token of a page
\* names the last task shown by its sort key, signed for this one query.
KeyByUpdate(i) == <<task[i].updated_at, i>>                        \* mutant
SortKey(i) == <<task[i].created_at, i>>
Precedes(k, l) == k[1] > l[1] \/ (k[1] = l[1] /\ k[2] < l[2])

Visible(query) ==
    {i \in Held : /\ task[i].from = Lister
                  /\ query.status \in {AnyState, task[i].st}
                  /\ task[i].updated_at >= query.statusTimestampAfter}
Remaining(query, cursor) ==
    {i \in Visible(query) : cursor = <<>> \/ Precedes(cursor, SortKey(i))}
Selected(rest, size) ==
    {i \in rest : Cardinality({j \in rest : Precedes(SortKey(j), SortKey(i))}) < size}
LastOf(page) == CHOOSE i \in page : \A j \in page \ {i} : Precedes(SortKey(j), SortKey(i))

\* "steady" are the tasks that every page so far could have shown; it and the
\* counts in "listed" are the reader's, kept to state what it can rely on.
Page(query, cursor, listed, steady) ==
    LET rest == Remaining(query, cursor)
        page == Selected(rest, query.pageSize) IN
    /\ listing' = [pc |-> IF rest = page THEN "done" ELSE "reading",
                   query |-> query,
                   cursor |-> IF rest = page THEN <<>> ELSE SortKey(LastOf(page)),
                   listed |-> [i \in Ids |-> IF i \in page THEN listed[i] + 1 ELSE listed[i]],
                   steady |-> steady]
    /\ UNCHANGED <<now, task, allowance, alarm, frame, timer>>

FirstPage ==
    /\ listing.pc = "idle"
    /\ \E query \in Queries :
         Parses(query) /\ Page(query, <<>>, [i \in Ids |-> 0], Visible(query))

\* The token carries the query: another one is refused.
NextPage ==
    /\ listing.pc = "reading"
    /\ Page(listing.query, listing.cursor, listing.listed,
            listing.steady \cap Visible(listing.query))
-----------------------------------------------------------------------------
\* The clock waits for handlers and alarms that are Lag late.
Tick ==
    /\ now < MaxTime
    /\ \A s \in Slots : frame[s] # Idle => now - frame[s].at < Lag
    /\ timer # Never => now - timer < Lag
    /\ alarm # Never => now - alarm < Lag
    /\ now' = now + 1
    /\ UNCHANGED <<task, allowance, alarm, frame, timer, listing>>

Frames(s) == \E c \in Callers : \/ Oversized(s, c) \/ LiveFrame(s, c)
                                \/ DurableFrame(s, c) \/ DurableRefused(s, c)

Next ==
    \/ \E s \in Slots : Frames(s) \/ LiveAnnounced(s) \/ DurableCharged(s)
    \/ \E i \in Ids : TaskMoves(i)
    \/ AlarmFires \/ AlarmEnds \/ FirstPage \/ NextPage \/ Tick

Spec == Init /\ [][Next]_vars

\* The runtime delivers an armed alarm and answers or ends every D1 wait.
FairSpec ==
    /\ Spec
    /\ WF_vars(AlarmFires) /\ WF_vars(AlarmEnds) /\ WF_vars(Tick)
    /\ \A s \in Slots : WF_vars(LiveAnnounced(s) \/ DurableCharged(s))
=============================================================================
