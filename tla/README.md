# AgentCall in TLA+

Models, model-checking runs and proofs for AgentCall: a relay that connects
coding agents by encrypted calls, and the command-line client that places and
answers them. Paths are relative to the repository; where a file's name is
enough, its directory is left out (`apps/relay/src`, `packages/cli/src`,
`packages/shared/src`).

## 1. The system

| Component | State | Operations | Talks to |
|---|---|---|---|
| **Handle object** `do.ts`, `task-store.ts` (one Durable Object per handle) | `call:` records, `queue:` and `due:` indexes, the active durable call, `dedupe:` and `quota:` records, `start:` stamps, the `audit:` outbox, the credential floor, one alarm; sockets with attachments; cancellation waiters in memory | a listener or caller connects; a caller's frame is admitted to the mailbox or forwarded; listener frames accepted / started / cancelled / not_cancelled / rejected / outcome; CancelTask; eviction; alarm | caller and listener sockets, D1 (authority reads, audit batches), its own storage |
| **Call lifecycle** `call-lifecycle.ts` | none (a function of the record) | begin, advance, terminate, expire | used by the handle object |
| **Call rate limit** `call-rate-limit.ts` | hit stamps per caller, a prune cursor | record, paged prune | storage and alarm of the handle object |
| **Task list** `task-store.ts` | none (a query over `call:` records and a page token) | first page, next page | storage of the handle object |
| **Public-endpoint limiter** `ratelimit/do.ts` | a counter per key | hit, alarm | routes of `index.ts` |
| **Recovery** `recovery.ts`, `commands/recovery.ts` | credentials and their generation, receipts and pending evictions in D1; the pending file and the configuration of a machine | issue, redeem, resume, rotate, evict, drain | D1, the handle object's credential floor |
| **Keys** `keys.ts` (relay and client), `api.ts` | published records by epoch in D1; per-epoch files of a profile | elect, publish, retire, retain, open by epoch | D1, files |
| **Invites, registration** `invites.ts`, `index.ts` | invites and handles in D1 | create, preview, revoke, register | D1 |
| **Audit** `audit.ts`, `audit-retention.ts`, `events.ts` | `org_events`, the retention policy, holds, the acknowledgement | page, acknowledge, change the policy, hold, release, trim | D1 |
| **Listener** `listener.ts`, `listener-stages.ts`, `queue.ts` | the socket, a serial queue of one running job | incoming_call, cancel_call, reconnect, stop | the handle object, the journal, the agent |
| **Execution journal** `execution-journal.ts` | a durable record per durable call: claimed, started, terminal | claim, start, end | a locked file |
| **Replay store**, **file lock** `replay-store.ts`, `file-lock.ts` | reservations of request ids; a lock file | reserve; acquire, release | files |
| **Outbound jobs**, **call client** `outbound-jobs.ts`, `call-client.ts` | one record per durable submission | remember, acknowledge, forget, open a result | the handle object, a locked file |
| **Contexts** `contexts.ts`, `contexts-out.ts` | bindings of conversations | admit, upsert, prune | files |
| **Known peers** `known-peers.ts` | pinned identities and epochs | verify and pin, reset | a locked file, relay keys |
| **Runner, guard, policy, scope** | none that lasts | run an agent, allow a tool call, resolve a task | child processes, files |
| **Shared protocol** `packages/shared` | none | schemas, envelopes, signatures | both sides |

What is hard. The relay's handlers are single-threaded but not atomic: they let
each other in wherever they wait for D1, and a handler's D1 calls are separate
transactions. The object may stop between any two storage operations and loses
its sockets and waiters; it has one alarm for many kinds of deadline. A lease
can run out while its holder is at work; a listener may die anywhere and is
offered its work again; submissions are retried; calls end in six ways that
race. On the client every command is a process of its own, and they share
files, some under a lock, some by creating a file that must not exist yet. A
recovery's answer may be lost after it replaced the only credential.
`PROJECT.json` lists these hazards line by line.

What makes it correct, in short. A call ends once and leaves evidence of every
transition; limits count what exists; indexes, timers and records agree; a
retry finds its call; work is with at most one listener and is given up when
it must be; everything admitted is ended and purged; evidence reaches D1 in
order, is exported exactly and deleted only when it was; a listener never runs
the same durable call twice. An epoch has one key, the published chain has no
gaps, and mail can be opened as long as it may arrive. An invite enrols one
account, a recovery code is consumed once and its new credential is on disk,
and a replaced credential stays out. What a command reports as queued it can
open later.

## 2. Modules

| Module | What it is |
|---|---|
| `CallLifecycle` | the abstract promise: phase and audit trail of each call |
| `HandleDO` | the handle object, one action per event, D1 answer or stage of a handler |
| `HandleDOProperties` | its types, invariants, action and liveness properties, the refinement of `CallLifecycle`, and the three claims that fail, `RetryIsOneCall`, `RevalidatedBeforeLease`, `StartBudget` |
| `HandleDOProofs` | types, the audit outbox, the timer and idempotency indexes, what a step does to one call (deliveries, deadlines, the refinement of `CallLifecycle`) and to the mailbox's counters, proved |
| `HandleDOHandlerProofs` | what a handler carries over a wait, proved: the order of audit rows, the queue and the delivery slot, the alarm |
| `CallerRequests`, `CallerRequestsProperties` | the hourly allowance with its cleaning, and the task list, in the handlers of the object that use them; the claim that fails, `HourlyBudget` |
| `CallerRequestsProofs` | the pages of the task list, proved |
| `Listener` | the listener: one action per stretch of a message callback between two awaits, the queue, the journal, the replay store, the conversations, the agents' processes |
| `ListenerProperties` | its types, invariants, action and liveness properties, the inductive invariant of at-most-once execution; the claim that fails, `CancelledGroupGone` |
| `ListenerProofs` | types, the single agent, at-most-once execution, what the frames to the relay stand for and what the bindings keep, proved |
| `KeyRing`, `KeyRingProperties` | the encryption epochs of a profile: files, elections, publication, the relay's compare-and-swap, peers' mail |
| `KeyRingProofs` | their inductive invariant and the four properties, proved |
| `Accounts`, `AccountsProperties` | invites, registration, rotation, recovery, and the object's eviction of old credentials |
| `AccountsProofs` | types and its five invariants, proved |
| `AuditTrail`, `AuditTrailProperties` | the export, acknowledgement, policy, holds and trim of an organisation's audit trail; their types, properties and the inductive invariants of the controls and of the export; the claim that fails, `UpdateTakesEffect` |
| `AuditTrailProofs` | types, the controls' events, the acknowledgement, the export's pages and what retention may delete, proved |
| `OutboundCalls`, `OutboundCallsProperties` | the caller's commands over the files of pinned peers and outbound jobs; their types, properties and the inductive invariant of the job store |
| `OutboundCallsProofs` | types and its three safety properties, proved |
| `MC...` | definitions for TLC's instances |

A definition whose comment ends in "mutant" is the next one with a plausible
bug. No run and no proof uses it; putting it in the place of the one it mutates
makes a property fail.

### How `HandleDO` corresponds to the code

*Handlers.* A `Handlers` slot is an event being processed. Its `todo` is the
sequence of stages left, and its other fields are the local variables that live
across a wait (`candidate`, the flush's `batch`, the alarm's `keys` and
`timedOut`). Durable Object storage holds the input gate shut, so another event
is let in only when every running handler waits for D1 (`GateOpen`): at stage
`flush` (`db.batch` of `flushAuditOutbox`) or `authority`
(`durableAuthorityIsCurrent`). Everything else runs through, stage by stage, and
`Crash` may fall between any two stages. One stage is one storage transaction,
or one run of storage operations nothing can come between.

*State.* `task[c]` is the `call:` record, with `delivery_state` "live" for a
synchronous call (the code leaves the field out) and "absent" for no record.
`queue` and `due` are sets of `<<time, call>>` keys, ordered as `storage.list`
orders them. The audit outbox is the set of intents, whose key order is
`IntentBefore`. `rows[c][e]` is the rank of the D1 row id of an event among its
call's rows: only the order within a call is kept. `session` and `capable` are
the listener socket's attachment. What a socket's query overrides is a constant:
`TimeoutMs` of a caller's socket, which carries one call, bounds that call's
`execute_by` and its live timeout; `LeaseMs` and `ExecutionMs` of a listener's
session bound its leases and executions. So two queued calls may run out in
another order than they were admitted in. `seen[c]` is the last frame the call's caller
socket was sent.

*Actions.* `SubmitDurable` and `SubmitLive` are the two ways of a caller's
frame; `CallAccepted` to `CallNotCancelled` the listener's frames; `Cancel*` is
CancelTask; `AlarmFires` starts `alarm()`, whose stages are
`RecoverExpiredLease`, `ExpireTask` for each due key, a flush, `Redispatch`,
`Rearm`. `dispatchNext` is `Rebind`, `ConsiderHead`, `SkipHead`, the authority
answers, and `LeaseHead` or `NothingToLease`. `Terminate` is what
`persistTaskWithAudit` and the inlined transactions do on every transition to a
terminal state.

*Frames that change nothing* (a refused guard, a known message id answered with
its receipt, a digest conflict, a full mailbox, an offline callee) are not
steps.

*Kept elsewhere:* the rate-limit stamps and their maintenance alarm are in
`CallerRequests`, the credential floor in `Accounts`, the trim of old D1 rows in
`AuditTrail`. *Not modelled:* the caller closing its own socket, frames still in
flight from a replaced listener socket, the cap on the runtime's alarm retries,
a negative or fractional `test_timeout_ms`.
A lease is identified by its session; the random lease id that also tells two
leases of one session apart is left out, which lets the model accept a late
frame the code would refuse, so what holds here holds with the id. A revoked
record keeps the model's current `state` field where the code writes the one it
read earlier; nothing reads it again.

### How `CallerRequests` corresponds to the code

*Handlers.* As in `HandleDO`, a handler runs to its next D1 wait. In a caller's
frame the wait is the flush of the audit outbox, after the record is stored:
`LiveFrame` (charge, store) and `LiveAnnounced`; `DurableFrame` (store) and
`DurableCharged` (charge, with `frame[s].stamps`, the stamps read when the frame
arrived, do.ts:913). `Oversized` is charged although it is refused.
`DurableRefused` is charged and does not schedule: the records that fill the
mailbox have deadlines, which keep an alarm armed. `AlarmFires` runs to the
flush of `alarm()`, `AlarmEnds` continues the cleaning and schedules.

*The alarm.* `ScheduleNextAlarm` takes the earliest of the deadlines, the
cleaning's continuation, and possibly an "other" time, for an audit intent or
lease that may wait there as well; those are `HandleDO`'s and may be present at
any time here. D1 answers in this module. A failed flush, which sets the one
alarm 30 s ahead over an earlier continuation, and a crash between storing the
cursor and setting the alarm on the oversized path, which leaves the
continuation to the next event, are not steps here.

*The list.* A page is one step: it waits only for storage. The token is the
sort key of the last task shown and carries its query. `listed` and `steady`
are the reader's own counts. Ids are numbers: the code orders them by
`localeCompare` and compares tokens by `>`, which agree on UUIDs.

*Frames refused* by the limit, by their shape, or for want of a listener change
nothing and are not steps.

### How `Listener` corresponds to the code

*Callbacks.* A `Slots` element is one run of the socket's asynchronous message
callback (listener.ts:172-515), from `incoming_call` to its return. `pc` is the
await at which it stands: opening the envelope (key fetch), the lock of the
replay store or of the journal (`reserving`, `claiming`, `starting`,
`marking`), the agent (`running`), sealing. `admitting` and `spawning` are the
turns of the event loop after a lock. Between two awaits a callback is one
step, because JavaScript runs it so; another callback, a cancellation, a
reconnect or a stop may come at each.

*Job.* A job is the same callback, from `tryEnqueue` on: the product builds the
queue with `maxPending` 0, so an enqueued job begins at once and a busy queue
refuses. `running` is the slot the queue runs, `aborted` its signal.
`Leave` is the return of a callback, which ends `drain`'s turn when it was the
job.

*Errors.* Every await has its failing answer, with the catch that takes it:
`StoreFails` and `ClaimFull` reach the outer catch (call_rejected),
`MarkStartedFails` the job's journal error, `SealFails` the sender's own catch
(the answer is dropped), `MarkTerminalFails` the job's catch, which answers a
reply again as a failure, or the outer one. A failure nobody caused is a
`Fault`, bounded by `MaxFailures` together with crashes and stops.

*Time.* `at` is the `now` a callback took before its last lock. `Tick` does not
pass `at + LockWait` for callbacks in `ShortWaits`: `withFileLock` gives up
after its wait (file-lock.ts:45), and the turns of the event loop are
shorter. The agent, the key fetch and the marking of the end may take any time.

*Outside.* `processes` are the agents and what they start in their process
group. They are detached, so they outlive a crash. `wire` is what the last step
sent; a frame sent while the socket is down is lost, as `send` swallows the error.
The relay's deliveries are unordered repetitions with a new lease each.

*Not modelled of the listener:* a frame that contradicts its envelope, two
ciphertexts under one call id (both are rejected before the journal changes),
several callers of one conversation, the bound on a reservation's future
(replay-store.ts:64: the model reserves what the code would refuse), the call log, telemetry, pings, the
backoff of reconnects. A conversation's session id is not told apart from its
binding.

### How `KeyRing` corresponds to the code

*Files.* A profile's directory is `file`: for each epoch a state (the private
key, later its tombstone), the copy retained for the mailbox, the record signed
for publication, and the marker that the relay took it. Each is a slot the first
writer wins: `Enter` creates the election lock `lock` (a directory), `Write`
writes and removes it, and who finds the slot taken reads it. A process that
dies in between leaves the lock, and the slot empty, partial or whole; others
then `GiveUp` after their wait. A tombstone, and the removal of a retained copy,
are plain writes. That removal takes no election lock, so it can unlink the
copy another process has created and is still writing (`Unlinked`); the file is
then gone, and only a failed or interrupted write leaves its lock behind. This
takes a third process, which the run does not have: the proofs cover it.

*Processes.* `proc[p]` is a command at one read, write or request, with the
values it read before: the loading of the newest epoch, `keys rotate` with its
evictions, a publication, and a call that reserves a job for a sender key.
Nothing locks the whole operation, so two commands interleave at every file.

*Relay and peers.* `relay` is the table of records: it takes a record of a later
epoch than any it has, or its latest again, and does not look at the link to the
record before (`PutEncryptionKey`), so that `ChainUnbroken` is the client's work
alone. A peer fetches the latest record and seals mail to it (`FetchKeys`,
`SealAndSend`), which waits at most `MailboxTtl`. `mail[s].current` says that the
profile had not elected a later epoch when the peer fetched; only such mail is
promised a key.

*Left out:* key contents, signatures, file modes, the identity's own rotation
proof, and a directory restored from a backup. A lock left without a file is
waited for like any other; the code may take the slot for absent.

### How `Accounts` corresponds to the code

*Requests.* `req[r]` is a handler of the relay at one of its D1 calls, with the
values it read before; each call, or batch, is one action (`LookUpInvite`,
`Enrol`; `FindReceipt`, `ReadRow`, `Commit`, `Refind`, `Evict`, `ClearJob`). A
request, its handler or its answer may be lost at any of them (`Lose`), and a
batch may report an error although it was applied (`CommitFails`).

*Machines.* `config[m]` and `pending[m]` are a machine's two files, written in
the order of commands/recovery.ts: the candidate and the successor code before
the request, the configuration before the pending file is removed. `saved` are
the recovery codes a person has kept. `Crash` may fall anywhere in a command.

*The object.* `floor` is the least generation a handle's object admits, `socket`
the generation of its listener. A listener is authenticated by the Worker
(`Connect`) and accepted by the object later (`Attach`).

*What the model shows and no property forbids.* A lost answer to a registration
uses up the invite, and one to a rotation loses the token; both have to be
repaired by hand. A redemption resumed after its receipt's seven days is refused
and its pending file stays. Another machine that replays an old receipt is told
that it recovered. Issuing a recovery code raises the generation, which revokes
what that account has queued. Only the object of the recovered handle evicts:
sockets the account holds as a caller of other handles stay.

*Left out:* rate limits, open registration without an invite, the waiting
between eviction attempts, the signature of a code.

### How `AuditTrail` corresponds to the code

*Ledgers.* `org` are the rows of `org_events`, `RosterRows` the
historical ledger, which nothing changes any more. `Record` inserts a row and trims to the newest
`MaxEvents` in the batch of the change it tells of. Rows of calls arrive as
`HandleDO` delivers them, later than the time they carry.

*Changes.* A request about the policy, a hold or a release runs through its reads
and one batch; its statements are conditional on each other (`Swaps`, `Carries`,
the unique indexes of holds), and a batch may fail, rolled back or not
(`BatchFails`). An administrator may ask again with the same id, for the same
change or for another, and two may use one id at the same time. `logged` keeps,
for each id, every event that was ever recorded with its key. The event of a
policy change is inserted where its request is stored and the ledger has no
event with its key (`RecordOnce`), as the code has it: a batch that comes late,
after the trim took the first event, records a second one.

*The policy is set once.* The statement that swaps the policy takes its row from
`SELECT ... WHERE ? = 0`, with the expected version for the parameter
(audit.ts:415). For a later version it has no row, and `ON CONFLICT DO UPDATE`
has nothing to do: `Swaps` asks for both conditions. Every later update is
refused (section 5).

*Export.* `StartExport` takes the checkpoint; `ReadPage` and `CheckPage` are a
page's two reads, the second of which counts the checkpoint's rows again. The
last page hands out a receipt, which `Acknowledge` takes in any order and any
number of times. `Eligible` and `Readiness` are the answers of
`audit-retention.ts`.

*What the model shows and no property forbids.* The second of two concurrent
requests with one id may be told of a conflict although the change was made.
The trim looks neither at holds nor at acknowledgements. An export of an
organisation that exceeds `MaxEvents` between two pages starts over. A change of
the policy may have two events in its history, of which the ledger never has
both.

### How `OutboundCalls` corresponds to the code

*Commands.* `cmd[c]` is a process: its lookup of a peer, `verifyAndPinPeer`, the
job's reservation, the sending of its frame, and the callbacks of its socket
until it reports. `copy` is what it read of a file inside the lock; a write is
made from that copy. `Take` creates the sidecar lock of a file or waits,
`TimesOut` is the deadline of `withFileLock`, and a lock whose owner died is
removed by a person only (`RemoveLock`).

*Callbacks.* The queued receipt, the outcome and errors are handled in order, but
the close event and the timer come between a handler's waits, as in
call-client.ts. `report` is the first thing the user is told.

*Relay.* `mail[c]` is what became of the message: queued, rung through to a
listener, answered, refused. A durable message may be answered live. The relay
closes a socket after its last frame (`wire`); a connection may be lost at any
time.

*What the model shows and no property forbids.* A job whose receipt was lost
stays `pending`: nothing sends it again, and without a task id its result cannot
be opened. The order of section 5 (`OnClose` before `Acknowledge`).

*Left out:* signatures and the validity of a key, streams, cancellation, the
caller's own conversation file (`contexts-out.ts`, a read and a write without a
lock), the wording of trust labels. `known_peers.json` is replaced without an
fsync; the loss of a completed write, and a write that fails inside a locked
file, are not modelled. `OutboundCalls`, `KeyRing` and `CallerRequests` give all
messages one `MailboxTtl`, the most a message may have.

## 3. Model-checking runs

| Run | Instance | Shows |
|---|---|---|
| `mailbox` | one call, durable or synchronous, two sessions with different leases and execution timeouts, two delivery attempts, one failure, a TTL of 2, a tombstone of 1 | `AuditOrder`, `DueExact`, `DedupeExact`, `AlarmArmed`; `SubmissionProtected`, `OneDelivery`, `DeadlineNotExtended`, `NoIntentLost`; refinement of `CallLifecycle` (`LifecycleKept`) |
| `two` | two durable calls with different timeouts, a budget of one start, one delivery attempt | `QuotaExact`, `DeliveryStatesAgree` |
| `liveness` | one durable call under fairness, rejections included, one failure | `EveryCallEnds`, `AuditDelivered` |
| `journal` | listener: two durable calls, each delivered twice, two callbacks, one crash, stop or fault, a journal of one record, the second call issued when the first is about to be forgotten | `AtMostOnce`, `OneAgent`, `JournalFirst`, `ConversationKept` |
| `conversation` | listener: a durable call and a synchronous one that resumes its conversation, each delivered twice, no fault, fairness | `Answered`, `QueueFrees` |
| `keyring` | two processes, three operations, three epochs of which two are kept live, one crash, one sender | `EpochAgrees`, `ChainUnbroken`, `RefusedOnlyIfSuperseded`, `MailOpens` |
| `accounts` | two machines, handles, invites and concurrent requests, four secrets, one fault | `InviteEnrolsOne`, `ConsumedOnce`, `CandidateKept`, `EvictionKept`, `NoStaleListener` |
| `audit` | two administrators, two policy requests, one hold and its release, one exporter with pages of one row, a roster row, a ledger of one row, one fault | `ExportExact`, `EligibleExported`, `ChangesAudited`, `AcknowledgedNeverBack` |
| `versions` | two administrators, two ids of each kind of request, no export | finds `UpdateTakesEffect` violated (section 5) |
| `outbound` | two commands, two addresses, room for one pin and one job, one fault, fairness | `ResultOpens`, `SentIsRecorded`, `PinsForward`, `EveryCommandReports` |
| `callers` | two callers, two frames at a time, two calls, an allowance of one, a cleaning of one key a turn, fairness | `ListingExact`, `SweepDrains` |
| `hourly` | two callers, three calls, an allowance of one | finds `HourlyBudget` violated (section 5) |

`TypeOK` of `HandleDO`, `Listener`, `KeyRing`, `Accounts`, `AuditTrail` and
`OutboundCalls` is not a property of a run: it is proved for every instance (section 4).

*Bounds of the handle object:* `MaxTime` (the clock), `MaxSessions` (listener
connections), `MaxFailures` (crashes and D1 errors together) and `LastSubmit`
(when callers stop). Two handler slots are enough for every two-party race
over one D1 wait. The bounds reach every action and every outcome of
`expireTask`: with a TTL above the lease a call can be leased, run out, be
leased again and start; with `MaxTime` at TTL plus tombstone it is purged. One
call suffices for what concerns a record and its indexes; the slot, the budget
and the queue order need the second call of `two`, which gives up the tombstone
for it.

*Bounds of the listener:* the clock (`MaxTime`), the deliveries of a call
(`MaxDeliveries`) and the faults (`MaxFailures`). Two callbacks are enough for a
call to meet its own duplicate or another call at every await, and two
deliveries for a call to return after each of its states. With `MaxTime` at the
end of a record's life, claims, starts and purges meet at the boundary
`LockWait` moves. A journal and a replay store of one record are full as soon as
they are used.

*Bounds of the others.* Races here are of two parties, so each has two. `KeyRing`:
`MaxOps` three commands, so that a publication meets two rotations, or a
rotation two others; with two live epochs the second rotation considers an
eviction. `Accounts`:
`MaxSecret` four secrets make a registration, a code, a redemption and a
rotation or second redemption. `AuditTrail`: with
`MaxEvents` one, `MaxId` three lets the trim take a row of a checkpoint, and the
event of a change before a late batch records it again; one roster row makes a
second ledger. `MaxAhead` zero lets a request expect every version that was or is;
the proofs have any. `OutboundCalls`: with one place each for pins and jobs the second
command finds the file full, or the first record expired. `CallerRequests`: with
two keys and one looked at per turn, every cleaning is continued once;
`LastFrame` ends the callers' frames, which lets the stamps grow stale before
`MaxTime`, and `Lag` says how late a handler or alarm may be.

The clocks, faults and operations are bounded, so each of these systems may
stop, and `CHECK_DEADLOCK` is off.

*Fairness of the handle object* (`FairSpec`): the runtime resumes handlers and D1 answers
(`WF Continue`), an alarm that is due runs (`WF AlarmFires`), and time passes
however busy the object is (`SF Tick`, which is disabled while a handler runs
through). Callers, listeners and cancellations have none, and failures are
bounded by `MaxFailures`: liveness owes nothing to a listener.

*Fairness of the listener:* `WF Proceed(h)`, a callback's await is settled. Locks
and key fetches time out, and `runAgent` arms a timer that ends in SIGKILL, so
every await of the code has a bound. Deliveries, cancellations, connections and
time itself have no fairness. `Answered` excuses an answer that nobody can
receive or that cannot be sealed any more, and nothing else.

*Fairness of the commands* (`OutboundCalls`): `WF Step(c)`, a living process
runs: its timer fires, its lock waits end, its socket's frames are handled. The
relay and the person who removes locks have none, so `EveryCommandReports` rests
on the command's own timers.

*Fairness of `CallerRequests`:* an armed alarm is delivered and its handler ends,
a D1 wait ends, time passes. Callers have none: `SweepDrains` holds without
another frame.

## 4. Proofs

TLAPS checks, of the handle object, for every value of the constants allowed by
`HandleDOAssumption`, that is for any number of calls, callers, sessions and
handlers running at one time:

| Theorem | Statement |
|---|---|
| `TypeCorrect` | `Spec => []TypeOK` |
| `IntentsReachD1` | `Spec => NoIntentLost` |
| `TimersMatchRecords` | `Spec => []DueExact` |
| `KeysMatchRecords` | `Spec => []DedupeExact` |
| `SubmissionsProtected` | `Spec => SubmissionProtected` |
| `DeadlinesKept` | `Spec => DeadlineNotExtended` |
| `DeliveredOnce` | `Spec => OneDelivery` |
| `LifecycleImplemented` | `Spec => LifecycleKept`, the refinement of `CallLifecycle` |
| `QuotaIsExact` | `Spec => []QuotaExact` |
| `AuditInOrder` | `Spec => []AuditOrder` |
| `DeliveryAgrees` | `Spec => []DeliveryStatesAgree` |
| `AlarmIsArmed` | `Spec => []AlarmArmed` |

*The outbox.* `FlushInv` is the inductive invariant of the first two. Types alone do not say
that what a handler deletes after its wait was sent: `Stored` says a batch
marked stored has its rows in D1, and a batch is always part of what the outbox
held, so `FlushDone` can only delete intents that D1 has. `KeysPast` says an
alarm's list holds only keys of the past, which is what lets `ExpireTask` drop
a key whose call is not due. `Finite` says the outbox and batches are finite,
which `FirstIntents` and row ids count on.

*The indexes.* `IndexInv` adds `DueExact`, `DedupeExact` and `IssuedExist` (a record's id has
been drawn): without the last, an admission could overwrite a record and leave
its timer behind. Each record change is one of few kinds (same record,
rewritten record with its timer, transition to terminal, deletion), each a
lemma, and each action cites one. `SubmissionProtected` follows because only
`Purge` clears a key and `Purge` waits for `PurgeAt`.

*One call.* `HandleDOProofs` then lists what a step can do to one call
(`Begun`, `Answered`, `Started`, a lease, a requeue, an end, a purge, or
nothing), shows that every action is of that list, and proves the rest from the
list alone. `RecordInv` says that a durable call keeps its mailbox deadline
until it starts, so that the start, the one change that moves a deadline, moves
it earlier; and that a queued call has no lease running and an attempt left. The
refinement maps a record to a phase and the outbox with D1's rows to a trail;
`TrailFits` says which events a phase has behind it, and a flush only moves
events from the one to the other.

*The counters.* `QuotaExact` says the counters equal what the records say, so that
the code's clamp at zero never hides a share given back twice. Each change of a record (an admission, a
delivery, a revocation, an end, a purge, or one that leaves the call's share
alone) takes one call into, out of or leaves it in the set each counter counts,
and the library's facts on `Cardinality` do the rest. `RecordInv` is what keeps a share from being given back twice: a
record's share is released exactly when the call is over. The bytes are a sum
over calls; `BytesKept` writes the sum as the cardinality of a set with one
member per byte, so that it needs no recursion.

*What a handler carries over a wait.* `AuditInv` says that a batch contains, with
an intent, all older ones of its call that D1 does not have: `FirstIntents`
takes them in order, and an intent made during the wait is newer. `StageInv`
says that a wait or a lease is never but the next stage of a handler, that only
one handler is at a stage that is not a wait, and that an alarm's stages end in
setting the alarm. On it rest `QueueInv` (the queue, the slot and the records
name the same calls) and the alarm's invariant: each step sets the alarm close
enough for anything, or adds nothing the alarm does not cover, or computes it
afresh, and `alarm()` alone is excused until its last stage.

Of the listener, for every value allowed by `ListenerAssumption`:

| Theorem | Statement |
|---|---|
| `ListenerTyped` | `Spec => []TypeOK` |
| `OneAgentAtATime` | `Spec => []OneAgent` |
| `StartedAtMostOnce` | `Spec => []AtMostOnce` |
| `JournaledFirst` | `Spec => JournalFirst` |
| `ConversationsKept` | `Spec => ConversationKept` |

`OneAgent` needs the part of `TypeOK` that ties a callback in its job to
`running`. `AtMostOnce` is not inductive: the journal and the replay store
forget, so that a call is not started twice depends on nobody still waiting to
start it when they do. `OnceInv` says so. `WaitsInTime` bounds how long after
its request's end a callback can wait before it claims, is admitted or starts;
`RecordsOutlive` says that a record is kept for at least two lock waits after
that end; `DurableOnce` and `LiveOnce` that a started call is in its store, or
that this time is over. The step that purges (`ClaimNew`, `Reserve`) is where
they meet: what it drops nobody waits for. The argument uses two facts about
the durations, stated in `ListenerAssumption`: a lock wait is at most the
tolerated clock difference (10 s, 2 min), and both together are less than the
time a record is kept after its mailbox time (24 h). `JournalFirst` adds
`AdmittedRecorded`: no purge reaches a call between its claim and its start.

`ConversationKept` rests on `ContextsInv`: a job that will save has loaded what is
still on disk, because the queue runs one job and only jobs save; and the list
on disk has one binding for each conversation, none of the future, and is within
the cap, so that loading it drops bindings by age alone. The lists are
reasoned about by what they hold (`PickedIs`, `PruneIs`, `UpsertIs`). A filter is
written without recursion for this: `Picked` puts the members at a set of places
in their order, the place of each being the number of those below it.

Of the key ring, for every value allowed by `KeyRingAssumption`, that is for any
number of processes, peers and epochs:

| Theorem | Statement |
|---|---|
| `RingInvariant` | `Spec => []RingInv`, of which `TypeOK` is a part |
| `EpochsAgree` | `Spec => []EpochAgrees` |
| `ChainIsUnbroken` | `Spec => []ChainUnbroken` |
| `RefusalsJustified` | `Spec => []RefusedOnlyIfSuperseded` |
| `MailStaysOpen` | `Spec => []MailOpens` |

`RingInv` says how files that are written once carry what processes know over
their interleavings. `FilesAgree`: whatever names an epoch's key names the key of
its state; a state is linked to the relay's record of the epoch before; a marker
is the relay's record, and that is the one elected for publication.
`Remembered`: what a process read is still so when it acts on it, with one
clause for each of its waits (`Stage`), and an epoch it means to retire is not
the last. `Owned`: a slot being written is its writer's alone and still partial,
unless a retained copy was unlinked under it. `KeysHeld`: a private key that was
given up is retained or was evicted. `MailInTime`: a frame is sealed within
`SendDelay` of the fetch and lasts `MailboxTtl`, and a copy retained meanwhile
outlasts it, because the copy's time is reckoned from a rotation that cannot
precede the fetch. The comparison it needs, that a frame's delay is within the
allowance the code adds to the mailbox time, is in the assumption.

Of the accounts, for every value allowed by `AccountsAssumption`, that is for
any number of machines, handles, invites, requests and secrets:

| Theorem | Statement |
|---|---|
| `AccountsTyped` | `Spec => []TypeOK` |
| `InvitesEnrolOne` | `Spec => []InviteEnrolsOne` |
| `RecoveryConsumesOnce` | `Spec => []ConsumedOnce` |
| `RecoveryEvicts` | `Spec => []EvictionKept` |
| `EvictedStaysOut` | `Spec => []NoStaleListener` |
| `CandidateStaysOnDisk` | `Spec => []CandidateKept` |

Three facts strengthen the first four. `ReceiptsPast`: a receipt's generation is behind its
row's, so the batch of another redemption, which compares the generation,
neither consumes it again nor replaces its eviction by an older one.
`ClearsAfterFloor`: a handler that clears a job has raised the floor to it, so
what it clears is done, and a later recovery's job has another generation.
`OpenIsUnspent`: an invite that can still be used has enrolled nobody, which is
what makes the batch of `Enrol` exclusive. `TypeOK` carries the part that ties a
waiting command to its request.

`CandidateKept` needs an invariant of its own, `CandidateInv`, because what can
break it is an answer that reaches a machine late: it would write an older
credential over the one in force, or let the pending file go too early. The
argument is by generations. A proof is written down once, with the handle and
the generation it is to reach (`SavedOnce`). Whatever shows that a recovery was
committed (a receipt, a granted request, a recovered token in a configuration)
shows that the relay has reached its generation, and that a recovered token in
force is of that generation or later (`ReceiptsReached`, `GrantsReached`,
`ConfigsReached`). A request that can still be granted is of a candidate on a
disk, or of a generation that is over (`CandidatesWritten`); a command is the
only one that waits for its request (`OwnRequest`) and still has what it asked
with (`TokenExpected`, `ReceiptExpected`). The hard case is a second recovery
begun on a machine whose configuration already has a later recovered token: its
candidate is of an older generation, so it is not granted and never will be
(`PendingLater`, `Hopeless`), and its answer replaces nothing. The step lemmas
follow what a step does to the credentials (a turn, a drop, a new request, an
answer received, a row written), and the last lemmas show that every action is
one of them.

Of the caller's commands, for every value allowed by `OutboundAssumption`, that
is for any number of commands, addresses and bundles and any room in the files:

| Theorem | Statement |
|---|---|
| `OutboundTyped` | `Spec => []TypeOK` |
| `QueuedResultOpens` | `Spec => []ResultOpens` |
| `SentMessagesRecorded` | `Spec => []SentIsRecorded` |
| `PinsMoveForward` | `Spec => PinsForward` |

They rest on `JobsInv`. `LocksHeld`: a command inside a file's operation holds
its lock, and the copy it read is still the file, so what it writes back loses
nobody's change. `FramesTrue`: a frame, or the stage that handles it, tells what
the relay has done, so that only a job whose call is over is forgotten.
`JobsMatch`: a job is kept at least as long as its message, so that what another
command's reservation trims nobody can still collect. `Unmade` keeps a record
from being there before its command made it. `Recorded` and `StaysOpen` are the
two properties with the stages in which they are about to hold.

Of the audit trail, for every value allowed by `AuditAssumption`, that is for any
number of administrators, requests and exports and any limits:

| Theorem | Statement |
|---|---|
| `AuditTyped` | `Spec => []TypeOK` |
| `ChangesAreAudited` | `Spec => []ChangesAudited` |
| `AcknowledgementsForward` | `Spec => AcknowledgedNeverBack` |
| `ExportsAreExact` | `Spec => []ExportExact` |
| `EligibleIsExported` | `Spec => []EligibleExported` |

`ChangesAudited` ties the policy in force to its last request's row, which is
what lets a request that swapped nothing be told from the one that did, whatever
id it has; a stored request, a hold and a release are each tied to the ids of
their events. It is strengthened by `KeysGiven`: the next event has an id that no
key has, so the one that is recorded again is another than the first. A checkpoint's positions are numbers only because the trim
keeps the newest event (`NewestKept`), which gives a trimmed ledger its greatest
id.

The export rests on `ExportInv`. The order of the rows is total, so a finite set
of them is sorted in exactly one way (`OrderedIs`): a row's place is the number
of rows ahead of it, and these numbers are an injection into as many places.
`Captured`: what the ledgers still have of a checkpoint is part of what it
counted, since new rows get new ids and the trim only takes; so a checkpoint
whose counts still hold has all its rows (`CompleteIsAll`). `WasRead`: a page
that waits for its check was read from at least what is there at the check,
which, if the counts hold, is everything. `PageAdds`: what was handed out is the
sorted rows up to the cursor's position, a page appends the next ones, and the
last page completes them. A receipt, and the acknowledgement made from
one, then have all that is left of their checkpoint (`ReceiptsInv`, `AckedInv`),
and a row at or below the acknowledged ids is one of these, whenever it is asked.

Of the task list, for every value allowed by `CallerRequestsAssumption`, that is
for any number of calls, callers and handlers and any page size:

| Theorem | Statement |
|---|---|
| `ListingIsExact` | `Spec => []ListingExact` |

Its invariant follows one listing over its pages. The key a listing is sorted by
(the time of creation, then the id) never changes while the task is there. What
was listed is not after the cursor (`Passed`), so nothing is listed twice; what
was there at every page and is not listed yet is after it (`Awaited`), so
nothing is left out, although calls are admitted, change their state and are
purged between the pages. That a page holds the first tasks after the cursor is,
as above, a lemma on the number of members ahead.

Assumptions: `HandleDOAssumption` (types of the constants, a finite set of call
ids, limits of at least one where the code's are), `ListenerAssumption` (types
and the two comparisons of durations), `KeyRingAssumption` (types; a mailbox time
and limits of at least one; a frame's delay within the allowance),
`AccountsAssumption` and `OutboundAssumption` (types;
a bundle's epoch is positive), `CallerRequestsAssumption` (types,
callers and call ids being numbers; limits and durations of the cleaning and the
list of at least one), `AuditAssumption` (types; the request ids of the
three kinds are different, each kind having its own table and event keys; the
roster ledger is finite and has a newest row). Nothing is
assumed of the relay's time but that it is a natural number; that the listener's
short waits end in time is `Tick`'s guard.

A least or greatest member of a set of numbers is taken from the library's
well-foundedness of `<` on the naturals, which can be cited as it is. An
induction theorem cannot: it takes an operator as its parameter.

*Model-checked only:* liveness (`EveryCallEnds`, `AuditDelivered`, `Answered`,
`QueueFrees`, `EveryCommandReports`, `SweepDrains`), which the prover cannot do:
it does not reason about ENABLED, which fairness is made of. Every invariant and
every action property of the passing runs is proved. `RetryIsOneCall`,
`RevalidatedBeforeLease`, `StartBudget`, `HourlyBudget`, `CancelledGroupGone` and
`UpdateTakesEffect` are false of the code (section 5).

## 5. Where code and text disagree

Shown by a run:

* `HourlyBudget`: a mailbox call is charged after a D1 wait with the stamps read
  before it (do.ts:913, 986). Another frame of the same caller in between is
  admitted over the limit, and its charge is overwritten; docs/spec/v1.md:182
  says the limits must be enforced.
* `UpdateTakesEffect`: a retention policy can be set once (audit.ts:415); every later
  update is answered 409 "retention policy version changed" with the version it
  expected. docs/security/audit-retention.md:43 says updates are accepted with
  optimistic versions. No test updates a policy a second time.

Stated in the properties modules, and refuted by TLC in an instance of section 3
when they are added to its configuration:

* `RetryIsOneCall` (`two` with `LiveMessages = {m1}`): a durable frame forwarded to
  a connected listener leaves no idempotency record (do.ts:997), so its retry is
  another call; docs/spec/v1.md:212 says a retry must not create a second call.
* `RevalidatedBeforeLease` (`two`): `dispatchNext` checks the head's authority and
  remaining time (do.ts:649, 654), waits for D1, and leases the head it then finds
  (do.ts:660). A call that came to the head during the wait is leased unchecked;
  as each caller's socket may set a shorter timeout, perhaps with less time than
  one execution.
  docs/site/guides/tasks-and-policy.mdx:76 says queued work is revalidated before
  lease.
* `StartBudget` (`two` with `TimeoutMs <- NoTimeout`): the daily budget of starts
  is checked before the same wait (do.ts:640) and by nothing after it. Two
  dispatches that wait together lead to two starts where one was left;
  docs/spec/v1.md:182 and 196.
* `CancelledGroupGone` (`journal`): a cancelled run settles on the exit of the
  spawned process and disarms SIGKILL (runner.ts:575), so call_cancelled is sent
  while another process of the group runs; docs/spec/v1.md:140 wants the group
  observed exited, and listener.ts:442 says that it is gone.

Read in the code and reproducible in the models, without a property of their own:

* `advanceCall` sends `call_status` after its audit flush, so a later frame's
  status can overtake it (do.ts:851, 891).
* Any alarm during started work rebinds it for the session that already runs it
  (do.ts:602, 1222). That listener's journal then answers "indeterminate" and
  the running answer's lease is stale.
* A request issued ahead of the listener's clock, within the two minutes allowed,
  is run; its answer, issued by the listener's clock and valid to the request's
  end, is longer-lived than a response may be, so it cannot be sealed and is
  dropped (listener-stages.ts:165, shared/src/e2ee.ts:117).
* A redemption that stops between writing the configuration and removing the
  pending file (commands/recovery.ts:227, 228), and is resumed after a rotation,
  writes its dead candidate over the live token;
  docs/superpowers/specs/2026-08-02-credential-lifecycle.md:326 says retries
  cannot "return silently dead credentials".
* The relay closes a caller's socket after the queued receipt. While the receipt
  waits for the job store's lock, the close handler reports connection_failed
  (call-client.ts:337-339) for a call that is queued; the command's exit says so
  although README.md:161-162 promises success with a task id.
* The object stopping between an outcome's transaction and `finishDurableTask`
  (do.ts:1126) leaves the terminal call in the one delivery slot until its purge,
  up to four days later.

## 6. Not modelled, and what is left

* *Public-endpoint limiter* (`ratelimit/do.ts`): one counter and one alarm per
  key, without a partner.
* *Policy, scope, guard, redaction, doctor, setup, services, command line,
  schemas, cryptography, cards, presence, the A2A surface:* pure decisions,
  formatting or terminal I/O. Their results are inputs of the models (an envelope
  opens or not, a task is admitted or refused, a bundle is one the peer signed).
* *The loss of a completed write* (a missing fsync, a restored
  disk), clocks that go backward, and administrators who edit files while a
  command runs.

What the plan has left, in order:

1. The composition of the handle object and the listener: the fate of an answer
   whose lease was replaced, and the indeterminate answer after a restart, as
   one system under an abstract delivery protocol.
2. A proof of the composition, by the invariants of the two parts.
3. The composition of `OutboundCalls` with the admission of `HandleDO`, in place
   of its summary of the relay.
4. Bounded responses of the limiter object and of the eviction drain.
