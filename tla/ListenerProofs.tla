--------------------------- MODULE ListenerProofs ---------------------------
(***************************************************************************)
(* What is proved of the listener for any calls, callbacks and durations   *)
(* that ListenerAssumption allows: its types, that it runs one agent at a  *)
(* time, that it starts an agent at most once for a call, that it confirms *)
(* a cancellation only after the agent's exit, and that a conversation     *)
(* loses no turn to another job.                                           *)
(***************************************************************************)
EXTENDS ListenerProperties, FiniteSetTheorems, SequenceTheorems, TLAPS

\* Facts about the constants the leaves use.
LEMMA Constants ==
    /\ NoCall \notin Calls /\ NoSlot \notin Slots /\ Durable \subseteq Calls
    /\ MailboxTtl \in Nat /\ RelayCallTimeout \in Nat /\ TombstoneTtl \in Nat
    /\ Skew \in Nat /\ LockWait \in Nat /\ Issued \in [Calls -> Nat]
    /\ LockWait <= Skew /\ Skew + 2 * LockWait <= TombstoneTtl
BY ListenerAssumption

\* The empty callback is one.
LEMMA IdleType == Idle \in HandlerType /\ Idle.pc = "idle"
BY DEF Idle, HandlerType, PCs, Outcomes

\* A request's end is a time.
LEMMA ExpiresType == \A c \in Calls : Expires(c) \in Nat
BY Constants DEF Expires, Validity

\* Every handler step rewrites one callback.
LEMMA SlotType ==
    ASSUME TypeOK, NEW h \in Slots
    PROVE  /\ handler[h] \in HandlerType
           /\ handler[h].pc \in PCs /\ handler[h].call \in Calls \cup {NoCall}
           /\ handler[h].at \in Nat /\ handler[h].lease \in Nat
           /\ handler[h].outcome \in Outcomes
           /\ handler[h].pc # "idle" => handler[h].call \in Calls
<1>1. handler[h] \in HandlerType  BY DEF TypeOK
<1> QED  BY <1>1 DEF HandlerType, TypeOK, At, Call

\* What a handler step does to the callbacks: h's moves on, in its call, or
\* returns; the others stay.
Others(h) == \A g \in Slots \ {h} : handler'[g] = handler[g]
Moves(h, pc, at) ==
    /\ handler' \in [Slots -> HandlerType] /\ Others(h)
    /\ handler'[h].pc = pc /\ handler'[h].at = at
    /\ handler'[h].call = handler[h].call
Returns(h) ==
    /\ handler' \in [Slots -> HandlerType] /\ Others(h)
    /\ handler'[h].pc = "idle"

\* Setting a callback's record.
LEMMA SetSlot ==
    ASSUME TypeOK, NEW h \in Slots, NEW r \in HandlerType,
           handler' = [handler EXCEPT ![h] = r]
    PROVE  handler' \in [Slots -> HandlerType] /\ Others(h) /\ handler'[h] = r
BY DEF TypeOK, Others

\* Its next await.
LEMMA GoToMoves ==
    ASSUME TypeOK, NEW h \in Slots, NEW pc \in PCs, GoTo(h, pc)
    PROVE  Moves(h, pc, handler[h].at)
<1> DEFINE r == [handler[h] EXCEPT !.pc = pc]
<1>1. handler[h] \in HandlerType  BY SlotType
<1>2. handler' = [handler EXCEPT ![h] = r]  BY DEF TypeOK, GoTo
<1>3. r \in HandlerType /\ r.pc = pc /\ r.at = handler[h].at /\ r.call = handler[h].call
  BY <1>1 DEF HandlerType
<1> QED  BY <1>2, <1>3, SetSlot DEF Moves

\* The sealing of an outcome.
LEMMA SealMoves ==
    ASSUME TypeOK, NEW h \in Slots, NEW outcome \in Outcomes, Seal(h, outcome)
    PROVE  Moves(h, "sealing", handler[h].at)
<1> DEFINE r == [handler[h] EXCEPT !.pc = "sealing", !.outcome = outcome]
<1>1. handler[h] \in HandlerType  BY SlotType
<1>2. handler' = [handler EXCEPT ![h] = r]  BY DEF TypeOK, Seal
<1>3. /\ r \in HandlerType /\ r.pc = "sealing" /\ r.at = handler[h].at
      /\ r.call = handler[h].call
  BY <1>1 DEF HandlerType, PCs
<1> QED  BY <1>2, <1>3, SetSlot DEF Moves

\* A step that also notes the time.
LEMMA TimedMoves ==
    ASSUME TypeOK, NEW h \in Slots, NEW pc \in PCs,
           handler' = [handler EXCEPT ![h].pc = pc, ![h].at = now]
    PROVE  Moves(h, pc, now)
<1> DEFINE r == [handler[h] EXCEPT !.pc = pc, !.at = now]
<1>1. handler[h] \in HandlerType /\ now \in Nat  BY SlotType DEF TypeOK
<1>2. handler' = [handler EXCEPT ![h] = r]  BY DEF TypeOK
<1>3. r \in HandlerType /\ r.pc = pc /\ r.at = now /\ r.call = handler[h].call
  BY <1>1 DEF HandlerType
<1> QED  BY <1>2, <1>3, SetSlot DEF Moves

\* The end of a callback frees the queue if it was the job.
LEMMA LeaveReturns ==
    ASSUME TypeOK, NEW h \in Slots, NEW frames, Leave(h, frames)
    PROVE  /\ Returns(h)
           /\ running' \in Slots \cup {NoSlot} /\ aborted' \in BOOLEAN
           /\ running' = running \/ (running = h /\ running' = NoSlot)
<1>1. handler' = [handler EXCEPT ![h] = Idle]  BY DEF Leave
<1>2. Returns(h)  BY <1>1, SetSlot, IdleType DEF Returns
<1>3. running' \in Slots \cup {NoSlot} /\ aborted' \in BOOLEAN  BY DEF Leave, TypeOK
<1>4. running' = running \/ (running = h /\ running' = NoSlot)  BY DEF Leave
<1> QED  BY <1>2, <1>3, <1>4

\* The types of the callbacks and of the queue.
HandlersOK ==
    /\ handler \in [Slots -> HandlerType]
    /\ \A h \in Slots : ~At(h, "idle") => Call(h) \in Calls
    /\ running \in Slots \cup {NoSlot}
    /\ \A h \in Slots : handler[h].pc \in JobPCs => running = h

\* A callback that moves on keeps them.
LEMMA MovesType ==
    ASSUME TypeOK, NEW h \in Slots, ~At(h, "idle"), NEW pc, NEW at, Moves(h, pc, at),
           \/ running' = running \/ (running = NoSlot /\ running' = h),
           pc \in JobPCs => running' = h
    PROVE  HandlersOK'
<1>1. running' \in Slots \cup {NoSlot}  BY DEF TypeOK
<1>2. \A g \in Slots : handler'[g].pc # "idle" => handler'[g].call \in Calls
  BY DEF Moves, Others, TypeOK, At, Call
<1>3. \A g \in Slots : handler'[g].pc \in JobPCs => running' = g
  <2> SUFFICES ASSUME NEW g \in Slots, handler'[g].pc \in JobPCs
               PROVE  running' = g
    OBVIOUS
  <2>1. CASE g = h  BY <2>1 DEF Moves
  <2>2. CASE g # h
    <3>1. running = g  BY <2>2 DEF TypeOK, Moves, Others
    <3> QED  BY <3>1, Constants
  <2> QED  BY <2>1, <2>2
<1> QED  BY <1>1, <1>2, <1>3 DEF HandlersOK, Moves, At, Call

\* So does one that returns.
LEMMA ReturnsType ==
    ASSUME TypeOK, NEW h \in Slots, Returns(h),
           running' = running \/ (running = h /\ running' = NoSlot)
    PROVE  HandlersOK'
<1>1. running' \in Slots \cup {NoSlot}  BY DEF TypeOK
<1>2. \A g \in Slots : handler'[g].pc # "idle" => handler'[g].call \in Calls
  BY DEF Returns, Others, TypeOK, At, Call
<1>3. \A g \in Slots : handler'[g].pc \in JobPCs => running' = g
  <2> SUFFICES ASSUME NEW g \in Slots, handler'[g].pc \in JobPCs
               PROVE  running' = g
    OBVIOUS
  <2>1. g # h  BY DEF Returns, JobPCs
  <2>2. running = g  BY <2>1 DEF TypeOK, Returns, Others
  <2> QED  BY <2>1, <2>2
<1> QED  BY <1>1, <1>2, <1>3 DEF HandlersOK, Returns, At, Call
-----------------------------------------------------------------------------
(* Types.                                                                  *)

\* What of the types is not about callbacks.
RestOK ==
    /\ aborted \in BOOLEAN
    /\ journal \in [Calls -> RecordType] /\ reserved \subseteq Calls
    /\ processes \subseteq Calls \X {"agent", "child"}
    /\ spawned \in [Calls -> Nat] /\ failures \in Nat

\* A fault is counted.
LEMMA FaultType ==
    ASSUME TypeOK, Fault \/ NoFault
    PROVE  failures' \in Nat
BY DEF TypeOK, Fault, NoFault

\* A record of the journal changes its state.
LEMMA RecordedType ==
    ASSUME TypeOK, NEW c \in Calls, NEW state \in {"started", "terminal"},
           Recorded(c, state)
    PROVE  /\ journal' \in [Calls -> RecordType]
           /\ journal'[c].state = state
           /\ journal'[c].purge_after = journal[c].purge_after
           /\ \A d \in Calls \ {c} : journal'[d] = journal[d]
<1> DEFINE r == [journal[c] EXCEPT !.state = state]
<1>1. journal[c] \in RecordType  BY DEF TypeOK
<1>2. journal' = [journal EXCEPT ![c] = r]  BY DEF TypeOK, Recorded
<1>3. r \in RecordType /\ r.state = state /\ r.purge_after = journal[c].purge_after
  BY <1>1 DEF RecordType
<1>4. journal' \in [Calls -> RecordType] /\ journal'[c] = r
      /\ \A d \in Calls \ {c} : journal'[d] = journal[d]
  BY <1>2, <1>3 DEF TypeOK
<1> QED  BY <1>3, <1>4

\* The records a claim keeps are records.
LEMMA KeptType ==
    ASSUME TypeOK, NEW t \in Nat
    PROVE  /\ KeptRecords(t) \in [Calls -> RecordType]
           /\ \A c \in Calls : KeptRecords(t)[c] \in {journal[c], NoRecord}
<1>1. NoRecord \in RecordType  BY DEF NoRecord, RecordType
<1> QED  BY <1>1 DEF KeptRecords, TypeOK

\* A started agent is a process.
LEMMA SpawnedType ==
    ASSUME TypeOK, NEW c \in Calls, Spawned(c)
    PROVE  /\ processes' \subseteq Calls \X {"agent", "child"}
           /\ spawned' \in [Calls -> Nat]
           /\ spawned'[c] = spawned[c] + 1
           /\ \A d \in Calls \ {c} : spawned'[d] = spawned[d]
BY DEF TypeOK, Spawned

\* Every step of a callback up to its job keeps the types.
LEMMA AcceptType ==
    ASSUME TypeOK, NEW h \in Slots, Accept(h)
    PROVE  HandlersOK' /\ RestOK'
<1>t. handler[h].at \in Nat /\ (~At(h, "idle") => Call(h) \in Calls)
  BY SlotType DEF At, Call
<1>p. {"opening", "claiming", "reserving", "admitting", "sealing"} \subseteq PCs
      /\ {"blocked", "context_unknown", "busy", "indeterminate"} \subseteq Outcomes
  BY DEF PCs, ShortWaits, Outcomes
<1>j. {"claiming", "reserving", "admitting", "sealing"} \cap JobPCs = {}
  BY DEF JobPCs
<1>r. ASSUME Reject(h), ~At(h, "idle"), UNCHANGED <<disk, world>>, Fault \/ NoFault
      PROVE  HandlersOK' /\ RestOK'
  <2>1. Leave(h, {Frame("call_rejected", h, "protocol_error")})  BY <1>r DEF Reject
  <2>2. HandlersOK' /\ aborted' \in BOOLEAN  BY <2>1, LeaveReturns, ReturnsType
  <2>3. failures' \in Nat  BY <1>r, FaultType
  <2> QED  BY <1>r, <2>2, <2>3 DEF RestOK, TypeOK, disk, world
<1>s. ASSUME NEW o \in {"blocked", "context_unknown", "busy", "indeterminate"},
             Seal(h, o), ~At(h, "idle"), UNCHANGED <<queue, disk, world>>, NoFault
      PROVE  HandlersOK' /\ RestOK'
  <2>1. Moves(h, "sealing", handler[h].at)  BY <1>s, <1>p, SealMoves
  <2>2. running' = running  BY <1>s DEF queue
  <2>3. HandlersOK'  BY <1>s, <1>j, <2>1, <2>2, MovesType
  <2>4. failures' \in Nat  BY <1>s, FaultType
  <2> QED  BY <1>s, <2>3, <2>4 DEF RestOK, TypeOK, queue, disk, world
<1>1. CASE OpenEnvelope(h)
  <2> DEFINE pc == IF Call(h) \in Durable THEN "claiming" ELSE "reserving"
  <2>1. pc \in PCs /\ pc \notin JobPCs  BY <1>p, <1>j
  <2>2. handler' = [handler EXCEPT ![h].pc = pc, ![h].at = now]
    BY <1>1 DEF OpenEnvelope
  <2> HIDE DEF pc
  <2>3. Moves(h, pc, now)  BY <2>1, <2>2, TimedMoves
  <2>4. ~At(h, "idle") /\ running' = running /\ NoFault
    BY <1>1 DEF OpenEnvelope, At, queue
  <2>5. HandlersOK'  BY <2>1, <2>3, <2>4, MovesType
  <2>6. failures' \in Nat  BY <2>4, FaultType
  <2> QED  BY <1>1, <2>5, <2>6 DEF OpenEnvelope, RestOK, TypeOK, queue, disk, world
<1>2. CASE OpenFails(h)
  BY <1>2, <1>r DEF OpenFails, At
<1>3. CASE Reserve(h)
  <2>1. Moves(h, "admitting", handler[h].at) /\ ~At(h, "idle") /\ running' = running
    BY <1>3, <1>p, GoToMoves DEF Reserve, At, queue
  <2>2. HandlersOK'  BY <1>j, <2>1, MovesType
  <2>3. failures' \in Nat  BY <1>3, FaultType DEF Reserve
  <2>4. reserved' \subseteq Calls
    BY <1>3, <1>t DEF Reserve, KeptReservations, TypeOK, At
  <2> QED  BY <1>3, <2>2, <2>3, <2>4 DEF Reserve, RestOK, TypeOK, queue, world
<1>4. CASE ReserveRefused(h)
  BY <1>4, <1>r DEF ReserveRefused, At
<1>5. CASE ClaimNew(h)
  <2>1. Moves(h, "admitting", handler[h].at) /\ ~At(h, "idle") /\ running' = running
    BY <1>5, <1>p, GoToMoves DEF ClaimNew, At, queue
  <2>2. HandlersOK'  BY <1>j, <2>1, MovesType
  <2>3. failures' \in Nat  BY <1>5, FaultType DEF ClaimNew
  <2>4. PurgeAfter(handler[h].at) \in Nat  BY <1>t, Constants DEF PurgeAfter
  <2>5. journal' \in [Calls -> RecordType]
    BY <1>5, <1>t, <2>4, KeptType DEF ClaimNew, RecordType
  <2> QED  BY <1>5, <2>2, <2>3, <2>5 DEF ClaimNew, RestOK, TypeOK, queue, world
<1>6. CASE ClaimAgain(h)
  <2>1. Moves(h, "admitting", handler[h].at) /\ ~At(h, "idle") /\ running' = running
    BY <1>6, <1>p, GoToMoves DEF ClaimAgain, At, queue
  <2>2. HandlersOK'  BY <1>j, <2>1, MovesType
  <2>3. failures' \in Nat  BY <1>6, FaultType DEF ClaimAgain
  <2> QED  BY <1>6, <2>2, <2>3 DEF ClaimAgain, RestOK, TypeOK, queue, disk, world
<1>7. CASE ClaimIndeterminate(h)
  BY <1>7, <1>s DEF ClaimIndeterminate, At
<1>8. CASE ClaimFull(h)
  BY <1>8, <1>r DEF ClaimFull, At
<1>9. CASE StoreFails(h)
  BY <1>9, <1>r DEF StoreFails, At
<1>10. CASE RefusedByPolicy(h)
  BY <1>10, <1>s DEF RefusedByPolicy, At
<1>11. CASE RefusedContext(h)
  BY <1>11, <1>s DEF RefusedContext, At
<1>12. CASE RefusedBusy(h)
  BY <1>12, <1>s DEF RefusedBusy, At
<1> QED  BY <1>1, <1>2, <1>3, <1>4, <1>5, <1>6, <1>7, <1>8, <1>9, <1>10, <1>11,
            <1>12 DEF Accept

\* Every step of a job keeps the types.
LEMMA RunJobType ==
    ASSUME TypeOK, NEW h \in Slots, RunJob(h)
    PROVE  HandlersOK' /\ RestOK'
<1>t. ~At(h, "idle") => Call(h) \in Calls
  BY SlotType DEF At, Call
<1>p. {"starting", "spawning", "running", "sealing"} \subseteq PCs
      /\ {"delivery_failed", "reply", "failed", "context_unknown"} \subseteq Outcomes
      /\ "sealing" \notin JobPCs
  BY DEF PCs, ShortWaits, Outcomes, JobPCs
<1>s. ASSUME NEW o \in {"delivery_failed", "reply", "failed", "context_unknown"},
             Seal(h, o), ~At(h, "idle"), UNCHANGED <<queue, journal, reserved, spawned>>,
             processes' \subseteq processes, Fault \/ NoFault
      PROVE  HandlersOK' /\ RestOK'
  <2>1. Moves(h, "sealing", handler[h].at)  BY <1>s, <1>p, SealMoves
  <2>2. running' = running  BY <1>s DEF queue
  <2>3. HandlersOK'  BY <1>s, <1>p, <2>1, <2>2, MovesType
  <2>4. failures' \in Nat  BY <1>s, FaultType
  <2> QED  BY <1>s, <2>3, <2>4 DEF RestOK, TypeOK, queue
<1>e. ASSUME NEW pc \in {"starting", "running"}, Enqueued(h, pc)
      PROVE  HandlersOK' /\ aborted' \in BOOLEAN /\ failures' \in Nat
  <2>1. Moves(h, pc, now)  BY <1>e, <1>p, TimedMoves DEF Enqueued
  <2>2. ~At(h, "idle") /\ running = NoSlot /\ running' = h /\ aborted' = FALSE /\ NoFault
    BY <1>e DEF Enqueued, At, Busy
  <2>3. HandlersOK'  BY <2>1, <2>2, MovesType
  <2>4. failures' \in Nat  BY <2>2, FaultType
  <2> QED  BY <2>2, <2>3, <2>4
<1>1. CASE EnqueueDurable(h)
  BY <1>1, <1>e DEF EnqueueDurable, Enqueued, RestOK, TypeOK, disk, world
<1>2. CASE EnqueueLive(h)
  <2>1. Call(h) \in Calls  BY <1>2, <1>t DEF EnqueueLive, Enqueued, At
  <2>2. /\ processes' \subseteq Calls \X {"agent", "child"}
        /\ spawned' \in [Calls -> Nat]
    BY <1>2, <2>1, SpawnedType DEF EnqueueLive
  <2>3. HandlersOK' /\ aborted' \in BOOLEAN /\ failures' \in Nat
    BY <1>2, <1>e DEF EnqueueLive
  <2> QED  BY <1>2, <2>2, <2>3 DEF EnqueueLive, Enqueued, RestOK, TypeOK, disk
<1>3. CASE MarkStarted(h)
  <2>1. Moves(h, "spawning", handler[h].at)  BY <1>3, <1>p, GoToMoves DEF MarkStarted
  <2>2. ~At(h, "idle") /\ running' = running /\ running = h /\ Call(h) \in Calls
    BY <1>3, <1>t DEF MarkStarted, At, queue, TypeOK, JobPCs
  <2>3. HandlersOK'  BY <2>1, <2>2, MovesType
  <2>4. failures' \in Nat  BY <1>3, FaultType DEF MarkStarted
  <2>5. journal' \in [Calls -> RecordType]
    BY <1>3, <2>2, RecordedType DEF MarkStarted
  <2> QED  BY <1>3, <2>3, <2>4, <2>5 DEF MarkStarted, RestOK, TypeOK, queue, world
<1>4. CASE MarkStartedFails(h)
  <2>1. Fault \/ NoFault  BY <1>4 DEF MarkStartedFails
  <2>2. UNCHANGED <<queue, journal, reserved, spawned>> /\ processes' \subseteq processes
    BY <1>4 DEF MarkStartedFails, disk, world
  <2> QED  BY <1>4, <1>s, <2>1, <2>2 DEF MarkStartedFails, At
<1>5. CASE Spawn(h)
  <2>1. Moves(h, "running", handler[h].at)  BY <1>5, <1>p, GoToMoves DEF Spawn
  <2>2. ~At(h, "idle") /\ running' = running /\ running = h /\ Call(h) \in Calls
    BY <1>5, <1>t DEF Spawn, At, queue, TypeOK, JobPCs
  <2>3. HandlersOK'  BY <2>1, <2>2, MovesType
  <2>4. failures' \in Nat  BY <1>5, FaultType DEF Spawn
  <2>5. /\ processes' \subseteq Calls \X {"agent", "child"}
        /\ spawned' \in [Calls -> Nat]
    BY <1>5, <2>2, SpawnedType DEF Spawn
  <2> QED  BY <1>5, <2>3, <2>4, <2>5 DEF Spawn, RestOK, TypeOK, queue, disk
<1>x. AgentExits(h) =>
         processes' \subseteq processes /\ UNCHANGED spawned /\ ~At(h, "idle")
  BY DEF AgentExits, At
<1>6. CASE AgentReplies(h)
  <2>1. Fault \/ NoFault  BY <1>6 DEF AgentReplies
  <2> QED  BY <1>6, <1>s, <1>x, <2>1 DEF AgentReplies
<1>7. CASE AgentFails(h)
  <2>1. UNCHANGED <<queue, journal, reserved>> /\ (Fault \/ NoFault)
    BY <1>7 DEF AgentFails, disk
  <2> QED  BY <1>7, <1>s, <1>x, <2>1 DEF AgentFails
<1>8. CASE ResumeGone(h)
  <2>1. Fault \/ NoFault  BY <1>8 DEF ResumeGone
  <2> QED  BY <1>8, <1>s, <1>x, <2>1 DEF ResumeGone
<1>9. CASE AgentCanceled(h)
  <2>1. Leave(h, {Frame("call_cancelled", h, "running")})  BY <1>9 DEF AgentCanceled
  <2>2. HandlersOK' /\ aborted' \in BOOLEAN  BY <2>1, LeaveReturns, ReturnsType
  <2>3. failures' \in Nat  BY <1>9, FaultType DEF AgentCanceled
  <2> QED  BY <1>9, <1>x, <2>2, <2>3 DEF AgentCanceled, RestOK, TypeOK, disk
<1> QED  BY <1>1, <1>2, <1>3, <1>4, <1>5, <1>6, <1>7, <1>8, <1>9 DEF RunJob

\* Every step of an answer keeps the types.
LEMMA AnswerType ==
    ASSUME TypeOK, NEW h \in Slots, Answer(h)
    PROVE  HandlersOK' /\ RestOK'
<1>t. ~At(h, "idle") => Call(h) \in Calls
  BY SlotType DEF At, Call
<1>p. {"sealing", "marking"} \subseteq PCs /\ "failed" \in Outcomes
      /\ "sealing" \notin JobPCs /\ "marking" \notin JobPCs
  BY DEF PCs, Outcomes, JobPCs
<1>l. ASSUME NEW frames, Leave(h, frames), UNCHANGED <<reserved, world>>,
             journal' \in [Calls -> RecordType], Fault \/ NoFault
      PROVE  HandlersOK' /\ RestOK'
  <2>1. HandlersOK' /\ aborted' \in BOOLEAN  BY <1>l, LeaveReturns, ReturnsType
  <2>2. failures' \in Nat  BY <1>l, FaultType
  <2> QED  BY <1>l, <2>1, <2>2 DEF RestOK, TypeOK, world
<1>1. CASE SealAndMark(h)
  <2>1. Moves(h, "marking", handler[h].at) /\ ~At(h, "idle") /\ running' = running
    BY <1>1, <1>p, GoToMoves DEF SealAndMark, At, queue
  <2>2. HandlersOK'  BY <1>p, <2>1, MovesType
  <2>3. failures' \in Nat  BY <1>1, FaultType DEF SealAndMark
  <2> QED  BY <1>1, <2>2, <2>3 DEF SealAndMark, RestOK, TypeOK, queue, disk, world
<1>2. CASE SealAndLeave(h)
  BY <1>2, <1>l DEF SealAndLeave, TypeOK, disk
<1>3. CASE SealFails(h)
  <2>1. Fault \/ NoFault  BY <1>3 DEF SealFails
  <2> QED  BY <1>3, <1>l, <2>1 DEF SealFails, TypeOK, disk
<1>4. CASE MarkTerminal(h)
  <2>1. journal' \in [Calls -> RecordType]
    BY <1>4, <1>t, RecordedType DEF MarkTerminal, At
  <2> QED  BY <1>4, <1>l, <2>1 DEF MarkTerminal
<1>5. CASE MarkTerminalFails(h)
  <2>1. Fault \/ NoFault  BY <1>5 DEF MarkTerminalFails
  <2>2. UNCHANGED <<reserved, world>> /\ journal' \in [Calls -> RecordType]
    BY <1>5 DEF MarkTerminalFails, TypeOK, disk
  <2>3. CASE \E frames : Leave(h, frames)  BY <1>l, <2>1, <2>2, <2>3
  <2>4. CASE Seal(h, "failed") /\ UNCHANGED queue
    <3>1. Moves(h, "sealing", handler[h].at)  BY <2>4, <1>p, SealMoves
    <3>2. ~At(h, "idle") /\ running' = running
      BY <1>5, <2>4 DEF MarkTerminalFails, At, queue
    <3>3. HandlersOK'  BY <1>p, <3>1, <3>2, MovesType
    <3>4. failures' \in Nat  BY <2>1, FaultType
    <3> QED  BY <2>2, <2>4, <3>3, <3>4 DEF RestOK, TypeOK, queue, world
  <2> QED  BY <1>5, <2>3, <2>4 DEF MarkTerminalFails, Reject
<1> QED  BY <1>1, <1>2, <1>3, <1>4, <1>5 DEF Answer

\* The types are invariant.
LEMMA TypeStep == TypeOK /\ [Next]_vars => TypeOK'
<1> SUFFICES ASSUME TypeOK, [Next]_vars PROVE TypeOK'
  OBVIOUS
<1>u. ASSUME UNCHANGED <<handler, running>> PROVE HandlersOK'
  BY <1>u DEF HandlersOK, TypeOK, At, Call
<1>q. ASSUME HandlersOK', RestOK', now' \in Nat, connected' \in BOOLEAN,
             stopped' \in BOOLEAN, deliveries' \in [Calls -> Nat]
      PROVE  TypeOK'
  BY <1>q DEF HandlersOK, RestOK, TypeOK
<1>1. CASE Tick
  BY <1>1, <1>u, <1>q DEF Tick, TypeOK, RestOK, queue, disk, world
<1>2. CASE Connect
  BY <1>2, <1>u, <1>q DEF Connect, TypeOK, RestOK, queue, disk, world
<1>3. CASE Disconnect
  BY <1>3, <1>u, <1>q DEF Disconnect, TypeOK, RestOK, queue, disk, world
<1>4. CASE Stop
  <2>1. failures' \in Nat  BY <1>4, FaultType DEF Stop
  <2> QED  BY <1>4, <2>1, <1>u, <1>q DEF Stop, TypeOK, RestOK, disk, world
<1>5. CASE Restart
  <2>1. failures' \in Nat  BY <1>5, FaultType DEF Restart
  <2>2. HandlersOK'
    BY <1>5, IdleType DEF Restart, HandlersOK, At, Call, JobPCs
  <2> QED  BY <1>5, <2>1, <2>2, <1>q DEF Restart, TypeOK, RestOK, disk, world
<1>6. CASE ProcessEnds
  BY <1>6, <1>u, <1>q DEF ProcessEnds, TypeOK, RestOK, queue, disk
<1>7. ASSUME NEW h \in Slots, Proceed(h) PROVE TypeOK'
  <2>1. HandlersOK' /\ RestOK'
    BY <1>7, AcceptType, RunJobType, AnswerType DEF Proceed
  <2> QED  BY <1>7, <2>1, <1>q DEF Proceed, TypeOK
<1>8. ASSUME NEW h \in Slots, NEW c \in Calls, Deliver(h, c) PROVE TypeOK'
  <2> DEFINE r == [Idle EXCEPT !.pc = "opening", !.call = c, !.lease = deliveries[c] + 1]
  <2>1. deliveries[c] + 1 \in Nat  BY DEF TypeOK
  <2>2. r \in HandlerType /\ r.pc = "opening" /\ r.call = c
    BY <2>1 DEF Idle, HandlerType, PCs, Outcomes
  <2>3. handler' = [handler EXCEPT ![h] = r]  BY <1>8 DEF Deliver
  <2> HIDE DEF r
  <2>4. handler' \in [Slots -> HandlerType] /\ Others(h) /\ handler'[h] = r
    BY <2>2, <2>3, SetSlot
  <2>5. HandlersOK'
    BY <1>8, <2>2, <2>4 DEF Deliver, Others, HandlersOK, TypeOK, At, Call, JobPCs, queue
  <2> QED  BY <1>8, <2>5, <1>q DEF Deliver, TypeOK, RestOK, queue, disk, world
<1>9. ASSUME NEW c \in Calls, CancelRunning(c) PROVE TypeOK'
  BY <1>9, <1>u, <1>q DEF CancelRunning, TypeOK, RestOK, disk, world
<1>10. ASSUME NEW c \in Calls, CancelUnknown(c) PROVE TypeOK'
  BY <1>10, <1>u, <1>q DEF CancelUnknown, TypeOK, RestOK, queue, disk, world
<1>11. ASSUME NEW c \in Calls, Forks(c) PROVE TypeOK'
  BY <1>11, <1>u, <1>q DEF Forks, TypeOK, RestOK, queue, disk
<1>12. CASE UNCHANGED vars
  BY <1>12, <1>u, <1>q DEF vars, TypeOK, RestOK, queue, disk, world
<1> QED  BY <1>1, <1>2, <1>3, <1>4, <1>5, <1>6, <1>7, <1>8, <1>9, <1>10, <1>11,
            <1>12 DEF Next

\* The initial state is typed.
LEMMA TypeInit == Init => TypeOK
<1> SUFFICES ASSUME Init PROVE TypeOK
  OBVIOUS
<1>1. handler \in [Slots -> HandlerType]  BY IdleType DEF Init
<1>2. \A h \in Slots : handler[h].pc = "idle"  BY IdleType DEF Init
<1>3. "idle" \notin JobPCs  BY DEF JobPCs
<1>4. journal \in [Calls -> RecordType]
  <2>1. NoRecord \in RecordType  BY DEF NoRecord, RecordType
  <2> QED  BY <2>1 DEF Init
<1>5. /\ spawned \in [Calls -> Nat] /\ deliveries \in [Calls -> Nat]
      /\ now \in Nat /\ failures \in Nat
  BY DEF Init
<1>6. /\ connected \in BOOLEAN /\ stopped \in BOOLEAN /\ aborted \in BOOLEAN
      /\ running \in Slots \cup {NoSlot}
      /\ reserved \subseteq Calls /\ processes \subseteq Calls \X {"agent", "child"}
  BY DEF Init
<1> QED  BY <1>1, <1>2, <1>3, <1>4, <1>5, <1>6 DEF TypeOK, At, Call

\* Memory and files keep their shapes, and a callback is in its job only while
\* the queue runs it (queue.ts drain).
THEOREM ListenerTyped == Spec => []TypeOK
<1> QED  BY TypeInit, TypeStep, PTL DEF Spec

\* One answering process at a time: jobs are only run by the queue.
THEOREM OneAgentAtATime == Spec => []OneAgent
<1>1. TypeOK => OneAgent
  <2> SUFFICES ASSUME TypeOK PROVE OneAgent
    OBVIOUS
  <2> DEFINE R == {h \in Slots : At(h, "running")}
  <2>1. R \subseteq {running}  BY DEF TypeOK, At, JobPCs
  <2>2. IsFiniteSet({running}) /\ Cardinality({running}) = 1  BY FS_Singleton
  <2>3. Cardinality(R) <= 1  BY <2>1, <2>2, FS_Subset
  <2> QED  BY <2>3 DEF OneAgent
<1> QED  BY <1>1, ListenerTyped, PTL

-----------------------------------------------------------------------------

(***************************************************************************)
(* A call's agent is started once at most.  OnceInv, the inductive         *)
(* invariant, says why: a callback that may still start an agent is in a   *)
(* short wait, short waits end soon after the request's own end, and the   *)
(* journal and the replay store keep the call for longer than that.        *)
(***************************************************************************)

\* The part of the invariant that is not about types.
OnceRest == ModesKept /\ WaitsInTime /\ RecordsOutlive /\ DurableOnce /\ LiveOnce

\* A callback that leaves the short waits, or moves on among the others,
\* disturbs nothing while the files and the agents stay as they are.
LEMMA QuietStep ==
    ASSUME OnceInv, NEW h \in Slots, Others(h),
           handler'[h].pc \notin ShortWaits,
           handler'[h].pc = "marking" => handler'[h].call \in Durable,
           UNCHANGED <<now, journal, reserved, spawned>>
    PROVE  OnceRest'
<1>p. {"claiming", "reserving", "admitting", "starting", "spawning"} = ShortWaits
  BY DEF ShortWaits
<1>1. ModesKept'
  BY <1>p DEF OnceInv, ModesKept, Others, At, Call, JournalPCs
<1>2. WaitsInTime'
  BY <1>p DEF OnceInv, WaitsInTime, Others, At, Call, BeforeJob, Expires, Validity
<1>3. RecordsOutlive'
  BY DEF OnceInv, RecordsOutlive, Expires, Validity
<1>4. DurableOnce'
  BY <1>p DEF OnceInv, DurableOnce, Others, At, Call, Expires, Validity
<1>5. LiveOnce'
  BY <1>p DEF OnceInv, LiveOnce, Others, At, Call, Expires, Validity
<1> QED  BY <1>1, <1>2, <1>3, <1>4, <1>5 DEF OnceRest

\* A callback that moves to a short wait keeps the modes and the times.
LEMMA WaitKeeps ==
    ASSUME OnceInv, NEW h \in Slots, NEW pc \in ShortWaits, NEW at \in Nat,
           Moves(h, pc, at), UNCHANGED now,
           pc \in JournalPCs => Call(h) \in Durable,
           pc = "reserving" => Call(h) \notin Durable,
           at <= now, now <= at + LockWait,
           pc \in BeforeJob => at < Expires(Call(h)),
           pc \in {"starting", "spawning"} => at < Expires(Call(h)) + LockWait,
           pc = "claiming" => Issued[Call(h)] <= at + Skew
    PROVE  ModesKept' /\ WaitsInTime'
<1>1. ModesKept'
  BY DEF OnceInv, ModesKept, Moves, Others, At, Call
<1>2. WaitsInTime'
  <2> SUFFICES ASSUME NEW g \in Slots
               PROVE  /\ handler'[g].pc \in ShortWaits =>
                            handler'[g].at <= now /\ now <= handler'[g].at + LockWait
                      /\ handler'[g].pc \in BeforeJob =>
                            handler'[g].at < Expires(handler'[g].call)
                      /\ handler'[g].pc \in {"starting", "spawning"} =>
                            handler'[g].at < Expires(handler'[g].call) + LockWait
                      /\ handler'[g].pc = "claiming" =>
                            Issued[handler'[g].call] <= handler'[g].at + Skew
    BY DEF WaitsInTime, At, Call, Expires, Validity
  <2>1. CASE g = h  BY <2>1 DEF Moves, Call
  <2>2. CASE g # h
    BY <2>2 DEF OnceInv, WaitsInTime, Moves, Others, At, Call
  <2> QED  BY <2>1, <2>2
<1> QED  BY <1>1, <1>2

\* What the invariant says of a callback that waits before its job.
LEMMA BeforeJobFacts ==
    ASSUME OnceInv, NEW h \in Slots, handler[h].pc \in BeforeJob
    PROVE  /\ Call(h) \in Calls /\ handler[h].at \in Nat /\ now \in Nat
           /\ handler[h].at <= now /\ now <= handler[h].at + LockWait
           /\ handler[h].at < Expires(Call(h)) /\ Expires(Call(h)) \in Nat
           /\ ~At(h, "idle") /\ handler[h].pc \in ShortWaits
<1>1. handler[h].pc \in ShortWaits /\ handler[h].pc # "idle"
  BY DEF BeforeJob, ShortWaits
<1>2. TypeOK  BY DEF OnceInv
<1>3. Call(h) \in Calls /\ handler[h].at \in Nat /\ now \in Nat
  BY <1>1, <1>2, SlotType DEF Call, TypeOK
<1> QED  BY <1>1, <1>3, ExpiresType DEF OnceInv, WaitsInTime, At

\* A request that is opened is current, so that its wait begins before its end.
LEMMA OpenKeeps ==
    ASSUME OnceInv, NEW h \in Slots, OpenEnvelope(h), UNCHANGED now
    PROVE  OnceRest'
<1> DEFINE pc == IF Call(h) \in Durable THEN "claiming" ELSE "reserving"
<1>t. TypeOK /\ pc \in PCs /\ pc \in ShortWaits
  BY DEF OnceInv, PCs, ShortWaits
<1>m. Moves(h, pc, now)  BY <1>t, TimedMoves DEF OpenEnvelope
<1>u. UNCHANGED <<now, journal, reserved, spawned>>
  BY DEF OpenEnvelope, disk, world
<1>c. Call(h) \in Calls /\ Current(Call(h)) /\ now \in Nat
  BY <1>t, SlotType DEF OpenEnvelope, At, Call, TypeOK
<1>1. ModesKept' /\ WaitsInTime'
  <2>1. /\ pc \in JournalPCs => Call(h) \in Durable
        /\ pc = "reserving" => Call(h) \notin Durable
        /\ pc \notin {"starting", "spawning"}
    BY DEF JournalPCs
  <2>2. now < Expires(Call(h)) /\ Issued[Call(h)] <= now + Skew
    BY <1>c DEF Current
  <2>3. now <= now + LockWait  BY <1>c, Constants
  <2> HIDE DEF pc
  <2> QED  BY <1>t, <1>m, <1>u, <1>c, <2>1, <2>2, <2>3, WaitKeeps
<1>3. RecordsOutlive'
  BY <1>u DEF OnceInv, RecordsOutlive, Expires, Validity
<1>4. DurableOnce'
  BY <1>m, <1>u DEF OnceInv, DurableOnce, Moves, Others, At, Call, Expires, Validity
<1>5. LiveOnce'
  BY <1>m, <1>u DEF OnceInv, LiveOnce, Moves, Others, At, Call, Expires, Validity
<1> QED  BY <1>1, <1>3, <1>4, <1>5 DEF OnceRest

\* A reservation is new, and the ones it drops are of calls nobody admits.
LEMMA ReserveKeeps ==
    ASSUME OnceInv, NEW h \in Slots, Reserve(h), UNCHANGED now
    PROVE  OnceRest'
<1> DEFINE t == handler[h].at
           c == Call(h)
<1>t. TypeOK /\ "admitting" \in PCs /\ "admitting" \in ShortWaits
      /\ "admitting" \notin JournalPCs /\ handler[h].pc \in BeforeJob
  BY DEF OnceInv, PCs, ShortWaits, JournalPCs, BeforeJob, Reserve, At
<1>m. Moves(h, "admitting", t)  BY <1>t, GoToMoves DEF Reserve
<1>f. /\ c \in Calls /\ t \in Nat /\ now \in Nat /\ t <= now /\ now <= t + LockWait
      /\ t < Expires(c) /\ Expires(c) \in Nat
  BY <1>t, BeforeJobFacts
<1>u. UNCHANGED <<now, journal, spawned>>
  BY DEF Reserve, world
<1>1. ModesKept' /\ WaitsInTime'
  BY <1>t, <1>m, <1>f, WaitKeeps
<1>3. RecordsOutlive'
  BY <1>u DEF OnceInv, RecordsOutlive, Expires, Validity
<1>4. DurableOnce'
  BY <1>m, <1>u DEF OnceInv, DurableOnce, Moves, Others, At, Call, Expires, Validity
<1>l. c \notin Durable  BY DEF OnceInv, ModesKept, Reserve
<1>k. /\ c \in reserved' /\ c \notin reserved
      /\ \A d \in reserved : d \in reserved' \/ t >= Expires(d) + Skew
  <2>1. c \notin KeptReservations(t) /\ reserved' = KeptReservations(t) \cup {c}
    BY DEF Reserve
  <2>2. \A d \in reserved : Expires(d) \in Nat
    BY <1>t, ExpiresType DEF TypeOK
  <2> QED  BY <1>f, <2>1, <2>2, Constants DEF KeptReservations, ReservationLives
<1>5. LiveOnce'
  <2> SUFFICES ASSUME NEW d \in Calls \ Durable
               PROVE  /\ spawned[d] <= 1
                      /\ spawned[d] = 1 => d \in reserved' \/ now >= Expires(d) + Skew
                      /\ \A f \in Slots :
                            handler'[f].pc = "admitting" /\ handler'[f].call = d =>
                            /\ spawned[d] = 0 /\ d \in reserved'
                            /\ \A g \in Slots \ {f} :
                                  ~(handler'[g].pc = "admitting" /\ handler'[g].call = d)
    BY <1>u DEF LiveOnce, At, Call, Expires, Validity
  <2>0. /\ spawned[d] \in Nat /\ spawned[d] <= 1 /\ Expires(d) \in Nat
        /\ spawned[d] = 1 => d \in reserved \/ now >= Expires(d) + Skew
        /\ \A f \in Slots : handler[f].pc = "admitting" /\ handler[f].call = d =>
              /\ spawned[d] = 0 /\ d \in reserved
              /\ \A g \in Slots \ {f} :
                    ~(handler[g].pc = "admitting" /\ handler[g].call = d)
    BY <1>t, ExpiresType DEF OnceInv, LiveOnce, At, Call, TypeOK
  <2>1. CASE d = c
    <3>1. \A f \in Slots \ {h} :
             ~(handler'[f].pc = "admitting" /\ handler'[f].call = d)
      BY <1>k, <1>m, <2>0, <2>1 DEF Moves, Others
    <3>2. spawned[d] = 0  BY <1>f, <1>k, <2>0, <2>1, Constants
    <3> QED  BY <1>k, <2>1, <3>1, <3>2
  <2>2. CASE d # c
    <3>1. spawned[d] = 1 => d \in reserved' \/ now >= Expires(d) + Skew
      BY <1>f, <1>k, <2>0, Constants
    <3>2. \A f \in Slots : handler'[f].pc = "admitting" /\ handler'[f].call = d =>
             f # h /\ handler[f].pc = "admitting" /\ handler[f].call = d
      BY <1>m, <2>2 DEF Moves, Others, Call
    <3>3. ASSUME NEW f \in Slots, handler'[f].pc = "admitting", handler'[f].call = d
          PROVE  d \in reserved'
      <4>1. handler[f].pc \in BeforeJob /\ Call(f) = d
        BY <3>2, <3>3 DEF BeforeJob, Call
      <4>2. /\ handler[f].at \in Nat /\ now <= handler[f].at + LockWait
            /\ handler[f].at < Expires(d)
        BY <4>1, BeforeJobFacts
      <4>3. d \in reserved  BY <2>0, <3>2, <3>3
      <4> QED  BY <1>f, <1>k, <2>0, <4>2, <4>3, Constants
    <3> QED  BY <2>0, <3>1, <3>2, <3>3
  <2> QED  BY <2>1, <2>2
<1> QED  BY <1>1, <1>3, <1>4, <1>5 DEF OnceRest

\* A new record is of a call that was not started, outlives every wait for it,
\* and the records it drops are of calls nobody waits for.
LEMMA ClaimNewKeeps ==
    ASSUME OnceInv, NEW h \in Slots, ClaimNew(h), UNCHANGED now
    PROVE  OnceRest'
<1> DEFINE t == handler[h].at
           c == Call(h)
           r == [state |-> "claimed", purge_after |-> PurgeAfter(t)]
<1>t. TypeOK /\ "admitting" \in PCs /\ "admitting" \in ShortWaits
      /\ "admitting" \notin JournalPCs /\ handler[h].pc \in BeforeJob
  BY DEF OnceInv, PCs, ShortWaits, JournalPCs, BeforeJob, ClaimNew, At
<1>m. Moves(h, "admitting", t)  BY <1>t, GoToMoves DEF ClaimNew
<1>f. /\ c \in Calls /\ t \in Nat /\ now \in Nat /\ t <= now /\ now <= t + LockWait
      /\ t < Expires(c) /\ Expires(c) \in Nat
  BY <1>t, BeforeJobFacts
<1>u. UNCHANGED <<now, reserved, spawned>>
  BY DEF ClaimNew, world
<1>d. c \in Durable /\ Issued[c] <= t + Skew
  <2>1. At(h, "claiming") /\ handler[h].pc \in JournalPCs
    BY DEF ClaimNew, At, JournalPCs
  <2>2. c \in Durable  BY <2>1 DEF OnceInv, ModesKept
  <2> QED  BY <2>1, <2>2 DEF OnceInv, WaitsInTime
<1>1. ModesKept' /\ WaitsInTime'
  BY <1>t, <1>m, <1>f, WaitKeeps
<1>k. /\ journal'[c] = r
      /\ \A d \in Calls \ {c} : journal'[d] = KeptRecords(t)[d]
      /\ KeptRecords(t)[c].state = "none"
  BY <1>t, <1>f, KeptType DEF ClaimNew
<1>o. \A d \in Durable \ {c} :
         \/ journal'[d] = journal[d]
         \/ journal'[d] = NoRecord /\ journal[d].purge_after <= t
  <2>1. \A d \in Calls : journal[d].purge_after \in Nat
    BY <1>t DEF TypeOK, RecordType
  <2> QED  BY <1>f, <1>k, <2>1, Constants DEF KeptRecords
<1>r. \A d \in Durable : journal[d].state # "none" =>
         journal[d].purge_after >= Expires(d) + 2 * LockWait
  BY DEF OnceInv, RecordsOutlive
<1>n. journal[c].state = "none"
  <2>1. journal[c].purge_after \in Nat  BY <1>f, <1>t DEF TypeOK, RecordType
  <2> QED  BY <1>f, <1>k, <1>d, <1>r, <2>1, Constants DEF KeptRecords
<1>3. RecordsOutlive'
  <2>1. r.purge_after >= Expires(c) + 2 * LockWait
    BY <1>f, <1>d, Constants DEF PurgeAfter, Expires, Validity
  <2>2. \A d \in Durable : journal'[d].state # "none" =>
           journal'[d].purge_after >= Expires(d) + 2 * LockWait
    BY <1>k, <1>o, <1>r, <2>1 DEF NoRecord
  <2> QED  BY <2>2 DEF RecordsOutlive, Expires, Validity
<1>4. DurableOnce'
  <2> SUFFICES ASSUME NEW d \in Durable
               PROVE  /\ spawned[d] <= 1
                      /\ spawned[d] = 1 =>
                           \/ journal'[d].state \in {"started", "terminal"}
                           \/ /\ journal'[d].state = "none"
                              /\ now >= Expires(d) + 2 * LockWait
                      /\ \A f \in Slots :
                           handler'[f].pc = "spawning" /\ handler'[f].call = d =>
                           spawned[d] = 0 /\ journal'[d].state \in {"started", "terminal"}
    BY <1>u DEF DurableOnce, At, Call, Expires, Validity
  <2>0. /\ d \in Calls /\ spawned[d] \in Nat /\ spawned[d] <= 1 /\ Expires(d) \in Nat
        /\ spawned[d] = 1 => \/ journal[d].state \in {"started", "terminal"}
                             \/ /\ journal[d].state = "none"
                                /\ now >= Expires(d) + 2 * LockWait
        /\ \A f \in Slots : handler[f].pc = "spawning" /\ handler[f].call = d =>
              spawned[d] = 0 /\ journal[d].state \in {"started", "terminal"}
    BY <1>t, ExpiresType, Constants DEF OnceInv, DurableOnce, At, Call, TypeOK
  <2>3. \A f \in Slots : handler'[f].pc = "spawning" =>
           f # h /\ handler[f].pc = "spawning" /\ handler'[f].call = handler[f].call
    BY <1>m DEF Moves, Others
  <2>1. CASE d = c
    <3>1. spawned[d] = 0  BY <1>f, <1>n, <2>0, <2>1, Constants
    <3> QED  BY <1>n, <2>0, <2>1, <2>3, <3>1
  <2>2. CASE d # c
    <3>1. spawned[d] = 1 => \/ journal'[d].state \in {"started", "terminal"}
                            \/ /\ journal'[d].state = "none"
                               /\ now >= Expires(d) + 2 * LockWait
      <4>1. journal[d].purge_after \in Nat  BY <2>0, <1>t DEF TypeOK, RecordType
      <4> QED  BY <1>f, <1>o, <1>r, <2>0, <2>2, <4>1, Constants DEF NoRecord
    <3>2. ASSUME NEW f \in Slots, handler'[f].pc = "spawning", handler'[f].call = d
          PROVE  spawned[d] = 0 /\ journal'[d].state \in {"started", "terminal"}
      <4>1. handler[f].pc = "spawning" /\ handler[f].call = d  BY <2>3, <3>2
      <4>2. /\ handler[f].at \in Nat /\ now <= handler[f].at + LockWait
            /\ handler[f].at < Expires(d) + LockWait
        BY <1>t, <4>1, SlotType DEF OnceInv, WaitsInTime, ShortWaits, Call
      <4>3. spawned[d] = 0 /\ journal[d].state \in {"started", "terminal"}
        BY <2>0, <4>1
      <4>4. journal[d].purge_after \in Nat  BY <2>0, <1>t DEF TypeOK, RecordType
      <4> QED  BY <1>f, <1>o, <1>r, <2>0, <2>2, <4>2, <4>3, <4>4, Constants
    <3> QED  BY <2>0, <3>1, <3>2
  <2> QED  BY <2>1, <2>2
<1>5. LiveOnce'
  BY <1>d, <1>m, <1>u DEF OnceInv, LiveOnce, Moves, Others, At, Call, Expires, Validity
<1> QED  BY <1>1, <1>3, <1>4, <1>5 DEF OnceRest

\* A claim met again changes nothing but the callback.
LEMMA ClaimAgainKeeps ==
    ASSUME OnceInv, NEW h \in Slots, ClaimAgain(h), UNCHANGED now
    PROVE  OnceRest'
<1> DEFINE t == handler[h].at
           c == Call(h)
<1>t. TypeOK /\ "admitting" \in PCs /\ "admitting" \in ShortWaits
      /\ "admitting" \notin JournalPCs /\ handler[h].pc \in BeforeJob
  BY DEF OnceInv, PCs, ShortWaits, JournalPCs, BeforeJob, ClaimAgain, At
<1>m. Moves(h, "admitting", t)  BY <1>t, GoToMoves DEF ClaimAgain
<1>f. t \in Nat /\ t <= now /\ now <= t + LockWait /\ t < Expires(c)
  BY <1>t, BeforeJobFacts
<1>u. UNCHANGED <<now, journal, reserved, spawned>>
  BY DEF ClaimAgain, disk, world
<1>d. c \in Durable
  <2>1. handler[h].pc \in JournalPCs  BY DEF ClaimAgain, At, JournalPCs
  <2> QED  BY <2>1 DEF OnceInv, ModesKept
<1>1. ModesKept' /\ WaitsInTime'
  BY <1>t, <1>m, <1>f, WaitKeeps
<1>3. RecordsOutlive'
  BY <1>u DEF OnceInv, RecordsOutlive, Expires, Validity
<1>4. DurableOnce'
  BY <1>m, <1>u DEF OnceInv, DurableOnce, Moves, Others, At, Call, Expires, Validity
<1>5. LiveOnce'
  BY <1>d, <1>m, <1>u DEF OnceInv, LiveOnce, Moves, Others, At, Call, Expires, Validity
<1> QED  BY <1>1, <1>3, <1>4, <1>5 DEF OnceRest

\* A callback enters its job soon after the request's end at the latest.
LEMMA EnqueueDurableKeeps ==
    ASSUME OnceInv, NEW h \in Slots, EnqueueDurable(h), UNCHANGED now
    PROVE  OnceRest'
<1> DEFINE c == Call(h)
<1>t. TypeOK /\ "starting" \in PCs /\ "starting" \in ShortWaits
      /\ "starting" \notin BeforeJob /\ handler[h].pc \in BeforeJob
  BY DEF OnceInv, PCs, ShortWaits, BeforeJob, EnqueueDurable, Enqueued, At
<1>m. Moves(h, "starting", now)  BY <1>t, TimedMoves DEF EnqueueDurable, Enqueued
<1>f. /\ now \in Nat /\ now <= now + LockWait
      /\ now < Expires(c) + LockWait
  BY <1>t, BeforeJobFacts, Constants
<1>u. UNCHANGED <<now, journal, reserved, spawned>> /\ c \in Durable
  BY DEF EnqueueDurable, Enqueued, disk, world
<1>1. ModesKept' /\ WaitsInTime'
  BY <1>t, <1>m, <1>f, <1>u, WaitKeeps
<1>3. RecordsOutlive'
  BY <1>u DEF OnceInv, RecordsOutlive, Expires, Validity
<1>4. DurableOnce'
  BY <1>m, <1>u DEF OnceInv, DurableOnce, Moves, Others, At, Call, Expires, Validity
<1>5. LiveOnce'
  BY <1>m, <1>u DEF OnceInv, LiveOnce, Moves, Others, At, Call, Expires, Validity
<1> QED  BY <1>1, <1>3, <1>4, <1>5 DEF OnceRest

\* A synchronous call is started under its reservation, by its only callback.
LEMMA EnqueueLiveKeeps ==
    ASSUME OnceInv, NEW h \in Slots, EnqueueLive(h), UNCHANGED now
    PROVE  OnceRest'
<1> DEFINE c == Call(h)
<1>t. TypeOK /\ "running" \in PCs /\ "running" \notin ShortWaits
      /\ "running" \notin JournalPCs /\ "running" \notin BeforeJob
      /\ handler[h].pc \in BeforeJob /\ At(h, "admitting")
  BY DEF OnceInv, PCs, ShortWaits, JournalPCs, BeforeJob, EnqueueLive, Enqueued, At
<1>m. Moves(h, "running", now)  BY <1>t, TimedMoves DEF EnqueueLive, Enqueued
<1>c. c \in Calls \ Durable
  BY <1>t, BeforeJobFacts DEF EnqueueLive
<1>u. UNCHANGED <<now, journal, reserved>>
  BY DEF EnqueueLive, Enqueued, disk
<1>s. spawned'[c] = spawned[c] + 1 /\ \A d \in Calls \ {c} : spawned'[d] = spawned[d]
  BY <1>t, <1>c, SpawnedType DEF EnqueueLive
<1>p. "running" \notin {"claiming", "reserving", "admitting", "starting", "spawning"}
  OBVIOUS
<1>1. ModesKept'
  BY <1>t, <1>p, <1>m DEF OnceInv, ModesKept, Moves, Others, At, Call
<1>2. WaitsInTime'
  BY <1>t, <1>p, <1>m, <1>u DEF OnceInv, WaitsInTime, Moves, Others, At, Call, Expires, Validity
<1>3. RecordsOutlive'
  BY <1>u DEF OnceInv, RecordsOutlive, Expires, Validity
<1>4. DurableOnce'
  <2>1. \A d \in Durable : d \in Calls \ {c}  BY <1>c, Constants
  <2> QED  BY <1>p, <1>m, <1>u, <1>s, <2>1
           DEF OnceInv, DurableOnce, Moves, Others, At, Call, Expires, Validity
<1>5. LiveOnce'
  <2>1. /\ spawned[c] = 0 /\ c \in reserved
        /\ \A g \in Slots \ {h} : ~(At(g, "admitting") /\ Call(g) = c)
    BY <1>t, <1>c DEF OnceInv, LiveOnce
  <2> SUFFICES ASSUME NEW d \in Calls \ Durable
               PROVE  /\ spawned'[d] <= 1
                      /\ spawned'[d] = 1 => d \in reserved \/ now >= Expires(d) + Skew
                      /\ \A f \in Slots :
                            handler'[f].pc = "admitting" /\ handler'[f].call = d =>
                            /\ spawned'[d] = 0 /\ d \in reserved
                            /\ \A g \in Slots \ {f} :
                                  ~(handler'[g].pc = "admitting" /\ handler'[g].call = d)
    BY <1>u DEF LiveOnce, At, Call, Expires, Validity
  <2>2. CASE d = c
    <3>1. \A f \in Slots : ~(handler'[f].pc = "admitting" /\ handler'[f].call = d)
      BY <1>p, <1>m, <2>1, <2>2 DEF Moves, Others, At, Call
    <3> QED  BY <1>s, <2>1, <2>2, <3>1
  <2>3. CASE d # c
    BY <1>p, <1>m, <1>s, <2>3 DEF OnceInv, LiveOnce, Moves, Others, At, Call
  <2> QED  BY <2>2, <2>3
<1> QED  BY <1>1, <1>2, <1>3, <1>4, <1>5 DEF OnceRest

\* What the invariant says of a job that is about to start its agent.
LEMMA JobFacts ==
    ASSUME OnceInv, NEW h \in Slots, handler[h].pc \in {"starting", "spawning"}
    PROVE  /\ Call(h) \in Durable /\ Call(h) \in Calls
           /\ handler[h].at \in Nat /\ now \in Nat
           /\ handler[h].at <= now /\ now <= handler[h].at + LockWait
           /\ handler[h].at < Expires(Call(h)) + LockWait
           /\ ~At(h, "idle") /\ running = h
<1>1. /\ handler[h].pc \in ShortWaits /\ handler[h].pc # "idle"
      /\ handler[h].pc \in JournalPCs /\ handler[h].pc \in JobPCs
  BY DEF ShortWaits, JournalPCs, JobPCs
<1>2. TypeOK  BY DEF OnceInv
<1>3. /\ Call(h) \in Calls /\ handler[h].at \in Nat /\ now \in Nat
      /\ running = h
  BY <1>1, <1>2, SlotType DEF Call, TypeOK
<1>4. Call(h) \in Durable  BY <1>1 DEF OnceInv, ModesKept
<1> QED  BY <1>1, <1>3, <1>4 DEF OnceInv, WaitsInTime, At

\* A call that is marked started was claimed, so no agent has been started.
LEMMA MarkStartedKeeps ==
    ASSUME OnceInv, NEW h \in Slots, MarkStarted(h), UNCHANGED now
    PROVE  OnceRest'
<1> DEFINE c == Call(h)
<1>t. TypeOK /\ "spawning" \in PCs /\ "spawning" \in ShortWaits
      /\ "spawning" \notin BeforeJob
      /\ handler[h].pc \in {"starting", "spawning"} /\ handler[h].pc # "spawning"
  BY DEF OnceInv, PCs, ShortWaits, BeforeJob, MarkStarted, At
<1>m. Moves(h, "spawning", handler[h].at)  BY <1>t, GoToMoves DEF MarkStarted
<1>f. /\ c \in Durable /\ c \in Calls /\ handler[h].at \in Nat
      /\ handler[h].at <= now /\ now <= handler[h].at + LockWait
      /\ handler[h].at < Expires(c) + LockWait
  BY <1>t, JobFacts
<1>u. UNCHANGED <<now, reserved, spawned>>
  BY DEF MarkStarted, world
<1>r. /\ journal[c].state = "claimed" /\ journal'[c].state = "started"
      /\ journal'[c].purge_after = journal[c].purge_after
      /\ \A d \in Calls \ {c} : journal'[d] = journal[d]
  BY <1>t, <1>f, RecordedType DEF MarkStarted, MayStart
<1>1. ModesKept' /\ WaitsInTime'
  BY <1>t, <1>m, <1>f, <1>u, WaitKeeps
<1>3. RecordsOutlive'
  BY <1>f, <1>r, Constants DEF OnceInv, RecordsOutlive, Expires, Validity
<1>4. DurableOnce'
  <2>1. spawned[c] = 0
    <3>1. spawned[c] \in Nat  BY <1>t, <1>f DEF TypeOK
    <3>2. spawned[c] <= 1 /\ spawned[c] # 1  BY <1>f, <1>r DEF OnceInv, DurableOnce
    <3> QED  BY <3>1, <3>2
  <2> SUFFICES ASSUME NEW d \in Durable
               PROVE  /\ spawned[d] <= 1
                      /\ spawned[d] = 1 =>
                           \/ journal'[d].state \in {"started", "terminal"}
                           \/ /\ journal'[d].state = "none"
                              /\ now >= Expires(d) + 2 * LockWait
                      /\ \A f \in Slots :
                           handler'[f].pc = "spawning" /\ handler'[f].call = d =>
                           spawned[d] = 0 /\ journal'[d].state \in {"started", "terminal"}
    BY <1>u DEF DurableOnce, At, Call, Expires, Validity
  <2>2. CASE d = c  BY <1>r, <2>1, <2>2
  <2>3. CASE d # c
    <3>1. journal'[d] = journal[d]  BY <1>r, <2>3, Constants
    <3> QED  BY <1>m, <2>3, <3>1 DEF OnceInv, DurableOnce, Moves, Others, At, Call
  <2> QED  BY <2>2, <2>3
<1>5. LiveOnce'
  BY <1>m, <1>u DEF OnceInv, LiveOnce, Moves, Others, At, Call, Expires, Validity
<1> QED  BY <1>1, <1>3, <1>4, <1>5 DEF OnceRest

\* The agent of a durable call is started when its start is recorded, and none
\* was before.
LEMMA SpawnKeeps ==
    ASSUME OnceInv, NEW h \in Slots, Spawn(h), UNCHANGED now
    PROVE  OnceRest'
<1> DEFINE c == Call(h)
<1>t. TypeOK /\ "running" \in PCs /\ "running" \notin ShortWaits
      /\ "running" \notin JournalPCs /\ "running" \notin BeforeJob
      /\ handler[h].pc \in {"starting", "spawning"} /\ At(h, "spawning")
  BY DEF OnceInv, PCs, ShortWaits, JournalPCs, BeforeJob, Spawn, At
<1>m. Moves(h, "running", handler[h].at)  BY <1>t, GoToMoves DEF Spawn
<1>f. c \in Durable /\ c \in Calls /\ running = h
  BY <1>t, JobFacts
<1>u. UNCHANGED <<now, journal, reserved>>
  BY DEF Spawn, disk
<1>s. spawned'[c] = spawned[c] + 1 /\ \A d \in Calls \ {c} : spawned'[d] = spawned[d]
  BY <1>t, <1>f, SpawnedType DEF Spawn
<1>p. "running" \notin {"claiming", "reserving", "admitting", "starting", "spawning"}
  OBVIOUS
<1>1. ModesKept'
  BY <1>t, <1>p, <1>m DEF OnceInv, ModesKept, Moves, Others, At, Call
<1>2. WaitsInTime'
  BY <1>t, <1>p, <1>m, <1>u DEF OnceInv, WaitsInTime, Moves, Others, At, Call, Expires, Validity
<1>3. RecordsOutlive'
  BY <1>u DEF OnceInv, RecordsOutlive, Expires, Validity
<1>4. DurableOnce'
  <2>1. spawned[c] = 0 /\ journal[c].state \in {"started", "terminal"}
    BY <1>t, <1>f DEF OnceInv, DurableOnce
  <2>2. \A g \in Slots : handler'[g].pc # "spawning"
    <3>1. \A g \in Slots \ {h} : handler[g].pc # "spawning"
      BY <1>t, <1>f DEF TypeOK, JobPCs
    <3> QED  BY <1>p, <1>m, <3>1 DEF Moves, Others
  <2> SUFFICES ASSUME NEW d \in Durable
               PROVE  /\ spawned'[d] <= 1
                      /\ spawned'[d] = 1 =>
                           \/ journal[d].state \in {"started", "terminal"}
                           \/ /\ journal[d].state = "none"
                              /\ now >= Expires(d) + 2 * LockWait
    BY <1>u, <2>2 DEF DurableOnce, At, Call, Expires, Validity
  <2>3. CASE d = c  BY <1>s, <2>1, <2>3
  <2>4. CASE d # c
    <3>1. spawned'[d] = spawned[d]  BY <1>s, <2>4, Constants
    <3> QED  BY <3>1 DEF OnceInv, DurableOnce
  <2> QED  BY <2>3, <2>4
<1>5. LiveOnce'
  <2>1. \A d \in Calls \ Durable : d \in Calls \ {c}  BY <1>f
  <2> QED  BY <1>p, <1>m, <1>u, <1>s, <2>1
           DEF OnceInv, LiveOnce, Moves, Others, At, Call, Expires, Validity
<1> QED  BY <1>1, <1>2, <1>3, <1>4, <1>5 DEF OnceRest

\* A record that ends stays a record.
LEMMA MarkTerminalKeeps ==
    ASSUME OnceInv, NEW h \in Slots, MarkTerminal(h), UNCHANGED now
    PROVE  OnceRest'
<1> DEFINE c == Call(h)
<1>t. TypeOK  BY DEF OnceInv
<1>m. Returns(h)  BY <1>t, LeaveReturns DEF MarkTerminal
<1>f. handler[h].pc # "idle" /\ c \in Calls
  BY <1>t, SlotType DEF MarkTerminal, At, Call
<1>u. UNCHANGED <<now, reserved, spawned>>
  BY DEF MarkTerminal, world
<1>r. /\ journal[c].state \in {"claimed", "started"} /\ journal'[c].state = "terminal"
      /\ journal'[c].purge_after = journal[c].purge_after
      /\ \A d \in Calls \ {c} : journal'[d] = journal[d]
  BY <1>t, <1>f, RecordedType DEF MarkTerminal, MayEnd
<1>p. "idle" \notin {"claiming", "reserving", "admitting", "starting", "spawning"}
      /\ "idle" \notin JournalPCs /\ "idle" \notin ShortWaits /\ "idle" \notin BeforeJob
  BY DEF JournalPCs, ShortWaits, BeforeJob
<1>1. ModesKept'
  BY <1>p, <1>m DEF OnceInv, ModesKept, Returns, Others, At, Call
<1>2. WaitsInTime'
  BY <1>p, <1>m, <1>u DEF OnceInv, WaitsInTime, Returns, Others, At, Call, Expires, Validity
<1>3. RecordsOutlive'
  BY <1>r, Constants DEF OnceInv, RecordsOutlive, Expires, Validity
<1>4. DurableOnce'
  <2> SUFFICES ASSUME NEW d \in Durable
               PROVE  /\ spawned[d] <= 1
                      /\ spawned[d] = 1 =>
                           \/ journal'[d].state \in {"started", "terminal"}
                           \/ /\ journal'[d].state = "none"
                              /\ now >= Expires(d) + 2 * LockWait
                      /\ \A f \in Slots :
                           handler'[f].pc = "spawning" /\ handler'[f].call = d =>
                           spawned[d] = 0 /\ journal'[d].state \in {"started", "terminal"}
    BY <1>u DEF DurableOnce, At, Call, Expires, Validity
  <2>1. \/ journal'[d] = journal[d]
        \/ journal'[d].state = "terminal"
    BY <1>r, Constants
  <2> QED  BY <1>p, <1>m, <2>1 DEF OnceInv, DurableOnce, Returns, Others, At, Call
<1>5. LiveOnce'
  BY <1>p, <1>m, <1>u DEF OnceInv, LiveOnce, Returns, Others, At, Call, Expires, Validity
<1> QED  BY <1>1, <1>2, <1>3, <1>4, <1>5 DEF OnceRest

\* A callback that rejects its call is quiet.
LEMMA LeaveQuiet ==
    ASSUME OnceInv, NEW h \in Slots, NEW frames, Leave(h, frames),
           UNCHANGED <<now, journal, reserved, spawned>>
    PROVE  OnceRest'
<1>1. Returns(h)  BY LeaveReturns DEF OnceInv
<1>2. "idle" \notin ShortWaits  BY DEF ShortWaits
<1> QED  BY <1>1, <1>2, QuietStep DEF Returns

\* So is one that seals an outcome.
LEMMA SealQuiet ==
    ASSUME OnceInv, NEW h \in Slots, NEW outcome \in Outcomes, Seal(h, outcome),
           UNCHANGED <<now, journal, reserved, spawned>>
    PROVE  OnceRest'
<1>1. Moves(h, "sealing", handler[h].at)  BY SealMoves DEF OnceInv
<1>2. "sealing" \notin ShortWaits  BY DEF ShortWaits
<1> QED  BY <1>1, <1>2, QuietStep DEF Moves

\* Every step of a callback keeps the invariant.
LEMMA ProceedKeeps ==
    ASSUME OnceInv, NEW h \in Slots, Proceed(h)
    PROVE  OnceRest'
<1>n. UNCHANGED now  BY DEF Proceed
<1>o. {"blocked", "context_unknown", "busy", "indeterminate", "delivery_failed",
       "reply", "failed"} \subseteq Outcomes
  BY DEF Outcomes
<1>1. CASE Accept(h)
  <2>1. CASE OpenEnvelope(h)  BY <1>n, <2>1, OpenKeeps
  <2>2. CASE Reserve(h)  BY <1>n, <2>2, ReserveKeeps
  <2>3. CASE ClaimNew(h)  BY <1>n, <2>3, ClaimNewKeeps
  <2>4. CASE ClaimAgain(h)  BY <1>n, <2>4, ClaimAgainKeeps
  <2>5. CASE OpenFails(h) \/ ReserveRefused(h) \/ ClaimFull(h) \/ StoreFails(h)
    <3>1. Reject(h) /\ UNCHANGED <<disk, world>>
      BY <2>5 DEF OpenFails, ReserveRefused, ClaimFull, StoreFails
    <3> QED  BY <1>n, <3>1, LeaveQuiet DEF Reject, disk, world
  <2>6. CASE \/ ClaimIndeterminate(h) \/ RefusedByPolicy(h) \/ RefusedContext(h)
             \/ RefusedBusy(h)
    <3>1. /\ UNCHANGED <<disk, world>>
          /\ \E o \in {"blocked", "context_unknown", "busy", "indeterminate"} : Seal(h, o)
      BY <2>6 DEF ClaimIndeterminate, RefusedByPolicy, RefusedContext, RefusedBusy
    <3> QED  BY <1>n, <1>o, <3>1, SealQuiet DEF disk, world
  <2> QED  BY <1>1, <2>1, <2>2, <2>3, <2>4, <2>5, <2>6 DEF Accept
<1>2. CASE RunJob(h)
  <2>1. CASE EnqueueDurable(h)  BY <1>n, <2>1, EnqueueDurableKeeps
  <2>2. CASE EnqueueLive(h)  BY <1>n, <2>2, EnqueueLiveKeeps
  <2>3. CASE MarkStarted(h)  BY <1>n, <2>3, MarkStartedKeeps
  <2>4. CASE Spawn(h)  BY <1>n, <2>4, SpawnKeeps
  <2>5. CASE \/ MarkStartedFails(h) \/ AgentReplies(h) \/ AgentFails(h)
             \/ ResumeGone(h)
    <3>1. /\ UNCHANGED <<journal, reserved, spawned>>
          /\ \E o \in {"delivery_failed", "reply", "failed", "context_unknown"} :
                Seal(h, o)
      BY <2>5 DEF MarkStartedFails, AgentReplies, AgentFails, ResumeGone,
                  AgentExits, disk, world
    <3> QED  BY <1>n, <1>o, <3>1, SealQuiet
  <2>6. CASE AgentCanceled(h)
    <3>1. UNCHANGED <<journal, reserved, spawned>>
      BY <2>6 DEF AgentCanceled, AgentExits, disk
    <3> QED  BY <1>n, <2>6, <3>1, LeaveQuiet DEF AgentCanceled
  <2> QED  BY <1>2, <2>1, <2>2, <2>3, <2>4, <2>5, <2>6 DEF RunJob
<1>3. CASE Answer(h)
  <2>1. CASE SealAndMark(h)
    <3>1. TypeOK /\ "marking" \in PCs /\ "marking" \notin ShortWaits
      BY DEF OnceInv, PCs, ShortWaits
    <3>2. Moves(h, "marking", handler[h].at)
      BY <2>1, <3>1, GoToMoves DEF SealAndMark
    <3>3. Call(h) \in Durable /\ UNCHANGED <<journal, reserved, spawned>>
      BY <2>1 DEF SealAndMark, MustMark, disk, world
    <3> QED  BY <1>n, <3>1, <3>2, <3>3, QuietStep DEF Moves, Call
  <2>2. CASE SealAndLeave(h)
    BY <1>n, <2>2, LeaveQuiet DEF SealAndLeave, disk, world
  <2>3. CASE SealFails(h)
    BY <1>n, <2>3, LeaveQuiet DEF SealFails, disk, world
  <2>4. CASE MarkTerminal(h)  BY <1>n, <2>4, MarkTerminalKeeps
  <2>5. CASE MarkTerminalFails(h)
    <3>1. /\ UNCHANGED <<journal, reserved, spawned>>
          /\ Seal(h, "failed") \/ \E frames : Leave(h, frames)
      BY <2>5 DEF MarkTerminalFails, Reject, disk, world
    <3> QED  BY <1>n, <1>o, <3>1, SealQuiet, LeaveQuiet
  <2> QED  BY <1>3, <2>1, <2>2, <2>3, <2>4, <2>5 DEF Answer
<1> QED  BY <1>1, <1>2, <1>3 DEF Proceed

\* A step that leaves the callbacks, the clock and the files alone is quiet.
LEMMA StillKeeps ==
    ASSUME OnceInv, UNCHANGED <<now, handler, journal, reserved, spawned>>
    PROVE  OnceRest'
<1>1. ModesKept'  BY DEF OnceInv, ModesKept, At, Call
<1>2. WaitsInTime'  BY DEF OnceInv, WaitsInTime, At, Call, Expires, Validity
<1>3. RecordsOutlive'  BY DEF OnceInv, RecordsOutlive, Expires, Validity
<1>4. DurableOnce'  BY DEF OnceInv, DurableOnce, At, Call, Expires, Validity
<1>5. LiveOnce'  BY DEF OnceInv, LiveOnce, At, Call, Expires, Validity
<1> QED  BY <1>1, <1>2, <1>3, <1>4, <1>5 DEF OnceRest

\* The clock does not pass the end of a short wait.
LEMMA TickKeeps ==
    ASSUME OnceInv, Tick
    PROVE  OnceRest'
<1>u. /\ UNCHANGED <<handler, journal, reserved, spawned>>
      /\ now' = now + 1 /\ now \in Nat
  BY DEF OnceInv, TypeOK, Tick, disk, world
<1>1. ModesKept'  BY <1>u DEF OnceInv, ModesKept, At, Call
<1>2. WaitsInTime'
  <2>1. \A h \in Slots : handler[h].at \in Nat  BY SlotType DEF OnceInv
  <2>2. \A h \in Slots : handler[h].pc \in ShortWaits =>
           handler[h].at <= now' /\ now' <= handler[h].at + LockWait
    BY <1>u, <2>1, Constants DEF OnceInv, WaitsInTime, Tick
  <2> QED  BY <1>u, <2>2 DEF OnceInv, WaitsInTime, At, Call, Expires, Validity
<1>3. RecordsOutlive'  BY <1>u DEF OnceInv, RecordsOutlive, Expires, Validity
<1>4. DurableOnce'
  <2>1. \A c \in Durable : Expires(c) \in Nat  BY ExpiresType, Constants
  <2>2. \A c \in Durable : now >= Expires(c) + 2 * LockWait =>
                            now' >= Expires(c) + 2 * LockWait
    BY <1>u, <2>1, Constants
  <2> QED  BY <1>u, <2>2 DEF OnceInv, DurableOnce, At, Call, Expires, Validity
<1>5. LiveOnce'
  <2>1. \A c \in Calls : Expires(c) \in Nat  BY ExpiresType
  <2>2. \A c \in Calls : now >= Expires(c) + Skew => now' >= Expires(c) + Skew
    BY <1>u, <2>1, Constants
  <2> QED  BY <1>u, <2>2 DEF OnceInv, LiveOnce, At, Call, Expires, Validity
<1> QED  BY <1>1, <1>2, <1>3, <1>4, <1>5 DEF OnceRest

\* A restart forgets the callbacks and nothing else the invariant speaks of.
LEMMA RestartKeeps ==
    ASSUME OnceInv, Restart
    PROVE  OnceRest'
<1>u. UNCHANGED <<now, journal, reserved, spawned>>
      /\ \A h \in Slots : handler'[h].pc = "idle"
  BY IdleType DEF Restart, disk, world
<1>p. "idle" \notin {"claiming", "reserving", "admitting", "starting", "spawning"}
      /\ "idle" \notin JournalPCs /\ "idle" \notin ShortWaits /\ "idle" \notin BeforeJob
  BY DEF JournalPCs, ShortWaits, BeforeJob
<1>1. ModesKept'  BY <1>u, <1>p DEF ModesKept, At
<1>2. WaitsInTime'  BY <1>u, <1>p DEF WaitsInTime, At
<1>3. RecordsOutlive'  BY <1>u DEF OnceInv, RecordsOutlive, Expires, Validity
<1>4. DurableOnce'  BY <1>u, <1>p DEF OnceInv, DurableOnce, At, Expires, Validity
<1>5. LiveOnce'  BY <1>u, <1>p DEF OnceInv, LiveOnce, At, Expires, Validity
<1> QED  BY <1>1, <1>2, <1>3, <1>4, <1>5 DEF OnceRest

\* OnceInv is inductive.
LEMMA OnceStep == OnceInv /\ [Next]_vars => OnceInv'
<1> SUFFICES ASSUME OnceInv, [Next]_vars PROVE OnceInv'
  OBVIOUS
<1>t. TypeOK'  BY TypeStep DEF OnceInv
<1>r. OnceRest'
  <2>1. CASE Tick  BY <2>1, TickKeeps
  <2>2. CASE Restart  BY <2>2, RestartKeeps
  <2>3. CASE Connect  BY <2>3, StillKeeps DEF Connect, disk, world
  <2>4. CASE Disconnect  BY <2>4, StillKeeps DEF Disconnect, disk, world
  <2>5. CASE Stop  BY <2>5, StillKeeps DEF Stop, disk, world
  <2>6. CASE ProcessEnds  BY <2>6, StillKeeps DEF ProcessEnds, disk
  <2>7. ASSUME NEW h \in Slots, Proceed(h) PROVE OnceRest'
    BY <2>7, ProceedKeeps
  <2>8. ASSUME NEW h \in Slots, NEW c \in Calls, Deliver(h, c) PROVE OnceRest'
    <3> DEFINE r == [Idle EXCEPT !.pc = "opening", !.call = c, !.lease = deliveries[c] + 1]
    <3>1. handler' = [handler EXCEPT ![h] = r] /\ r.pc = "opening"
      BY <2>8 DEF Deliver, Idle
    <3>2. Others(h) /\ handler'[h].pc = "opening"
      BY <3>1 DEF OnceInv, TypeOK, Others
    <3>3. "opening" \notin ShortWaits  BY DEF ShortWaits
    <3> QED  BY <2>8, <3>2, <3>3, QuietStep DEF Deliver, disk, world
  <2>9. ASSUME NEW c \in Calls, CancelRunning(c) \/ CancelUnknown(c) \/ Forks(c)
        PROVE OnceRest'
    BY <2>9, StillKeeps DEF CancelRunning, CancelUnknown, Forks, disk, world
  <2>10. CASE UNCHANGED vars  BY <2>10, StillKeeps DEF vars, disk, world
  <2> QED  BY <2>1, <2>2, <2>3, <2>4, <2>5, <2>6, <2>7, <2>8, <2>9, <2>10 DEF Next
<1> QED  BY <1>t, <1>r DEF OnceInv, OnceRest

\* It holds of the empty listener.
LEMMA OnceInit == Init => OnceInv
<1> SUFFICES ASSUME Init PROVE OnceInv
  OBVIOUS
<1>u. /\ \A h \in Slots : handler[h].pc = "idle"
      /\ \A c \in Calls : spawned[c] = 0 /\ journal[c].state = "none"
  BY IdleType DEF Init, NoRecord
<1>p. "idle" \notin {"claiming", "reserving", "admitting", "starting", "spawning"}
      /\ "idle" \notin JournalPCs /\ "idle" \notin ShortWaits /\ "idle" \notin BeforeJob
  BY DEF JournalPCs, ShortWaits, BeforeJob
<1>1. ModesKept  BY <1>u, <1>p DEF ModesKept, At
<1>2. WaitsInTime  BY <1>u, <1>p DEF WaitsInTime, At
<1>3. RecordsOutlive  BY <1>u, Constants DEF RecordsOutlive
<1>4. DurableOnce  BY <1>u, <1>p, Constants DEF DurableOnce, At
<1>5. LiveOnce  BY <1>u, <1>p DEF LiveOnce, At
<1> QED  BY <1>1, <1>2, <1>3, <1>4, <1>5, TypeInit DEF OnceInv

\* However a call is delivered, repeated, interrupted or forgotten, the
\* listener starts its agent once at most.
THEOREM StartedAtMostOnce == Spec => []AtMostOnce
<1>1. OnceInv => AtMostOnce
  BY DEF OnceInv, DurableOnce, LiveOnce, AtMostOnce
<1> QED  BY <1>1, OnceInit, OnceStep, PTL DEF Spec

-----------------------------------------------------------------------------

(***************************************************************************)
(* What a frame to the relay stands for: a durable call accepted is one in *)
(* the journal.                                                            *)
(***************************************************************************)

\* A durable call past its claim has its record: no purge reaches it.
AdmittedRecorded ==
    \A h \in Slots : At(h, "admitting") /\ Call(h) \in Durable =>
                        journal[Call(h)].state # "none"

\* The frames of a step are among those it means to send.
LEMMA SentFrames == \A S : Sent(S) => wire' \subseteq S
BY DEF Sent

\* A durable call's acceptance is sent by one action.
Promised(f) ==
    f.type = "call_accepted" /\ f.call \in Durable =>
      \E h \in Slots : EnqueueDurable(h) /\ f.call = Call(h)

\* Where the frames of a step come from.
LEMMA PromisesKept ==
    ASSUME Next
    PROVE  \A f \in wire' : Promised(f)
<1> DEFINE Quiet(f) == f.type # "call_accepted"
<1>q. ASSUME \A f \in wire' : Quiet(f) PROVE \A f \in wire' : Promised(f)
  BY <1>q DEF Promised
<1>r. ASSUME NEW h \in Slots, Reject(h) PROVE \A f \in wire' : Quiet(f)
  BY <1>r, SentFrames DEF Reject, Leave, Frame
<1>o. ASSUME NEW h \in Slots, Leave(h, {OutcomeFrame(h)})
      PROVE  \A f \in wire' : Quiet(f)
  BY <1>o, SentFrames DEF Leave, OutcomeFrame, Frame
<1>n. ASSUME NEW h \in Slots, Leave(h, {}) PROVE \A f \in wire' : Quiet(f)
  BY <1>n, SentFrames DEF Leave
<1>1. CASE Tick \/ Connect \/ Disconnect \/ Stop \/ Restart \/ ProcessEnds
  BY <1>1, <1>q DEF Tick, Connect, Disconnect, Stop, Restart, ProcessEnds
<1>2. ASSUME NEW h \in Slots, NEW c \in Calls, Deliver(h, c)
      PROVE  \A f \in wire' : Promised(f)
  BY <1>2, <1>q DEF Deliver
<1>3. ASSUME NEW c \in Calls, CancelRunning(c) \/ CancelUnknown(c) \/ Forks(c)
      PROVE  \A f \in wire' : Promised(f)
  BY <1>3, <1>q DEF CancelRunning, CancelUnknown, Forks
<1>4. ASSUME NEW h \in Slots, Accept(h) PROVE \A f \in wire' : Promised(f)
  <2>1. Reject(h) \/ wire' = {}
    BY <1>4 DEF Accept, OpenEnvelope, OpenFails, Reserve, ReserveRefused, ClaimNew,
                ClaimAgain, ClaimIndeterminate, ClaimFull, StoreFails,
                RefusedByPolicy, RefusedContext, RefusedBusy
  <2> QED  BY <2>1, <1>r, <1>q
<1>5. ASSUME NEW h \in Slots, RunJob(h) PROVE \A f \in wire' : Promised(f)
  <2>1. CASE EnqueueDurable(h)
    <3>1. \A f \in wire' : f.type = "call_accepted" /\ f.call = Call(h)
      <4>1. wire' \subseteq {Frame("call_accepted", h, "none")}
        BY <2>1, SentFrames DEF EnqueueDurable
      <4> QED  BY <4>1 DEF Frame, Call
    <3> QED  BY <2>1, <3>1 DEF Promised
  <2>2. CASE EnqueueLive(h)
    <3>1. \A f \in wire' : f.call = Call(h)
      <4>1. wire' \subseteq {Frame("call_accepted", h, "none"), Frame("call_started", h, "none")}
        BY <2>2, SentFrames DEF EnqueueLive
      <4> QED  BY <4>1 DEF Frame, Call
    <3>2. Call(h) \notin Durable  BY <2>2 DEF EnqueueLive
    <3> QED  BY <3>1, <3>2 DEF Promised
  <2>3. CASE Spawn(h)
    <3>1. wire' \subseteq {Frame("call_started", h, "none")}
      BY <2>3, SentFrames DEF Spawn
    <3> QED  BY <3>1, <1>q DEF Frame
  <2>4. CASE AgentCanceled(h)
    BY <2>4, <1>q, SentFrames DEF AgentCanceled, Leave, Frame
  <2>5. CASE MarkStarted(h) \/ MarkStartedFails(h) \/ AgentReplies(h) \/ AgentFails(h)
             \/ ResumeGone(h)
    BY <2>5, <1>q DEF MarkStarted, MarkStartedFails, AgentReplies, AgentFails, ResumeGone
  <2> QED  BY <1>5, <2>1, <2>2, <2>3, <2>4, <2>5 DEF RunJob
<1>6. ASSUME NEW h \in Slots, Answer(h) PROVE \A f \in wire' : Promised(f)
  <2>1. CASE SealAndMark(h)
    BY <2>1, <1>q, SentFrames DEF SealAndMark, OutcomeFrame, Frame
  <2>2. CASE SealAndLeave(h)  BY <2>2, <1>q, <1>o DEF SealAndLeave
  <2>3. CASE SealFails(h) \/ MarkTerminal(h)
    BY <2>3, <1>q, <1>n DEF SealFails, MarkTerminal
  <2>4. CASE MarkTerminalFails(h)
    <3>1. Reject(h) \/ Leave(h, {}) \/ wire' = {}  BY <2>4 DEF MarkTerminalFails
    <3> QED  BY <3>1, <1>q, <1>r, <1>n
  <2> QED  BY <1>6, <2>1, <2>2, <2>3, <2>4 DEF Answer
<1> QED  BY <1>1, <1>2, <1>3, <1>4, <1>5, <1>6 DEF Next, Proceed

\* A callback that does not come to the admission, and a journal that loses no
\* record of a call at it, keep AdmittedRecorded.
LEMMA RecordedQuiet ==
    ASSUME OnceInv, AdmittedRecorded, NEW h \in Slots, Others(h),
           handler'[h].pc # "admitting" \/ handler'[h].call \notin Durable,
           \A c \in Durable : journal[c].state # "none" => journal'[c].state # "none"
    PROVE  AdmittedRecorded'
BY DEF AdmittedRecorded, Others, At, Call

\* Every step of a callback keeps it.
LEMMA ProceedRecorded ==
    ASSUME OnceInv, AdmittedRecorded, NEW h \in Slots, Proceed(h)
    PROVE  AdmittedRecorded'
<1>t. TypeOK  BY DEF OnceInv
<1>n. UNCHANGED now  BY DEF Proceed
<1>l. ASSUME NEW frames, Leave(h, frames), UNCHANGED journal PROVE AdmittedRecorded'
  <2>1. Returns(h)  BY <1>t, <1>l, LeaveReturns
  <2> QED  BY <1>l, <2>1, RecordedQuiet DEF Returns
<1>s. ASSUME NEW o \in Outcomes, Seal(h, o), UNCHANGED journal PROVE AdmittedRecorded'
  <2>1. Moves(h, "sealing", handler[h].at)  BY <1>t, <1>s, SealMoves
  <2> QED  BY <1>s, <2>1, RecordedQuiet DEF Moves
<1>g. ASSUME NEW pc \in PCs \ {"admitting"}, GoTo(h, pc), UNCHANGED journal
      PROVE  AdmittedRecorded'
  <2>1. Moves(h, pc, handler[h].at)  BY <1>t, <1>g, GoToMoves
  <2> QED  BY <1>g, <2>1, RecordedQuiet DEF Moves
<1>e. ASSUME NEW pc \in PCs \ {"admitting"}, UNCHANGED journal,
             handler' = [handler EXCEPT ![h].pc = pc, ![h].at = now]
      PROVE  AdmittedRecorded'
  <2>1. Moves(h, pc, now)  BY <1>t, <1>e, TimedMoves
  <2> QED  BY <1>e, <2>1, RecordedQuiet DEF Moves
<1>o. {"blocked", "context_unknown", "busy", "indeterminate", "delivery_failed",
       "reply", "failed"} \subseteq Outcomes
      /\ {"claiming", "reserving", "starting", "spawning", "running", "marking"}
            \subseteq PCs \ {"admitting"}
      /\ "admitting" \in PCs
  BY DEF Outcomes, PCs, ShortWaits
<1>1. CASE Accept(h)
  <2>1. CASE OpenEnvelope(h)
    <3> DEFINE pc == IF Call(h) \in Durable THEN "claiming" ELSE "reserving"
    <3>1. pc \in PCs \ {"admitting"}  BY <1>o
    <3>2. handler' = [handler EXCEPT ![h].pc = pc, ![h].at = now] /\ UNCHANGED journal
      BY <2>1 DEF OpenEnvelope, disk
    <3> HIDE DEF pc
    <3> QED  BY <1>e, <3>1, <3>2
  <2>2. CASE Reserve(h)
    <3>1. Moves(h, "admitting", handler[h].at)  BY <1>t, <1>o, <2>2, GoToMoves DEF Reserve
    <3>2. Call(h) \notin Durable /\ UNCHANGED journal
      BY <2>2 DEF OnceInv, ModesKept, Reserve
    <3> QED  BY <3>1, <3>2, RecordedQuiet DEF Moves, Call
  <2>3. CASE ClaimNew(h)
    <3> DEFINE t == handler[h].at
               c == Call(h)
    <3>1. Moves(h, "admitting", t)  BY <1>t, <1>o, <2>3, GoToMoves DEF ClaimNew
    <3>2. handler[h].pc \in BeforeJob  BY <2>3 DEF ClaimNew, At, BeforeJob
    <3>3. c \in Calls /\ t \in Nat /\ t <= now /\ now \in Nat  BY <3>2, BeforeJobFacts
    <3>4. /\ journal'[c].state = "claimed"
          /\ \A d \in Calls \ {c} : journal'[d] = KeptRecords(t)[d]
      BY <1>t, <2>3, <3>3, KeptType DEF ClaimNew
    <3> SUFFICES ASSUME NEW g \in Slots, handler'[g].pc = "admitting",
                        handler'[g].call \in Durable
                 PROVE  journal'[handler'[g].call].state # "none"
      BY DEF AdmittedRecorded, At, Call
    <3>5. CASE handler'[g].call = c  BY <3>4, <3>5
    <3>6. CASE handler'[g].call # c
      <4>1. g # h /\ handler'[g] = handler[g]
        BY <3>1, <3>6 DEF Moves, Others, Call
      <4>2. handler[g].pc \in BeforeJob /\ Call(g) \in Durable \ {c} /\ At(g, "admitting")
        BY <3>6, <4>1 DEF BeforeJob, Call, At
      <4>3. /\ handler[g].at \in Nat /\ now <= handler[g].at + LockWait
            /\ handler[g].at < Expires(Call(g)) /\ Expires(Call(g)) \in Nat
            /\ Call(g) \in Calls \ {c}
        BY <4>2, BeforeJobFacts
      <4>4. journal[Call(g)].state # "none" /\ journal[Call(g)].purge_after \in Nat
        BY <1>t, <4>2, <4>3 DEF AdmittedRecorded, TypeOK, RecordType
      <4>5. journal[Call(g)].purge_after >= Expires(Call(g)) + 2 * LockWait
        BY <4>2, <4>4 DEF OnceInv, RecordsOutlive
      <4>6. t < journal[Call(g)].purge_after
        BY <3>3, <4>3, <4>4, <4>5, Constants
      <4>7. journal'[Call(g)] = journal[Call(g)]
        BY <3>4, <4>3, <4>6 DEF KeptRecords
      <4> QED  BY <4>1, <4>4, <4>7 DEF Call
    <3> QED  BY <3>5, <3>6
  <2>4. CASE ClaimAgain(h)
    <3>1. Moves(h, "admitting", handler[h].at)
      BY <1>t, <1>o, <2>4, GoToMoves DEF ClaimAgain
    <3>2. handler[h].pc # "idle"  BY <2>4 DEF ClaimAgain, At
    <3>3. Call(h) \in Calls  BY <1>t, <3>2, SlotType DEF Call
    <3>4. journal[Call(h)].state # "none" /\ UNCHANGED journal
      BY <2>4, <3>3 DEF ClaimAgain, KeptRecords, NoRecord, disk
    <3> QED  BY <3>1, <3>4 DEF AdmittedRecorded, Moves, Others, At, Call
  <2>5. CASE OpenFails(h) \/ ReserveRefused(h) \/ ClaimFull(h) \/ StoreFails(h)
    <3>1. Reject(h) /\ UNCHANGED journal
      BY <2>5 DEF OpenFails, ReserveRefused, ClaimFull, StoreFails, disk
    <3> QED  BY <1>l, <3>1 DEF Reject
  <2>6. CASE \/ ClaimIndeterminate(h) \/ RefusedByPolicy(h) \/ RefusedContext(h)
             \/ RefusedBusy(h)
    <3>1. /\ UNCHANGED journal
          /\ \E o \in {"blocked", "context_unknown", "busy", "indeterminate"} : Seal(h, o)
      BY <2>6 DEF ClaimIndeterminate, RefusedByPolicy, RefusedContext, RefusedBusy, disk
    <3> QED  BY <1>o, <1>s, <3>1
  <2> QED  BY <1>1, <2>1, <2>2, <2>3, <2>4, <2>5, <2>6 DEF Accept
<1>2. CASE RunJob(h)
  <2>1. CASE EnqueueDurable(h) \/ EnqueueLive(h)
    <3>1. Enqueued(h, "starting") \/ Enqueued(h, "running")
      BY <2>1 DEF EnqueueDurable, EnqueueLive
    <3> QED  BY <1>o, <1>e, <3>1 DEF Enqueued, disk
  <2>2. CASE MarkStarted(h)
    <3>1. Moves(h, "spawning", handler[h].at)  BY <1>t, <1>o, <2>2, GoToMoves DEF MarkStarted
    <3>2. handler[h].pc # "idle"  BY <2>2 DEF MarkStarted, At
    <3>3. Call(h) \in Calls  BY <1>t, <3>2, SlotType DEF Call
    <3>4. /\ journal'[Call(h)].state = "started"
          /\ \A d \in Calls \ {Call(h)} : journal'[d] = journal[d]
      BY <1>t, <2>2, <3>3, RecordedType DEF MarkStarted
    <3> QED  BY <3>1, <3>4, RecordedQuiet, Constants DEF Moves
  <2>3. CASE Spawn(h)
    BY <1>o, <1>g, <2>3 DEF Spawn, disk
  <2>4. CASE MarkStartedFails(h) \/ AgentReplies(h) \/ AgentFails(h) \/ ResumeGone(h)
    <3>1. /\ UNCHANGED journal
          /\ \E o \in {"delivery_failed", "reply", "failed", "context_unknown"} : Seal(h, o)
      BY <2>4 DEF MarkStartedFails, AgentReplies, AgentFails, ResumeGone, disk
    <3> QED  BY <1>o, <1>s, <3>1
  <2>5. CASE AgentCanceled(h)
    BY <1>l, <2>5 DEF AgentCanceled, disk
  <2> QED  BY <1>2, <2>1, <2>2, <2>3, <2>4, <2>5 DEF RunJob
<1>3. CASE Answer(h)
  <2>1. CASE SealAndMark(h)
    BY <1>o, <1>g, <2>1 DEF SealAndMark, disk
  <2>2. CASE SealAndLeave(h) \/ SealFails(h)
    BY <1>l, <2>2 DEF SealAndLeave, SealFails, disk
  <2>3. CASE MarkTerminal(h)
    <3>1. Returns(h)  BY <1>t, <2>3, LeaveReturns DEF MarkTerminal
    <3>2. handler[h].pc # "idle"  BY <2>3 DEF MarkTerminal, At
    <3>3. Call(h) \in Calls  BY <1>t, <3>2, SlotType DEF Call
    <3>4. /\ journal'[Call(h)].state = "terminal"
          /\ \A d \in Calls \ {Call(h)} : journal'[d] = journal[d]
      BY <1>t, <2>3, <3>3, RecordedType DEF MarkTerminal
    <3> QED  BY <3>1, <3>4, RecordedQuiet, Constants DEF Returns
  <2>4. CASE MarkTerminalFails(h)
    <3>1. UNCHANGED journal /\ (Seal(h, "failed") \/ \E frames : Leave(h, frames))
      BY <2>4 DEF MarkTerminalFails, Reject, disk
    <3> QED  BY <1>o, <1>s, <1>l, <3>1
  <2> QED  BY <1>3, <2>1, <2>2, <2>3, <2>4 DEF Answer
<1> QED  BY <1>1, <1>2, <1>3 DEF Proceed

\* It is inductive relative to OnceInv.
LEMMA RecordedStep == OnceInv /\ AdmittedRecorded /\ [Next]_vars => AdmittedRecorded'
<1> SUFFICES ASSUME OnceInv, AdmittedRecorded, [Next]_vars PROVE AdmittedRecorded'
  OBVIOUS
<1>u. ASSUME UNCHANGED <<handler, journal>> PROVE AdmittedRecorded'
  BY <1>u DEF AdmittedRecorded, At, Call
<1>1. CASE Tick \/ Connect \/ Disconnect \/ Stop \/ ProcessEnds
  BY <1>1, <1>u DEF Tick, Connect, Disconnect, Stop, ProcessEnds, disk
<1>2. CASE Restart
  BY <1>2, IdleType DEF Restart, AdmittedRecorded, At
<1>3. ASSUME NEW h \in Slots, Proceed(h) PROVE AdmittedRecorded'
  BY <1>3, ProceedRecorded
<1>4. ASSUME NEW h \in Slots, NEW c \in Calls, Deliver(h, c) PROVE AdmittedRecorded'
  <2> DEFINE r == [Idle EXCEPT !.pc = "opening", !.call = c, !.lease = deliveries[c] + 1]
  <2>1. handler' = [handler EXCEPT ![h] = r] /\ r.pc = "opening" /\ UNCHANGED journal
    BY <1>4 DEF Deliver, Idle, disk
  <2>2. Others(h) /\ handler'[h].pc = "opening"
    BY <2>1 DEF OnceInv, TypeOK, Others
  <2> QED  BY <2>1, <2>2, RecordedQuiet
<1>5. ASSUME NEW c \in Calls, CancelRunning(c) \/ CancelUnknown(c) \/ Forks(c)
      PROVE  AdmittedRecorded'
  BY <1>5, <1>u DEF CancelRunning, CancelUnknown, Forks, disk
<1>6. CASE UNCHANGED vars  BY <1>6, <1>u DEF vars, disk
<1> QED  BY <1>1, <1>2, <1>3, <1>4, <1>5, <1>6 DEF Next

\* An agent is started by two actions only.
LEMMA StartedByJob ==
    ASSUME Next, spawned' # spawned
    PROVE  \E h \in Slots : Proceed(h) /\ (EnqueueLive(h) \/ Spawn(h))
<1>1. ~(Tick \/ Connect \/ Disconnect \/ Stop \/ Restart \/ ProcessEnds)
  BY DEF Tick, Connect, Disconnect, Stop, Restart, ProcessEnds, world
<1>2. ~\E h \in Slots, c \in Calls : Deliver(h, c)
  BY DEF Deliver, world
<1>3. ~\E c \in Calls : CancelRunning(c) \/ CancelUnknown(c) \/ Forks(c)
  BY DEF CancelRunning, CancelUnknown, Forks, world
<1>4. ASSUME NEW h \in Slots, Accept(h) PROVE FALSE
  BY <1>4 DEF Accept, OpenEnvelope, OpenFails, Reserve, ReserveRefused, ClaimNew,
              ClaimAgain, ClaimIndeterminate, ClaimFull, StoreFails,
              RefusedByPolicy, RefusedContext, RefusedBusy, world
<1>5. ASSUME NEW h \in Slots, Answer(h) PROVE FALSE
  BY <1>5 DEF Answer, SealAndMark, SealAndLeave, SealFails, MarkTerminal,
              MarkTerminalFails, world
<1>6. ASSUME NEW h \in Slots, RunJob(h) PROVE EnqueueLive(h) \/ Spawn(h)
  BY <1>6 DEF RunJob, EnqueueDurable, MarkStarted, MarkStartedFails, AgentReplies,
              AgentFails, ResumeGone, AgentCanceled, AgentExits, world
<1> QED  BY <1>1, <1>2, <1>3, <1>4, <1>5, <1>6 DEF Next, Proceed

\* A durable call is in the journal when it is acknowledged, and as started
\* when its agent is spawned.
THEOREM JournaledFirst == Spec => JournalFirst
<1>1. OnceInv /\ AdmittedRecorded /\ Next =>
        \A c \in Durable :
          /\ (\E f \in wire' : f.type = "call_accepted" /\ f.call = c)
                => journal'[c].state # "none"
          /\ spawned'[c] > spawned[c] => journal[c].state \in {"started", "terminal"}
  <2> SUFFICES ASSUME OnceInv, AdmittedRecorded, Next, NEW c \in Durable
               PROVE  /\ (\E f \in wire' : f.type = "call_accepted" /\ f.call = c)
                            => journal'[c].state # "none"
                      /\ spawned'[c] > spawned[c] =>
                            journal[c].state \in {"started", "terminal"}
    OBVIOUS
  <2>1. ASSUME NEW f \in wire', f.type = "call_accepted", f.call = c
        PROVE  journal'[c].state # "none"
    <3>1. PICK h \in Slots : EnqueueDurable(h) /\ f.call = Call(h)
      BY <2>1, PromisesKept DEF Promised
    <3>2. At(h, "admitting") /\ Call(h) = c /\ UNCHANGED journal
      BY <2>1, <3>1 DEF EnqueueDurable, Enqueued, disk
    <3> QED  BY <3>2 DEF AdmittedRecorded
  <2>2. ASSUME spawned'[c] > spawned[c] PROVE journal[c].state \in {"started", "terminal"}
    <3>0. TypeOK /\ c \in Calls /\ spawned[c] \in Nat
      BY Constants DEF OnceInv, TypeOK
    <3>1. spawned' # spawned  BY <2>2, <3>0
    <3>2. PICK h \in Slots : EnqueueLive(h) \/ Spawn(h)  BY <3>1, StartedByJob
    <3>3. handler[h].pc # "idle" /\ Spawned(Call(h))
          /\ (EnqueueLive(h) => Call(h) \notin Durable)
      BY <3>2 DEF EnqueueLive, Enqueued, Spawn, At
    <3>4. Call(h) \in Calls  BY <3>0, <3>3, SlotType DEF Call
    <3>5. \A d \in Calls \ {Call(h)} : spawned'[d] = spawned[d]
      BY <3>0, <3>3, <3>4, SpawnedType
    <3>6. Call(h) = c  BY <2>2, <3>0, <3>5
    <3>7. At(h, "spawning")  BY <3>2, <3>3, <3>6 DEF Spawn
    <3> QED  BY <3>6, <3>7 DEF OnceInv, DurableOnce
  <2> QED  BY <2>1, <2>2
<1>2. Init => AdmittedRecorded
  BY IdleType DEF Init, AdmittedRecorded, At
<1>3. Spec => [](OnceInv /\ AdmittedRecorded)
  BY <1>2, OnceInit, OnceStep, RecordedStep, PTL DEF Spec
<1> QED  BY <1>1, <1>3, PTL DEF Spec, JournalFirst

-----------------------------------------------------------------------------
(* Lists of bindings.                                                       *)

\* The members of a set of numbers below one.
Below(I, i) == {j \in I : j < i}
\* The places of a set of numbers are its members, one each.
LEMMA PlacesAre ==
    ASSUME NEW m \in Nat, NEW I \in SUBSET (1..m)
    PROVE  /\ IsFiniteSet(I) /\ Cardinality(I) \in Nat /\ Cardinality(I) <= m
           /\ \A k \in 1..Cardinality(I) : Place(I, k) \in I
           /\ \A i \in I : \E k \in 1..Cardinality(I) : Place(I, k) = i
           /\ \A k, l \in 1..Cardinality(I) : Place(I, k) = Place(I, l) => k = l
<1> DEFINE n == Cardinality(I)
           r == [i \in I |-> Cardinality(Below(I, i)) + 1]
<1>1. /\ IsFiniteSet(1..m) /\ Cardinality(1..m) = m
      /\ IsFiniteSet(I) /\ n \in Nat /\ n <= m
      /\ IsFiniteSet(1..n) /\ Cardinality(1..n) = n
  <2>1. IsFiniteSet(1..m) /\ Cardinality(1..m) = m  BY FS_Interval
  <2>2. IsFiniteSet(I) /\ n \in Nat /\ n <= m  BY <2>1, FS_Subset, FS_CardinalityType
  <2>3. IsFiniteSet(1..n) /\ Cardinality(1..n) = n  BY <2>2, FS_Interval
  <2> QED  BY <2>1, <2>2, <2>3
<1>0. I \subseteq Nat  OBVIOUS
<1>2. \A i \in I : /\ i \in Nat /\ Below(I, i) \subseteq I /\ i \notin Below(I, i)
                   /\ IsFiniteSet(Below(I, i)) /\ Cardinality(Below(I, i)) \in Nat
  BY <1>1, <1>0, FS_Subset, FS_CardinalityType DEF Below
<1>3. ASSUME NEW i \in I PROVE Cardinality(Below(I, i)) < n
  <2>1. /\ Cardinality(Below(I, i)) <= n
        /\ Cardinality(Below(I, i)) = n => Below(I, i) = I
    BY <1>1, <1>2, FS_Subset
  <2> QED  BY <1>1, <1>2, <2>1
<1>4. ASSUME NEW i \in I, NEW j \in I, i < j
      PROVE  Cardinality(Below(I, i)) < Cardinality(Below(I, j))
  <2>1. Below(I, i) \subseteq Below(I, j)
    <3> SUFFICES ASSUME NEW k \in Below(I, i) PROVE k \in Below(I, j)
      OBVIOUS
    <3>1. k \in I /\ k < i  BY DEF Below
    <3>2. k < j  BY <1>0, <1>4, <3>1
    <3> QED  BY <3>1, <3>2 DEF Below
  <2>2. i \in Below(I, j)  BY <1>4 DEF Below
  <2>3. /\ Cardinality(Below(I, i)) <= Cardinality(Below(I, j))
        /\ Cardinality(Below(I, i)) = Cardinality(Below(I, j)) => Below(I, i) = Below(I, j)
    BY <1>2, <2>1, FS_Subset
  <2> QED  BY <1>2, <2>2, <2>3
<1> HIDE DEF n
<1>5. r \in [I -> 1..n]
  <2>1. ASSUME NEW i \in I PROVE Cardinality(Below(I, i)) + 1 \in 1..n
    <3>1. PICK k \in Nat : k = Cardinality(Below(I, i))  BY <1>2
    <3> QED  BY <1>1, <1>3, <3>1
  <2> QED  BY <2>1
<1>6. \A i \in I : r[i] = Cardinality(Below(I, i)) + 1  OBVIOUS
<1>7. ASSUME NEW i \in I, NEW j \in I, r[i] = r[j] PROVE i = j
  <2>1. PICK k \in Nat, l \in Nat : k = Cardinality(Below(I, i)) /\ l = Cardinality(Below(I, j))
    BY <1>2
  <2>2. k = l  BY <1>6, <1>7, <2>1
  <2>3. ~(k < l) /\ ~(l < k)  BY <2>2
  <2>4. ~(i < j) /\ ~(j < i)  BY <1>4, <2>1, <2>3
  <2> QED  BY <1>0, <2>4
<1> HIDE DEF r
<1>8. r \in Injection(I, 1..n)  BY <1>5, <1>7 DEF Injection, IsInjective
<1>9. r \in Surjection(I, 1..n)  BY <1>1, <1>8, FS_Injection DEF n
<1>10. ASSUME NEW k \in 1..n
       PROVE  /\ Place(I, k) \in I /\ r[Place(I, k)] = k
  <2>1. PICK i \in I : r[i] = k  BY <1>9 DEF Surjection
  <2>2. PICK c \in Nat : c = Cardinality(Below(I, i))  BY <1>2
  <2>3. c = k - 1  BY <1>1, <1>6, <2>1, <2>2
  <2>4. Place(I, k) \in I /\ Cardinality(Below(I, Place(I, k))) = k - 1
    BY <2>2, <2>3 DEF Place, Below
  <2>5. r[Place(I, k)] = Cardinality(Below(I, Place(I, k))) + 1  BY <1>6, <2>4
  <2>6. (k - 1) + 1 = k  BY <1>1
  <2> QED  BY <2>4, <2>5, <2>6
<1>11. ASSUME NEW i \in I PROVE \E k \in 1..n : Place(I, k) = i
  <2>1. r[i] \in 1..n  BY <1>5
  <2>2. Place(I, r[i]) \in I /\ r[Place(I, r[i])] = r[i]  BY <1>10, <2>1
  <2> QED  BY <1>7, <2>1, <2>2
<1>12. \A k, l \in 1..n : Place(I, k) = Place(I, l) => k = l  BY <1>10
<1> QED  BY <1>1, <1>10, <1>11, <1>12 DEF n

\* A list's bindings, and that no conversation has two.
Has(list, b) == \E i \in 1..Len(list) : list[i] = b
Single(list) ==
    list \in Seq(Binding) /\ \A i, j \in 1..Len(list) : list[i].id = list[j].id => i = j

\* What is picked from a list.
LEMMA PickedIs ==
    ASSUME NEW list, Single(list), NEW I \in SUBSET (1..Len(list))
    PROVE  /\ Single(Picked(list, I)) /\ Len(Picked(list, I)) <= Len(list)
           /\ \A b : Has(Picked(list, I), b) <=> \E i \in I : list[i] = b
<1> DEFINE q == Picked(list, I)
           n == Cardinality(I)
<1>1. Len(list) \in Nat /\ \A i \in 1..Len(list) : list[i] \in Binding
  BY DEF Single
<1>2. /\ n \in Nat /\ n <= Len(list)
      /\ \A k \in 1..n : Place(I, k) \in I
      /\ \A i \in I : \E k \in 1..n : Place(I, k) = i
      /\ \A k, l \in 1..n : Place(I, k) = Place(I, l) => k = l
  BY <1>1, PlacesAre
<1>3. q = [k \in 1..n |-> list[Place(I, k)]]  BY DEF Picked
<1> HIDE DEF q, n
<1>4. q \in Seq(Binding) /\ Len(q) = n /\ \A k \in 1..n : q[k] = list[Place(I, k)]
  <2>1. \A k \in 1..n : Place(I, k) \in 1..Len(list)  BY <1>2
  <2>2. \A k \in 1..n : list[Place(I, k)] \in Binding  BY <1>1, <2>1
  <2>3. q \in [1..n -> Binding]  BY <1>3, <2>2
  <2>4. q \in Seq(Binding) /\ Len(q) = n  BY <1>2, <2>3
  <2> QED  BY <1>3, <2>4
<1>5. ASSUME NEW k \in 1..n, NEW l \in 1..n, q[k].id = q[l].id PROVE k = l
  <2>1. Place(I, k) \in 1..Len(list) /\ Place(I, l) \in 1..Len(list)  BY <1>2
  <2>2. list[Place(I, k)].id = list[Place(I, l)].id  BY <1>4, <1>5
  <2>3. Place(I, k) = Place(I, l)  BY <2>1, <2>2 DEF Single
  <2> QED  BY <1>2, <2>3
<1>6. ASSUME NEW b PROVE Has(q, b) <=> \E i \in I : list[i] = b
  <2>1. ASSUME Has(q, b) PROVE \E i \in I : list[i] = b
    BY <1>2, <1>4, <2>1 DEF Has
  <2>2. ASSUME NEW i \in I, list[i] = b PROVE Has(q, b)
    <3>1. PICK k \in 1..n : Place(I, k) = i  BY <1>2
    <3> QED  BY <1>4, <2>2, <3>1 DEF Has
  <2> QED  BY <2>1, <2>2
<1>7. Single(q)  BY <1>4, <1>5 DEF Single
<1> QED  BY <1>2, <1>4, <1>6, <1>7 DEF q

\* A list without a conversation.
LEMMA WithoutIs ==
    ASSUME NEW list, Single(list), NEW id
    PROVE  /\ Single(Without(list, id))
           /\ \A b : Has(Without(list, id), b) <=> Has(list, b) /\ b.id # id
<1> DEFINE I == {i \in DOMAIN list : list[i].id # id}
<1>1. DOMAIN list = 1..Len(list)  BY DEF Single
<1>2. I \in SUBSET (1..Len(list))  BY <1>1
<1>3. \A b : (\E i \in I : list[i] = b) <=> Has(list, b) /\ b.id # id
  BY <1>1 DEF Has
<1>4. Without(list, id) = Picked(list, I)  BY DEF Without
<1> HIDE DEF I
<1> QED  BY <1>2, <1>3, <1>4, PickedIs

\* A pruned list: its fresh bindings, unless the cap cuts them.
LEMMA PruneIs ==
    ASSUME NEW list, Single(list), NEW t
    PROVE  LET q == PruneContexts(list, t)
           IN  /\ Single(q) /\ Len(q) <= MaxContexts
               /\ \A b : Has(q, b) => Has(list, b) /\ t - b.last_used_at < ContextTtl
               /\ Len(list) <= MaxContexts \/ Len(q) # MaxContexts =>
                    \A b : Has(list, b) /\ t - b.last_used_at < ContextTtl => Has(q, b)
<1> DEFINE I == {i \in DOMAIN list : t - list[i].last_used_at < ContextTtl}
           fresh == Picked(list, I)
           k == SeqLeast(Len(fresh), MaxContexts)
           q == SubSeq(fresh, 1, k)
<1>1. DOMAIN list = 1..Len(list)  BY DEF Single
<1>2. I \in SUBSET (1..Len(list))  BY <1>1
<1>3. \A b : (\E i \in I : list[i] = b) <=> Has(list, b) /\ t - b.last_used_at < ContextTtl
  BY <1>1 DEF Has
<1>4. PruneContexts(list, t) = q  BY DEF PruneContexts
<1> HIDE DEF I
<1>5. /\ Single(fresh) /\ Len(fresh) <= Len(list)
      /\ \A b : Has(fresh, b) <=> Has(list, b) /\ t - b.last_used_at < ContextTtl
  BY <1>2, <1>3, PickedIs
<1> HIDE DEF fresh
<1>6. /\ fresh \in Seq(Binding) /\ Len(fresh) \in Nat /\ MaxContexts \in Nat
      /\ Len(list) \in Nat
  BY SMTT(30), <1>5, ListenerAssumption DEF Single
<1>7. k \in Nat /\ k <= Len(fresh) /\ k <= MaxContexts
      /\ (Len(fresh) <= MaxContexts \/ k # MaxContexts => k = Len(fresh))
  BY <1>6 DEF SeqLeast
<1> HIDE DEF k
<1>8. q \in Seq(Binding) /\ Len(q) = k /\ \A i \in 1..k : q[i] = fresh[i]
  BY <1>6, <1>7
<1> HIDE DEF q
<1>9. Single(q)
  <2>1. 1..k \subseteq 1..Len(fresh)  BY <1>6, <1>7
  <2> QED  BY <1>5, <1>8, <2>1 DEF Single
<1>10. \A b : Has(q, b) => Has(fresh, b)  BY <1>6, <1>7, <1>8 DEF Has
<1>11. k = Len(fresh) => \A b : Has(fresh, b) => Has(q, b)  BY <1>8 DEF Has
<1>12. Len(list) <= MaxContexts \/ Len(q) # MaxContexts => k = Len(fresh)
  BY <1>5, <1>6, <1>7, <1>8
<1> QED  BY <1>4, <1>5, <1>7, <1>8, <1>9, <1>10, <1>11, <1>12

\* The new turn in front.
LEMMA UpsertIs ==
    ASSUME NEW list, Single(list), NEW b \in Binding
    PROVE  /\ Single(UpsertContext(list, b))
           /\ \A d : Has(UpsertContext(list, b), d) <=> d = b \/ (Has(list, d) /\ d.id # b.id)
<1> DEFINE w == Without(list, b.id)
           u == <<b>> \o w
<1>1. Single(w) /\ \A d : Has(w, d) <=> Has(list, d) /\ d.id # b.id  BY WithoutIs
<1>2. u = UpsertContext(list, b)  BY DEF UpsertContext
<1> HIDE DEF w
<1>3. w \in Seq(Binding) /\ Len(w) \in Nat  BY <1>1 DEF Single
<1>4. /\ u \in Seq(Binding) /\ Len(u) = Len(w) + 1 /\ u[1] = b
      /\ \A i \in 1..Len(w) : u[i + 1] = w[i]
  <2>1. <<b>> \in Seq(Binding) /\ Len(<<b>>) = 1 /\ <<b>>[1] = b  OBVIOUS
  <2>2. /\ u \in Seq(Binding) /\ Len(u) = 1 + Len(w)
        /\ \A i \in 1..(1 + Len(w)) : u[i] = IF i <= 1 THEN <<b>>[i] ELSE w[i - 1]
    BY <1>3, <2>1, ConcatProperties
  <2> HIDE DEF u
  <2>3. u[1] = b  BY <1>3, <2>1, <2>2
  <2>4. ASSUME NEW i \in 1..Len(w) PROVE u[i + 1] = w[i]
    <3>1. i + 1 \in 1..(1 + Len(w)) /\ ~(i + 1 <= 1) /\ (i + 1) - 1 = i  BY <1>3
    <3> QED  BY <2>2, <3>1
  <2> QED  BY <1>3, <2>2, <2>3, <2>4
<1> HIDE DEF u
<1>5. ASSUME NEW i \in 1..Len(u) PROVE i = 1 \/ \E j \in 1..Len(w) : i = j + 1 /\ u[i] = w[j]
  <2>1. i # 1 => i - 1 \in 1..Len(w) /\ i = (i - 1) + 1  BY <1>3, <1>4
  <2> QED  BY <1>4, <2>1
<1>6. ASSUME NEW d PROVE Has(u, d) <=> d = b \/ Has(w, d)
  <2>1. ASSUME Has(u, d) PROVE d = b \/ Has(w, d)  BY <1>4, <1>5, <2>1 DEF Has
  <2>2. 1 \in 1..Len(u) /\ \A j \in 1..Len(w) : j + 1 \in 1..Len(u)  BY <1>3, <1>4
  <2>3. ASSUME d = b \/ Has(w, d) PROVE Has(u, d)  BY <1>4, <2>2, <2>3 DEF Has
  <2> QED  BY <2>1, <2>3
<1>7. \A j \in 1..Len(w) : w[j].id # b.id  BY <1>1 DEF Has
<1>8. ASSUME NEW i \in 1..Len(u), NEW j \in 1..Len(u), u[i].id = u[j].id PROVE i = j
  <2>1. CASE i = 1  BY <1>4, <1>5, <1>7, <1>8, <2>1
  <2>2. CASE j = 1  BY <1>4, <1>5, <1>7, <1>8, <2>2
  <2>3. CASE i # 1 /\ j # 1
    <3>1. PICK k \in 1..Len(w) : i = k + 1 /\ u[i] = w[k]  BY <1>5, <2>3
    <3>2. PICK l \in 1..Len(w) : j = l + 1 /\ u[j] = w[l]  BY <1>5, <2>3
    <3>3. k = l  BY <1>1, <1>8, <3>1, <3>2 DEF Single
    <3> QED  BY <3>1, <3>2, <3>3
  <2> QED  BY <2>1, <2>2, <2>3
<1>9. Single(u)  BY <1>4, <1>8 DEF Single
<1> QED  BY <1>1, <1>2, <1>6, <1>9

\* The turns a list counts are its binding's.
LEMMA TurnsAre ==
    ASSUME NEW list, Single(list)
    PROVE  /\ \A b : Has(list, b) => Turns(list, b.id) = b.turns
           /\ \A c : /\ Turns(list, c) \in Nat
                     /\ Turns(list, c) # 0 => \E b : Has(list, b) /\ b.id = c
<1>1. DOMAIN list = 1..Len(list) /\ \A i \in 1..Len(list) : list[i].turns \in Nat
  <2>1. list \in Seq(Binding)  BY DEF Single
  <2>2. DOMAIN list = 1..Len(list) /\ \A i \in 1..Len(list) : list[i] \in Binding  BY <2>1
  <2> QED  BY <2>2 DEF Binding
<1>2. ASSUME NEW b, Has(list, b) PROVE Turns(list, b.id) = b.turns
  <2>1. PICK i \in 1..Len(list) : list[i] = b  BY <1>2 DEF Has
  <2> DEFINE k == CHOOSE k \in DOMAIN list : list[k].id = b.id
  <2>2. k \in DOMAIN list /\ list[k].id = b.id  BY <1>1, <2>1
  <2>3. Turns(list, b.id) = list[k].turns  BY <1>1, <2>1 DEF Turns
  <2> HIDE DEF k
  <2>4. k = i  BY <1>1, <2>1, <2>2 DEF Single
  <2> QED  BY <2>1, <2>3, <2>4
<1>3. ASSUME NEW c PROVE /\ Turns(list, c) \in Nat
                         /\ Turns(list, c) # 0 => \E b : Has(list, b) /\ b.id = c
  <2>1. CASE ~\E i \in DOMAIN list : list[i].id = c  BY <2>1 DEF Turns
  <2>2. ASSUME NEW i \in DOMAIN list, list[i].id = c
        PROVE  Turns(list, c) \in Nat /\ \E b : Has(list, b) /\ b.id = c
    <3>1. Has(list, list[i])  BY <1>1 DEF Has
    <3>2. Turns(list, c) = list[i].turns  BY <1>2, <2>2, <3>1
    <3> QED  BY <1>1, <2>2, <3>1, <3>2
  <2> QED  BY <2>1, <2>2
<1> QED  BY <1>2, <1>3

-----------------------------------------------------------------------------
(* Conversations.                                                           *)

\* A step leaves a job the list it loaded, or gives one the list there is.
Loaded == loaded = [h \in Slots |-> loaded[h]]
JobsMove ==
    /\ Loaded'
    /\ \A g \in Slots : handler'[g].pc \in JobPCs =>
         \/ /\ handler[g].pc \in JobPCs
            /\ handler'[g].at = handler[g].at /\ loaded'[g] = loaded[g]
         \/ handler'[g].at = now /\ loaded'[g] = PruneContexts(contexts, now)

\* A callback that moves to another await, within its job or out of it.
LEMMA SlotMoves ==
    ASSUME TypeOK, Loaded, UNCHANGED loaded, NEW h \in Slots, Others(h),
           \/ handler'[h].pc \notin JobPCs
           \/ handler[h].pc \in JobPCs /\ handler'[h].at = handler[h].at
    PROVE  JobsMove
BY DEF JobsMove, Loaded, Others

\* One that returns.
LEMMA LeaveMoves ==
    ASSUME TypeOK, Loaded, NEW h \in Slots, NEW frames, Leave(h, frames)
    PROVE  JobsMove
<1>1. Others(h) /\ handler'[h].pc = "idle"  BY LeaveReturns DEF Returns
<1>2. loaded' = [loaded EXCEPT ![h] = <<>>]  BY DEF Leave
<1>3. Loaded' /\ \A g \in Slots \ {h} : loaded'[g] = loaded[g]  BY <1>2 DEF Loaded
<1>4. "idle" \notin JobPCs  BY DEF JobPCs
<1> QED  BY <1>1, <1>3, <1>4 DEF JobsMove, Others

\* One that is enqueued.
LEMMA EnqueueMoves ==
    ASSUME TypeOK, Loaded, NEW h \in Slots, NEW pc \in PCs, Enqueued(h, pc)
    PROVE  JobsMove
<1>1. Others(h) /\ handler'[h].at = now
  BY TimedMoves DEF Enqueued, Moves
<1>2. loaded' = [loaded EXCEPT ![h] = PruneContexts(contexts, now)]
  BY DEF Enqueued, Bindings
<1>3. /\ Loaded' /\ loaded'[h] = PruneContexts(contexts, now)
      /\ \A g \in Slots \ {h} : loaded'[g] = loaded[g]
  BY <1>2 DEF Loaded
<1> QED  BY <1>1, <1>3 DEF JobsMove, Others

\* What the job of h saves.
Saves(h) ==
    /\ handler'[h].pc = "sealing"
    /\ \/ /\ AgentReplies(h)
          /\ contexts' = PruneContexts(UpsertContext(loaded[h], NextBinding(h)), handler[h].at)
       \/ /\ ResumeGone(h) /\ handler'[h].outcome = "context_unknown"
          /\ contexts' = PruneContexts(Without(loaded[h], Resumes[Call(h)]), handler[h].at)

\* Every step of a callback moves the jobs so, and only a job saves.
LEMMA ProceedMoves ==
    ASSUME TypeOK, Loaded, NEW h \in Slots, Proceed(h)
    PROVE  JobsMove /\ (contexts' = contexts \/ Saves(h))
<1> DEFINE Kept == JobsMove /\ contexts' = contexts
<1>p. {"opening", "claiming", "reserving", "admitting", "sealing", "marking", "starting",
       "spawning", "running"} \subseteq PCs
      /\ Outcomes = {"none", "blocked", "context_unknown", "busy", "indeterminate",
                     "delivery_failed", "reply", "failed"}
  BY DEF PCs, ShortWaits, Outcomes
<1>j. {"claiming", "reserving", "admitting", "sealing", "marking"} \cap JobPCs = {}
      /\ {"starting", "spawning", "running"} \subseteq JobPCs
  BY DEF JobPCs
<1>g. ASSUME NEW pc \in {"claiming", "reserving", "admitting", "marking"}, GoTo(h, pc),
             UNCHANGED <<loaded, contexts>>
      PROVE  Kept
  BY <1>p, <1>j, <1>g, GoToMoves, SlotMoves DEF Moves
<1>s. ASSUME NEW outcome \in Outcomes, Seal(h, outcome), UNCHANGED loaded
      PROVE  JobsMove /\ handler'[h].pc = "sealing"
  BY <1>j, <1>s, SealMoves, SlotMoves DEF Moves
<1>n. ASSUME NEW pc \in {"spawning", "running"}, GoTo(h, pc), handler[h].pc \in JobPCs,
             UNCHANGED <<loaded, contexts>>
      PROVE  Kept
  BY <1>p, <1>n, GoToMoves, SlotMoves DEF Moves
<1>l. ASSUME NEW frames, Leave(h, frames), UNCHANGED contexts PROVE Kept
  BY <1>l, LeaveMoves
<1>r. ASSUME Reject(h), UNCHANGED contexts PROVE Kept
  BY <1>l, <1>r DEF Reject
<1> HIDE DEF Kept
<1>1. CASE OpenEnvelope(h)
  <2>1. PICK pc \in {"claiming", "reserving"} :
           handler' = [handler EXCEPT ![h].pc = pc, ![h].at = now]
    BY <1>1 DEF OpenEnvelope
  <2>2. Others(h) /\ handler'[h].pc = pc  BY <1>p, <2>1, TimedMoves DEF Moves
  <2>3. UNCHANGED <<loaded, contexts>>  BY <1>1 DEF OpenEnvelope, queue, disk
  <2> QED  BY <1>j, <2>2, <2>3, SlotMoves
<1>2. CASE OpenFails(h) \/ ReserveRefused(h) \/ ClaimFull(h) \/ StoreFails(h)
  <2>1. Reject(h) /\ UNCHANGED contexts
    BY <1>2 DEF OpenFails, ReserveRefused, ClaimFull, StoreFails, disk
  <2> QED  BY <1>r, <2>1 DEF Kept
<1>3. CASE Reserve(h) \/ ClaimNew(h) \/ ClaimAgain(h)
  <2>1. GoTo(h, "admitting") /\ UNCHANGED <<loaded, contexts>>
    BY <1>3 DEF Reserve, ClaimNew, ClaimAgain, queue, disk
  <2> QED  BY <1>g, <2>1 DEF Kept
<1>4. CASE ClaimIndeterminate(h) \/ RefusedByPolicy(h) \/ RefusedContext(h) \/ RefusedBusy(h)
  <2>1. /\ \E outcome \in {"indeterminate", "blocked", "context_unknown", "busy"} :
             Seal(h, outcome)
        /\ UNCHANGED <<loaded, contexts>>
    BY <1>4 DEF ClaimIndeterminate, RefusedByPolicy, RefusedContext, RefusedBusy, queue, disk
  <2> QED  BY <1>p, <1>s, <2>1
<1>5. CASE EnqueueDurable(h) \/ EnqueueLive(h)
  <2>1. PICK pc \in {"starting", "running"} : Enqueued(h, pc)
    BY <1>5 DEF EnqueueDurable, EnqueueLive
  <2>2. contexts' = contexts  BY <2>1 DEF Enqueued, disk
  <2> QED  BY <1>p, <2>1, <2>2, EnqueueMoves
<1>6. CASE MarkStarted(h)
  <2>1. /\ GoTo(h, "spawning") /\ handler[h].pc \in JobPCs
        /\ UNCHANGED <<loaded, contexts>>
    BY <1>6, <1>j DEF MarkStarted, At, queue
  <2> QED  BY <1>n, <2>1 DEF Kept
<1>7. CASE Spawn(h)
  <2>1. /\ GoTo(h, "running") /\ handler[h].pc \in JobPCs
        /\ UNCHANGED <<loaded, contexts>>
    BY <1>7, <1>j DEF Spawn, At, queue, disk
  <2> QED  BY <1>n, <2>1 DEF Kept
<1>8. CASE MarkStartedFails(h) \/ AgentFails(h)
  <2>1. /\ Seal(h, "delivery_failed") \/ Seal(h, "failed")
        /\ UNCHANGED <<loaded, contexts>>
    BY <1>8 DEF MarkStartedFails, AgentFails, queue, disk
  <2> QED  BY <1>p, <1>s, <2>1
<1>9. CASE AgentReplies(h)
  <2>1. Seal(h, "reply") /\ UNCHANGED loaded
    BY <1>9 DEF AgentReplies, queue
  <2>2. JobsMove /\ handler'[h].pc = "sealing"  BY <1>p, <1>s, <2>1
  <2>3. contexts' = contexts
          \/ contexts' = PruneContexts(UpsertContext(loaded[h], NextBinding(h)), handler[h].at)
    BY <1>9 DEF AgentReplies
  <2> QED  BY <1>9, <2>2, <2>3 DEF Saves
<1>10. CASE ResumeGone(h)
  <2>1. Seal(h, "context_unknown") /\ UNCHANGED loaded
    BY <1>10 DEF ResumeGone, queue
  <2>2. JobsMove /\ handler'[h].pc = "sealing"  BY <1>p, <1>s, <2>1
  <2>3. contexts' = contexts
          \/ contexts' = PruneContexts(Without(loaded[h], Resumes[Call(h)]), handler[h].at)
    BY <1>10 DEF ResumeGone
  <2>4. handler'[h].outcome = "context_unknown"
    <3>1. handler[h] \in HandlerType  BY SlotType
    <3>2. handler' = [handler EXCEPT ![h] =
                        [handler[h] EXCEPT !.pc = "sealing", !.outcome = "context_unknown"]]
      BY <2>1 DEF Seal, TypeOK
    <3> QED  BY <3>1, <3>2 DEF TypeOK, HandlerType
  <2> QED  BY <1>10, <2>2, <2>3, <2>4 DEF Saves
<1>11. CASE AgentCanceled(h) \/ SealAndLeave(h) \/ SealFails(h) \/ MarkTerminal(h)
  <2>1. (\E frames : Leave(h, frames)) /\ UNCHANGED contexts
    BY <1>11 DEF AgentCanceled, SealAndLeave, SealFails, MarkTerminal, disk
  <2> QED  BY <1>l, <2>1 DEF Kept
<1>12. CASE SealAndMark(h)
  <2>1. GoTo(h, "marking") /\ UNCHANGED <<loaded, contexts>>
    BY <1>12 DEF SealAndMark, queue, disk
  <2> QED  BY <1>g, <2>1 DEF Kept
<1>13. CASE MarkTerminalFails(h)
  <2>1. contexts' = contexts  BY <1>13 DEF MarkTerminalFails, disk
  <2>2. Reject(h) \/ Leave(h, {}) \/ (Seal(h, "failed") /\ UNCHANGED loaded)
    BY <1>13 DEF MarkTerminalFails, queue
  <2> QED  BY <1>l, <1>r, <1>s, <1>p, <2>1, <2>2 DEF Kept
<1> QED
  BY <1>1, <1>2, <1>3, <1>4, <1>5, <1>6, <1>7, <1>8, <1>9, <1>10, <1>11, <1>12, <1>13
     DEF Proceed, Accept, RunJob, Answer, Kept

\* So does every step.
LEMMA StepMoves ==
    ASSUME TypeOK, Loaded, [Next]_vars
    PROVE  /\ JobsMove /\ now' \in Nat /\ now <= now'
           /\ contexts' = contexts \/ \E h \in Slots : Saves(h) /\ UNCHANGED now
<1>t. now \in Nat  BY DEF TypeOK
<1>j. "opening" \notin JobPCs /\ "idle" \notin JobPCs  BY DEF JobPCs
<1>u. ASSUME UNCHANGED <<handler, loaded>> PROVE JobsMove
  BY <1>u DEF JobsMove, Loaded
<1>1. CASE Tick
  BY <1>1, <1>t, <1>u DEF Tick, queue, disk
<1>2. CASE Connect \/ Disconnect \/ Stop \/ ProcessEnds \/ UNCHANGED vars
  <2>1. UNCHANGED <<handler, loaded, contexts, now>>
    BY <1>2 DEF Connect, Disconnect, Stop, ProcessEnds, vars, queue, disk
  <2> QED  BY <1>t, <1>u, <2>1
<1>3. CASE Restart
  <2>1. handler' = [h \in Slots |-> Idle] /\ loaded' = [h \in Slots |-> <<>>]
    BY <1>3 DEF Restart
  <2>2. Loaded' /\ \A g \in Slots : handler'[g].pc = "idle"
    BY <2>1, IdleType DEF Loaded
  <2>3. contexts' = contexts /\ now' = now  BY <1>3 DEF Restart, disk
  <2> QED  BY <1>t, <1>j, <2>2, <2>3 DEF JobsMove
<1>4. ASSUME NEW h \in Slots, Proceed(h)
      PROVE  /\ JobsMove /\ now' = now
             /\ contexts' = contexts \/ Saves(h)
  BY <1>4, ProceedMoves DEF Proceed
<1>5. ASSUME NEW h \in Slots, NEW c \in Calls, Deliver(h, c)
      PROVE  JobsMove /\ UNCHANGED <<contexts, now>>
  <2>1. /\ handler' = [handler EXCEPT ![h] =
              [Idle EXCEPT !.pc = "opening", !.call = c, !.lease = deliveries[c] + 1]]
        /\ UNCHANGED <<loaded, contexts, now>>
    BY <1>5 DEF Deliver, queue, disk
  <2>2. Others(h) /\ handler'[h].pc = "opening"
    BY <2>1 DEF TypeOK, Others, Idle
  <2> QED  BY <1>j, <2>1, <2>2, SlotMoves
<1>6. ASSUME NEW c \in Calls, CancelRunning(c) \/ CancelUnknown(c) \/ Forks(c)
      PROVE  JobsMove /\ UNCHANGED <<contexts, now>>
  <2>1. UNCHANGED <<handler, loaded, contexts, now>>
    BY <1>6 DEF CancelRunning, CancelUnknown, Forks, queue, disk
  <2> QED  BY <1>u, <2>1
<1> QED  BY <1>t, <1>1, <1>2, <1>3, <1>4, <1>5, <1>6 DEF Next

\* What a job saves is a list of one binding for each conversation; and a
\* conversation that was still listed keeps its turns, unless the cap cuts.
LEMMA SavedIs ==
    ASSUME TypeOK, ContextsInv, NEW h \in Slots, Saves(h)
    PROVE  /\ Single(contexts') /\ Len(contexts') <= MaxContexts
           /\ \A b : Has(contexts', b) => b.last_used_at <= now
           /\ \A c \in Calls :
                /\ Turns(Bindings, c) # 0 /\ Len(contexts') # MaxContexts
                /\ ~(ResumeGone(h) /\ Resumes[Call(h)] = c)
                => Turns(contexts', c) >= Turns(contexts, c)
<1> DEFINE list == loaded[h]
           at == handler[h].at
           c0 == Call(h)
<1>1. At(h, "running") /\ handler[h].pc \in JobPCs
  BY DEF Saves, AgentReplies, ResumeGone, AgentExits, At, JobPCs
<1>2. /\ now \in Nat /\ at \in Nat /\ at <= now /\ c0 \in Calls
      /\ list = PruneContexts(contexts, at)
  BY <1>1, SlotType DEF TypeOK, ContextsInv, At, Call
<1>3. ContextTtl \in Nat /\ MaxContexts \in Nat /\ Resumes \in [Calls -> Calls \cup {NoCall}]
  BY ListenerAssumption
<1>4. /\ Single(contexts) /\ Len(contexts) <= MaxContexts
      /\ \A b : Has(contexts, b) => b \in Binding /\ b.last_used_at <= now
  <2>1. contexts \in Seq(Binding)  BY DEF ContextsInv, Listed
  <2> QED  BY <2>1 DEF ContextsInv, Listed, Single, Has
<1> HIDE DEF list, at, c0
<1>5. /\ Single(list) /\ Len(list) <= MaxContexts
      /\ \A b : Has(list, b) => Has(contexts, b)
      /\ \A b : Has(contexts, b) /\ at - b.last_used_at < ContextTtl => Has(list, b)
  BY <1>2, <1>4, PruneIs
\* A listed conversation is in what the job loaded, as it is on disk.
<1>6. ASSUME NEW c \in Calls, Turns(Bindings, c) # 0
      PROVE  \E b \in Binding : /\ Has(contexts, b) /\ Has(list, b) /\ b.id = c
                                /\ Turns(contexts, c) = b.turns /\ Turns(list, c) = b.turns
                                /\ at - b.last_used_at < ContextTtl /\ 0 < ContextTtl
  <2>1. /\ Single(Bindings)
        /\ \A b : Has(Bindings, b) => Has(contexts, b) /\ now - b.last_used_at < ContextTtl
    BY <1>4, PruneIs DEF Bindings
  <2>2. PICK b : Has(Bindings, b) /\ b.id = c  BY <1>6, <2>1, TurnsAre
  <2>3. Has(contexts, b) /\ b \in Binding /\ now - b.last_used_at < ContextTtl
        /\ b.last_used_at <= now
    BY <1>4, <2>1, <2>2
  <2>4. b.last_used_at \in Nat  BY <2>3 DEF Binding
  <2>5. at - b.last_used_at < ContextTtl /\ 0 < ContextTtl
    BY <1>2, <1>3, <2>3, <2>4
  <2>6. Has(list, b)  BY <1>5, <2>3, <2>5
  <2>7. Turns(contexts, c) = b.turns /\ Turns(list, c) = b.turns
    BY <1>4, <1>5, <2>2, <2>3, <2>6, TurnsAre
  <2> QED  BY <2>2, <2>3, <2>5, <2>6, <2>7
<1>7. CASE /\ AgentReplies(h)
           /\ contexts' = PruneContexts(UpsertContext(list, NextBinding(h)), at)
  <2> DEFINE n == NextBinding(h)
             u == UpsertContext(list, n)
  <2>1. n \in Binding /\ n.last_used_at = at /\ n.turns = Turns(list, n.id) + 1
    <3>1. \A d : Turns(list, d) \in Nat  BY <1>5, TurnsAre
    <3>2. IF Resuming(c0) THEN Resumes[c0] \in Calls ELSE c0 \in Calls
      BY <1>2, <1>3 DEF Resuming
    <3> QED  BY <1>2, <3>1, <3>2 DEF NextBinding, Binding, list, at, c0
  <2> HIDE DEF n
  <2>2. /\ Single(u)
        /\ \A d : Has(u, d) <=> d = n \/ (Has(list, d) /\ d.id # n.id)
    BY <1>5, <2>1, UpsertIs
  <2>3. contexts' = PruneContexts(u, at)  BY <1>7 DEF n
  <2> HIDE DEF u
  <2>4. /\ Single(contexts') /\ Len(contexts') <= MaxContexts
        /\ \A b : Has(contexts', b) => Has(u, b)
        /\ Len(contexts') # MaxContexts =>
             \A b : Has(u, b) /\ at - b.last_used_at < ContextTtl => Has(contexts', b)
    BY <2>2, <2>3, PruneIs
  <2>5. \A b : Has(contexts', b) => b.last_used_at <= now
    BY <1>2, <1>4, <1>5, <2>1, <2>2, <2>4
  <2>6. ASSUME NEW c \in Calls, Turns(Bindings, c) # 0, Len(contexts') # MaxContexts
        PROVE  Turns(contexts', c) >= Turns(contexts, c)
    <3>1. PICK b \in Binding :
             /\ Has(contexts, b) /\ Has(list, b) /\ b.id = c
             /\ Turns(contexts, c) = b.turns /\ Turns(list, c) = b.turns
             /\ at - b.last_used_at < ContextTtl /\ 0 < ContextTtl
      BY <1>6, <2>6
    <3>2. b.turns \in Nat  BY DEF Binding
    <3>3. CASE n.id = c
      <4>1. n.turns = b.turns + 1  BY <2>1, <3>1, <3>3
      <4>2. at - n.last_used_at < ContextTtl  BY <1>2, <2>1, <3>1
      <4>3. Has(contexts', n)  BY <2>2, <2>4, <2>6, <4>2
      <4>4. Turns(contexts', c) = n.turns  BY <2>4, <3>3, <4>3, TurnsAre
      <4> QED  BY <3>1, <3>2, <4>1, <4>4
    <3>4. CASE n.id # c
      <4>1. Has(contexts', b)  BY <2>2, <2>4, <2>6, <3>1, <3>4
      <4>2. Turns(contexts', c) = b.turns  BY <2>4, <3>1, <4>1, TurnsAre
      <4> QED  BY <3>1, <3>2, <4>2
    <3> QED  BY <3>3, <3>4
  <2> QED  BY <2>4, <2>5, <2>6
<1>8. CASE /\ ResumeGone(h)
           /\ contexts' = PruneContexts(Without(list, Resumes[c0]), at)
  <2> DEFINE u == Without(list, Resumes[c0])
  <2>2. Single(u) /\ \A d : Has(u, d) <=> Has(list, d) /\ d.id # Resumes[c0]
    BY <1>5, WithoutIs
  <2>3. contexts' = PruneContexts(u, at)  BY <1>8
  <2> HIDE DEF u
  <2>4. /\ Single(contexts') /\ Len(contexts') <= MaxContexts
        /\ \A b : Has(contexts', b) => Has(u, b)
        /\ Len(contexts') # MaxContexts =>
             \A b : Has(u, b) /\ at - b.last_used_at < ContextTtl => Has(contexts', b)
    BY <2>2, <2>3, PruneIs
  <2>5. \A b : Has(contexts', b) => b.last_used_at <= now
    BY <1>4, <1>5, <2>2, <2>4
  <2>6. ASSUME NEW c \in Calls, Turns(Bindings, c) # 0, Len(contexts') # MaxContexts,
               Resumes[c0] # c
        PROVE  Turns(contexts', c) >= Turns(contexts, c)
    <3>1. PICK b \in Binding :
             /\ Has(contexts, b) /\ Has(list, b) /\ b.id = c
             /\ Turns(contexts, c) = b.turns /\ Turns(list, c) = b.turns
             /\ at - b.last_used_at < ContextTtl /\ 0 < ContextTtl
      BY <1>6, <2>6
    <3>2. b.turns \in Nat  BY DEF Binding
    <3>3. Has(contexts', b)  BY <2>2, <2>4, <2>6, <3>1
    <3>4. Turns(contexts', c) = b.turns  BY <2>4, <3>1, <3>3, TurnsAre
    <3> QED  BY <3>1, <3>2, <3>4
  <2> QED  BY <1>8, <2>4, <2>5, <2>6 DEF c0
<1> QED  BY <1>7, <1>8 DEF Saves, list, at, c0

\* The inductive invariant of the bindings.
LEMMA ContextsInvariant == Spec => [](TypeOK /\ ContextsInv)
<1>1. Init => ContextsInv
  <2> SUFFICES ASSUME Init PROVE ContextsInv
    OBVIOUS
  <2>1. contexts = <<>> /\ Len(contexts) = 0 /\ contexts \in Seq(Binding)  BY DEF Init
  <2>2. Listed(contexts)  BY <2>1 DEF Listed
  <2>3. \A h \in Slots : handler[h].pc = "idle"  BY IdleType DEF Init
  <2>4. "idle" \notin JobPCs /\ MaxContexts \in Nat  BY ListenerAssumption DEF JobPCs
  <2>5. loaded = [h \in Slots |-> loaded[h]]  BY DEF Init
  <2> QED  BY <2>1, <2>2, <2>3, <2>4, <2>5 DEF ContextsInv
<1>2. TypeOK /\ ContextsInv /\ [Next]_vars /\ TypeOK' => ContextsInv'
  <2> SUFFICES ASSUME TypeOK, ContextsInv, [Next]_vars, TypeOK' PROVE ContextsInv'
    OBVIOUS
  <2>1. /\ JobsMove /\ now \in Nat /\ now' \in Nat /\ now <= now'
        /\ contexts' = contexts \/ \E h \in Slots : Saves(h) /\ UNCHANGED now
    BY StepMoves DEF ContextsInv, Loaded, TypeOK
  <2>2. CASE contexts' = contexts
    <3>1. Listed(contexts)'
      <4>1. \A i \in 1..Len(contexts) : contexts[i].last_used_at \in Nat
        <5>1. contexts \in Seq(Binding)  BY DEF ContextsInv, Listed
        <5>2. \A i \in 1..Len(contexts) : contexts[i] \in Binding  BY <5>1
        <5> QED  BY <5>2 DEF Binding
      <4>2. \A i \in 1..Len(contexts) : contexts[i].last_used_at <= now'
        BY <2>1, <4>1 DEF ContextsInv, Listed
      <4> QED  BY <2>2, <4>2 DEF ContextsInv, Listed
    <3>2. ASSUME NEW g \in Slots, handler'[g].pc \in JobPCs
          PROVE  /\ handler'[g].at <= now'
                 /\ loaded'[g] = PruneContexts(contexts, handler'[g].at)
      <4>1. handler'[g].at \in Nat
        <5>1. handler'[g] \in HandlerType  BY DEF TypeOK
        <5> QED  BY <5>1 DEF HandlerType
      <4>2. CASE handler[g].pc \in JobPCs /\ handler'[g].at = handler[g].at
                 /\ loaded'[g] = loaded[g]
        BY <2>1, <4>1, <4>2 DEF ContextsInv
      <4>3. CASE handler'[g].at = now /\ loaded'[g] = PruneContexts(contexts, now)
        BY <2>1, <4>3
      <4> QED  BY <2>1, <3>2, <4>2, <4>3 DEF JobsMove
    <3> QED  BY <2>1, <2>2, <3>1, <3>2 DEF ContextsInv, JobsMove, Loaded
  <2>3. ASSUME NEW h \in Slots, Saves(h), now' = now PROVE ContextsInv'
    <3>1. /\ Single(contexts') /\ Len(contexts') <= MaxContexts
          /\ \A b : Has(contexts', b) => b.last_used_at <= now
      BY <2>3, SavedIs
    <3>2. Listed(contexts)'  BY <2>3, <3>1 DEF Listed, Single, Has
    <3>3. handler[h].pc = "running" /\ handler'[h].pc = "sealing"
      BY <2>3 DEF Saves, AgentReplies, ResumeGone, AgentExits, At
    <3>4. "running" \in JobPCs /\ "sealing" \notin JobPCs  BY DEF JobPCs
    <3>5. running = h /\ running' = running
      BY <2>3, <3>3, <3>4 DEF TypeOK, Saves, AgentReplies, ResumeGone, queue
    <3>6. ASSUME NEW g \in Slots PROVE handler'[g].pc \notin JobPCs
      BY <3>3, <3>4, <3>5 DEF TypeOK
    <3> QED  BY <2>1, <3>1, <3>2, <3>6 DEF ContextsInv, JobsMove, Loaded
  <2> QED  BY <2>1, <2>2, <2>3
<1>3. Init => TypeOK  BY TypeInit
<1>4. TypeOK /\ [Next]_vars => TypeOK'  BY TypeStep
<1> QED  BY <1>1, <1>2, <1>3, <1>4, PTL DEF Spec

\* A conversation loses turns only by age, by the cap, or because the agent no
\* longer has it: no other job saves between a job's admission and its save.
THEOREM ConversationsKept == Spec => ConversationKept
<1> DEFINE Lost ==
      \A c \in Calls :
         Turns(contexts', c) < Turns(contexts, c) =>
            \/ Turns(Bindings, c) = 0
            \/ Len(contexts') = MaxContexts
            \/ \E h \in Slots : /\ At(h, "running") /\ Resumes[Call(h)] = c
                                /\ handler'[h].outcome = "context_unknown"
<1>1. TypeOK /\ ContextsInv /\ [Next]_vars => [Lost]_vars
  <2> SUFFICES ASSUME TypeOK, ContextsInv, [Next]_vars, NEW c \in Calls,
                      Turns(contexts', c) < Turns(contexts, c),
                      Turns(Bindings, c) # 0, Len(contexts') # MaxContexts
               PROVE  \E h \in Slots : /\ At(h, "running") /\ Resumes[Call(h)] = c
                                       /\ handler'[h].outcome = "context_unknown"
    OBVIOUS
  <2>1. Single(contexts) /\ Turns(contexts, c) \in Nat
    <3>1. Single(contexts)  BY DEF ContextsInv, Listed, Single
    <3> QED  BY <3>1, TurnsAre
  <2>2. contexts' # contexts  BY <2>1
  <2>3. PICK h \in Slots : Saves(h)
    BY <2>2, StepMoves DEF ContextsInv, Loaded
  <2>4. Single(contexts') /\ Turns(contexts', c) \in Nat
    <3>1. Single(contexts')  BY <2>3, SavedIs
    <3> QED  BY <3>1, TurnsAre
  <2>5. ~(Turns(contexts', c) >= Turns(contexts, c))  BY <2>1, <2>4
  <2>6. ResumeGone(h) /\ Resumes[Call(h)] = c  BY <2>3, <2>5, SavedIs
  <2>7. At(h, "running")  BY <2>6 DEF ResumeGone, AgentExits
  <2>8. handler'[h].outcome = "context_unknown"
    <3>1. handler[h] \in HandlerType  BY SlotType
    <3>2. handler' = [handler EXCEPT ![h] =
                        [handler[h] EXCEPT !.pc = "sealing", !.outcome = "context_unknown"]]
      BY <2>6 DEF ResumeGone, Seal, TypeOK
    <3> QED  BY <3>1, <3>2 DEF TypeOK, HandlerType
  <2> QED  BY <2>6, <2>7, <2>8
<1> QED  BY <1>1, ContextsInvariant, PTL DEF Spec, ConversationKept
=============================================================================
