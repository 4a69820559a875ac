------------------------ MODULE OutboundCallsProofs ------------------------
(***************************************************************************)
(* What is proved of the caller's commands, for any number of commands,    *)
(* peers and faults, and any limits of the two files.                      *)
(***************************************************************************)
EXTENDS OutboundCallsProperties, TLAPS

\* The stages that work on a file, and the file.
LEMMA FileOfStage ==
    /\ DOMAIN Wants = {"pin", "reset", "remember", "ack", "forget"}
    /\ Wants["pin"] = "peers" /\ Wants["reset"] = "peers"
    /\ Wants["remember"] = "jobs" /\ Wants["ack"] = "jobs" /\ Wants["forget"] = "jobs"
BY DEF Wants

\* The contents of the two files.
LEMMA FileContents ==
    /\ Files["peers"] = peers /\ Files["jobs"] = jobs
    /\ Unread["peers"] = [a \in Addresses |-> NoPin] /\ Unread["jobs"] = {}
BY DEF Files, Unread

LEMMA UnreadTyped == Unread \in [peers : [Addresses -> Pins], jobs : SUBSET Job]
BY DEF Unread, Pins

\* The constants' types.
LEMMA ConstantsTyped ==
    /\ None \notin Commands
    /\ \A k \in Pins : k = [id |-> k.id, epoch |-> k.epoch] /\ k.epoch \in Nat
    /\ \A k \in Bundles : k # NoPin
    /\ MailboxTtl \in Nat /\ MaxFaults \in Nat /\ MaxTime \in Nat
<1>1. \A k \in Bundles : k = [id |-> k.id, epoch |-> k.epoch] /\ k.epoch \in Nat \ {0}
  BY OutboundAssumption
<1>2. NoPin.epoch = 0 /\ NoPin = [id |-> NoPin.id, epoch |-> NoPin.epoch]
  BY DEF NoPin
<1>3. \A k \in Bundles : k # NoPin
  BY <1>1, <1>2
<1>4. /\ None \notin Commands
      /\ MailboxTtl \in Nat /\ MaxFaults \in Nat /\ MaxTime \in Nat
  BY OutboundAssumption
<1> QED  BY <1>1, <1>2, <1>3, <1>4 DEF Pins

\* A step of one command, which keeps what its message is.
Own(c) ==
    /\ cmd' \in [Commands -> Command]
    /\ \A d \in Commands \ {c} : cmd'[d] = cmd[d]
Keeps(c) ==
    /\ Own(c)
    /\ cmd'[c].addr = cmd[c].addr /\ cmd'[c].key = cmd[c].key
    /\ cmd'[c].durable = cmd[c].durable /\ cmd'[c].at = cmd[c].at

\* The fields of a command.
LEMMA CommandFields ==
    ASSUME cmd \in [Commands -> Command], NEW c \in Commands
    PROVE  /\ cmd[c].pc \in PCs /\ cmd[c].addr \in Addresses \cup {None}
           /\ cmd[c].key \in Pins /\ cmd[c].durable \in BOOLEAN /\ cmd[c].at \in Nat
           /\ cmd[c].report \in {"none", "failed", "answered", "queued", "closed"}
           /\ cmd[c].inside \in BOOLEAN
           /\ cmd[c].copy \in [peers : [Addresses -> Pins], jobs : SUBSET Job]
           /\ cmd[c].copy["peers"] \in [Addresses -> Pins]
           /\ cmd[c].copy["jobs"] \in SUBSET Job
BY DEF Command

LEMMA MovesOn ==
    ASSUME cmd \in [Commands -> Command], NEW c \in Commands, NEW pc \in PCs, Moves(c, pc)
    PROVE  /\ Keeps(c) /\ cmd'[c].pc = pc /\ cmd'[c].inside = FALSE
           /\ cmd'[c].report = cmd[c].report
<1>1. cmd[c] \in Command  OBVIOUS
<1> DEFINE next == [cmd[c] EXCEPT !.pc = pc, !.inside = FALSE, !.copy = Unread]
<1>2. /\ next \in Command /\ next.pc = pc /\ next.inside = FALSE
      /\ next.report = cmd[c].report /\ next.addr = cmd[c].addr /\ next.key = cmd[c].key
      /\ next.durable = cmd[c].durable /\ next.at = cmd[c].at
  BY <1>1, UnreadTyped DEF Command
<1>3. cmd' = [cmd EXCEPT ![c] = next]
  BY DEF Moves
<1> QED  BY <1>2, <1>3 DEF Keeps, Own

LEMMA LeavesWith ==
    ASSUME cmd \in [Commands -> Command], NEW c \in Commands,
           NEW r \in {"failed", "answered", "queued", "closed"}, Leaves(c, r)
    PROVE  /\ Keeps(c) /\ cmd'[c].pc = "over" /\ cmd'[c].inside = FALSE
           /\ cmd'[c].report = IF Settled(c) THEN cmd[c].report ELSE r
<1>1. cmd[c] \in Command  OBVIOUS
<1> DEFINE next == [Reported(c, r) EXCEPT !.pc = "over", !.inside = FALSE, !.copy = Unread]
<1>2. /\ Reported(c, r) \in Command
      /\ Reported(c, r).report = IF Settled(c) THEN cmd[c].report ELSE r
      /\ Reported(c, r).addr = cmd[c].addr /\ Reported(c, r).key = cmd[c].key
      /\ Reported(c, r).durable = cmd[c].durable /\ Reported(c, r).at = cmd[c].at
  BY <1>1 DEF Reported, Command
<1>3. /\ next \in Command /\ next.pc = "over" /\ next.inside = FALSE
      /\ next.report = IF Settled(c) THEN cmd[c].report ELSE r
      /\ next.addr = cmd[c].addr /\ next.key = cmd[c].key
      /\ next.durable = cmd[c].durable /\ next.at = cmd[c].at
  BY <1>2, UnreadTyped DEF Command, PCs
<1>4. cmd' = [cmd EXCEPT ![c] = next]
  BY DEF Leaves
<1> QED  BY <1>3, <1>4 DEF Keeps, Own

\* Taking a lock: the process is inside, with the file's contents, or waits.
LEMMA TakesLock ==
    ASSUME TypeOK, NEW c \in Commands, NEW rec \in Command, rec.inside = FALSE,
           NEW pc \in DOMAIN Wants, Take(c, rec, pc)
    PROVE  /\ Own(c) /\ cmd'[c].pc = pc
           /\ cmd'[c].addr = rec.addr /\ cmd'[c].key = rec.key
           /\ cmd'[c].durable = rec.durable /\ cmd'[c].at = rec.at
           /\ cmd'[c].report = rec.report
           /\ \/ /\ lock[Wants[pc]] = None /\ lock' = [lock EXCEPT ![Wants[pc]] = c]
                 /\ cmd'[c].inside = TRUE /\ cmd'[c].copy[Wants[pc]] = Files[Wants[pc]]
              \/ cmd'[c].inside = FALSE /\ lock' = lock
<1> DEFINE f == Wants[pc]
<1>1. f \in {"peers", "jobs"} /\ pc \in PCs
  BY FileOfStage DEF PCs
<1>2. Files[f] \in IF f = "peers" THEN [Addresses -> Pins] ELSE SUBSET Job
  BY <1>1, FileContents DEF TypeOK
<1> DEFINE in  == [rec EXCEPT !.pc = pc, !.inside = TRUE, !.copy[f] = Files[f]]
           out == [rec EXCEPT !.pc = pc]
<1>3. /\ out \in Command /\ out.pc = pc /\ out.addr = rec.addr /\ out.key = rec.key
      /\ out.durable = rec.durable /\ out.at = rec.at /\ out.report = rec.report
      /\ out.inside = FALSE
  BY <1>1 DEF Command
<1>4. rec.copy \in [peers : [Addresses -> Pins], jobs : SUBSET Job]
  BY DEF Command
<1>5. /\ [rec.copy EXCEPT ![f] = Files[f]] \in [peers : [Addresses -> Pins], jobs : SUBSET Job]
      /\ [rec.copy EXCEPT ![f] = Files[f]][f] = Files[f]
  <2>1. CASE f = "peers"  BY <2>1, <1>2, <1>4
  <2>2. CASE f = "jobs"  BY <2>2, <1>2, <1>4
  <2> QED  BY <2>1, <2>2, <1>1
<1>6. in = [rec EXCEPT !.pc = pc, !.inside = TRUE, !.copy = [rec.copy EXCEPT ![f] = Files[f]]]
  BY DEF Command
<1>7. /\ in \in Command /\ in.pc = pc /\ in.addr = rec.addr /\ in.key = rec.key
      /\ in.durable = rec.durable /\ in.at = rec.at /\ in.report = rec.report
      /\ in.inside = TRUE /\ in.copy[f] = Files[f]
  <2> HIDE DEF f
  <2> QED  BY <1>1, <1>5, <1>6 DEF Command
<1>8. CASE lock[f] = None
  <2>1. cmd' = [cmd EXCEPT ![c] = in] /\ lock' = [lock EXCEPT ![f] = c]
    BY <1>8 DEF Take, LockFree
  <2> HIDE DEF in, f
  <2> QED  BY <1>7, <1>8, <2>1 DEF Own, TypeOK, f
<1>9. CASE lock[f] # None
  <2>1. cmd' = [cmd EXCEPT ![c] = out] /\ lock' = lock
    BY <1>9 DEF Take, LockFree
  <2> HIDE DEF out
  <2> QED  BY <1>3, <2>1 DEF Own, TypeOK
<1> QED  BY <1>8, <1>9

\* A frame is received whole; what is left is the close.
LEMMA ReceivesFrame ==
    ASSUME wire \in [Commands -> Closing \cup {<<>>, <<"close">>}], NEW c \in Commands,
           NEW frame \in {"queued", "outcome", "error"}, Receives(c, frame)
    PROVE  /\ cmd[c].pc = "open" /\ wire[c] = <<frame, "close">>
           /\ wire' = [wire EXCEPT ![c] = <<"close">>]
<1>1. wire[c] # <<>> /\ Head(wire[c]) = frame /\ cmd[c].pc = "open"
      /\ wire' = [wire EXCEPT ![c] = Tail(wire[c])]
  BY DEF Receives
<1>2. wire[c] \in Closing \cup {<<"close">>}
  BY <1>1
<1>3. \A g \in {"queued", "outcome", "error"} :
        Head(<<g, "close">>) = g /\ Tail(<<g, "close">>) = <<"close">>
  OBVIOUS
<1>4. Head(<<"close">>) = "close"
  OBVIOUS
<1>5. wire[c] = <<frame, "close">>
  BY <1>1, <1>2, <1>3, <1>4 DEF Closing
<1> QED  BY <1>1, <1>3, <1>5
-----------------------------------------------------------------------------
(* The locks.                                                               *)

\* A command that writes a file, leaves it or stays outside disturbs nobody.
LEMMA LocksKept ==
    ASSUME TypeOK, LocksHeld, NEW c \in Commands, Own(c), cmd'[c].inside = FALSE,
           \/ lock' = lock
           \/ Inside(c) /\ Release(c),
           peers' = peers \/ (Inside(c) /\ File(c) = "peers"),
           jobs' = jobs \/ (Inside(c) /\ File(c) = "jobs")
    PROVE  LocksHeld'
<1> SUFFICES ASSUME NEW d \in Commands, cmd'[d].inside
             PROVE  Locking(d)' /\ (Inside(d)' => lock'[File(d)'] = d
                                      /\ cmd'[d].copy[File(d)'] = (Files[File(d)])')
  BY DEF LocksHeld, Inside, Locking
<1>1. d # c /\ cmd'[d] = cmd[d]
  BY DEF Own
<1>2. Locking(d) /\ Inside(d) /\ lock[File(d)] = d
      /\ cmd[d].copy[File(d)] = Files[File(d)] /\ File(d) \in {"peers", "jobs"}
  BY <1>1, FileOfStage DEF LocksHeld, Inside, Locking, File
<1>3. File(d)' = File(d) /\ Locking(d)'
  BY <1>1, <1>2 DEF File, Locking
<1>4. Inside(c) => lock[File(c)] = c /\ File(c) # File(d) /\ File(c) \in {"peers", "jobs"}
  BY <1>1, <1>2, FileOfStage DEF LocksHeld, Inside, Locking, File
<1>5. lock'[File(d)] = d
  BY <1>2, <1>4 DEF Release, TypeOK
<1>6. (Files[File(d)])' = Files[File(d)]
  <2>1. CASE File(d) = "peers"
    BY <2>1, <1>3, <1>4 DEF Files
  <2>2. CASE File(d) = "jobs"
    BY <2>2, <1>3, <1>4 DEF Files
  <2> QED  BY <2>1, <2>2, <1>2
<1> QED  BY <1>1, <1>2, <1>3, <1>5, <1>6

\* A command that takes a free lock, or waits, disturbs nobody either.
LEMMA LocksTaken ==
    ASSUME TypeOK, LocksHeld, NEW c \in Commands, Own(c), ~cmd[c].inside,
           NEW pc \in DOMAIN Wants, cmd'[c].pc = pc,
           \/ /\ lock[Wants[pc]] = None /\ lock' = [lock EXCEPT ![Wants[pc]] = c]
              /\ cmd'[c].inside = TRUE /\ cmd'[c].copy[Wants[pc]] = Files[Wants[pc]]
           \/ cmd'[c].inside = FALSE /\ lock' = lock,
           peers' = peers, jobs' = jobs
    PROVE  LocksHeld'
<1>1. Files' = Files
  BY DEF Files
<1> SUFFICES ASSUME NEW d \in Commands, cmd'[d].inside
             PROVE  Locking(d)' /\ lock'[File(d)'] = d /\ cmd'[d].copy[File(d)'] = Files[File(d)']
  BY <1>1 DEF LocksHeld, Inside, Locking
<1>2. Wants[pc] \in {"peers", "jobs"}
  BY FileOfStage
<1>3. CASE d = c
  BY <1>2, <1>3 DEF Locking, File, TypeOK
<1>4. CASE d # c
  <2>1. cmd'[d] = cmd[d]
    BY <1>4 DEF Own
  <2>2. Locking(d) /\ lock[File(d)] = d /\ cmd[d].copy[File(d)] = Files[File(d)]
        /\ File(d) \in {"peers", "jobs"}
    BY <2>1, FileOfStage DEF LocksHeld, Inside, Locking, File
  <2>3. lock'[File(d)] = d
    BY <1>2, <2>2, ConstantsTyped DEF TypeOK
  <2> QED  BY <2>1, <2>2, <2>3 DEF Locking, File
<1> QED  BY <1>3, <1>4

\* A step that is no command's, and frees no living command's lock.
LEMMA LocksUntouched ==
    ASSUME TypeOK, LocksHeld, cmd' = cmd, peers' = peers, jobs' = jobs,
           \/ lock' = lock
           \/ \E f \in {"peers", "jobs"} : RemoveLock(f)
    PROVE  LocksHeld'
<1>1. Files' = Files
  BY DEF Files
<1> SUFFICES ASSUME NEW d \in Commands, Inside(d) \/ cmd[d].inside
             PROVE  Locking(d) /\ lock'[File(d)] = d /\ cmd[d].copy[File(d)] = Files[File(d)]
  BY <1>1 DEF LocksHeld, Inside, Locking, File
<1>2. Locking(d) /\ lock[File(d)] = d /\ cmd[d].copy[File(d)] = Files[File(d)]
      /\ File(d) \in {"peers", "jobs"}
  BY FileOfStage DEF LocksHeld, Inside, Locking, File
<1>3. lock'[File(d)] = d
  <2>1. CASE lock' = lock  BY <2>1, <1>2
  <2>2. ASSUME NEW f \in {"peers", "jobs"}, RemoveLock(f)
        PROVE  lock'[File(d)] = d
    BY <2>2, <1>2 DEF RemoveLock, TypeOK
  <2> QED  BY <2>1, <2>2
<1> QED  BY <1>2, <1>3
-----------------------------------------------------------------------------
(* The messages.                                                            *)

MessagesInv == FramesTrue /\ Unmade /\ JobsMatch /\ Recorded /\ StaysOpen

\* Frames may be lost or received, and the last of them seen.
WireShrinks ==
    \A d \in Commands : wire'[d] = wire[d] \/ wire'[d] \in {<<>>, <<"close">>}

LEMMA CloseIsNoAnswer ==
    /\ <<>> # <<"queued", "close">> /\ <<>> # <<"outcome", "close">>
    /\ <<"close">> # <<"queued", "close">> /\ <<"close">> # <<"outcome", "close">>
    /\ <<"error", "close">> # <<"queued", "close">>
    /\ <<"error", "close">> # <<"outcome", "close">>
    /\ <<"queued", "close">> # <<"outcome", "close">>
OBVIOUS

\* A command that goes on to a stage it may go to, writing no job.
LEMMA MessagesKept ==
    ASSUME TypeOK, MessagesInv, NEW c \in Commands, Keeps(c), WireShrinks,
           jobs' = jobs, mail' = mail, now' = now,
           cmd'[c].pc = "ack" => mail[c].st = "queued",
           cmd'[c].pc \in {"verify", "forget"} => mail[c].st = "over",
           cmd'[c].pc \in Early => cmd[c].pc \in Early,
           cmd'[c].pc # "send",
           cmd'[c].report # "queued" \/ cmd'[c] = cmd[c]
    PROVE  MessagesInv'
<1>1. \A d \in Commands : /\ cmd'[d].durable = cmd[d].durable /\ cmd'[d].at = cmd[d].at
                          /\ cmd'[d].key = cmd[d].key
                          /\ d # c => cmd'[d] = cmd[d]
  BY DEF Keeps, Own
<1>2. FramesTrue'
  BY <1>1, CloseIsNoAnswer DEF MessagesInv, FramesTrue, WireShrinks
<1>3. Unmade'
  BY <1>1 DEF MessagesInv, Unmade, Early
<1>4. JobsMatch'
  BY <1>1 DEF MessagesInv, JobsMatch, TypeOK, Job
<1>5. Recorded'
  BY <1>1 DEF MessagesInv, Recorded
<1>6. StaysOpen'
  BY <1>1 DEF MessagesInv, StaysOpen
<1> QED  BY <1>2, <1>3, <1>4, <1>5, <1>6 DEF MessagesInv

\* A command that begins knows of no message.
LEMMA MessagesBegin ==
    ASSUME TypeOK, MessagesInv, NEW c \in Commands, Own(c), wire' = wire,
           jobs' = jobs, mail' = mail, now' = now,
           cmd[c].pc = "idle", cmd'[c].pc \in {"pin", "reset"},
           cmd'[c].at = 0, cmd'[c].report = "none"
    PROVE  MessagesInv'
<1>1. \A d \in Commands \ {c} : cmd'[d] = cmd[d]
  BY DEF Own
<1>2. mail[c].st = "none" /\ \A j \in jobs : j.msg # c
  BY DEF MessagesInv, Unmade, Early
<1>3. FramesTrue'
  BY <1>1 DEF MessagesInv, FramesTrue
<1>4. Unmade'
  BY <1>1, <1>2 DEF MessagesInv, Unmade, Early
<1>5. JobsMatch'
  <2>1. \A d \in Commands :
          cmd'[d].at <= now' /\ (mail'[d].st # "none" => cmd'[d].at <= mail'[d].at)
    <3>1. now \in Nat  BY DEF TypeOK
    <3> QED  BY <1>1, <1>2, <3>1 DEF MessagesInv, JobsMatch
  <2>2. ASSUME NEW j \in jobs'
        PROVE  j.id = cmd'[j.msg].key.id /\ j.until >= cmd'[j.msg].at + MailboxTtl
    <3>1. j \in jobs /\ j.msg \in Commands \ {c}
      BY <1>2, <2>2 DEF TypeOK, Job
    <3> QED  BY <1>1, <3>1 DEF MessagesInv, JobsMatch
  <2> QED  BY <2>1, <2>2 DEF JobsMatch
<1>6. Recorded'
  BY <1>1, <1>2 DEF MessagesInv, Recorded
<1>7. StaysOpen'
  BY <1>1 DEF MessagesInv, StaysOpen
<1> QED  BY <1>3, <1>4, <1>5, <1>6, <1>7 DEF MessagesInv

\* The relay moves one message, and tells what it did.
LEMMA MessagesMoved ==
    ASSUME TypeOK, MessagesInv, NEW c \in Commands, cmd' = cmd, jobs' = jobs, now' = now,
           NEW st \in {"live", "queued", "over"}, Becomes(c, st),
           mail[c].st \in {"sent", "live"},
           \A d \in Commands \ {c} : wire'[d] = wire[d],
           \/ wire'[c] = wire[c]
           \/ wire'[c] = <<"queued", "close">> /\ st = "queued"
           \/ wire'[c] = <<"outcome", "close">> /\ st = "over"
           \/ wire'[c] = <<"error", "close">>
    PROVE  MessagesInv'
<1>1. /\ mail'[c] = [st |-> st, at |-> now]
      /\ \A d \in Commands \ {c} : mail'[d] = mail[d]
  BY DEF Becomes, TypeOK
<1>2. FramesTrue'
  BY <1>1, CloseIsNoAnswer DEF MessagesInv, FramesTrue
<1>3. Unmade'
  BY <1>1 DEF MessagesInv, Unmade, Early
<1>4. JobsMatch'
  BY <1>1 DEF MessagesInv, JobsMatch
<1>5. Recorded'
  BY <1>1 DEF MessagesInv, Recorded
<1>6. StaysOpen'
  BY <1>1 DEF MessagesInv, StaysOpen
<1> QED  BY <1>2, <1>3, <1>4, <1>5, <1>6 DEF MessagesInv

\* A message is made: its life starts at a time that nothing else knows yet.
LEMMA MessagesPin ==
    ASSUME TypeOK, MessagesInv, NEW c \in Commands, Own(c), wire' = wire,
           jobs' = jobs, mail' = mail, now' = now,
           cmd[c].pc = "pin", cmd'[c].at = now,
           cmd'[c].durable = cmd[c].durable, cmd'[c].key = cmd[c].key,
           cmd'[c].report = cmd[c].report,
           cmd'[c].pc = IF cmd[c].durable THEN "remember" ELSE "send"
    PROVE  MessagesInv'
<1>1. \A d \in Commands \ {c} : cmd'[d] = cmd[d]
  BY DEF Own
<1>2. mail[c].st = "none" /\ \A j \in jobs : j.msg # c
  BY DEF MessagesInv, Unmade, Early
<1>3. FramesTrue'
  BY <1>1 DEF MessagesInv, FramesTrue
<1>4. Unmade'
  BY <1>1, <1>2 DEF MessagesInv, Unmade, Early
<1>5. JobsMatch'
  <2>1. \A d \in Commands :
          cmd'[d].at <= now' /\ (mail'[d].st # "none" => cmd'[d].at <= mail'[d].at)
    <3>1. now \in Nat  BY DEF TypeOK
    <3> QED  BY <1>1, <1>2, <3>1 DEF MessagesInv, JobsMatch
  <2>2. ASSUME NEW j \in jobs'
        PROVE  j.id = cmd'[j.msg].key.id /\ j.until >= cmd'[j.msg].at + MailboxTtl
    <3>1. j \in jobs /\ j.msg \in Commands \ {c}
      BY <1>2, <2>2 DEF TypeOK, Job
    <3> QED  BY <1>1, <3>1 DEF MessagesInv, JobsMatch
  <2> QED  BY <2>1, <2>2 DEF JobsMatch
<1>6. Recorded'
  BY <1>1, <1>2 DEF MessagesInv, Recorded
<1>7. StaysOpen'
  BY <1>1 DEF MessagesInv, StaysOpen
<1> QED  BY <1>3, <1>4, <1>5, <1>6, <1>7 DEF MessagesInv

\* A frame is sent.
LEMMA MessagesSend ==
    ASSUME TypeOK, MessagesInv, NEW c \in Commands, Keeps(c), wire' = wire,
           jobs' = jobs, now' = now, cmd[c].pc = "send", cmd'[c].pc = "open",
           cmd'[c].report = cmd[c].report,
           mail' = [mail EXCEPT ![c] = [st |-> "sent", at |-> now]]
    PROVE  MessagesInv'
<1>1. \A d \in Commands : /\ cmd'[d].durable = cmd[d].durable /\ cmd'[d].at = cmd[d].at
                          /\ cmd'[d].key = cmd[d].key
                          /\ d # c => cmd'[d] = cmd[d] /\ mail'[d] = mail[d]
  BY DEF Keeps, Own, TypeOK
<1>2. mail'[c] = [st |-> "sent", at |-> now] /\ mail[c].st = "none"
  BY DEF TypeOK, MessagesInv, Unmade
<1>3. FramesTrue'
  BY <1>1, <1>2 DEF MessagesInv, FramesTrue
<1>4. Unmade'
  BY <1>1, <1>2 DEF MessagesInv, Unmade, Early
<1>5. JobsMatch'
  BY ZenonT(30), <1>1, <1>2 DEF MessagesInv, JobsMatch, TypeOK, Job
<1>6. Recorded'
  BY <1>1, <1>2 DEF MessagesInv, Recorded
<1>7. StaysOpen'
  BY <1>1, <1>2 DEF MessagesInv, StaysOpen
<1> QED  BY <1>3, <1>4, <1>5, <1>6, <1>7 DEF MessagesInv

\* A job is recorded: the others' that it drops have outlived their messages.
LEMMA MessagesRemember ==
    ASSUME TypeOK, MessagesInv, NEW c \in Commands, Keeps(c), wire' = wire,
           mail' = mail, now' = now, cmd[c].pc = "remember", cmd'[c].pc = "send",
           cmd'[c].report = cmd[c].report,
           jobs' = {j \in jobs : LiveJob(j, c)} \cup {PendingJob(c)}
    PROVE  MessagesInv'
<1>1. \A d \in Commands : /\ cmd'[d].durable = cmd[d].durable /\ cmd'[d].at = cmd[d].at
                          /\ cmd'[d].key = cmd[d].key /\ cmd[d].at \in Nat
                          /\ d # c => cmd'[d] = cmd[d]
  BY CommandFields DEF Keeps, Own, TypeOK
<1>2. mail[c].st = "none" /\ \A j \in jobs : j.msg # c
  BY DEF MessagesInv, Unmade, Early
<1>3. /\ PendingJob(c).msg = c /\ PendingJob(c).id = cmd[c].key.id
      /\ PendingJob(c).until = cmd[c].at + MailboxTtl /\ PendingJob(c).state = "pending"
  BY DEF PendingJob
<1>4. \A j \in jobs : j.msg \in Commands /\ j.until \in Nat
  BY DEF TypeOK, Job
<1>5. now \in Nat /\ cmd[c].at <= now /\ MailboxTtl \in Nat
  BY ConstantsTyped DEF TypeOK, MessagesInv, JobsMatch
<1>6. \A j \in jobs : j.until > now => j \in jobs'
  BY <1>1, <1>4, <1>5 DEF LiveJob
<1>7. FramesTrue'
  BY <1>1 DEF MessagesInv, FramesTrue
<1>8. Unmade'
  BY <1>1, <1>2, <1>3 DEF MessagesInv, Unmade, Early
<1>9. JobsMatch'
  <2>1. \A d \in Commands :
          cmd'[d].at <= now' /\ (mail'[d].st # "none" => cmd'[d].at <= mail'[d].at)
    BY <1>1 DEF MessagesInv, JobsMatch
  <2>2. ASSUME NEW j \in jobs'
        PROVE  j.id = cmd'[j.msg].key.id /\ j.until >= cmd'[j.msg].at + MailboxTtl
    BY <1>1, <1>3, <1>4, <1>5, <2>2 DEF MessagesInv, JobsMatch
  <2> QED  BY <2>1, <2>2 DEF JobsMatch
<1>10. Recorded'
  <2> SUFFICES ASSUME NEW d \in Commands, cmd[d].durable,
                      cmd'[d].pc = "send" \/ mail[d].st \in {"sent", "live", "queued"},
                      now < cmd[d].at + MailboxTtl
               PROVE  \E j \in jobs' : j.msg = d
    BY <1>1 DEF Recorded
  <2>1. CASE d = c  BY <2>1, <1>3
  <2>2. CASE d # c
    <3>1. PICK j \in jobs : j.msg = d
      BY <1>1, <2>2 DEF MessagesInv, Recorded
    <3>2. j.until >= cmd[d].at + MailboxTtl
      BY <3>1 DEF MessagesInv, JobsMatch
    <3>3. j.until > now
      BY <3>2, <1>1, <1>4, <1>5
    <3> QED  BY <3>1, <3>3, <1>6
  <2> QED  BY <2>1, <2>2
<1>11. StaysOpen'
  <2> SUFFICES ASSUME NEW d \in Commands, cmd'[d].report = "queued"
               PROVE  /\ cmd'[d].pc = "over" /\ mail[d].st = "queued"
                      /\ now < mail[d].at + MailboxTtl =>
                           \E j \in jobs' :
                              /\ j.msg = d /\ j.state = "queued" /\ j.id = cmd[d].key.id
                              /\ j.until >= mail[d].at + MailboxTtl
    BY <1>1 DEF StaysOpen
  <2>1. d # c /\ cmd[d].report = "queued" /\ cmd'[d] = cmd[d]
    BY <1>1 DEF MessagesInv, StaysOpen
  <2>2. mail[d].at \in Nat
    BY DEF TypeOK
  <2>3. ASSUME NEW j \in jobs, j.until >= mail[d].at + MailboxTtl,
               now < mail[d].at + MailboxTtl
        PROVE  j \in jobs'
    BY <2>2, <2>3, <1>4, <1>5, <1>6
  <2> QED  BY <2>1, <2>3 DEF MessagesInv, StaysOpen
<1> QED  BY <1>7, <1>8, <1>9, <1>10, <1>11 DEF MessagesInv

\* A receipt is stored.
Acknowledged(c, j) == [j EXCEPT !.state = "queued", !.until = mail[c].at + MailboxTtl]

LEMMA AcknowledgedFields ==
    ASSUME TypeOK, NEW c \in Commands, NEW j \in jobs
    PROVE  LET k == Acknowledged(c, j) IN
           /\ k \in Job /\ k.msg = j.msg /\ k.id = j.id /\ k.state = "queued"
           /\ k.until = mail[c].at + MailboxTtl
<1>1. j \in Job /\ mail[c].at \in Nat /\ MailboxTtl \in Nat
  BY ConstantsTyped DEF TypeOK
<1>2. mail[c].at + MailboxTtl \in Nat
  BY <1>1
<1> DEFINE until == mail[c].at + MailboxTtl
<1>3. Acknowledged(c, j) = [j EXCEPT !.state = "queued", !.until = until]
  BY DEF Acknowledged
<1> HIDE DEF until
<1> QED  BY <1>1, <1>2, <1>3 DEF Job, until

LEMMA MessagesAcknowledge ==
    ASSUME TypeOK, MessagesInv, NEW c \in Commands, Keeps(c), wire' = wire,
           mail' = mail, now' = now, cmd[c].pc = "ack", cmd'[c].pc = "over",
           NEW found \in SUBSET jobs, found = {j \in jobs : j.msg = c}, found # {},
           jobs' = (jobs \ found) \cup {Acknowledged(c, j) : j \in found}
    PROVE  MessagesInv'
<1>1. \A d \in Commands : /\ cmd'[d].durable = cmd[d].durable /\ cmd'[d].at = cmd[d].at
                          /\ cmd'[d].key = cmd[d].key /\ cmd[d].at \in Nat
                          /\ d # c => cmd'[d] = cmd[d]
  BY CommandFields DEF Keeps, Own, TypeOK
<1>2. mail[c].st = "queued" /\ mail[c].at \in Nat /\ MailboxTtl \in Nat
      /\ cmd[c].at <= mail[c].at
  BY ConstantsTyped DEF MessagesInv, FramesTrue, JobsMatch, TypeOK
<1>3. \A j \in found : LET k == Acknowledged(c, j) IN
        /\ k \in jobs' /\ k.msg = c /\ k.id = cmd[c].key.id /\ k.state = "queued"
        /\ k.until = mail[c].at + MailboxTtl
  BY AcknowledgedFields DEF MessagesInv, JobsMatch
<1>4. \A j \in jobs : j.msg # c => j \in jobs'
  OBVIOUS
<1>5. \A j \in jobs' : \/ j \in jobs /\ j.msg # c
                       \/ /\ j.msg = c /\ j.id = cmd[c].key.id
                          /\ j.until = mail[c].at + MailboxTtl
  BY <1>3
<1>6. PICK k \in jobs' : /\ k.msg = c /\ k.id = cmd[c].key.id /\ k.state = "queued"
                         /\ k.until = mail[c].at + MailboxTtl
  BY <1>3
<1>7. FramesTrue'
  BY <1>1 DEF MessagesInv, FramesTrue
<1>8. Unmade'
  BY <1>1, <1>5 DEF MessagesInv, Unmade, Early
<1>9. JobsMatch'
  <2>1. \A d \in Commands :
          cmd'[d].at <= now' /\ (mail'[d].st # "none" => cmd'[d].at <= mail'[d].at)
    BY <1>1 DEF MessagesInv, JobsMatch
  <2>2. ASSUME NEW j \in jobs'
        PROVE  j.id = cmd'[j.msg].key.id /\ j.until >= cmd'[j.msg].at + MailboxTtl
    <3>1. CASE j \in jobs /\ j.msg # c
      BY <1>1, <3>1 DEF MessagesInv, JobsMatch, TypeOK, Job
    <3>2. CASE j.msg = c /\ j.id = cmd[c].key.id /\ j.until = mail[c].at + MailboxTtl
      BY <1>1, <1>2, <3>2
    <3> QED  BY <1>5, <3>1, <3>2
  <2> QED  BY <2>1, <2>2 DEF JobsMatch
<1>10. Recorded'
  <2> SUFFICES ASSUME NEW d \in Commands, cmd[d].durable,
                      cmd'[d].pc = "send" \/ mail[d].st \in {"sent", "live", "queued"},
                      now < cmd[d].at + MailboxTtl
               PROVE  \E j \in jobs' : j.msg = d
    BY <1>1 DEF Recorded
  <2>1. CASE d = c  BY <2>1, <1>6
  <2>2. CASE d # c  BY <2>2, <1>1, <1>4 DEF MessagesInv, Recorded
  <2> QED  BY <2>1, <2>2
<1>11. StaysOpen'
  <2> SUFFICES ASSUME NEW d \in Commands, cmd'[d].report = "queued"
               PROVE  /\ cmd'[d].pc = "over" /\ mail[d].st = "queued"
                      /\ now < mail[d].at + MailboxTtl =>
                           \E j \in jobs' :
                              /\ j.msg = d /\ j.state = "queued" /\ j.id = cmd[d].key.id
                              /\ j.until >= mail[d].at + MailboxTtl
    BY <1>1 DEF StaysOpen
  <2>1. CASE d = c  BY <2>1, <1>2, <1>6
  <2>2. CASE d # c  BY <2>2, <1>1, <1>4 DEF MessagesInv, StaysOpen
  <2> QED  BY <2>1, <2>2
<1> QED  BY <1>7, <1>8, <1>9, <1>10, <1>11 DEF MessagesInv

\* A job whose message was answered is forgotten.
LEMMA MessagesForget ==
    ASSUME TypeOK, MessagesInv, NEW c \in Commands, Keeps(c), wire' = wire,
           mail' = mail, now' = now, cmd[c].pc = "forget", cmd'[c].pc = "over",
           cmd'[c].report # "queued", jobs' = {j \in jobs : j.msg # c}
    PROVE  MessagesInv'
<1>1. \A d \in Commands : /\ cmd'[d].durable = cmd[d].durable /\ cmd'[d].at = cmd[d].at
                          /\ cmd'[d].key = cmd[d].key
                          /\ d # c => cmd'[d] = cmd[d]
  BY DEF Keeps, Own
<1>2. mail[c].st = "over"
  BY DEF MessagesInv, FramesTrue
<1>3. FramesTrue'
  BY <1>1 DEF MessagesInv, FramesTrue
<1>4. Unmade'
  BY <1>1 DEF MessagesInv, Unmade, Early
<1>5. JobsMatch'
  BY <1>1 DEF MessagesInv, JobsMatch, TypeOK, Job
<1>6. Recorded'
  BY <1>1, <1>2 DEF MessagesInv, Recorded
<1>7. StaysOpen'
  BY <1>1 DEF MessagesInv, StaysOpen
<1> QED  BY <1>3, <1>4, <1>5, <1>6, <1>7 DEF MessagesInv
-----------------------------------------------------------------------------
(* The steps.                                                               *)

\* The files' types, for a step that is about something else.
FilesTyped ==
    /\ peers \in [Addresses -> Pins] /\ jobs \in SUBSET Job
    /\ lock \in [{"peers", "jobs"} -> Commands \cup {None}]
WireTyped == wire \in [Commands -> Closing \cup {<<>>, <<"close">>}]
MailTyped == mail \in [Commands -> [st : {"none", "sent", "live", "queued", "over"}, at : Nat]]

LEMMA TypeOfStep ==
    ASSUME TypeOK, NEW c \in Commands, Own(c),
           cmd'[c].pc \in {"pin", "reset"} => cmd'[c].addr \in Addresses,
           FilesTyped', WireTyped', MailTyped', now' = now, faults' \in Nat
    PROVE  TypeOK'
BY DEF TypeOK, Own, FilesTyped, WireTyped, MailTyped

LEMMA ReleaseTyped ==
    ASSUME TypeOK, NEW c \in Commands, Release(c)
    PROVE  lock' \in [{"peers", "jobs"} -> Commands \cup {None}]
BY DEF Release, TypeOK

\* Only a command that is over says that its message is queued.
LEMMA NotYetQueued ==
    ASSUME JobsInv, NEW c \in Commands, cmd[c].pc # "over"
    PROVE  cmd[c].report # "queued"
BY DEF JobsInv, StaysOpen

LEMMA InvParts == JobsInv <=> LocksHeld /\ MessagesInv
BY DEF JobsInv, MessagesInv

\* A command ends without a result, or with one it has shown.
LEMMA StepLeaves ==
    ASSUME TypeOK, JobsInv, NEW c \in Commands, cmd[c].pc # "over",
           NEW r \in {"failed", "answered"}, Leaves(c, r),
           now' = now, jobs' = jobs, mail' = mail, faults' = faults,
           \/ lock' = lock
           \/ Inside(c) /\ Release(c),
           \/ peers' = peers
           \/ Inside(c) /\ File(c) = "peers" /\ peers' \in [Addresses -> Pins],
           WireTyped', WireShrinks
    PROVE  TypeOK' /\ JobsInv'
<1>1. /\ Keeps(c) /\ cmd'[c].pc = "over" /\ cmd'[c].inside = FALSE
      /\ cmd'[c].report # "queued"
  BY LeavesWith, NotYetQueued DEF TypeOK
<1>2. Own(c)  BY <1>1 DEF Keeps
<1>3. LocksHeld'
  BY <1>1, <1>2, LocksKept, InvParts
<1>4. MessagesInv'
  BY <1>1, MessagesKept, InvParts DEF Early
<1>5. TypeOK'
  <2>1. FilesTyped' /\ MailTyped'
    BY ReleaseTyped DEF FilesTyped, MailTyped, TypeOK
  <2>2. faults' \in Nat  BY DEF TypeOK
  <2> QED  BY <1>1, <1>2, <2>1, <2>2, TypeOfStep
<1> QED  BY <1>3, <1>4, <1>5 DEF JobsInv, MessagesInv

\* A command goes on, outside the files.
LEMMA StepMoves ==
    ASSUME TypeOK, JobsInv, NEW c \in Commands, cmd[c].pc # "over",
           NEW pc \in {"verify", "over", "dead"}, Moves(c, pc),
           now' = now, peers' = peers, jobs' = jobs, mail' = mail, lock' = lock,
           faults' \in Nat, pc = "verify" => mail[c].st = "over",
           WireTyped', WireShrinks
    PROVE  TypeOK' /\ JobsInv'
<1>1. /\ Keeps(c) /\ cmd'[c].pc = pc /\ cmd'[c].inside = FALSE
      /\ cmd'[c].report # "queued"
  BY MovesOn, NotYetQueued DEF TypeOK, PCs
<1>2. Own(c)  BY <1>1 DEF Keeps
<1>3. LocksHeld'
  BY <1>1, <1>2, LocksKept, InvParts
<1>4. MessagesInv'
  BY <1>1, MessagesKept, InvParts DEF Early
<1>5. TypeOK'
  <2>1. FilesTyped' /\ MailTyped'
    BY DEF FilesTyped, MailTyped, TypeOK
  <2> QED  BY <1>1, <1>2, <2>1, TypeOfStep
<1> QED  BY <1>3, <1>4, <1>5 DEF JobsInv, MessagesInv

\* A command comes to an operation on a file.
LEMMA StepTakes ==
    ASSUME TypeOK, JobsInv, NEW c \in Commands, ~cmd[c].inside, cmd[c].pc # "over",
           NEW pc \in DOMAIN Wants, Take(c, cmd[c], pc),
           pc = "ack" => mail[c].st = "queued",
           pc = "forget" => mail[c].st = "over",
           pc \notin {"ack", "forget"} => cmd[c].pc = pc,
           now' = now, peers' = peers, jobs' = jobs, mail' = mail, faults' = faults,
           WireTyped', WireShrinks
    PROVE  TypeOK' /\ JobsInv'
<1> DEFINE rec == cmd[c]
<1>1. rec \in Command /\ rec.inside = FALSE /\ Take(c, rec, pc)
  BY CommandFields DEF TypeOK
<1> HIDE DEF rec
<1>2. /\ Own(c) /\ cmd'[c].pc = pc
      /\ cmd'[c].addr = cmd[c].addr /\ cmd'[c].key = cmd[c].key
      /\ cmd'[c].durable = cmd[c].durable /\ cmd'[c].at = cmd[c].at
      /\ cmd'[c].report = cmd[c].report
      /\ \/ /\ lock[Wants[pc]] = None /\ lock' = [lock EXCEPT ![Wants[pc]] = c]
            /\ cmd'[c].inside = TRUE /\ cmd'[c].copy[Wants[pc]] = Files[Wants[pc]]
         \/ cmd'[c].inside = FALSE /\ lock' = lock
  <2>1. /\ Own(c) /\ cmd'[c].pc = pc
        /\ cmd'[c].addr = rec.addr /\ cmd'[c].key = rec.key
        /\ cmd'[c].durable = rec.durable /\ cmd'[c].at = rec.at
        /\ cmd'[c].report = rec.report
        /\ \/ /\ lock[Wants[pc]] = None /\ lock' = [lock EXCEPT ![Wants[pc]] = c]
              /\ cmd'[c].inside = TRUE /\ cmd'[c].copy[Wants[pc]] = Files[Wants[pc]]
           \/ cmd'[c].inside = FALSE /\ lock' = lock
    BY <1>1, TakesLock
  <2> QED  BY <2>1 DEF rec
<1>3. Keeps(c) /\ cmd'[c].report # "queued" /\ pc # "send" /\ pc # "verify"
  BY <1>2, NotYetQueued, FileOfStage DEF Keeps
<1>4. LocksHeld'
  BY <1>2, LocksTaken, InvParts
<1>5. MessagesInv'
  BY <1>2, <1>3, MessagesKept, InvParts DEF Early
<1>6. TypeOK'
  <2>1. lock' \in [{"peers", "jobs"} -> Commands \cup {None}]
    BY <1>2, FileOfStage DEF TypeOK
  <2>2. FilesTyped' /\ MailTyped' /\ faults' \in Nat
    BY <2>1 DEF FilesTyped, MailTyped, TypeOK
  <2>3. cmd'[c].pc \in {"pin", "reset"} => cmd'[c].addr \in Addresses
    BY <1>2 DEF TypeOK
  <2> QED  BY <1>2, <2>2, <2>3, TypeOfStep
<1> QED  BY <1>4, <1>5, <1>6 DEF JobsInv, MessagesInv

\* A command begins.
LEMMA StepBegins ==
    ASSUME TypeOK, JobsInv, NEW c \in Commands, cmd[c].pc = "idle",
           NEW rec \in Command, rec.inside = FALSE, rec.addr \in Addresses, rec.at = 0,
           rec.report = "none", NEW pc \in {"pin", "reset"}, Take(c, rec, pc),
           UNCHANGED <<now, peers, jobs, mail, wire, faults>>
    PROVE  TypeOK' /\ JobsInv'
<1>1. pc \in DOMAIN Wants /\ ~cmd[c].inside
  BY FileOfStage, InvParts, CommandFields DEF LocksHeld, Locking, TypeOK
<1>2. /\ Own(c) /\ cmd'[c].pc = pc /\ cmd'[c].addr = rec.addr
      /\ cmd'[c].at = 0 /\ cmd'[c].report = "none"
      /\ \/ /\ lock[Wants[pc]] = None /\ lock' = [lock EXCEPT ![Wants[pc]] = c]
            /\ cmd'[c].inside = TRUE /\ cmd'[c].copy[Wants[pc]] = Files[Wants[pc]]
         \/ cmd'[c].inside = FALSE /\ lock' = lock
  BY <1>1, TakesLock
<1>3. LocksHeld'
  BY <1>1, <1>2, LocksTaken, InvParts
<1>4. MessagesInv'
  BY <1>2, MessagesBegin, InvParts
<1>5. TypeOK'
  <2>1. lock' \in [{"peers", "jobs"} -> Commands \cup {None}]
    BY <1>1, <1>2, FileOfStage DEF TypeOK
  <2>2. FilesTyped' /\ MailTyped' /\ WireTyped' /\ faults' \in Nat
    BY <2>1 DEF FilesTyped, MailTyped, WireTyped, TypeOK
  <2> QED  BY <1>2, <2>2, TypeOfStep
<1> QED  BY <1>3, <1>4, <1>5 DEF JobsInv, MessagesInv

\* The relay does something with a message.
LEMMA StepRelay ==
    ASSUME TypeOK, JobsInv, NEW c \in Commands,
           NEW st \in {"live", "queued", "over"}, Becomes(c, st),
           mail[c].st \in {"sent", "live"},
           \/ wire' = wire
           \/ Emit(c, "queued") /\ st = "queued"
           \/ Emit(c, "outcome") /\ st = "over"
           \/ Emit(c, "error"),
           UNCHANGED <<now, peers, jobs, lock, cmd, faults>>
    PROVE  TypeOK' /\ JobsInv'
<1>1. /\ WireTyped'
      /\ \A d \in Commands \ {c} : wire'[d] = wire[d]
      /\ \/ wire'[c] = wire[c]
         \/ wire'[c] = <<"queued", "close">> /\ st = "queued"
         \/ wire'[c] = <<"outcome", "close">> /\ st = "over"
         \/ wire'[c] = <<"error", "close">>
  BY DEF Emit, WireTyped, TypeOK, Closing
<1>2. MailTyped'
  BY DEF Becomes, MailTyped, TypeOK
<1>3. LocksHeld'
  BY LocksUntouched, InvParts
<1>4. MessagesInv'
  BY <1>1, MessagesMoved, InvParts
<1>5. TypeOK'
  BY <1>1, <1>2 DEF TypeOK, WireTyped, MailTyped
<1> QED  BY <1>3, <1>4, <1>5 DEF JobsInv, MessagesInv

\* What a command inside an operation knows.
LEMMA InsideKnows ==
    ASSUME TypeOK, JobsInv, NEW c \in Commands, Inside(c)
    PROVE  /\ cmd[c].pc \in {"pin", "reset"} =>
                File(c) = "peers" /\ cmd[c].copy.peers = peers /\ cmd[c].addr \in Addresses
           /\ cmd[c].pc \in {"remember", "ack", "forget"} =>
                File(c) = "jobs" /\ cmd[c].copy.jobs = jobs
<1>1. cmd[c].copy[File(c)] = Files[File(c)]
  BY InvParts DEF LocksHeld
<1>2. cmd[c].pc \in {"pin", "reset"} =>
        File(c) = "peers" /\ cmd[c].copy.peers = peers /\ cmd[c].addr \in Addresses
  BY <1>1, FileContents, FileOfStage DEF File, TypeOK
<1>3. cmd[c].pc \in {"remember", "ack", "forget"} =>
        File(c) = "jobs" /\ cmd[c].copy.jobs = jobs
  BY <1>1, FileContents, FileOfStage DEF File
<1> QED  BY <1>2, <1>3

LEMMA StepPin ==
    ASSUME TypeOK, JobsInv, NEW c \in Commands, Pin(c)
    PROVE  TypeOK' /\ JobsInv'
<1> DEFINE a == cmd[c].addr  k == cmd[c].key
           trusted == Trusted(cmd[c].copy.peers[a], k)
                        /\ (a \in Pinned(cmd[c].copy.peers)
                              \/ Cardinality(Pinned(cmd[c].copy.peers)) < MaxPeers)
           next == [cmd[c] EXCEPT
                      !.pc = IF cmd[c].durable THEN "remember" ELSE "send",
                      !.at = now, !.inside = FALSE, !.copy = Unread]
<1>1. /\ cmd[c].pc = "pin" /\ Inside(c) /\ Release(c)
      /\ UNCHANGED <<now, jobs, mail, wire, faults>>
      /\ IF trusted THEN /\ peers' = [cmd[c].copy.peers EXCEPT ![a] = k]
                         /\ cmd' = [cmd EXCEPT ![c] = next]
                    ELSE Leaves(c, "failed") /\ peers' = peers
  BY DEF Pin
<1>2. File(c) = "peers" /\ cmd[c].copy.peers = peers /\ a \in Addresses /\ k \in Pins
  BY <1>1, InsideKnows, CommandFields DEF TypeOK
<1>3. CASE ~trusted
  <2>1. WireTyped' /\ WireShrinks
    BY <1>1 DEF WireTyped, WireShrinks, TypeOK
  <2> QED  BY <1>1, <1>3, <2>1, StepLeaves
<1>4. CASE trusted
  <2>1. cmd[c] \in Command /\ now \in Nat /\ cmd[c].durable \in BOOLEAN
    BY CommandFields DEF TypeOK
  <2>2. /\ next \in Command /\ next.inside = FALSE /\ next.at = now
        /\ next.durable = cmd[c].durable /\ next.key = cmd[c].key
        /\ next.report = cmd[c].report
        /\ next.pc = IF cmd[c].durable THEN "remember" ELSE "send"
    BY <2>1, UnreadTyped DEF Command, PCs
  <2>3. cmd' = [cmd EXCEPT ![c] = next]
    BY <1>1, <1>4
  <2> HIDE DEF next
  <2>4. /\ Own(c) /\ cmd'[c] = next
    BY <2>2, <2>3 DEF Own, TypeOK
  <2>5. peers' \in [Addresses -> Pins]
    BY <1>1, <1>2, <1>4 DEF TypeOK
  <2>6. LocksHeld'
    BY <1>1, <1>2, <2>2, <2>4, LocksKept, InvParts
  <2>7. MessagesInv'
    BY <1>1, <2>2, <2>4, MessagesPin, InvParts
  <2>8. TypeOK'
    <3>1. FilesTyped' /\ WireTyped' /\ MailTyped' /\ faults' \in Nat
      BY <1>1, <2>5, ReleaseTyped DEF FilesTyped, WireTyped, MailTyped, TypeOK
    <3> QED  BY <1>1, <2>2, <2>4, <3>1, TypeOfStep
  <2> QED  BY <2>6, <2>7, <2>8 DEF JobsInv, MessagesInv
<1> QED  BY <1>3, <1>4

LEMMA StepUnpin ==
    ASSUME TypeOK, JobsInv, NEW c \in Commands, Unpin(c)
    PROVE  TypeOK' /\ JobsInv'
<1>1. /\ cmd[c].pc = "reset" /\ Inside(c) /\ Release(c)
      /\ UNCHANGED <<now, jobs, mail, wire, faults>>
      /\ \E r \in {"failed", "answered"} : Leaves(c, r)
      /\ peers' \in {peers, [cmd[c].copy.peers EXCEPT ![cmd[c].addr] = NoPin]}
  BY DEF Unpin
<1>2. File(c) = "peers" /\ cmd[c].copy.peers = peers
  BY <1>1, InsideKnows
<1>3. peers' \in [Addresses -> Pins]
  BY <1>1, <1>2 DEF TypeOK, Pins
<1>4. WireTyped' /\ WireShrinks
  BY <1>1 DEF WireTyped, WireShrinks, TypeOK
<1> QED  BY <1>1, <1>2, <1>3, <1>4, StepLeaves

LEMMA StepRemember ==
    ASSUME TypeOK, JobsInv, NEW c \in Commands, Remember(c)
    PROVE  TypeOK' /\ JobsInv'
<1> DEFINE kept == {j \in cmd[c].copy.jobs : LiveJob(j, c)}
<1>1. /\ cmd[c].pc = "remember" /\ Inside(c) /\ Release(c)
      /\ UNCHANGED <<now, peers, mail, wire, faults>>
      /\ \/ jobs' = kept \cup {PendingJob(c)} /\ Moves(c, "send")
         \/ Leaves(c, "failed") /\ jobs' = jobs
  BY DEF Remember
<1>2. File(c) = "jobs" /\ cmd[c].copy.jobs = jobs
  BY <1>1, InsideKnows
<1>3. WireTyped' /\ WireShrinks
  BY <1>1 DEF WireTyped, WireShrinks, TypeOK
<1>4. CASE Leaves(c, "failed") /\ jobs' = jobs
  BY <1>1, <1>3, <1>4, StepLeaves
<1>5. CASE jobs' = kept \cup {PendingJob(c)} /\ Moves(c, "send")
  <2>1. /\ Keeps(c) /\ cmd'[c].pc = "send" /\ cmd'[c].inside = FALSE
        /\ cmd'[c].report = cmd[c].report
    BY <1>5, MovesOn DEF TypeOK, PCs
  <2>2. Own(c)  BY <2>1 DEF Keeps
  <2>3. LocksHeld'
    BY <1>1, <1>2, <2>1, <2>2, LocksKept, InvParts
  <2>4. MessagesInv'
    BY <1>1, <1>2, <1>5, <2>1, MessagesRemember, InvParts
  <2>5. PendingJob(c) \in Job
    BY CommandFields, ConstantsTyped DEF TypeOK, PendingJob, Job
  <2>6. TypeOK'
    <3>1. jobs' \in SUBSET Job
      BY <1>2, <1>5, <2>5 DEF TypeOK
    <3>2. FilesTyped' /\ MailTyped' /\ faults' \in Nat
      BY <1>1, <3>1, ReleaseTyped DEF FilesTyped, MailTyped, TypeOK
    <3> QED  BY <1>1, <1>3, <2>1, <2>2, <3>2, TypeOfStep
  <2> QED  BY <2>3, <2>4, <2>6 DEF JobsInv, MessagesInv
<1> QED  BY <1>1, <1>4, <1>5

LEMMA StepAcknowledge ==
    ASSUME TypeOK, JobsInv, NEW c \in Commands, Acknowledge(c)
    PROVE  TypeOK' /\ JobsInv'
<1> DEFINE found == {j \in cmd[c].copy.jobs : j.msg = c}
<1>1. /\ cmd[c].pc = "ack" /\ Inside(c) /\ Release(c)
      /\ UNCHANGED <<now, peers, mail, wire, faults>>
      /\ \/ /\ found # {} /\ Leaves(c, "queued")
            /\ jobs' = (cmd[c].copy.jobs \ found) \cup {Acknowledged(c, j) : j \in found}
         \/ Leaves(c, "failed") /\ jobs' = jobs
  BY DEF Acknowledge, Acknowledged
<1>2. File(c) = "jobs" /\ cmd[c].copy.jobs = jobs
  BY <1>1, InsideKnows
<1>3. WireTyped' /\ WireShrinks
  BY <1>1 DEF WireTyped, WireShrinks, TypeOK
<1>4. CASE Leaves(c, "failed") /\ jobs' = jobs
  BY <1>1, <1>3, <1>4, StepLeaves
<1>5. CASE /\ found # {} /\ Leaves(c, "queued")
           /\ jobs' = (cmd[c].copy.jobs \ found) \cup {Acknowledged(c, j) : j \in found}
  <2>1. Keeps(c) /\ cmd'[c].pc = "over" /\ cmd'[c].inside = FALSE
    BY <1>5, LeavesWith DEF TypeOK
  <2>2. Own(c)  BY <2>1 DEF Keeps
  <2>3. LocksHeld'
    BY <1>1, <1>2, <2>1, <2>2, LocksKept, InvParts
  <2>4. /\ found \in SUBSET jobs /\ found = {j \in jobs : j.msg = c} /\ found # {}
        /\ jobs' = (jobs \ found) \cup {Acknowledged(c, j) : j \in found}
    BY <1>2, <1>5
  <2> HIDE DEF found
  <2>5. MessagesInv'
    BY <1>1, <2>1, <2>4, MessagesAcknowledge, InvParts
  <2>6. TypeOK'
    <3>1. jobs' \in SUBSET Job
      BY <2>4, AcknowledgedFields DEF TypeOK
    <3>2. FilesTyped' /\ MailTyped' /\ faults' \in Nat
      BY <1>1, <3>1, ReleaseTyped DEF FilesTyped, MailTyped, TypeOK
    <3> QED  BY <1>1, <1>3, <2>1, <2>2, <3>2, TypeOfStep
  <2> QED  BY <2>3, <2>5, <2>6 DEF JobsInv, MessagesInv
<1> QED  BY <1>1, <1>4, <1>5

LEMMA StepForget ==
    ASSUME TypeOK, JobsInv, NEW c \in Commands, Forget(c)
    PROVE  TypeOK' /\ JobsInv'
<1>1. /\ cmd[c].pc = "forget" /\ Inside(c) /\ Release(c) /\ Leaves(c, "answered")
      /\ UNCHANGED <<now, peers, mail, wire, faults>>
      /\ jobs' = {j \in cmd[c].copy.jobs : j.msg # c}
  BY DEF Forget
<1>2. File(c) = "jobs" /\ cmd[c].copy.jobs = jobs
  BY <1>1, InsideKnows
<1>3. /\ Keeps(c) /\ cmd'[c].pc = "over" /\ cmd'[c].inside = FALSE
      /\ cmd'[c].report # "queued"
  BY <1>1, LeavesWith, NotYetQueued DEF TypeOK
<1>4. Own(c)  BY <1>3 DEF Keeps
<1>5. LocksHeld'
  BY <1>1, <1>2, <1>3, <1>4, LocksKept, InvParts
<1>6. MessagesInv'
  BY <1>1, <1>2, <1>3, MessagesForget, InvParts
<1>7. TypeOK'
  <2>1. jobs' \in SUBSET Job
    BY <1>1, <1>2 DEF TypeOK
  <2>2. FilesTyped' /\ WireTyped' /\ MailTyped' /\ faults' \in Nat
    BY <1>1, <2>1, ReleaseTyped DEF FilesTyped, WireTyped, MailTyped, TypeOK
  <2> QED  BY <1>1, <1>3, <1>4, <2>2, TypeOfStep
<1> QED  BY <1>5, <1>6, <1>7 DEF JobsInv, MessagesInv

LEMMA StepSend ==
    ASSUME TypeOK, JobsInv, NEW c \in Commands, Send(c)
    PROVE  TypeOK' /\ JobsInv'
<1>1. /\ cmd[c].pc = "send" /\ UNCHANGED <<now, peers, jobs, lock, wire, faults>>
      /\ \/ Moves(c, "open") /\ mail' = [mail EXCEPT ![c] = [st |-> "sent", at |-> now]]
         \/ Leaves(c, "failed") /\ mail' = mail
  BY DEF Send
<1>2. WireTyped' /\ WireShrinks
  BY <1>1 DEF WireTyped, WireShrinks, TypeOK
<1>3. CASE Leaves(c, "failed") /\ mail' = mail
  BY <1>1, <1>2, <1>3, StepLeaves
<1>4. CASE Moves(c, "open") /\ mail' = [mail EXCEPT ![c] = [st |-> "sent", at |-> now]]
  <2>1. /\ Keeps(c) /\ cmd'[c].pc = "open" /\ cmd'[c].inside = FALSE
        /\ cmd'[c].report = cmd[c].report
    BY <1>4, MovesOn DEF TypeOK, PCs
  <2>2. Own(c)  BY <2>1 DEF Keeps
  <2>3. LocksHeld'
    BY <1>1, <2>1, <2>2, LocksKept, InvParts
  <2>4. MessagesInv'
    BY <1>1, <1>4, <2>1, MessagesSend, InvParts
  <2>5. TypeOK'
    <3>1. MailTyped'
      BY <1>4 DEF MailTyped, TypeOK
    <3>2. FilesTyped' /\ faults' \in Nat
      BY <1>1 DEF FilesTyped, TypeOK
    <3> QED  BY <1>1, <1>2, <2>1, <2>2, <3>1, <3>2, TypeOfStep
  <2> QED  BY <2>3, <2>4, <2>5 DEF JobsInv, MessagesInv
<1> QED  BY <1>1, <1>3, <1>4

\* A report while the command goes on: the timer, or the closed socket.
LEMMA StepReports ==
    ASSUME TypeOK, JobsInv, NEW c \in Commands, OnClose(c) \/ OnTimer(c)
    PROVE  TypeOK' /\ JobsInv'
<1>1. PICK r \in {"closed", "failed"} : cmd' = [cmd EXCEPT ![c].report = r]
  BY DEF OnClose, OnTimer
<1>2. /\ cmd[c].pc \in {"open", "ack", "verify", "forget"}
      /\ ~cmd[c].inside
      /\ UNCHANGED <<now, peers, jobs, lock, mail, wire, faults>>
  BY InvParts, FileOfStage DEF OnClose, OnTimer, Listening, Waits, LocksHeld, Locking
<1> DEFINE next == [cmd[c] EXCEPT !.report = r]
<1>3. /\ next \in Command /\ next.pc = cmd[c].pc /\ next.inside = FALSE
      /\ next.addr = cmd[c].addr /\ next.key = cmd[c].key /\ next.report = r
      /\ next.durable = cmd[c].durable /\ next.at = cmd[c].at
  <2>1. cmd[c] \in Command /\ cmd[c].inside = FALSE
    BY <1>2, CommandFields DEF TypeOK
  <2> QED  BY <2>1 DEF Command
<1>4. cmd' = [cmd EXCEPT ![c] = next]
  BY <1>1
<1> HIDE DEF next
<1>5. /\ Keeps(c) /\ cmd'[c].pc = cmd[c].pc /\ cmd'[c].inside = FALSE
      /\ cmd'[c].report # "queued"
  BY <1>3, <1>4 DEF Keeps, Own, TypeOK
<1>6. Own(c)  BY <1>5 DEF Keeps
<1>7. WireTyped' /\ WireShrinks /\ FilesTyped' /\ MailTyped' /\ faults' \in Nat
  BY <1>2 DEF WireTyped, WireShrinks, FilesTyped, MailTyped, TypeOK
<1>8. LocksHeld'
  BY <1>2, <1>5, <1>6, LocksKept, InvParts
<1>9. MessagesInv'
  <2>1. /\ cmd[c].pc = "ack" => mail[c].st = "queued"
        /\ cmd[c].pc \in {"verify", "forget"} => mail[c].st = "over"
    BY InvParts DEF MessagesInv, FramesTrue
  <2> QED  BY <1>2, <1>5, <1>7, <2>1, MessagesKept, InvParts
<1>10. TypeOK'
  BY <1>2, <1>5, <1>6, <1>7, TypeOfStep
<1> QED  BY <1>8, <1>9, <1>10 DEF JobsInv, MessagesInv

\* What arrives is about the command's own message.
LEMMA StepReceives ==
    ASSUME TypeOK, JobsInv, NEW c \in Commands,
           OnQueued(c) \/ OnOutcome(c) \/ OnError(c)
    PROVE  TypeOK' /\ JobsInv'
<1>1. PICK frame \in {"queued", "outcome", "error"} :
        /\ Receives(c, frame) /\ UNCHANGED <<now, peers, jobs, mail, faults>>
        /\ \/ frame = "queued" /\ Take(c, cmd[c], "ack")
           \/ frame = "outcome" /\ Moves(c, "verify") /\ lock' = lock
           \/ frame = "error" /\ Leaves(c, "failed") /\ lock' = lock
  BY DEF OnQueued, OnOutcome, OnError
<1>2. /\ cmd[c].pc = "open" /\ wire[c] = <<frame, "close">>
      /\ wire' = [wire EXCEPT ![c] = <<"close">>]
  BY <1>1, ReceivesFrame DEF TypeOK
<1>3. WireTyped' /\ WireShrinks
  BY <1>2 DEF WireTyped, WireShrinks, TypeOK
<1>4. CASE frame = "queued" /\ Take(c, cmd[c], "ack")
  <2>1. mail[c].st = "queued" /\ ~cmd[c].inside /\ "ack" \in DOMAIN Wants
    BY <1>2, <1>4, InvParts, FileOfStage
       DEF MessagesInv, FramesTrue, LocksHeld, Locking
  <2> QED  BY <1>1, <1>2, <1>3, <1>4, <2>1, StepTakes
<1>5. CASE frame = "outcome" /\ Moves(c, "verify") /\ lock' = lock
  <2>1. mail[c].st = "over"
    BY <1>2, <1>5, InvParts DEF MessagesInv, FramesTrue
  <2>2. faults' \in Nat  BY <1>1 DEF TypeOK
  <2> QED  BY <1>1, <1>2, <1>3, <1>5, <2>1, <2>2, StepMoves
<1>6. CASE frame = "error" /\ Leaves(c, "failed") /\ lock' = lock
  BY <1>1, <1>2, <1>3, <1>6, StepLeaves
<1> QED  BY <1>1, <1>4, <1>5, <1>6

\* The other steps of a command.
LEMMA StepOther ==
    ASSUME TypeOK, JobsInv, NEW c \in Commands,
           \/ Starts(c) \/ Acquire(c) \/ TimesOut(c) \/ Verify(c) \/ Exit(c) \/ Crash(c)
    PROVE  TypeOK' /\ JobsInv'
<1>1. WireTyped /\ (wire' = wire => WireTyped' /\ WireShrinks)
  BY DEF WireTyped, WireShrinks, TypeOK
<1>2. ~Locking(c) => ~cmd[c].inside
  BY InvParts DEF LocksHeld
<1>3. ASSUME NEW a \in Addresses, Reset(c, a)  PROVE TypeOK' /\ JobsInv'
  <2> DEFINE rec == [Idle EXCEPT !.addr = a]
  <2>1. /\ rec \in Command /\ rec.inside = FALSE /\ rec.addr \in Addresses /\ rec.at = 0
        /\ rec.report = "none"
    BY UnreadTyped DEF Idle, Command, PCs, Pins
  <2>2. /\ cmd[c].pc = "idle" /\ Take(c, rec, "reset")
        /\ UNCHANGED <<now, peers, jobs, mail, wire, faults>>
    BY <1>3 DEF Reset
  <2> HIDE DEF rec
  <2> QED  BY <2>1, <2>2, StepBegins
<1>4. ASSUME NEW a \in Addresses, NEW k \in Bundles, NEW d \in BOOLEAN, LookUp(c, a, k, d)
      PROVE  TypeOK' /\ JobsInv'
  <2> DEFINE rec == [Idle EXCEPT !.addr = a, !.key = k, !.durable = d]
  <2>1. /\ rec \in Command /\ rec.inside = FALSE /\ rec.addr \in Addresses /\ rec.at = 0
        /\ rec.report = "none"
    BY UnreadTyped DEF Idle, Command, PCs, Pins
  <2>2. /\ cmd[c].pc = "idle" /\ Take(c, rec, "pin")
        /\ UNCHANGED <<now, peers, jobs, mail, wire, faults>>
    BY <1>4 DEF LookUp
  <2> HIDE DEF rec
  <2> QED  BY <2>1, <2>2, StepBegins
<1>5. ASSUME LookUpFails(c)  PROVE TypeOK' /\ JobsInv'
  BY <1>1, <1>5, StepLeaves DEF LookUpFails
<1>6. ASSUME Acquire(c)  PROVE TypeOK' /\ JobsInv'
  <2> DEFINE pc == cmd[c].pc
  <2>1. pc \in DOMAIN Wants /\ ~cmd[c].inside /\ pc # "over" /\ Take(c, cmd[c], pc)
        /\ UNCHANGED <<now, peers, jobs, mail, wire, faults>>
    BY <1>6, FileOfStage DEF Acquire, Waits, Locking
  <2>2. (pc = "ack" => mail[c].st = "queued") /\ (pc = "forget" => mail[c].st = "over")
    BY InvParts DEF MessagesInv, FramesTrue
  <2>3. pc \notin {"ack", "forget"} => cmd[c].pc = pc
    OBVIOUS
  <2> HIDE DEF pc
  <2> QED  BY <1>1, <2>1, <2>2, <2>3, StepTakes DEF pc
<1>7. ASSUME TimesOut(c)  PROVE TypeOK' /\ JobsInv'
  <2>1. /\ cmd[c].pc # "over" /\ lock' = lock
        /\ \E r \in {"failed", "answered"} : Leaves(c, r)
        /\ UNCHANGED <<now, peers, jobs, mail, wire, faults>>
    BY <1>7, FileOfStage DEF TimesOut, Waits, Locking
  <2> QED  BY <1>1, <2>1, StepLeaves
<1>8. ASSUME Verify(c)  PROVE TypeOK' /\ JobsInv'
  <2>1. cmd[c].pc = "verify" /\ UNCHANGED <<now, peers, jobs, mail, wire, faults>>
    BY <1>8 DEF Verify
  <2>2. ASSUME NEW r \in {"failed", "answered"}, Leaves(c, r), lock' = lock
        PROVE  TypeOK' /\ JobsInv'
    BY <1>1, <2>1, <2>2, StepLeaves
  <2>3. ASSUME Take(c, cmd[c], "forget")  PROVE TypeOK' /\ JobsInv'
    <3>1. mail[c].st = "over" /\ ~cmd[c].inside /\ "forget" \in DOMAIN Wants
      BY <1>2, <2>1, InvParts, FileOfStage DEF MessagesInv, FramesTrue, Locking
    <3> QED  BY <1>1, <2>1, <2>3, <3>1, StepTakes
  <2> QED  BY <1>8, <2>2, <2>3 DEF Verify
<1>9. ASSUME Exit(c) \/ Crash(c)  PROVE TypeOK' /\ JobsInv'
  <2>1. /\ cmd[c].pc # "over" /\ \E pc \in {"over", "dead"} : Moves(c, pc)
        /\ UNCHANGED <<now, peers, jobs, lock, mail, wire>> /\ faults' \in Nat
    BY <1>9 DEF Exit, Crash, TypeOK
  <2> QED  BY <1>1, <2>1, StepMoves
<1> QED  BY <1>3, <1>4, <1>5, <1>6, <1>7, <1>8, <1>9 DEF Starts

LEMMA StepOfRelay ==
    ASSUME TypeOK, JobsInv, NEW c \in Commands, Relay(c)
    PROVE  TypeOK' /\ JobsInv'
<1>1. ASSUME Queues(c)  PROVE TypeOK' /\ JobsInv'
  BY <1>1, StepRelay DEF Queues
<1>2. ASSUME Rings(c)  PROVE TypeOK' /\ JobsInv'
  BY <1>2, StepRelay DEF Rings
<1>3. ASSUME Answers(c)  PROVE TypeOK' /\ JobsInv'
  BY <1>3, StepRelay DEF Answers
<1>4. ASSUME Refuses(c)  PROVE TypeOK' /\ JobsInv'
  BY <1>4, StepRelay DEF Refuses
<1>5. ASSUME LosesConnection(c)  PROVE TypeOK' /\ JobsInv'
  <2>1. /\ wire' = [wire EXCEPT ![c] = <<"close">>] /\ faults' = faults + 1
        /\ UNCHANGED <<now, peers, jobs, lock, cmd, mail>>
    BY <1>5 DEF LosesConnection
  <2>2. TypeOK'
    BY <2>1 DEF TypeOK
  <2>3. LocksHeld'
    BY <2>1, LocksUntouched, InvParts
  <2>4. FramesTrue'
    BY <2>1, CloseIsNoAnswer DEF TypeOK, JobsInv, FramesTrue
  <2>5. Unmade' /\ JobsMatch' /\ Recorded' /\ StaysOpen'
    BY <2>1 DEF JobsInv, Unmade, JobsMatch, Recorded, StaysOpen
  <2> QED  BY <2>2, <2>3, <2>4, <2>5 DEF JobsInv
<1> QED  BY <1>1, <1>2, <1>3, <1>4, <1>5 DEF Relay

\* What happens on its own: time passes, a dead process' lock is removed.
LEMMA StepAround ==
    ASSUME TypeOK, JobsInv,
           Tick \/ (\E f \in {"peers", "jobs"} : RemoveLock(f)) \/ UNCHANGED vars
    PROVE  TypeOK' /\ JobsInv'
<1>1. /\ UNCHANGED <<peers, jobs, cmd, mail, wire, faults>>
      /\ now' = now \/ now' = now + 1
      /\ lock' = lock \/ \E f \in {"peers", "jobs"} : RemoveLock(f)
  BY DEF Tick, RemoveLock, vars
<1>2. now \in Nat /\ now' \in Nat /\ now <= now'
  BY <1>1 DEF TypeOK
<1>3. lock' \in [{"peers", "jobs"} -> Commands \cup {None}]
  BY <1>1 DEF RemoveLock, TypeOK
<1>4. TypeOK'
  BY <1>1, <1>2, <1>3 DEF TypeOK
<1>5. LocksHeld'
  BY <1>1, LocksUntouched, InvParts
<1>6. FramesTrue' /\ Unmade'
  BY <1>1 DEF JobsInv, FramesTrue, Unmade
<1>7. \A c \in Commands : cmd[c].at \in Nat /\ mail[c].at \in Nat /\ MailboxTtl \in Nat
  BY CommandFields, ConstantsTyped DEF TypeOK
<1>8. JobsMatch'
  BY <1>1, <1>2, <1>7 DEF JobsInv, JobsMatch
<1>9. Recorded' /\ StaysOpen'
  BY <1>1, <1>2, <1>7 DEF JobsInv, Recorded, StaysOpen
<1> QED  BY <1>4, <1>5, <1>6, <1>8, <1>9 DEF JobsInv
-----------------------------------------------------------------------------
(* The theorems.                                                            *)

LEMMA InvInit == Init => TypeOK /\ JobsInv
<1> SUFFICES ASSUME Init PROVE TypeOK /\ JobsInv  OBVIOUS
<1>1. /\ \A c \in Commands :
           /\ cmd[c] = Idle /\ mail[c] = [st |-> "none", at |-> 0] /\ wire[c] = <<>>
      /\ jobs = {} /\ now = 0
  BY DEF Init
<1>2. /\ Idle \in Command /\ Idle.pc = "idle" /\ Idle.inside = FALSE /\ Idle.at = 0
      /\ Idle.report = "none" /\ Idle.durable = FALSE
  BY UnreadTyped DEF Idle, Command, PCs, Pins
<1>3. TypeOK
  BY <1>2 DEF Init, TypeOK, Pins
<1>4. LocksHeld
  BY <1>1, <1>2 DEF LocksHeld, Inside
<1>5. \A c \in Commands :
        /\ wire[c] = <<>> /\ mail[c].st = "none" /\ cmd[c].pc = "idle"
        /\ cmd[c].at = 0 /\ cmd[c].durable = FALSE /\ cmd[c].report = "none"
  BY <1>1, <1>2
<1>6. FramesTrue
  BY <1>5, CloseIsNoAnswer DEF FramesTrue
<1>7. Unmade /\ JobsMatch
  BY <1>1, <1>5 DEF Unmade, JobsMatch
<1>8. Recorded /\ StaysOpen
  BY <1>5 DEF Recorded, StaysOpen
<1> QED  BY <1>3, <1>4, <1>6, <1>7, <1>8 DEF JobsInv

LEMMA InvNext == TypeOK /\ JobsInv /\ [Next]_vars => TypeOK' /\ JobsInv'
<1> SUFFICES ASSUME TypeOK, JobsInv, [Next]_vars PROVE TypeOK' /\ JobsInv'
  OBVIOUS
<1>1. ASSUME NEW c \in Commands, Starts(c) \/ Step(c) \/ Relay(c) \/ Crash(c)
      PROVE  TypeOK' /\ JobsInv'
  BY <1>1, StepPin, StepUnpin, StepRemember, StepAcknowledge, StepForget, StepSend,
     StepReports, StepReceives, StepOther, StepOfRelay DEF Step
<1>2. CASE Tick \/ RemoveLock("peers") \/ RemoveLock("jobs") \/ UNCHANGED vars
  BY <1>2, StepAround
<1> QED  BY <1>1, <1>2 DEF Next

\* The files of pins and jobs, the commands' memory and what the relay tells
\* them keep their types, and only the holder of a file's lock is inside.
THEOREM OutboundTyped == Spec => []TypeOK
<1> QED  BY InvInit, InvNext, PTL DEF Spec

LEMMA JobsInvariant == Spec => [](TypeOK /\ JobsInv)
<1> QED  BY InvInit, InvNext, PTL DEF Spec

\* A command that ended with a task id can open its result until it expires,
\* whatever other commands do to the job store (outbound-jobs.ts).
THEOREM QueuedResultOpens == Spec => []ResultOpens
<1>1. JobsInv => ResultOpens
  BY DEF JobsInv, StaysOpen, ResultOpens, Opens
<1> QED  BY <1>1, JobsInvariant, PTL

\* A durable message that the relay may hold is in the job store, wherever its
\* command died (rememberOutboundJob before the frame is sent).
THEOREM SentMessagesRecorded == Spec => []SentIsRecorded
<1>1. JobsInv => SentIsRecorded
  BY DEF JobsInv, Recorded, SentIsRecorded
<1> QED  BY <1>1, JobsInvariant, PTL

\* A pin changes its identity only when it was reset, and its epoch never goes
\* back (verifyAndPinPeer under the lock of known_peers.json).
THEOREM PinsMoveForward == Spec => PinsForward
<1>1. ASSUME TypeOK, JobsInv, [Next]_vars, NEW a \in Addresses,
             peers[a] # NoPin, peers'[a] # peers[a]
      PROVE  \/ peers'[a].id = peers[a].id /\ peers'[a].epoch > peers[a].epoch
             \/ Unpins(a)
  <2>1. PICK c \in Commands : Pin(c) \/ Unpin(c)
    BY <1>1 DEF Next, Starts, Step, Relay, LookUp, LookUpFails, Reset, Acquire, TimesOut,
       Remember, Send, OnQueued, Acknowledge, OnOutcome, Verify, Forget, OnError, OnClose,
       OnTimer, Exit, Queues, Rings, Answers, Refuses, LosesConnection, Crash, RemoveLock,
       Tick, vars
  <2>2. cmd[c].copy.peers = peers /\ peers \in [Addresses -> Pins] /\ cmd[c].key \in Pins
    BY <1>1, <2>1, InsideKnows, CommandFields DEF Pin, Unpin, TypeOK
  <2>3. CASE Unpin(c)
    BY <1>1, <2>2, <2>3 DEF Unpin, Unpins
  <2>4. CASE Pin(c)
    <3>1. /\ a = cmd[c].addr /\ peers'[a] = cmd[c].key
          /\ Trusted(peers[a], cmd[c].key)
      BY <1>1, <2>2, <2>4 DEF Pin
    <3>2. peers[a].id = cmd[c].key.id /\ cmd[c].key.epoch >= peers[a].epoch
      BY <1>1, <3>1 DEF Trusted, NotRolledBack
    <3>3. /\ peers[a] = [id |-> peers[a].id, epoch |-> peers[a].epoch]
          /\ cmd[c].key = [id |-> cmd[c].key.id, epoch |-> cmd[c].key.epoch]
          /\ peers[a].epoch \in Nat /\ cmd[c].key.epoch \in Nat
      BY <2>2, ConstantsTyped
    <3>4. cmd[c].key.epoch # peers[a].epoch
      BY <1>1, <3>1, <3>2, <3>3
    <3> QED  BY <3>1, <3>2, <3>3, <3>4
  <2> QED  BY <2>1, <2>3, <2>4
<1>2. TypeOK /\ JobsInv /\ [Next]_vars =>
        [\A a \in Addresses : peers[a] # NoPin /\ peers'[a] # peers[a] =>
           \/ peers'[a].id = peers[a].id /\ peers'[a].epoch > peers[a].epoch
           \/ Unpins(a)]_vars
  BY <1>1
<1> QED  BY <1>2, JobsInvariant, PTL DEF Spec, PinsForward
=============================================================================
