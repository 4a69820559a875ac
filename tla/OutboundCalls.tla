--------------------------- MODULE OutboundCalls ---------------------------
(***************************************************************************)
(* The caller's machine: commands that place a call (call-client.ts) or    *)
(* reset a pin, over the two files they share under a lock, the pinned     *)
(* peers (known-peers.ts) and the messages whose result is still to come   *)
(* (outbound-jobs.ts).  Commands are processes: they interleave at every   *)
(* read and write of a file, and may die holding a lock, which no other    *)
(* process breaks (file-lock.ts).  The relay queues a message, answers it  *)
(* or refuses it, and closes the socket after its last frame.              *)
(*                                                                         *)
(* A message is its command.  Signatures, sealing and the validity period  *)
(* of a key are left out; an outcome's authentication either holds or      *)
(* does not.  A bundle is the identity and the epoch the relay serves: any *)
(* that the identity once signed.                                          *)
(***************************************************************************)
EXTENDS Integers, FiniteSets, Sequences

CONSTANTS
    Commands, Addresses,
    Bundles,                  \* what the relay may serve of a peer's keys
    None,                     \* no process
    MaxPeers, MaxJobs,        \* MAX_KNOWN_PEERS, MAX_OUTBOUND_JOBS
    MailboxTtl,               \* MAILBOX_TTL_MS
    MaxTime, MaxFaults                                  \* model bounds

ASSUME OutboundAssumption ==
    /\ None \notin Commands
    /\ \A k \in Bundles : k = [id |-> k.id, epoch |-> k.epoch] /\ k.epoch \in Nat \ {0}
    /\ \A n \in {MaxPeers, MaxJobs, MailboxTtl, MaxTime, MaxFaults} : n \in Nat

VARIABLES
    now,
    peers,      \* known_peers.json: each address's pin
    jobs,       \* outbound_jobs.json
    lock,       \* each file's sidecar lock: the process that created it
    cmd,        \* each command
    mail,       \* the relay: what became of the command's message, and when
    wire,       \* frames on the way to the command's socket
    faults

vars == <<now, peers, jobs, lock, cmd, mail, wire, faults>>
-----------------------------------------------------------------------------
NoPin == [id |-> None, epoch |-> 0]
Pinned(f) == {a \in Addresses : f[a] # NoPin}
Files == [peers |-> peers, jobs |-> jobs]
Unread == [peers |-> [a \in Addresses |-> NoPin], jobs |-> {}]

\* The file that the operation a command is at takes the lock of.
Wants == [pin |-> "peers", reset |-> "peers", remember |-> "jobs",
          ack |-> "jobs", forget |-> "jobs"]
Locking(c) == cmd[c].pc \in DOMAIN Wants
File(c) == Wants[cmd[c].pc]
Inside(c) == Locking(c) /\ cmd[c].inside
Waits(c) == Locking(c) /\ ~cmd[c].inside

StolenFree(f) == TRUE                                               \* mutant
LockFree(f) == lock[f] = None
\* Only a lock that still carries the process's own token is removed.
Release(c) == lock' = [lock EXCEPT ![File(c)] = IF @ = c THEN None ELSE @]
\* A process at an operation on f tries to create the lock at once, and reads
\* the file if it has.
Take(c, rec, pc) ==
    LET f == Wants[pc] IN
    IF LockFree(f)
      THEN /\ lock' = [lock EXCEPT ![f] = c]
           /\ cmd' = [cmd EXCEPT ![c] = [rec EXCEPT !.pc = pc, !.inside = TRUE, !.copy[f] = Files[f]]]
      ELSE /\ cmd' = [cmd EXCEPT ![c] = [rec EXCEPT !.pc = pc]]
           /\ UNCHANGED lock

\* finish: the first report is the one the user sees.
Settled(c) == cmd[c].report # "none"
Reported(c, r) == IF Settled(c) THEN cmd[c] ELSE [cmd[c] EXCEPT !.report = r]
Leaves(c, r) == cmd' = [cmd EXCEPT ![c] = [Reported(c, r) EXCEPT !.pc = "over", !.inside = FALSE, !.copy = Unread]]
Moves(c, pc) == cmd' = [cmd EXCEPT ![c] = [@ EXCEPT !.pc = pc, !.inside = FALSE, !.copy = Unread]]

Idle == [pc |-> "idle", addr |-> None, key |-> NoPin, durable |-> FALSE, at |-> 0,
         report |-> "none", inside |-> FALSE, copy |-> Unread]

Init ==
    /\ now = 0 /\ faults = 0
    /\ peers = [a \in Addresses |-> NoPin] /\ jobs = {}
    /\ lock = [f \in {"peers", "jobs"} |-> None]
    /\ cmd = [c \in Commands |-> Idle]
    /\ mail = [c \in Commands |-> [st |-> "none", at |-> 0]]
    /\ wire = [c \in Commands |-> <<>>]
-----------------------------------------------------------------------------
(* Locks.                                                                   *)

Acquire(c) ==
    /\ Waits(c) /\ LockFree(File(c))
    /\ Take(c, cmd[c], cmd[c].pc)
    /\ UNCHANGED <<now, peers, jobs, mail, wire, faults>>

OverdueAlive(f) == lock[f] # None /\ cmd[lock[f]].pc # "dead"       \* mutant
Overdue(f) == lock[f] # None
\* The wait for a lock runs out.  Only the removal of a job is not needed for
\* the answer.
TimesOut(c) ==
    /\ Waits(c) /\ Overdue(File(c))
    /\ Leaves(c, IF cmd[c].pc = "forget" THEN "answered" ELSE "failed")
    /\ UNCHANGED <<now, peers, jobs, lock, mail, wire, faults>>

\* A lock whose owner is dead is removed by hand, when nothing uses the file.
RemoveLock(f) ==
    /\ lock[f] # None /\ cmd[lock[f]].pc = "dead"
    /\ \A c \in Commands : Locking(c) => File(c) # f
    /\ lock' = [lock EXCEPT ![f] = None]
    /\ UNCHANGED <<now, peers, jobs, cmd, mail, wire, faults>>
-----------------------------------------------------------------------------
(* Before the socket opens: the peer's key, its pin, the job.               *)

\* The card says whether the peer takes durable messages; a card that cannot
\* be fetched counts as one that does not.
LookUp(c, a, k, d) ==
    /\ cmd[c].pc = "idle"
    /\ Take(c, [Idle EXCEPT !.addr = a, !.key = k, !.durable = d], "pin")
    /\ UNCHANGED <<now, peers, jobs, mail, wire, faults>>

LookUpFails(c) ==
    /\ cmd[c].pc = "idle"
    /\ Leaves(c, "failed")
    /\ UNCHANGED <<now, peers, jobs, lock, mail, wire, faults>>

RollsForward(pin, k) == TRUE                                        \* mutant
NotRolledBack(pin, k) == k.epoch >= pin.epoch
Trusted(pin, k) == pin = NoPin \/ (pin.id = k.id /\ NotRolledBack(pin, k))
\* verifyAndPinPeer's operation, then the message is made: its life starts now.
Pin(c) ==
    LET pins == cmd[c].copy.peers  a == cmd[c].addr  k == cmd[c].key IN
    /\ cmd[c].pc = "pin" /\ Inside(c)
    /\ IF Trusted(pins[a], k) /\ (a \in Pinned(pins) \/ Cardinality(Pinned(pins)) < MaxPeers)
         THEN /\ peers' = [pins EXCEPT ![a] = k]
              /\ cmd' = [cmd EXCEPT ![c] = [@ EXCEPT
                           !.pc = IF cmd[c].durable THEN "remember" ELSE "send",
                           !.at = now, !.inside = FALSE, !.copy = Unread]]
         ELSE Leaves(c, "failed") /\ UNCHANGED peers
    /\ Release(c)
    /\ UNCHANGED <<now, jobs, mail, wire, faults>>

Reset(c, a) ==
    /\ cmd[c].pc = "idle"
    /\ Take(c, [Idle EXCEPT !.addr = a], "reset")
    /\ UNCHANGED <<now, peers, jobs, mail, wire, faults>>

\* resetPeerTrust's operation.
Unpin(c) ==
    LET pins == cmd[c].copy.peers IN
    /\ cmd[c].pc = "reset" /\ Inside(c)
    /\ peers' = IF cmd[c].addr \in Pinned(pins) THEN [pins EXCEPT ![cmd[c].addr] = NoPin] ELSE peers
    /\ Leaves(c, IF cmd[c].addr \in Pinned(pins) THEN "answered" ELSE "failed")
    /\ Release(c)
    /\ UNCHANGED <<now, jobs, mail, wire, faults>>

LiveOutlived(j, c) == j.until > cmd[c].at + MailboxTtl              \* mutant
LiveJob(j, c) == j.until > cmd[c].at
PendingJob(c) == [msg |-> c, id |-> cmd[c].key.id, state |-> "pending",
                  until |-> cmd[c].at + MailboxTtl]
\* rememberOutboundJob's operation.  A message id is drawn afresh, so that it is
\* already in the store does not happen.
Remember(c) ==
    LET kept == {j \in cmd[c].copy.jobs : LiveJob(j, c)} IN
    /\ cmd[c].pc = "remember" /\ Inside(c)
    /\ IF Cardinality(kept) < MaxJobs
         THEN /\ jobs' = kept \cup {PendingJob(c)}
              /\ Moves(c, "send")
         ELSE Leaves(c, "failed") /\ UNCHANGED jobs
    /\ Release(c)
    /\ UNCHANGED <<now, peers, mail, wire, faults>>

\* The socket opens and the sealed frame is sent; the handshake may fail.
Send(c) ==
    /\ cmd[c].pc = "send"
    /\ \/ Moves(c, "open") /\ mail' = [mail EXCEPT ![c] = [st |-> "sent", at |-> now]]
       \/ Leaves(c, "failed") /\ UNCHANGED mail
    /\ UNCHANGED <<now, peers, jobs, lock, wire, faults>>
-----------------------------------------------------------------------------
(* The relay, which the client sees through the frames it sends.            *)

\* A frame is the relay's last to this socket: it closes right after it.  A
\* socket whose connection is lost takes nothing more.
Emit(c, frame) == wire' = [wire EXCEPT ![c] = IF @ = <<>> THEN <<frame, "close">> ELSE @]
Becomes(c, st) == mail' = [mail EXCEPT ![c] = [st |-> st, at |-> now]]

Queues(c) ==
    /\ mail[c].st = "sent" /\ cmd[c].durable
    /\ Becomes(c, "queued") /\ Emit(c, "queued")
    /\ UNCHANGED <<now, peers, jobs, lock, cmd, faults>>

Rings(c) ==
    /\ mail[c].st = "sent"
    /\ Becomes(c, "live")
    /\ UNCHANGED <<now, peers, jobs, lock, cmd, wire, faults>>

Answers(c) ==
    /\ mail[c].st = "live"
    /\ Becomes(c, "over") /\ Emit(c, "outcome")
    /\ UNCHANGED <<now, peers, jobs, lock, cmd, faults>>

Refuses(c) ==
    /\ mail[c].st \in {"sent", "live"}
    /\ Becomes(c, "over") /\ Emit(c, "error")
    /\ UNCHANGED <<now, peers, jobs, lock, cmd, faults>>

LosesConnection(c) ==
    /\ mail[c].st # "none" /\ wire[c] # <<"close">>
    /\ faults < MaxFaults /\ faults' = faults + 1
    /\ wire' = [wire EXCEPT ![c] = <<"close">>]
    /\ UNCHANGED <<now, peers, jobs, lock, cmd, mail>>
-----------------------------------------------------------------------------
(* The socket's callbacks.  A handler runs to its next await: the timer and *)
(* the close event come between its steps, except while it works on a file. *)

Receives(c, frame) ==
    /\ cmd[c].pc = "open" /\ wire[c] # <<>> /\ Head(wire[c]) = frame
    /\ wire' = [wire EXCEPT ![c] = Tail(@)]

OnQueued(c) ==
    /\ Receives(c, "queued")
    /\ Take(c, cmd[c], "ack")
    /\ UNCHANGED <<now, peers, jobs, mail, faults>>

\* acknowledgeOutboundJob's operation: the job gets its task id.
Acknowledge(c) ==
    LET found == {j \in cmd[c].copy.jobs : j.msg = c} IN
    /\ cmd[c].pc = "ack" /\ Inside(c)
    /\ IF found # {}
         THEN /\ jobs' = (cmd[c].copy.jobs \ found) \cup
                         {[j EXCEPT !.state = "queued", !.until = mail[c].at + MailboxTtl] : j \in found}
              /\ Leaves(c, "queued")
         ELSE Leaves(c, "failed") /\ UNCHANGED jobs
    /\ Release(c)
    /\ UNCHANGED <<now, peers, mail, wire, faults>>

\* terminalFrameInFlight: from here on the close event is ignored.
OnOutcome(c) ==
    /\ Receives(c, "outcome")
    /\ Moves(c, "verify")
    /\ UNCHANGED <<now, peers, jobs, lock, mail, faults>>

Verify(c) ==
    /\ cmd[c].pc = "verify"
    /\ \/ Leaves(c, "failed") /\ UNCHANGED lock
       \/ ~cmd[c].durable /\ Leaves(c, "answered") /\ UNCHANGED lock
       \/ cmd[c].durable /\ Take(c, cmd[c], "forget")
    /\ UNCHANGED <<now, peers, jobs, mail, wire, faults>>

\* forgetOutboundJob's operation.
Forget(c) ==
    /\ cmd[c].pc = "forget" /\ Inside(c)
    /\ jobs' = {j \in cmd[c].copy.jobs : j.msg # c}
    /\ Leaves(c, "answered")
    /\ Release(c)
    /\ UNCHANGED <<now, peers, mail, wire, faults>>

OnError(c) ==
    /\ Receives(c, "error")
    /\ Leaves(c, "failed")
    /\ UNCHANGED <<now, peers, jobs, lock, mail, faults>>

Listening(c) == cmd[c].pc = "open" \/ (cmd[c].pc = "ack" /\ Waits(c))
OnClose(c) ==
    /\ Listening(c) /\ wire[c] = <<"close">> /\ ~Settled(c)
    /\ cmd' = [cmd EXCEPT ![c].report = "closed"]
    /\ UNCHANGED <<now, peers, jobs, lock, mail, wire, faults>>

OnTimer(c) ==
    /\ Listening(c) \/ cmd[c].pc = "verify" \/ (cmd[c].pc = "forget" /\ Waits(c))
    /\ ~Settled(c)
    /\ cmd' = [cmd EXCEPT ![c].report = "failed"]
    /\ UNCHANGED <<now, peers, jobs, lock, mail, wire, faults>>

\* Settled and with nothing left to run, the process ends.
Exit(c) ==
    /\ cmd[c].pc = "open" /\ Settled(c)
    /\ Moves(c, "over")
    /\ UNCHANGED <<now, peers, jobs, lock, mail, wire, faults>>

Crash(c) ==
    /\ cmd[c].pc \notin {"idle", "over", "dead"}
    /\ faults < MaxFaults /\ faults' = faults + 1
    /\ Moves(c, "dead")
    /\ UNCHANGED <<now, peers, jobs, lock, mail, wire>>

Tick ==
    /\ now < MaxTime /\ now' = now + 1
    /\ UNCHANGED <<peers, jobs, lock, cmd, mail, wire, faults>>
-----------------------------------------------------------------------------
\* findOutboundJob and decryptJobOutcome: "jobs get" opens the result of the
\* message of c, authenticated by the identity k.
Opens(c, k) == \E j \in jobs : j.msg = c /\ j.state = "queued" /\ j.id = k.id

Starts(c) ==
    \/ \E a \in Addresses : Reset(c, a) \/ \E k \in Bundles, d \in BOOLEAN : LookUp(c, a, k, d)
    \/ LookUpFails(c)
Step(c) ==
    \/ Acquire(c) \/ TimesOut(c) \/ Pin(c) \/ Unpin(c) \/ Remember(c) \/ Send(c)
    \/ OnQueued(c) \/ Acknowledge(c) \/ OnOutcome(c) \/ Verify(c) \/ Forget(c)
    \/ OnError(c) \/ OnClose(c) \/ OnTimer(c) \/ Exit(c)
Relay(c) == Queues(c) \/ Rings(c) \/ Answers(c) \/ Refuses(c) \/ LosesConnection(c)

Next ==
    \/ \E c \in Commands : Starts(c) \/ Step(c) \/ Relay(c) \/ Crash(c)
    \/ RemoveLock("peers") \/ RemoveLock("jobs")
    \/ Tick

Spec == Init /\ [][Next]_vars
\* A living process runs: its timers fire and its waits for a lock end.
FairSpec == Spec /\ \A c \in Commands : WF_vars(Step(c))
=============================================================================
