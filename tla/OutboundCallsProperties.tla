---------------------- MODULE OutboundCallsProperties ----------------------
(***************************************************************************)
(* What a caller can rely on, whatever other commands of the same machine  *)
(* run at the same time and wherever one of them dies.                     *)
(***************************************************************************)
EXTENDS OutboundCalls

\* A command that ended with a task id can open that task's result until it
\* expires: the job is in the store, with its task id and the identity it was
\* sealed to, whatever the others wrote into the same file since (the lock
\* around each read and write of outbound-jobs.ts).
ResultOpens ==
    \A c \in Commands :
      cmd[c].report = "queued" /\ now < mail[c].at + MailboxTtl => Opens(c, cmd[c].key)

\* A durable message the relay may hold is recorded, although the command died
\* or gave up: the record is written before the frame is sent, and key rotation
\* (keys.ts) keeps the message's epoch while it is there.
SentIsRecorded ==
    \A c \in Commands :
      /\ cmd[c].durable
      /\ mail[c].st \in {"sent", "live", "queued"}
      /\ now < cmd[c].at + MailboxTtl
      => \E j \in jobs : j.msg = c

\* A pin changes its identity only through "trust --reset", and its epoch never
\* goes back, however lookups of the same peer interleave (verifyAndPinPeer).
Unpins(a) == \E c \in Commands : Unpin(c) /\ cmd[c].addr = a
PinsForward ==
    [][\A a \in Addresses :
         peers[a] # NoPin /\ peers'[a] # peers[a] =>
           \/ peers'[a].id = peers[a].id /\ peers'[a].epoch > peers[a].epoch
           \/ Unpins(a)]_vars

\* Every command that lives ends with a report, also behind a lock that a dead
\* process left (withFileLock's deadline) and when the relay closes or falls
\* silent at any point of the exchange.
EveryCommandReports ==
    \A c \in Commands :
      cmd[c].pc # "idle" ~> (cmd[c].report # "none" \/ cmd[c].pc = "dead")
-----------------------------------------------------------------------------
(* Why these hold: the inductive invariant of the proofs.                  *)
PCs == {"idle", "pin", "reset", "remember", "send", "open", "ack", "verify",
        "forget", "over", "dead"}
Pins == Bundles \cup {NoPin}
Job == [msg : Commands, id : {k.id : k \in Pins}, state : {"pending", "queued"}, until : Nat]
Command ==
    [pc : PCs, addr : Addresses \cup {None}, key : Pins, durable : BOOLEAN, at : Nat,
     report : {"none", "failed", "answered", "queued", "closed"}, inside : BOOLEAN,
     copy : [peers : [Addresses -> Pins], jobs : SUBSET Job]]
Closing == {<<frame, "close">> : frame \in {"queued", "outcome", "error"}}
\* The files, the commands' memory and the relay's records keep their types.
TypeOK ==
    /\ now \in Nat /\ faults \in Nat
    /\ peers \in [Addresses -> Pins] /\ jobs \in SUBSET Job
    /\ lock \in [{"peers", "jobs"} -> Commands \cup {None}]
    /\ cmd \in [Commands -> Command]
    /\ \A c \in Commands : cmd[c].pc \in {"pin", "reset"} => cmd[c].addr \in Addresses
    /\ mail \in [Commands -> [st : {"none", "sent", "live", "queued", "over"}, at : Nat]]
    /\ wire \in [Commands -> Closing \cup {<<>>, <<"close">>}]
\* Who is inside a file's operation holds its lock, and what it read is there.
LocksHeld ==
    \A c \in Commands :
      /\ cmd[c].inside => Locking(c)
      /\ Inside(c) => lock[File(c)] = c /\ cmd[c].copy[File(c)] = Files[File(c)]
\* A frame, or the stage that handles it, tells what the relay has done.
FramesTrue ==
    \A c \in Commands :
      /\ wire[c] = <<"queued", "close">> \/ cmd[c].pc = "ack" => mail[c].st = "queued"
      /\ wire[c] = <<"outcome", "close">> \/ cmd[c].pc \in {"verify", "forget"}
           => mail[c].st = "over"
\* Nothing is known of a message before it is recorded, or sent.
Early == {"idle", "pin", "reset", "remember"}
Unmade ==
    \A c \in Commands :
      /\ cmd[c].pc \in Early => \A j \in jobs : j.msg # c
      /\ cmd[c].pc \in Early \cup {"send"} => mail[c].st = "none"
\* A job has its message's identity, and lives as long as the message.
JobsMatch ==
    /\ \A c \in Commands :
         cmd[c].at <= now /\ (mail[c].st # "none" => cmd[c].at <= mail[c].at)
    /\ \A j \in jobs :
         j.id = cmd[j.msg].key.id /\ j.until >= cmd[j.msg].at + MailboxTtl
\* A message about to be sent is recorded too.
Recorded ==
    \A c \in Commands :
      /\ cmd[c].durable
      /\ cmd[c].pc = "send" \/ mail[c].st \in {"sent", "live", "queued"}
      /\ now < cmd[c].at + MailboxTtl
      => \E j \in jobs : j.msg = c
\* A result that opens does until it expires.
StaysOpen ==
    \A c \in Commands : cmd[c].report = "queued" =>
      /\ cmd[c].pc = "over" /\ mail[c].st = "queued"
      /\ now < mail[c].at + MailboxTtl =>
           \E j \in jobs : /\ j.msg = c /\ j.state = "queued" /\ j.id = cmd[c].key.id
                          /\ j.until >= mail[c].at + MailboxTtl
JobsInv == LocksHeld /\ FramesTrue /\ Unmade /\ JobsMatch /\ Recorded /\ StaysOpen
=============================================================================
