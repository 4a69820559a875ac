------------------------------ MODULE Accounts ------------------------------
(***************************************************************************)
(* How an installation gets, replaces and recovers the credential of its   *)
(* handle: invites (relay invites.ts), registration and token rotation     *)
(* (index.ts), handle recovery (recovery.ts and the CLI's                  *)
(* commands/recovery.ts), and the object that keeps revoked credentials    *)
(* out (do.ts).  The relay's handlers interleave between their D1 calls;   *)
(* a request may be lost before, inside or after its handler, and a        *)
(* command may die at any step of its own.                                 *)
(*                                                                         *)
(* Secrets are numbers minted from one counter: a recovery operation's     *)
(* number stands for its operation id, its candidate token and its         *)
(* successor proof.  A digest is the secret it digests.  A command holds   *)
(* its installation's lock throughout; that a dead command's lock is       *)
(* removed by hand is part of Crash.                                       *)
(***************************************************************************)
EXTENDS Integers, FiniteSets

CONSTANTS
    Handles, Machines, Invites,
    Requests,                     \* handlers the relay runs at one time
    None,                         \* no handle, request or invite
    MaxActiveInvites,             \* MAX_ACTIVE_ORG_INVITES
    InviteTtl, InviteRetention,   \* expires_in_days, INVITE_RETENTION_MS
    ReceiptTtl,                   \* RECEIPT_TTL_MS
    MaxSecret, MaxTime, MaxFaults, MaxConnects          \* model bounds

ASSUME AccountsAssumption ==
    /\ None \notin Handles \cup Requests \cup Invites
    /\ \A n \in {MaxActiveInvites, InviteTtl, InviteRetention, ReceiptTtl,
                 MaxSecret, MaxTime, MaxFaults, MaxConnects} : n \in Nat

VARIABLES
    now, minted,        \* the clock; the secrets minted so far
    \* D1
    invites,            \* invites
    row,                \* handles
    receipts,           \* recovery_receipts
    job,                \* recovery_evictions: the generation to evict, or 0
    \* each handle's object
    floor, socket,      \* generation floor; its listener's generation, or -1
    \* the users' machines, and what they wrote down
    config, pending, proc, saved,
    \* handlers in progress
    req,
    faults, connects

relay == <<invites, row, receipts, job>>
do    == <<floor, socket>>
disk  == <<config, pending>>
vars == <<now, minted, relay, do, disk, proc, saved, req, faults, connects>>
-----------------------------------------------------------------------------
Secrets == 1..MaxSecret                     \* 0 is no secret
NoConfig  == [h |-> None, token |-> 0]
NoPending == [h |-> None, gen |-> 0, op |-> 0]
NoRow     == [token |-> 0, proof |-> 0, gen |-> 0, via |-> None]
Free == [pc |-> "free", h |-> None, invite |-> None, secret |-> 0,
         old |-> 0, gen |-> 0]
\* A command waits for its request's answer, or forgets its pending file.
Idle == [pc |-> "idle", r |-> None]

Become(r, pc) == req' = [req EXCEPT ![r].pc = pc]
Refuse(r) == Become(r, "refused")
Send(r, q) == req[r].pc = "free" /\ req' = [req EXCEPT ![r] = q]
Await(m, r) == proc[m].pc = "idle" /\ proc' = [proc EXCEPT ![m] = [pc |-> "wait", r |-> r]]
Fresh == minted + 1
Mint == minted < MaxSecret /\ minted' = minted + 1
Fault == faults < MaxFaults /\ faults' = faults + 1
-----------------------------------------------------------------------------
(* Invites.                                                                 *)

Open(i) == invites[i].state = "open"
Usable(i) == Open(i) /\ invites[i].at > now
\* expiredInviteCleanupStatement: "at" is when an invite was used, was revoked
\* or expires, whichever its state calls for.
Cleaned(f) ==
    [i \in Invites |->
      IF f[i].state \in {"open", "used", "revoked"} /\ f[i].at < now - InviteRetention
      THEN [f[i] EXCEPT !.state = "gone"] ELSE f[i]]

CreateInvite(i) ==
    /\ invites[i].state = "none"
    /\ Cardinality({j \in Invites : Usable(j)}) < MaxActiveInvites
    /\ invites' = [Cleaned(invites) EXCEPT
                     ![i] = [@ EXCEPT !.state = "open", !.at = now + InviteTtl]]
    /\ UNCHANGED <<now, minted, row, receipts, job, do, disk, proc, saved, req,
                   faults, connects>>

RevokeInvite(i) ==
    /\ Open(i)
    /\ invites' = Cleaned([invites EXCEPT ![i].state = "revoked", ![i].at = now])
    /\ UNCHANGED <<now, minted, row, receipts, job, do, disk, proc, saved, req,
                   faults, connects>>
-----------------------------------------------------------------------------
(* Registration: createInstallation, and POST /v1/register.                 *)

Setup(m, r, i, h) ==
    /\ config[m] = NoConfig
    /\ invites[i].state # "none" /\ Mint /\ Await(m, r)
    /\ Send(r, [Free EXCEPT !.pc = "lookup", !.h = h, !.invite = i, !.secret = Fresh])
    /\ UNCHANGED <<now, relay, do, disk, saved, faults, connects>>

LookUpInvite(r) ==
    /\ req[r].pc = "lookup"
    /\ IF Usable(req[r].invite) THEN Become(r, "enrol") ELSE Refuse(r)
    /\ UNCHANGED <<now, minted, relay, do, disk, proc, saved, faults, connects>>

\* One batch: the handle unless it is taken, the invite only if this
\* registration's own row exists.
EnrolledSpending(r) ==                                             \* mutant
    LET q == req[r] IN
    IF ~Usable(q.invite) THEN <<row, invites>>
    ELSE <<IF row[q.h] # NoRow THEN row
           ELSE [row EXCEPT ![q.h] = [NoRow EXCEPT !.token = q.secret, !.via = q.invite]],
           [invites EXCEPT ![q.invite] = [state |-> "used", at |-> now, by |-> q.h]]>>
Enrolled(r) ==
    LET q == req[r] IN
    IF row[q.h] # NoRow \/ ~Usable(q.invite) THEN <<row, invites>>
    ELSE <<[row EXCEPT ![q.h] = [NoRow EXCEPT !.token = q.secret, !.via = q.invite]],
           [invites EXCEPT ![q.invite] = [state |-> "used", at |-> now, by |-> q.h]]>>
Enrol(r) ==
    /\ req[r].pc = "enrol"
    /\ row' = Enrolled(r)[1] /\ invites' = Cleaned(Enrolled(r)[2])
    /\ IF row' # row THEN Become(r, "token") ELSE Refuse(r)
    /\ UNCHANGED <<now, minted, receipts, job, do, disk, proc, saved, faults, connects>>
-----------------------------------------------------------------------------
(* Rotation, and the issue of a recovery proof.                             *)

Live(m) == config[m] # NoConfig /\ row[config[m].h].token = config[m].token

\* rotateCredential; a token the relay does not know is refused on arrival.
StartRotate(m, r) ==
    /\ config[m] # NoConfig /\ Mint /\ Await(m, r)
    /\ Send(r, [Free EXCEPT !.pc = "rotate", !.h = config[m].h,
                            !.secret = Fresh, !.old = config[m].token])
    /\ UNCHANGED <<now, relay, do, disk, saved, faults, connects>>

Rotate(r) ==
    LET q == req[r] IN
    /\ q.pc = "rotate"
    /\ IF row[q.h].token = q.old
       THEN row' = [row EXCEPT ![q.h].token = q.secret] /\ Become(r, "token")
       ELSE Refuse(r) /\ UNCHANGED row
    /\ UNCHANGED <<now, minted, invites, receipts, job, do, disk, proc, saved,
                   faults, connects>>

\* runRecoveryIssue: the status is read and the proof is saved, before the
\* request.  It takes no lock, and its answer changes nothing.
StartIssue(m, r) ==
    LET c == config[m] IN
    /\ Live(m) /\ Mint
    /\ Send(r, [Free EXCEPT !.pc = "issue", !.h = c.h, !.secret = Fresh,
                            !.old = c.token, !.gen = row[c.h].gen])
    /\ saved' = saved \cup {[h |-> c.h, proof |-> Fresh, gen |-> row[c.h].gen + 1]}
    /\ UNCHANGED <<now, relay, do, disk, proc, faults, connects>>

Issue(r) ==
    LET q == req[r] IN
    /\ q.pc = "issue"
    /\ IF row[q.h].token = q.old /\ row[q.h].gen = q.gen
       THEN row' = [row EXCEPT ![q.h].proof = q.secret, ![q.h].gen = q.gen + 1]
       ELSE UNCHANGED row
    /\ Become(r, "answered")
    /\ UNCHANGED <<now, minted, invites, receipts, job, do, disk, proc, saved,
                   faults, connects>>
-----------------------------------------------------------------------------
(* Recovery: the command.                                                   *)

Redemption(p, proof) ==
    [pc |-> "find", h |-> p.h, invite |-> None, secret |-> p.op, old |-> proof, gen |-> p.gen]

\* The successor is saved by the user and the candidate on disk, before the
\* relay is asked.
WritesPendingLater(m, p) == UNCHANGED pending                      \* mutant
WritesPending(m, p) == pending' = [pending EXCEPT ![m] = p]
StartRedeem(m, r, s) ==
    LET p == [h |-> s.h, gen |-> s.gen, op |-> Fresh] IN
    /\ pending[m] = NoPending /\ config[m].h \in {None, s.h}
    /\ s.gen > 0 /\ Mint /\ Await(m, r)
    /\ saved' = saved \cup {[h |-> s.h, proof |-> Fresh, gen |-> s.gen + 1]}
    /\ WritesPending(m, p)
    /\ Send(r, Redemption(p, s.proof))
    /\ UNCHANGED <<now, relay, do, config, faults, connects>>

\* --resume: the user supplies a predecessor's proof, right or wrong.
Resume(m, r, s) ==
    /\ pending[m] # NoPending /\ config[m].h \in {None, pending[m].h}
    /\ s.h = pending[m].h /\ s.proof # pending[m].op
    /\ Await(m, r) /\ Send(r, Redemption(pending[m], s.proof))
    /\ UNCHANGED <<now, minted, relay, do, disk, saved, faults, connects>>

\* What an answer makes a command do; the configuration is durable before the
\* pending file goes.
Receive(m) ==
    LET r == proc[m].r
        q == req[r] IN
    /\ proc[m].pc = "wait" /\ q.pc \in {"refused", "token", "receipt"}
    /\ req' = [req EXCEPT ![r] = Free]
    /\ IF q.pc = "refused" THEN UNCHANGED config
       ELSE config' = [config EXCEPT ![m] = [h |-> q.h, token |-> q.secret]]
    /\ proc' = [proc EXCEPT ![m] =
                  IF q.pc = "receipt" THEN [pc |-> "forget", r |-> None] ELSE Idle]
    /\ UNCHANGED <<now, minted, relay, do, pending, saved, faults, connects>>

ForgetPending(m) ==
    /\ proc[m].pc = "forget"
    /\ pending' = [pending EXCEPT ![m] = NoPending]
    /\ proc' = [proc EXCEPT ![m] = Idle]
    /\ UNCHANGED <<now, minted, relay, do, config, saved, req, faults, connects>>
-----------------------------------------------------------------------------
(* Recovery: POST /v1/recovery/redeem.                                      *)

\* findReceipt, exactReceipt
Receipt(q) == {c \in receipts : c.h = q.h /\ c.gen = q.gen /\ c.op = q.secret /\ c.until > now}
Exact(q) == \E c \in Receipt(q) : c.proof = q.old
Matches(q) == row[q.h].proof = q.old /\ row[q.h].gen = q.gen

FindReceipt(r) ==
    LET q == req[r] IN
    /\ q.pc = "find"
    /\ CASE Receipt(q) = {} -> Become(r, "read")
         [] Exact(q)        -> Become(r, "evict")
         [] OTHER           -> Refuse(r)
    /\ UNCHANGED <<now, minted, relay, do, disk, proc, saved, faults, connects>>

ReadRow(r) ==
    /\ req[r].pc = "read"
    /\ IF Matches(req[r]) THEN Become(r, "commit") ELSE Refuse(r)
    /\ UNCHANGED <<now, minted, relay, do, disk, proc, saved, faults, connects>>

\* The batch: receipt, handle, eviction job, expired receipts.
BatchOnRead(q) == TRUE                                              \* mutant
BatchApplies(q) == Matches(q)
Batch(q) ==
    /\ IF BatchApplies(q)
       THEN /\ receipts' = {c \in receipts : c.until > now}
              \cup {[h |-> q.h, gen |-> q.gen, op |-> q.secret, proof |-> q.old,
                     until |-> now + ReceiptTtl]}
            /\ row' = [row EXCEPT ![q.h].token = q.secret, ![q.h].proof = q.secret,
                                  ![q.h].gen = q.gen + 1]
            /\ job' = [job EXCEPT ![q.h] = q.gen + 1]
       ELSE /\ receipts' = {c \in receipts : c.until > now}
            /\ UNCHANGED <<row, job>>
    /\ UNCHANGED invites

Commit(r) ==
    LET q == req[r] IN
    /\ q.pc = "commit" /\ Batch(q)
    /\ Become(r, IF BatchApplies(q) THEN "evict" ELSE "refind")
    /\ UNCHANGED <<now, minted, do, disk, proc, saved, faults, connects>>

\* D1 reports an error, of a batch it rolled back or committed.
CommitFails(r) ==
    /\ req[r].pc = "commit" /\ Fault
    /\ Batch(req[r]) \/ UNCHANGED relay
    /\ Become(r, "refind")
    /\ UNCHANGED <<now, minted, do, disk, proc, saved, connects>>

Refind(r) ==
    /\ req[r].pc = "refind"
    /\ IF Exact(req[r]) THEN Become(r, "evict") ELSE Refuse(r)
    /\ UNCHANGED <<now, minted, relay, do, disk, proc, saved, faults, connects>>
-----------------------------------------------------------------------------
(* evict, drainRecoveryEvictions, and the object's floor.                   *)

\* The scheduled drain reads a job; its backoff only delays it.
Due(h) == job[h] > 0
Drain(r, h) ==
    /\ Due(h)
    /\ Send(r, [Free EXCEPT !.pc = "evict", !.h = h, !.gen = job[h] - 1])
    /\ UNCHANGED <<now, minted, relay, do, disk, proc, saved, faults, connects>>

\* POST /credentials/evict
Evict(r) ==
    LET q == req[r] IN
    /\ q.pc = "evict"
    /\ floor' = [floor EXCEPT ![q.h] = IF @ < q.gen + 1 THEN q.gen + 1 ELSE @]
    /\ socket' = [socket EXCEPT ![q.h] = IF @ < q.gen + 1 THEN -1 ELSE @]
    /\ Become(r, "clear")
    /\ UNCHANGED <<now, minted, relay, disk, proc, saved, faults, connects>>

Evicted(r) == Become(r, IF req[r].secret = 0 THEN "answered" ELSE "receipt")
ClearsAny(q) == job[q.h] # 0                                        \* mutant
Clears(q) == job[q.h] = q.gen + 1
ClearJob(r) ==
    LET q == req[r] IN
    /\ q.pc = "clear"
    /\ job' = IF Clears(q) THEN [job EXCEPT ![q.h] = 0] ELSE job
    /\ Evicted(r)
    /\ UNCHANGED <<now, minted, invites, row, receipts, do, disk, proc, saved,
                   faults, connects>>

\* The object or D1 fails: the receipt says so, and the job stays.
EvictFails(r) ==
    /\ req[r].pc \in {"evict", "clear"} /\ Fault
    /\ Evicted(r)
    /\ UNCHANGED <<now, minted, relay, do, disk, proc, saved, connects>>

\* A listener connects: the Worker authenticates it, and then its object
\* compares the generation it read with the floor.
Connect(m, r) ==
    /\ Live(m) /\ connects < MaxConnects /\ connects' = connects + 1
    /\ Send(r, [Free EXCEPT !.pc = "attach", !.h = config[m].h,
                            !.gen = row[config[m].h].gen])
    /\ UNCHANGED <<now, minted, relay, do, disk, proc, saved, faults>>

AdmitsAuthenticated(q) == q.gen >= 0                                \* mutant
Admits(q) == q.gen >= floor[q.h]
Attach(r) ==
    LET q == req[r] IN
    /\ q.pc = "attach"
    /\ socket' = IF Admits(q) THEN [socket EXCEPT ![q.h] = q.gen] ELSE socket
    /\ Become(r, "answered")
    /\ UNCHANGED <<now, minted, relay, floor, disk, proc, saved, faults, connects>>
-----------------------------------------------------------------------------
\* A handler's answer that no command waits for.
Discard(r) ==
    /\ req[r].pc \in {"answered", "refused", "token", "receipt"}
    /\ \A m \in Machines : proc[m].r # r
    /\ req' = [req EXCEPT ![r] = Free]
    /\ UNCHANGED <<now, minted, relay, do, disk, proc, saved, faults, connects>>

\* A request, its handler or its answer is lost; its command fails.
Lose(r) ==
    /\ req[r].pc # "free" /\ Fault
    /\ req' = [req EXCEPT ![r] = Free]
    /\ proc' = [m \in Machines |-> IF proc[m].r = r THEN Idle ELSE proc[m]]
    /\ UNCHANGED <<now, minted, relay, do, disk, saved, connects>>

Crash(m) ==
    /\ proc[m] # Idle /\ Fault
    /\ proc' = [proc EXCEPT ![m] = Idle]
    /\ UNCHANGED <<now, minted, relay, do, disk, saved, req, connects>>

Tick ==
    /\ now < MaxTime /\ now' = now + 1
    /\ UNCHANGED <<minted, relay, do, disk, proc, saved, req, faults, connects>>

Init ==
    /\ now = 0 /\ minted = 0
    /\ invites = [i \in Invites |-> [state |-> "none", at |-> 0, by |-> None]]
    /\ row = [h \in Handles |-> NoRow]
    /\ receipts = {} /\ job = [h \in Handles |-> 0]
    /\ floor = [h \in Handles |-> 0] /\ socket = [h \in Handles |-> -1]
    /\ config = [m \in Machines |-> NoConfig]
    /\ pending = [m \in Machines |-> NoPending]
    /\ proc = [m \in Machines |-> Idle] /\ saved = {}
    /\ req = [r \in Requests |-> Free]
    /\ faults = 0 /\ connects = 0

Handler(r) ==
    \/ LookUpInvite(r) \/ Enrol(r) \/ Rotate(r) \/ Issue(r)
    \/ FindReceipt(r) \/ ReadRow(r) \/ Commit(r) \/ CommitFails(r) \/ Refind(r)
    \/ Evict(r) \/ ClearJob(r) \/ EvictFails(r) \/ Attach(r)
    \/ Discard(r) \/ Lose(r) \/ \E h \in Handles : Drain(r, h)

Command(m) ==
    \/ Receive(m) \/ ForgetPending(m) \/ Crash(m)
    \/ \E r \in Requests :
         \/ StartRotate(m, r) \/ StartIssue(m, r) \/ Connect(m, r)
         \/ \E i \in Invites, h \in Handles : Setup(m, r, i, h)
         \/ \E s \in saved : StartRedeem(m, r, s) \/ Resume(m, r, s)

Next ==
    \/ Tick
    \/ \E i \in Invites : CreateInvite(i) \/ RevokeInvite(i)
    \/ \E r \in Requests : Handler(r)
    \/ \E m \in Machines : Command(m)

Spec == Init /\ [][Next]_vars
=============================================================================
