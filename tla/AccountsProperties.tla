------------------------- MODULE AccountsProperties -------------------------
(***************************************************************************)
(* What credentials must keep true, whoever races and whatever is lost.    *)
(***************************************************************************)
EXTENDS Accounts

\* Every variable stays within the values its code can give it, a handler holds
\* what its stage needs, and a waiting command has its request.
Stages == {"free", "lookup", "enrol", "rotate", "issue", "find", "read",
           "commit", "refind", "evict", "clear", "attach", "answered",
           "refused", "token", "receipt"}
Request ==
    {q \in [pc : Stages, h : Handles \cup {None}, invite : Invites \cup {None},
            secret : 0..MaxSecret, old : 0..MaxSecret, gen : Nat] :
       /\ q.pc # "free" => q.h \in Handles
       /\ q.pc \in {"lookup", "enrol"} => q.invite \in Invites
       /\ q.pc \in {"find", "read", "commit", "refind"}
            => q.secret \in Secrets /\ q.old \in Secrets}
Process == [pc : {"idle", "forget"}, r : {None}] \cup [pc : {"wait"}, r : Requests]
Invite == [state : {"none", "open", "used", "revoked", "gone"}, at : Nat,
           by : Handles \cup {None}]
Row == [token : 0..MaxSecret, proof : 0..MaxSecret, gen : Nat, via : Invites \cup {None}]
RelayTyped ==
    /\ invites \in [Invites -> Invite] /\ row \in [Handles -> Row]
    /\ receipts \in SUBSET [h : Handles, gen : Nat, op : Secrets, proof : Secrets, until : Nat]
    /\ job \in [Handles -> Nat]
ObjectsTyped == floor \in [Handles -> Nat] /\ socket \in [Handles -> Nat \cup {-1}]
DiskTyped ==
    /\ config \in [Machines -> [h : Handles, token : 0..MaxSecret] \cup {NoConfig}]
    /\ pending \in [Machines -> [h : Handles, gen : Nat, op : Secrets] \cup {NoPending}]
    /\ saved \in SUBSET [h : Handles, proof : Secrets, gen : Nat]
CountersTyped ==
    /\ now \in 0..MaxTime /\ minted \in 0..MaxSecret
    /\ faults \in 0..MaxFaults /\ connects \in 0..MaxConnects
TypeOK ==
    /\ CountersTyped /\ RelayTyped /\ ObjectsTyped /\ DiskTyped
    /\ req \in [Requests -> Request] /\ proc \in [Machines -> Process]

\* An invite is spent by the one handle it enrolled, and by nothing else:
\* index.ts:93 "a partial failure consumes neither the invite nor the address".
InviteEnrolsOne ==
    \A i \in Invites, h \in Handles :
      /\ row[h].via = i => invites[i].by = h
      /\ invites[i].by = h => row[h].via = i

\* A proof opens one recovery: no generation of a handle is consumed by two
\* operations, of one machine or of two.
ConsumedOnce ==
    \A c, d \in receipts : c.h = d.h /\ c.gen = d.gen => c.op = d.op

\* While the token that a recovery put in force is in force, it is on a machine's
\* disk, whatever was lost and wherever the command died.
Recovered(t) == \E s \in saved : s.proof = t
CandidateKept ==
    \A h \in Handles :
      Recovered(row[h].token) =>
        \E m \in Machines : row[h].token \in {config[m].token, pending[m].op}

\* A committed recovery reaches the handle's object, or is still queued for it:
\* no other recovery's eviction, and no failure of one, loses it.
EvictionKept ==
    \A c \in receipts : c.gen < floor[c.h] \/ c.gen < job[c.h]

\* No listener of a generation that was evicted is connected, also when it
\* authenticated before the recovery and reached the object after it.
NoStaleListener == \A h \in Handles : socket[h] = -1 \/ socket[h] >= floor[h]
-----------------------------------------------------------------------------
(* Why these hold: the inductive invariant of the proofs.                  *)

\* A receipt is of a generation its handle has left, so the next commit, which
\* compares the generation, neither repeats one nor queues an older eviction.
ReceiptsPast == \A c \in receipts : c.gen < row[c.h].gen

\* An eviction job is cleared by a handler whose eviction the object has seen.
ClearsAfterFloor ==
    \A r \in Requests : req[r].pc = "clear" => req[r].gen < floor[req[r].h]

\* An invite that can still be used has enrolled nobody.
OpenIsUnspent ==
    \A i \in Invites : invites[i].state \in {"none", "open"} => invites[i].by = None

CredentialInv == /\ ReceiptsPast /\ ConsumedOnce /\ ClearsAfterFloor
                 /\ EvictionKept /\ NoStaleListener
InviteInv == OpenIsUnspent /\ InviteEnrolsOne
=============================================================================
