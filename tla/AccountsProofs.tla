--------------------------- MODULE AccountsProofs ---------------------------
(***************************************************************************)
(* What is proved of credentials, for any handles, machines, invites,      *)
(* handlers, limits and faults.                                            *)
(***************************************************************************)
EXTENDS AccountsProperties, TLAPS

\* The bounds are numbers.
LEMMA BoundsTyped ==
    /\ MaxSecret \in Nat /\ MaxTime \in Nat /\ MaxFaults \in Nat /\ MaxConnects \in Nat
    /\ InviteTtl \in Nat /\ ReceiptTtl \in Nat /\ InviteRetention \in Nat
    /\ 0 \in 0..MaxSecret
<1>1. /\ MaxSecret \in Nat /\ MaxTime \in Nat /\ MaxFaults \in Nat /\ MaxConnects \in Nat
      /\ InviteTtl \in Nat /\ ReceiptTtl \in Nat /\ InviteRetention \in Nat
  BY AccountsAssumption
<1> QED  BY <1>1

\* A handler that goes on keeps its form, if its next stage's needs are met.
LEMMA BecomeTyped ==
    ASSUME req \in [Requests -> Request], NEW r \in Requests, NEW pc \in Stages \ {"free"},
           Become(r, pc), req[r].pc # "free",
           pc \in {"lookup", "enrol"} => req[r].pc \in {"lookup", "enrol"},
           pc \in {"find", "read", "commit", "refind"}
             => req[r].pc \in {"find", "read", "commit", "refind"}
    PROVE  req' \in [Requests -> Request]
<1>1. req[r] \in Request  OBVIOUS
<1>2. [req[r] EXCEPT !.pc = pc] \in Request  BY <1>1 DEF Request
<1>3. req' = [req EXCEPT ![r] = [req[r] EXCEPT !.pc = pc]]  BY DEF Become
<1> QED  BY <1>2, <1>3

\* A new handler starts well formed.
LEMMA SendTyped ==
    ASSUME req \in [Requests -> Request], NEW r \in Requests, NEW q \in Request, Send(r, q)
    PROVE  req' \in [Requests -> Request]
BY DEF Send

\* So does a freed one.
LEMMA FreeTyped == Free \in Request
BY AccountsAssumption DEF Free, Request, Stages

\* A command that sends a request waits for it.
LEMMA AwaitTyped ==
    ASSUME proc \in [Machines -> Process], NEW m \in Machines, NEW r \in Requests, Await(m, r)
    PROVE  proc' \in [Machines -> Process]
<1>1. [pc |-> "wait", r |-> r] \in Process  BY DEF Process
<1> QED  BY <1>1 DEF Await

\* What a handler past its first stage knows of itself.
LEMMA RequestFacts ==
    ASSUME req \in [Requests -> Request], NEW r \in Requests, req[r].pc # "free"
    PROVE  /\ req[r].pc \in Stages /\ req[r].h \in Handles /\ req[r].gen \in Nat
           /\ req[r].secret \in 0..MaxSecret /\ req[r].old \in 0..MaxSecret
           /\ req[r].invite \in Invites \cup {None}
           /\ req[r].pc \in {"lookup", "enrol"} => req[r].invite \in Invites
           /\ req[r].pc \in {"find", "read", "commit", "refind"}
                => req[r].secret \in Secrets /\ req[r].old \in Secrets
<1>1. req[r] \in Request  OBVIOUS
<1> QED  BY <1>1 DEF Request

\* A minted secret is one.
LEMMA FreshTyped ==
    ASSUME minted \in 0..MaxSecret, Mint
    PROVE  Fresh \in Secrets /\ Fresh \in 0..MaxSecret /\ minted' \in 0..MaxSecret
BY AccountsAssumption DEF Mint, Fresh, Secrets

\* The clean-up of old invites keeps their type.
LEMMA CleanedTyped ==
    ASSUME NEW f \in [Invites -> Invite]
    PROVE  Cleaned(f) \in [Invites -> Invite]
<1>1. ASSUME NEW i \in Invites PROVE [f[i] EXCEPT !.state = "gone"] \in Invite
  BY DEF Invite
<1> QED  BY <1>1 DEF Cleaned

\* The type of each part of the state is kept by every step: first the
\* handlers', then the commands', the relay's, and the rest.
LEMMA RequestsStep == TypeOK /\ Next => req' \in [Requests -> Request]
<1> SUFFICES ASSUME TypeOK, Next PROVE req' \in [Requests -> Request]  OBVIOUS
<1> USE DEF TypeOK
<1>1. ASSUME NEW r \in Requests, LookUpInvite(r) \/ Enrol(r) \/ Rotate(r) \/ Issue(r)
             \/ FindReceipt(r) \/ ReadRow(r) \/ Commit(r) \/ CommitFails(r) \/ Refind(r)
             \/ Evict(r) \/ ClearJob(r) \/ EvictFails(r) \/ Attach(r)
      PROVE  req' \in [Requests -> Request]
  <2>1. CASE LookUpInvite(r)  BY <2>1, BecomeTyped DEF LookUpInvite, Refuse, Stages
  <2>2. CASE Enrol(r)  BY <2>2, BecomeTyped DEF Enrol, Refuse, Stages
  <2>3. CASE Rotate(r)  BY <2>3, BecomeTyped DEF Rotate, Refuse, Stages
  <2>4. CASE Issue(r)  BY <2>4, BecomeTyped DEF Issue, Stages
  <2>5. CASE FindReceipt(r)  BY <2>5, BecomeTyped DEF FindReceipt, Refuse, Stages
  <2>6. CASE ReadRow(r)  BY <2>6, BecomeTyped DEF ReadRow, Refuse, Stages
  <2>7. CASE Commit(r)  BY <2>7, BecomeTyped DEF Commit, Stages
  <2>8. CASE CommitFails(r)  BY <2>8, BecomeTyped DEF CommitFails, Stages
  <2>9. CASE Refind(r)  BY <2>9, BecomeTyped DEF Refind, Refuse, Stages
  <2>10. CASE Evict(r)  BY <2>10, BecomeTyped DEF Evict, Stages
  <2>11. CASE ClearJob(r)  BY <2>11, BecomeTyped DEF ClearJob, Evicted, Stages
  <2>12. CASE EvictFails(r)  BY <2>12, BecomeTyped DEF EvictFails, Evicted, Stages
  <2>13. CASE Attach(r)  BY <2>13, BecomeTyped DEF Attach, Stages
  <2> QED  BY <1>1, <2>1, <2>2, <2>3, <2>4, <2>5, <2>6, <2>7, <2>8, <2>9, <2>10, <2>11, <2>12, <2>13
<1>2. ASSUME NEW r \in Requests, NEW h \in Handles, Drain(r, h)
      PROVE  req' \in [Requests -> Request]
  <2>1. [Free EXCEPT !.pc = "evict", !.h = h, !.gen = job[h] - 1] \in Request
    <3>1. job[h] - 1 \in Nat  BY <1>2 DEF Drain, Due, RelayTyped
    <3> QED  BY <3>1, BoundsTyped DEF Free, Request, Stages
  <2> QED  BY <1>2, <2>1, SendTyped DEF Drain
<1>3. ASSUME NEW m \in Machines, NEW r \in Requests,
             StartRotate(m, r) \/ StartIssue(m, r) \/ Connect(m, r)
      PROVE  req' \in [Requests -> Request]
  <2>1. config[m] # NoConfig => config[m].h \in Handles /\ config[m].token \in 0..MaxSecret
    BY DEF DiskTyped
  <2>2. \A h \in Handles : row[h].gen \in Nat  BY DEF RelayTyped, Row
  <2>3. CASE StartRotate(m, r)
    <3>1. [Free EXCEPT !.pc = "rotate", !.h = config[m].h, !.secret = Fresh,
                       !.old = config[m].token] \in Request
      BY <2>1, <2>3, FreshTyped DEF StartRotate, CountersTyped, Free, Request, Stages
    <3> QED  BY <2>3, <3>1, SendTyped DEF StartRotate
  <2>4. CASE StartIssue(m, r)
    <3>0. Fresh \in 0..MaxSecret  BY <2>4, FreshTyped DEF StartIssue, CountersTyped
    <3>1. [Free EXCEPT !.pc = "issue", !.h = config[m].h, !.secret = Fresh,
                       !.old = config[m].token, !.gen = row[config[m].h].gen] \in Request
      BY <2>1, <2>2, <2>4, <3>0, BoundsTyped DEF StartIssue, Live, Free, Request, Stages
    <3> QED  BY <2>4, <3>1, SendTyped DEF StartIssue
  <2>5. CASE Connect(m, r)
    <3>1. [Free EXCEPT !.pc = "attach", !.h = config[m].h,
                       !.gen = row[config[m].h].gen] \in Request
      BY <2>1, <2>2, <2>5, BoundsTyped DEF Connect, Live, Free, Request, Stages
    <3> QED  BY <2>5, <3>1, SendTyped DEF Connect
  <2> QED  BY <1>3, <2>3, <2>4, <2>5
<1>4. ASSUME NEW m \in Machines, NEW r \in Requests, NEW i \in Invites, NEW h \in Handles,
             Setup(m, r, i, h)
      PROVE  req' \in [Requests -> Request]
  <2>0. Fresh \in 0..MaxSecret  BY <1>4, FreshTyped DEF Setup, CountersTyped
  <2>1. [Free EXCEPT !.pc = "lookup", !.h = h, !.invite = i, !.secret = Fresh] \in Request
    BY <2>0, BoundsTyped DEF Free, Request, Stages
  <2> QED  BY <1>4, <2>1, SendTyped DEF Setup
<1>5. ASSUME NEW m \in Machines, NEW r \in Requests, NEW s \in saved,
             StartRedeem(m, r, s) \/ Resume(m, r, s)
      PROVE  req' \in [Requests -> Request]
  <2>1. s \in [h : Handles, proof : Secrets, gen : Nat]  BY DEF DiskTyped
  <2>2. ASSUME NEW p \in [h : Handles, gen : Nat, op : Secrets]
        PROVE  Redemption(p, s.proof) \in Request
    <3>1. /\ p.h \in Handles /\ p.gen \in Nat /\ p.op \in Secrets /\ s.proof \in Secrets
          /\ p.op \in 0..MaxSecret /\ s.proof \in 0..MaxSecret
      BY <2>1, BoundsTyped DEF Secrets
    <3> QED  BY <3>1 DEF Redemption, Request, Stages
  <2>3. CASE StartRedeem(m, r, s)
    <3>1. [h |-> s.h, gen |-> s.gen, op |-> Fresh] \in [h : Handles, gen : Nat, op : Secrets]
      BY <2>1, <2>3, FreshTyped DEF StartRedeem, CountersTyped
    <3>2. Redemption([h |-> s.h, gen |-> s.gen, op |-> Fresh], s.proof) \in Request  BY <2>2, <3>1
    <3> QED  BY <2>3, <3>2, SendTyped DEF StartRedeem
  <2>4. CASE Resume(m, r, s)
    <3>1. pending[m] \in [h : Handles, gen : Nat, op : Secrets]
      BY <2>4 DEF Resume, DiskTyped
    <3>2. Redemption(pending[m], s.proof) \in Request  BY <2>2, <3>1
    <3> QED  BY <2>4, <3>2, SendTyped DEF Resume
  <2> QED  BY <1>5, <2>3, <2>4
<1>6. ASSUME NEW m \in Machines, Receive(m) PROVE req' \in [Requests -> Request]
  BY <1>6, FreeTyped DEF Receive
<1>7. ASSUME NEW r \in Requests, Discard(r) \/ Lose(r) PROVE req' \in [Requests -> Request]
  BY <1>7, FreeTyped DEF Discard, Lose
<1>8. ASSUME UNCHANGED req PROVE req' \in [Requests -> Request]
  BY <1>8
<1>9. CASE Tick \/ \E i \in Invites : CreateInvite(i) \/ RevokeInvite(i)
  BY <1>8, <1>9 DEF Tick, CreateInvite, RevokeInvite
<1>10. ASSUME NEW m \in Machines, ForgetPending(m) \/ Crash(m)
       PROVE  req' \in [Requests -> Request]
  BY <1>8, <1>10 DEF ForgetPending, Crash
<1> QED  BY <1>1, <1>2, <1>3, <1>4, <1>5, <1>6, <1>7, <1>9, <1>10 DEF Next, Handler, Command

\* The commands.
LEMMA ProcessesStep == TypeOK /\ Next => proc' \in [Machines -> Process]
<1> SUFFICES ASSUME TypeOK, Next PROVE proc' \in [Machines -> Process]  OBVIOUS
<1> USE DEF TypeOK
<1>1. Idle \in Process /\ [pc |-> "forget", r |-> None] \in Process  BY DEF Idle, Process
<1>2. ASSUME NEW m \in Machines, NEW r \in Requests, Await(m, r)
      PROVE  proc' \in [Machines -> Process]
  BY <1>2, AwaitTyped
<1>3. ASSUME NEW m \in Machines, Receive(m) \/ ForgetPending(m) \/ Crash(m)
      PROVE  proc' \in [Machines -> Process]
  BY <1>1, <1>3 DEF Receive, ForgetPending, Crash
<1>4. ASSUME NEW r \in Requests, Lose(r) PROVE proc' \in [Machines -> Process]
  BY <1>1, <1>4 DEF Lose
<1>5. ASSUME NEW m \in Machines, NEW r \in Requests,
             \/ StartRotate(m, r) \/ StartIssue(m, r) \/ Connect(m, r)
             \/ \E i \in Invites, h \in Handles : Setup(m, r, i, h)
             \/ \E s \in saved : StartRedeem(m, r, s) \/ Resume(m, r, s)
      PROVE  proc' \in [Machines -> Process]
  BY <1>2, <1>5 DEF StartRotate, StartIssue, Connect, Setup, StartRedeem, Resume
<1>6. ASSUME NEW r \in Requests,
             \/ LookUpInvite(r) \/ Enrol(r) \/ Rotate(r) \/ Issue(r) \/ FindReceipt(r)
             \/ ReadRow(r) \/ Commit(r) \/ CommitFails(r) \/ Refind(r) \/ Evict(r)
             \/ ClearJob(r) \/ EvictFails(r) \/ Attach(r) \/ Discard(r)
             \/ \E h \in Handles : Drain(r, h)
      PROVE  UNCHANGED proc
  BY <1>6 DEF LookUpInvite, Enrol, Rotate, Issue, FindReceipt, ReadRow, Commit, CommitFails,
              Refind, Evict, ClearJob, EvictFails, Attach, Discard, Drain
<1>7. ASSUME Tick \/ \E i \in Invites : CreateInvite(i) \/ RevokeInvite(i)
      PROVE  UNCHANGED proc
  BY <1>7 DEF Tick, CreateInvite, RevokeInvite
<1> QED  BY <1>3, <1>4, <1>5, <1>6, <1>7 DEF Next, Handler, Command

\* The relay's tables: a commit and the other writers put typed rows in place.
LEMMA RowsStep ==
    TypeOK /\ Next => row' \in [Handles -> Row] /\ invites' \in [Invites -> Invite]
<1> SUFFICES ASSUME TypeOK, Next
             PROVE  row' \in [Handles -> Row] /\ invites' \in [Invites -> Invite]
  OBVIOUS
<1> USE DEF TypeOK, RelayTyped
<1>1. ASSUME NEW r \in Requests, Enrol(r)
      PROVE  row' \in [Handles -> Row] /\ invites' \in [Invites -> Invite]
  <2> DEFINE q == req[r]
  <2>1. q.h \in Handles /\ q.invite \in Invites /\ q.secret \in 0..MaxSecret
    BY <1>1, RequestFacts DEF Enrol
  <2>2. [NoRow EXCEPT !.token = q.secret, !.via = q.invite] \in Row
    BY <2>1, BoundsTyped DEF NoRow, Row
  <2>3. [state |-> "used", at |-> now, by |-> q.h] \in Invite
    BY <2>1 DEF Invite, CountersTyped
  <2>4. Enrolled(r)[1] \in [Handles -> Row]  BY <2>1, <2>2 DEF Enrolled
  <2>5. Enrolled(r)[2] \in [Invites -> Invite]  BY <2>1, <2>3 DEF Enrolled
  <2> QED  BY <1>1, <2>4, <2>5, CleanedTyped DEF Enrol
<1>2. ASSUME NEW r \in Requests, Rotate(r) \/ Issue(r)
      PROVE  row' \in [Handles -> Row] /\ UNCHANGED invites
  <2> DEFINE q == req[r]
  <2>1. q.h \in Handles /\ q.gen + 1 \in Nat /\ q.secret \in 0..MaxSecret
    BY <1>2, RequestFacts DEF Rotate, Issue
  <2>2. [row[q.h] EXCEPT !.token = q.secret] \in Row  BY <2>1 DEF Row
  <2>3. [row[q.h] EXCEPT !.proof = q.secret, !.gen = q.gen + 1] \in Row  BY <2>1 DEF Row
  <2>4. CASE Rotate(r)  BY <2>1, <2>2, <2>4 DEF Rotate
  <2>5. CASE Issue(r)  BY <2>1, <2>3, <2>5 DEF Issue
  <2> QED  BY <1>2, <2>4, <2>5
<1>3. ASSUME NEW r \in Requests, Commit(r) \/ CommitFails(r)
      PROVE  row' \in [Handles -> Row] /\ UNCHANGED invites
  <2> DEFINE q == req[r]
  <2>1. q.h \in Handles /\ q.gen + 1 \in Nat /\ q.secret \in 0..MaxSecret
    BY <1>3, RequestFacts DEF Commit, CommitFails
  <2>2. [row[q.h] EXCEPT !.token = q.secret, !.proof = q.secret, !.gen = q.gen + 1] \in Row
    BY <2>1 DEF Row
  <2>3. Batch(q) => row' \in [Handles -> Row] /\ UNCHANGED invites
    BY <2>1, <2>2 DEF Batch
  <2> QED  BY <1>3, <2>3 DEF Commit, CommitFails, relay
<1>4. ASSUME NEW i \in Invites, CreateInvite(i) \/ RevokeInvite(i)
      PROVE  UNCHANGED row /\ invites' \in [Invites -> Invite]
  <2>1. now + InviteTtl \in Nat /\ now \in Nat  BY BoundsTyped DEF CountersTyped
  <2>2. CASE CreateInvite(i)
    <3>1. Cleaned(invites) \in [Invites -> Invite]  BY CleanedTyped
    <3>2. [Cleaned(invites)[i] EXCEPT !.state = "open", !.at = now + InviteTtl] \in Invite
      BY <2>1, <3>1 DEF Invite
    <3> QED  BY <2>2, <3>1, <3>2 DEF CreateInvite
  <2>3. CASE RevokeInvite(i)
    <3>1. [invites[i] EXCEPT !.state = "revoked", !.at = now] \in Invite  BY <2>1 DEF Invite
    <3>2. [invites EXCEPT ![i].state = "revoked", ![i].at = now] \in [Invites -> Invite]
      BY <3>1
    <3> QED  BY <2>3, <3>2, CleanedTyped DEF RevokeInvite
  <2> QED  BY <1>4, <2>2, <2>3
<1>5. ASSUME NEW r \in Requests,
             \/ LookUpInvite(r) \/ FindReceipt(r) \/ ReadRow(r) \/ Refind(r) \/ Evict(r)
             \/ ClearJob(r) \/ EvictFails(r) \/ Attach(r) \/ Discard(r) \/ Lose(r)
             \/ \E h \in Handles : Drain(r, h)
      PROVE  UNCHANGED <<row, invites>>
  BY <1>5 DEF LookUpInvite, FindReceipt, ReadRow, Refind, Evict, ClearJob, EvictFails, Attach,
              Discard, Lose, Drain, relay
<1>6. ASSUME NEW m \in Machines, Command(m) PROVE UNCHANGED <<row, invites>>
  BY <1>6 DEF Command, Receive, ForgetPending, Crash, StartRotate, StartIssue, Connect, Setup,
              StartRedeem, Resume, relay
<1>7. CASE Tick  BY <1>7 DEF Tick, relay
<1> QED  BY <1>1, <1>2, <1>3, <1>4, <1>5, <1>6, <1>7 DEF Next, Handler

\* Receipts, jobs and the handles' objects.
LEMMA ReceiptsStep ==
    TypeOK /\ Next =>
      /\ receipts' \in SUBSET [h : Handles, gen : Nat, op : Secrets, proof : Secrets, until : Nat]
      /\ job' \in [Handles -> Nat] /\ ObjectsTyped'
<1> DEFINE Kept ==
      /\ receipts' \in SUBSET [h : Handles, gen : Nat, op : Secrets, proof : Secrets, until : Nat]
      /\ job' \in [Handles -> Nat] /\ ObjectsTyped'
<1> SUFFICES ASSUME TypeOK, Next PROVE Kept  OBVIOUS
<1> USE DEF TypeOK, RelayTyped, ObjectsTyped
<1>1. ASSUME UNCHANGED <<receipts, job, do>> PROVE Kept  BY <1>1 DEF do
<1> HIDE DEF Kept
<1>2. ASSUME NEW r \in Requests, Commit(r) \/ CommitFails(r) PROVE Kept
  <2> DEFINE q == req[r]
             c == [h |-> q.h, gen |-> q.gen, op |-> q.secret, proof |-> q.old,
                   until |-> now + ReceiptTtl]
  <2>1. /\ q.h \in Handles /\ q.gen \in Nat /\ q.gen + 1 \in Nat
        /\ q.secret \in Secrets /\ q.old \in Secrets
    BY <1>2, RequestFacts DEF Commit, CommitFails
  <2>2. c \in [h : Handles, gen : Nat, op : Secrets, proof : Secrets, until : Nat]
    BY <2>1, BoundsTyped DEF CountersTyped
  <2>3. [job EXCEPT ![q.h] = q.gen + 1] \in [Handles -> Nat]  BY <2>1
  <2>4. Batch(q) /\ UNCHANGED do => Kept  BY <2>2, <2>3 DEF Batch, Kept, do
  <2> QED  BY <1>1, <1>2, <2>4 DEF Commit, CommitFails, relay
<1>3. ASSUME NEW r \in Requests, ClearJob(r) PROVE Kept
  BY <1>3 DEF ClearJob, Kept, do
<1>4. ASSUME NEW r \in Requests, Evict(r) \/ Attach(r) PROVE Kept
  <2>1. req[r].h \in Handles /\ req[r].gen \in Nat  BY <1>4, RequestFacts DEF Evict, Attach
  <2> QED  BY <1>4, <2>1 DEF Evict, Attach, Kept, relay
<1>5. ASSUME NEW r \in Requests,
             \/ LookUpInvite(r) \/ Enrol(r) \/ Rotate(r) \/ Issue(r) \/ FindReceipt(r)
             \/ ReadRow(r) \/ Refind(r) \/ EvictFails(r) \/ Discard(r) \/ Lose(r)
             \/ \E h \in Handles : Drain(r, h)
      PROVE  Kept
  BY <1>1, <1>5 DEF LookUpInvite, Enrol, Rotate, Issue, FindReceipt, ReadRow, Refind, EvictFails,
                    Discard, Lose, Drain, relay
<1>6. ASSUME NEW m \in Machines, Command(m) PROVE Kept
  BY <1>1, <1>6 DEF Command, Receive, ForgetPending, Crash, StartRotate, StartIssue, Connect,
                    Setup, StartRedeem, Resume, relay
<1>7. CASE Tick \/ \E i \in Invites : CreateInvite(i) \/ RevokeInvite(i)
  BY <1>1, <1>7 DEF Tick, CreateInvite, RevokeInvite, relay
<1> QED  BY <1>2, <1>3, <1>4, <1>5, <1>6, <1>7 DEF Next, Handler

\* The machines' files, and what their users wrote down.
LEMMA DiskStep == TypeOK /\ Next => DiskTyped'
<1> SUFFICES ASSUME TypeOK, Next PROVE DiskTyped'  OBVIOUS
<1> USE DEF TypeOK
<1>1. ASSUME UNCHANGED <<disk, saved>> PROVE DiskTyped'  BY <1>1 DEF DiskTyped, disk
<1>2. ASSUME NEW m \in Machines, Receive(m) PROVE DiskTyped'
  <2> DEFINE r == proc[m].r
  <2>1. r \in Requests
    <3>1. proc[m] \in Process  OBVIOUS
    <3> QED  BY <1>2, <3>1 DEF Receive, Process
  <2>2. req[r].pc # "refused" => [h |-> req[r].h, token |-> req[r].secret]
                                   \in [h : Handles, token : 0..MaxSecret]
    BY <1>2, <2>1, RequestFacts DEF Receive
  <2>3. CASE req[r].pc = "refused"  BY <1>1, <1>2, <2>3 DEF Receive, disk
  <2>4. CASE req[r].pc # "refused"
    <3>1. config' = [config EXCEPT ![m] = [h |-> req[r].h, token |-> req[r].secret]]
      BY <1>2, <2>4 DEF Receive
    <3>2. UNCHANGED <<pending, saved>>  BY <1>2 DEF Receive
    <3> QED  BY <2>2, <2>4, <3>1, <3>2 DEF DiskTyped
  <2> QED  BY <2>3, <2>4
<1>3. ASSUME NEW m \in Machines, ForgetPending(m) PROVE DiskTyped'
  BY <1>3 DEF ForgetPending, DiskTyped
<1>4. ASSUME NEW m \in Machines, NEW r \in Requests, StartIssue(m, r) PROVE DiskTyped'
  <2>1. Fresh \in Secrets  BY <1>4, FreshTyped DEF StartIssue, CountersTyped
  <2>2. config[m].h \in Handles  BY <1>4 DEF StartIssue, Live, DiskTyped
  <2>3. row[config[m].h].gen + 1 \in Nat  BY <2>2 DEF RelayTyped, Row
  <2>4. [h |-> config[m].h, proof |-> Fresh, gen |-> row[config[m].h].gen + 1]
          \in [h : Handles, proof : Secrets, gen : Nat]
    BY <2>1, <2>2, <2>3
  <2> QED  BY <1>4, <2>4 DEF StartIssue, DiskTyped, disk
<1>5. ASSUME NEW m \in Machines, NEW r \in Requests, NEW s \in saved, StartRedeem(m, r, s)
      PROVE  DiskTyped'
  <2>1. s.h \in Handles /\ s.gen \in Nat /\ s.gen + 1 \in Nat  BY DEF DiskTyped
  <2>2. Fresh \in Secrets  BY <1>5, FreshTyped DEF StartRedeem, CountersTyped
  <2>3. [h |-> s.h, proof |-> Fresh, gen |-> s.gen + 1]
          \in [h : Handles, proof : Secrets, gen : Nat]
    BY <2>1, <2>2
  <2>4. [h |-> s.h, gen |-> s.gen, op |-> Fresh] \in [h : Handles, gen : Nat, op : Secrets]
    BY <2>1, <2>2
  <2> QED  BY <1>5, <2>3, <2>4 DEF StartRedeem, WritesPending, DiskTyped
<1>6. ASSUME NEW m \in Machines, NEW r \in Requests,
             \/ Crash(m) \/ StartRotate(m, r) \/ Connect(m, r)
             \/ \E i \in Invites, h \in Handles : Setup(m, r, i, h)
             \/ \E s \in saved : Resume(m, r, s)
      PROVE  DiskTyped'
  BY <1>1, <1>6 DEF Crash, StartRotate, Connect, Setup, Resume
<1>7. ASSUME NEW r \in Requests, Handler(r) PROVE DiskTyped'
  BY <1>1, <1>7 DEF Handler, LookUpInvite, Enrol, Rotate, Issue, FindReceipt, ReadRow, Commit,
                    CommitFails, Refind, Evict, ClearJob, EvictFails, Attach, Discard, Lose, Drain
<1>8. CASE Tick \/ \E i \in Invites : CreateInvite(i) \/ RevokeInvite(i)
  BY <1>1, <1>8 DEF Tick, CreateInvite, RevokeInvite
<1>9. ASSUME NEW m \in Machines, Command(m), ~Receive(m), ~ForgetPending(m), ~Crash(m)
      PROVE  DiskTyped'
  BY <1>4, <1>5, <1>6, <1>9 DEF Command
<1>10. ASSUME NEW m \in Machines, Crash(m) PROVE DiskTyped'  BY <1>1, <1>10 DEF Crash
<1> QED  BY <1>2, <1>3, <1>7, <1>8, <1>9, <1>10 DEF Next

\* The counters.
LEMMA CountersStep == TypeOK /\ Next => CountersTyped'
<1> SUFFICES ASSUME TypeOK, Next PROVE CountersTyped'  OBVIOUS
<1> USE BoundsTyped DEF TypeOK, CountersTyped
<1>1. Mint => minted' \in 0..MaxSecret  BY FreshTyped
<1>2. Fault => faults' \in 0..MaxFaults  BY DEF Fault
<1>3. ASSUME NEW r \in Requests, Handler(r) PROVE CountersTyped'
  BY <1>2, <1>3 DEF Handler, LookUpInvite, Enrol, Rotate, Issue, FindReceipt, ReadRow, Commit,
                    CommitFails, Refind, Evict, ClearJob, EvictFails, Attach, Discard, Lose, Drain
<1>4. ASSUME NEW m \in Machines, NEW r \in Requests, Connect(m, r) PROVE CountersTyped'
  BY <1>4 DEF Connect
<1>5. ASSUME NEW m \in Machines,
             \/ Receive(m) \/ ForgetPending(m) \/ Crash(m)
             \/ \E r \in Requests :
                  \/ StartRotate(m, r) \/ StartIssue(m, r)
                  \/ \E i \in Invites, h \in Handles : Setup(m, r, i, h)
                  \/ \E s \in saved : StartRedeem(m, r, s) \/ Resume(m, r, s)
      PROVE  CountersTyped'
  BY <1>1, <1>2, <1>5 DEF Receive, ForgetPending, Crash, StartRotate, StartIssue, Setup,
                          StartRedeem, Resume
<1>6. CASE Tick
  <2>1. now' \in 0..MaxTime  BY <1>6 DEF Tick
  <2> QED  BY <1>6, <2>1 DEF Tick
<1>7. ASSUME NEW i \in Invites, CreateInvite(i) \/ RevokeInvite(i) PROVE CountersTyped'
  BY <1>7 DEF CreateInvite, RevokeInvite
<1> QED  BY <1>3, <1>4, <1>5, <1>6, <1>7 DEF Next, Command

\* Every variable keeps its type, in every reachable state.
THEOREM AccountsTyped == Spec => []TypeOK
<1>1. Init => TypeOK
  <2> SUFFICES ASSUME Init PROVE TypeOK  OBVIOUS
  <2>1. Idle \in Process  BY DEF Idle, Process
  <2>2. NoRow \in Row  BY BoundsTyped DEF NoRow, Row
  <2>3. [state |-> "none", at |-> 0, by |-> None] \in Invite  BY DEF Invite
  <2>4. CountersTyped  BY BoundsTyped DEF Init, CountersTyped
  <2>5. RelayTyped /\ ObjectsTyped /\ DiskTyped
    BY <2>2, <2>3 DEF Init, RelayTyped, ObjectsTyped, DiskTyped
  <2> QED  BY <2>1, <2>4, <2>5, FreeTyped DEF Init, TypeOK
<1>2. TypeOK /\ [Next]_vars => TypeOK'
  <2>1. TypeOK /\ Next => TypeOK'
    BY RequestsStep, ProcessesStep, RowsStep, ReceiptsStep, DiskStep, CountersStep
       DEF TypeOK, RelayTyped
  <2>2. TypeOK /\ UNCHANGED vars => TypeOK'
    BY DEF TypeOK, CountersTyped, RelayTyped, ObjectsTyped, DiskTyped, vars, relay, do, disk
  <2> QED  BY <2>1, <2>2
<1> QED  BY <1>1, <1>2, PTL DEF Spec
-----------------------------------------------------------------------------
(* Recovery.  A commit compares the row's generation, and every committed  *)
(* receipt is of an earlier one.                                           *)

\* What a batch that applies starts from and leaves.
LEMMA BatchFacts ==
    ASSUME TypeOK, NEW r \in Requests, Commit(r) \/ CommitFails(r)
    PROVE  /\ req[r].h \in Handles /\ req[r].gen \in Nat
           /\ \/ /\ receipts' \subseteq receipts /\ UNCHANGED <<row, job>>
              \/ \E c \in [h : Handles, gen : Nat, op : Secrets, proof : Secrets, until : Nat] :
                   /\ c.h = req[r].h /\ c.gen = req[r].gen /\ row[c.h].gen = c.gen
                   /\ receipts' \subseteq receipts \cup {c}
                   /\ job' = [job EXCEPT ![c.h] = c.gen + 1]
                   /\ \A h \in Handles : row'[h].gen = IF h = c.h THEN c.gen + 1 ELSE row[h].gen
<1> USE DEF TypeOK, RelayTyped
<1> DEFINE q == req[r]
           c == [h |-> q.h, gen |-> q.gen, op |-> q.secret, proof |-> q.old,
                 until |-> now + ReceiptTtl]
<1>1. /\ q.h \in Handles /\ q.gen \in Nat /\ q.secret \in Secrets /\ q.old \in Secrets
  BY RequestFacts DEF Commit, CommitFails
<1>2. c \in [h : Handles, gen : Nat, op : Secrets, proof : Secrets, until : Nat]
  BY <1>1, BoundsTyped DEF CountersTyped
<1>3. CASE Batch(q) /\ BatchApplies(q)
  <2>1. row[q.h].gen = q.gen  BY <1>3 DEF BatchApplies, Matches
  <2>2. receipts' \subseteq receipts \cup {c} /\ job' = [job EXCEPT ![q.h] = q.gen + 1]
    BY <1>3 DEF Batch
  <2>3. row' = [row EXCEPT ![q.h] = [row[q.h] EXCEPT !.token = q.secret, !.proof = q.secret,
                                                      !.gen = q.gen + 1]]
    BY <1>3 DEF Batch
  <2>4. \A h \in Handles : row'[h].gen = IF h = q.h THEN q.gen + 1 ELSE row[h].gen
    BY <1>1, <2>3 DEF Row
  <2> QED  BY <1>1, <1>2, <2>1, <2>2, <2>4
<1>4. CASE ~(Batch(q) /\ BatchApplies(q))
  BY <1>1, <1>4 DEF Commit, CommitFails, Batch, relay
<1> QED  BY <1>3, <1>4

\* No other step changes the receipts or takes a generation back.
LEMMA GenerationsGrow ==
    ASSUME TypeOK, Next, \A r \in Requests : ~Commit(r) /\ ~CommitFails(r)
    PROVE  UNCHANGED receipts /\ \A h \in Handles : row'[h].gen >= row[h].gen
<1> USE DEF TypeOK, RelayTyped
<1>1. \A h \in Handles : row[h].gen \in Nat  BY DEF Row
<1>2. ASSUME NEW r \in Requests, Enrol(r)
      PROVE  UNCHANGED receipts /\ \A h \in Handles : row'[h].gen >= row[h].gen
  <2>1. req[r].h \in Handles  BY <1>2, RequestFacts DEF Enrol
  <2>2. row' = row \/ \E n \in [gen : {0}, token : 0..MaxSecret, proof : 0..MaxSecret,
                                    via : Invites \cup {None}] :
                        row[req[r].h].gen = 0 /\ row' = [row EXCEPT ![req[r].h] = n]
    <3>1. [NoRow EXCEPT !.token = req[r].secret, !.via = req[r].invite]
            \in [gen : {0}, token : 0..MaxSecret, proof : 0..MaxSecret, via : Invites \cup {None}]
      BY <1>2, RequestFacts, BoundsTyped DEF Enrol, NoRow
    <3>2. row' = row \/ /\ row[req[r].h] = NoRow
                        /\ row' = [row EXCEPT ![req[r].h] =
                             [NoRow EXCEPT !.token = req[r].secret, !.via = req[r].invite]]
      BY <1>2 DEF Enrol, Enrolled
    <3> QED  BY <3>1, <3>2 DEF NoRow
  <2>4. UNCHANGED receipts  BY <1>2 DEF Enrol
  <2>5. CASE row' = row  BY <1>1, <2>4, <2>5
  <2>6. CASE row' # row  BY <1>1, <2>1, <2>2, <2>4, <2>6
  <2> QED  BY <2>5, <2>6
<1>3. ASSUME NEW r \in Requests, Rotate(r) \/ Issue(r)
      PROVE  UNCHANGED receipts /\ \A h \in Handles : row'[h].gen >= row[h].gen
  <2>1. req[r].h \in Handles /\ req[r].gen \in Nat  BY <1>3, RequestFacts DEF Rotate, Issue
  <2>2. CASE Rotate(r)
    <3>1. row' = row \/ row' = [row EXCEPT ![req[r].h] = [row[req[r].h] EXCEPT !.token = req[r].secret]]
      BY <2>2 DEF Rotate
    <3> QED  BY <1>1, <2>1, <2>2, <3>1 DEF Rotate, Row
  <2>3. CASE Issue(r)
    <3>1. row' = row \/ /\ row[req[r].h].gen = req[r].gen
                        /\ row' = [row EXCEPT ![req[r].h] = [row[req[r].h] EXCEPT
                                              !.proof = req[r].secret, !.gen = req[r].gen + 1]]
      BY <2>3 DEF Issue
    <3> QED  BY <1>1, <2>1, <2>3, <3>1 DEF Issue, Row
  <2> QED  BY <1>3, <2>2, <2>3
<1>4. ASSUME UNCHANGED <<row, receipts>>
      PROVE  UNCHANGED receipts /\ \A h \in Handles : row'[h].gen >= row[h].gen
  BY <1>1, <1>4
<1>5. ASSUME NEW r \in Requests,
             \/ LookUpInvite(r) \/ FindReceipt(r) \/ ReadRow(r) \/ Refind(r) \/ Evict(r)
             \/ ClearJob(r) \/ EvictFails(r) \/ Attach(r) \/ Discard(r) \/ Lose(r)
             \/ \E h \in Handles : Drain(r, h)
      PROVE  UNCHANGED <<row, receipts>>
  BY <1>5 DEF LookUpInvite, FindReceipt, ReadRow, Refind, Evict, ClearJob, EvictFails, Attach,
              Discard, Lose, Drain, relay
<1>6. ASSUME NEW m \in Machines, Command(m) PROVE UNCHANGED <<row, receipts>>
  BY <1>6 DEF Command, Receive, ForgetPending, Crash, StartRotate, StartIssue, Connect, Setup,
              StartRedeem, Resume, relay
<1>7. CASE Tick \/ \E i \in Invites : CreateInvite(i) \/ RevokeInvite(i)
  BY <1>4, <1>7 DEF Tick, CreateInvite, RevokeInvite, relay
<1> QED  BY <1>2, <1>3, <1>4, <1>5, <1>6, <1>7 DEF Next, Handler

\* A receipt is of a generation its handle has left.
LEMMA ReceiptsPastStep == TypeOK /\ ReceiptsPast /\ Next => ReceiptsPast'
<1> SUFFICES ASSUME TypeOK, ReceiptsPast, Next PROVE ReceiptsPast'  OBVIOUS
<1> USE DEF ReceiptsPast
<1>1. \A h \in Handles : row[h].gen \in Nat  BY DEF TypeOK, RelayTyped, Row
<1>2. \A c \in receipts : c.h \in Handles /\ c.gen \in Nat  BY DEF TypeOK, RelayTyped
<1>3. ASSUME NEW r \in Requests, Commit(r) \/ CommitFails(r) PROVE ReceiptsPast'
  BY <1>1, <1>2, <1>3, BatchFacts
<1>4. CASE \A r \in Requests : ~Commit(r) /\ ~CommitFails(r)
  <2>1. TypeOK'  BY RequestsStep, ProcessesStep, RowsStep, ReceiptsStep, DiskStep, CountersStep
                    DEF TypeOK, RelayTyped
  <2>2. \A h \in Handles : row'[h].gen \in Nat  BY <2>1 DEF TypeOK, RelayTyped, Row
  <2> QED  BY <1>1, <1>2, <1>4, <2>2, GenerationsGrow
<1> QED  BY <1>3, <1>4

\* So a commit, which compares the generation, consumes it once.
LEMMA ConsumedOnceStep == TypeOK /\ ReceiptsPast /\ ConsumedOnce /\ Next => ConsumedOnce'
<1> SUFFICES ASSUME TypeOK, ReceiptsPast, ConsumedOnce, Next PROVE ConsumedOnce'  OBVIOUS
<1> USE DEF ReceiptsPast, ConsumedOnce
<1>1. \A c \in receipts : c.h \in Handles /\ c.gen \in Nat  BY DEF TypeOK, RelayTyped
<1>2. ASSUME NEW r \in Requests, Commit(r) \/ CommitFails(r) PROVE ConsumedOnce'
  BY <1>1, <1>2, BatchFacts
<1>3. CASE \A r \in Requests : ~Commit(r) /\ ~CommitFails(r)
  BY <1>3, GenerationsGrow
<1> QED  BY <1>2, <1>3

\* Only evict reaches the stage that clears, and no floor goes down.
LEMMA FloorsGrow ==
    ASSUME TypeOK, Next
    PROVE  \A h \in Handles : floor'[h] >= floor[h]
<1> USE DEF TypeOK, ObjectsTyped
<1>1. ASSUME UNCHANGED floor PROVE \A h \in Handles : floor'[h] >= floor[h]  BY <1>1
<1>2. ASSUME NEW r \in Requests, Evict(r) PROVE \A h \in Handles : floor'[h] >= floor[h]
  <2>1. req[r].h \in Handles /\ req[r].gen \in Nat  BY <1>2, RequestFacts DEF Evict
  <2> QED  BY <1>2, <2>1 DEF Evict
<1>3. ASSUME NEW r \in Requests, Handler(r), ~Evict(r) PROVE UNCHANGED floor
  BY <1>3 DEF Handler, LookUpInvite, Enrol, Rotate, Issue, FindReceipt, ReadRow, Commit,
              CommitFails, Refind, ClearJob, EvictFails, Attach, Discard, Lose, Drain, do
<1>4. ASSUME NEW m \in Machines, Command(m) PROVE UNCHANGED floor
  BY <1>4 DEF Command, Receive, ForgetPending, Crash, StartRotate, StartIssue, Connect, Setup,
              StartRedeem, Resume, do
<1>5. CASE Tick \/ \E i \in Invites : CreateInvite(i) \/ RevokeInvite(i)
  BY <1>1, <1>5 DEF Tick, CreateInvite, RevokeInvite, do
<1> QED  BY <1>1, <1>2, <1>3, <1>4, <1>5 DEF Next

\* A handler at the stage that clears was there before, or has just evicted.
LEMMA ClearingFacts ==
    ASSUME TypeOK, Next, NEW r \in Requests, req'[r].pc = "clear"
    PROVE  req'[r].h = req[r].h /\ req'[r].gen = req[r].gen /\ (req[r].pc = "clear" \/ Evict(r))
<1> USE DEF TypeOK
<1>1. ASSUME NEW s \in Requests, NEW pc \in Stages, Become(s, pc), pc # "clear"
      PROVE  req'[r] = req[r]
  <2>1. r # s  BY <1>1 DEF Become, Request
  <2> QED  BY <1>1, <2>1 DEF Become
<1>2. ASSUME NEW s \in Requests, NEW q, Send(s, q), q.pc # "clear"
      PROVE  req'[r] = req[r]
  BY <1>2 DEF Send
<1>3. ASSUME UNCHANGED req PROVE req'[r] = req[r]  BY <1>3
<1>4. ASSUME NEW s \in Requests, Evict(s), s = r
      PROVE  req'[r].h = req[r].h /\ req'[r].gen = req[r].gen /\ Evict(r)
  <2>1. req[r] \in Request  OBVIOUS
  <2> QED  BY <1>4, <2>1 DEF Evict, Become, Request
<1>5. ASSUME NEW s \in Requests, Evict(s), s # r PROVE req'[r] = req[r]
  BY <1>5 DEF Evict, Become
<1>6. ASSUME NEW s \in Requests, LookUpInvite(s) \/ Enrol(s) \/ Rotate(s) \/ Issue(s)
      PROVE  req'[r] = req[r]
  BY <1>1, <1>6 DEF LookUpInvite, Enrol, Rotate, Issue, Refuse, Stages
<1>7. ASSUME NEW s \in Requests, FindReceipt(s) \/ ReadRow(s) \/ Refind(s)
      PROVE  req'[r] = req[r]
  BY <1>1, <1>7 DEF FindReceipt, ReadRow, Refind, Refuse, Stages
<1>8. ASSUME NEW s \in Requests, Commit(s) \/ CommitFails(s) PROVE req'[r] = req[r]
  BY <1>1, <1>8 DEF Commit, CommitFails, Stages
<1>9. ASSUME NEW s \in Requests, ClearJob(s) \/ EvictFails(s) \/ Attach(s)
      PROVE  req'[r] = req[r]
  BY <1>1, <1>9 DEF ClearJob, EvictFails, Attach, Evicted, Stages
<1>10. ASSUME NEW s \in Requests, Discard(s) \/ Lose(s) PROVE req'[r] = req[r]
  BY <1>10 DEF Discard, Lose, Free
<1>11. ASSUME NEW s \in Requests, NEW h \in Handles, Drain(s, h) PROVE req'[r] = req[r]
  <2>1. [Free EXCEPT !.pc = "evict", !.h = h, !.gen = job[h] - 1].pc = "evict"  BY DEF Free
  <2> QED  BY <1>2, <1>11, <2>1 DEF Drain
<1>12. ASSUME NEW m \in Machines, Receive(m) PROVE req'[r] = req[r]
  BY <1>12 DEF Receive, Free
<1>13. ASSUME NEW m \in Machines, ForgetPending(m) \/ Crash(m) PROVE req'[r] = req[r]
  BY <1>13 DEF ForgetPending, Crash
<1>14. ASSUME NEW m \in Machines, NEW s \in Requests,
              StartRotate(m, s) \/ StartIssue(m, s) \/ Connect(m, s)
       PROVE  req'[r] = req[r]
  BY <1>14 DEF StartRotate, StartIssue, Connect, Send, Free
<1>15. ASSUME NEW m \in Machines, NEW s \in Requests, NEW i \in Invites, NEW h \in Handles,
              Setup(m, s, i, h)
       PROVE  req'[r] = req[r]
  BY <1>15 DEF Setup, Send, Free
<1>16. ASSUME NEW m \in Machines, NEW s \in Requests, NEW p \in saved,
              StartRedeem(m, s, p) \/ Resume(m, s, p)
       PROVE  req'[r] = req[r]
  BY <1>16 DEF StartRedeem, Resume, Redemption, Send
<1>17. ASSUME Tick \/ \E i \in Invites : CreateInvite(i) \/ RevokeInvite(i)
       PROVE  req'[r] = req[r]
  BY <1>17 DEF Tick, CreateInvite, RevokeInvite
<1>18. ASSUME NEW s \in Requests, Handler(s) PROVE req'[r] = req[r] \/ Evict(r)
  BY <1>5, <1>6, <1>7, <1>8, <1>9, <1>10, <1>11, <1>18 DEF Handler
<1>19. ASSUME NEW m \in Machines, Command(m) PROVE req'[r] = req[r]
  BY <1>12, <1>13, <1>14, <1>15, <1>16, <1>19 DEF Command
<1>20. req'[r] = req[r] \/ Evict(r)
  BY <1>17, <1>18, <1>19 DEF Next
<1> QED  BY <1>4, <1>20

\* A handler about to clear a job has raised the floor past its generation.
LEMMA ClearsAfterFloorStep == TypeOK /\ ClearsAfterFloor /\ Next => ClearsAfterFloor'
<1> SUFFICES ASSUME TypeOK, ClearsAfterFloor, Next, NEW r \in Requests, req'[r].pc = "clear"
             PROVE  req'[r].gen < floor'[req'[r].h]
  BY DEF ClearsAfterFloor
<1>1. req[r].pc # "free"  BY ClearingFacts DEF Evict
<1>2. req[r].h \in Handles /\ req[r].gen \in Nat /\ floor[req[r].h] \in Nat
  BY <1>1, RequestFacts DEF TypeOK, ObjectsTyped
<1>3. floor'[req[r].h] \in Nat
  BY <1>2, ReceiptsStep DEF ObjectsTyped
<1>4. CASE Evict(r)
  <2>1. floor'[req[r].h] > req[r].gen  BY <1>2, <1>4 DEF Evict, TypeOK, ObjectsTyped
  <2>2. req'[r].h = req[r].h /\ req'[r].gen = req[r].gen  BY ClearingFacts
  <2> QED  BY <1>2, <1>3, <2>1, <2>2
<1>5. CASE req[r].pc = "clear"
  BY <1>2, <1>3, <1>5, ClearingFacts, FloorsGrow DEF ClearsAfterFloor
<1> QED  BY <1>4, <1>5, ClearingFacts

\* A job goes only when the floor has reached it, and is replaced by a later one.
LEMMA EvictionKeptStep ==
    TypeOK /\ ReceiptsPast /\ ClearsAfterFloor /\ EvictionKept /\ Next => EvictionKept'
<1> SUFFICES ASSUME TypeOK, ReceiptsPast, ClearsAfterFloor, EvictionKept, Next
             PROVE  EvictionKept'
  OBVIOUS
<1> USE DEF EvictionKept
<1>1. \A c \in receipts : c.h \in Handles /\ c.gen \in Nat /\ c.gen < row[c.h].gen
  BY DEF TypeOK, RelayTyped, ReceiptsPast
<1>2. \A h \in Handles : /\ floor[h] \in Nat /\ floor'[h] \in Nat /\ floor'[h] >= floor[h]
                         /\ job[h] \in Nat
  BY FloorsGrow, ReceiptsStep DEF TypeOK, ObjectsTyped, RelayTyped
<1>3. ASSUME NEW r \in Requests, Commit(r) \/ CommitFails(r) PROVE EvictionKept'
  <2>1. CASE receipts' \subseteq receipts /\ UNCHANGED <<row, job>>
    BY <1>1, <1>2, <2>1
  <2>2. ASSUME NEW c \in [h : Handles, gen : Nat, op : Secrets, proof : Secrets, until : Nat],
               row[c.h].gen = c.gen, receipts' \subseteq receipts \cup {c},
               job' = [job EXCEPT ![c.h] = c.gen + 1]
        PROVE  EvictionKept'
    <3>1. c.h \in Handles /\ c.gen \in Nat /\ job'[c.h] = c.gen + 1
      BY <2>2 DEF TypeOK, RelayTyped
    <3>2. ASSUME NEW d \in receipts', d.h = c.h PROVE d.gen < job'[d.h]
      BY <1>1, <2>2, <3>1, <3>2
    <3>3. ASSUME NEW d \in receipts', d.h # c.h PROVE d.gen < floor'[d.h] \/ d.gen < job'[d.h]
      <4>1. d \in receipts  BY <2>2, <3>3
      <4>2. job'[d.h] = job[d.h]  BY <1>1, <2>2, <3>3, <4>1 DEF TypeOK, RelayTyped
      <4> QED  BY <1>1, <1>2, <4>1, <4>2
    <3> QED  BY <3>2, <3>3
  <2> QED  BY <1>3, <2>1, <2>2, BatchFacts
<1>4. ASSUME NEW r \in Requests, ClearJob(r) PROVE EvictionKept'
  <2> DEFINE q == req[r]
  <2>1. q.h \in Handles /\ q.gen \in Nat /\ q.gen < floor[q.h]
    BY <1>4, RequestFacts DEF ClearJob, ClearsAfterFloor, TypeOK
  <2>2. receipts' = receipts /\ floor' = floor  BY <1>4 DEF ClearJob, do
  <2>3. job' = job \/ (job[q.h] = q.gen + 1 /\ job' = [job EXCEPT ![q.h] = 0])
    BY <1>4 DEF ClearJob, Clears
  <2>4. ASSUME NEW c \in receipts, c.h = q.h, job[q.h] = q.gen + 1
        PROVE  c.gen < floor[c.h]
    BY <1>1, <1>2, <2>1, <2>4
  <2>5. ASSUME NEW c \in receipts, c.h # q.h PROVE job'[c.h] = job[c.h]
    BY <1>1, <2>3, <2>5 DEF TypeOK, RelayTyped
  <2> QED  BY <1>2, <2>2, <2>3, <2>4, <2>5
<1>5. ASSUME UNCHANGED <<receipts, job>> PROVE EvictionKept'
  BY <1>1, <1>2, <1>5
<1>6. ASSUME NEW r \in Requests, Handler(r), ~Commit(r), ~CommitFails(r), ~ClearJob(r)
      PROVE  UNCHANGED <<receipts, job>>
  BY <1>6 DEF Handler, LookUpInvite, Enrol, Rotate, Issue, FindReceipt, ReadRow, Refind, Evict,
              EvictFails, Attach, Discard, Lose, Drain, relay
<1>7. ASSUME NEW m \in Machines, Command(m) PROVE UNCHANGED <<receipts, job>>
  BY <1>7 DEF Command, Receive, ForgetPending, Crash, StartRotate, StartIssue, Connect, Setup,
              StartRedeem, Resume, relay
<1>8. CASE Tick \/ \E i \in Invites : CreateInvite(i) \/ RevokeInvite(i)
  BY <1>5, <1>8 DEF Tick, CreateInvite, RevokeInvite, relay
<1> QED  BY <1>3, <1>4, <1>5, <1>6, <1>7, <1>8 DEF Next

\* A socket is admitted at or above the floor, and closed by an evict above it.
LEMMA NoStaleListenerStep == TypeOK /\ NoStaleListener /\ Next => NoStaleListener'
<1> SUFFICES ASSUME TypeOK, NoStaleListener, Next PROVE NoStaleListener'  OBVIOUS
<1> USE DEF NoStaleListener, TypeOK, ObjectsTyped
<1>1. ASSUME NEW r \in Requests, Evict(r) PROVE NoStaleListener'
  <2>1. req[r].h \in Handles /\ req[r].gen \in Nat  BY <1>1, RequestFacts DEF Evict
  <2>2. ASSUME NEW h \in Handles, h # req[r].h
        PROVE  socket'[h] = socket[h] /\ floor'[h] = floor[h]
    BY <1>1, <2>1, <2>2 DEF Evict
  <2>3. LET h == req[r].h IN socket'[h] = -1 \/ socket'[h] >= floor'[h]
    BY <1>1, <2>1 DEF Evict
  <2> QED  BY <2>2, <2>3
<1>2. ASSUME NEW r \in Requests, Attach(r) PROVE NoStaleListener'
  <2>1. req[r].h \in Handles /\ req[r].gen \in Nat  BY <1>2, RequestFacts DEF Attach
  <2> QED  BY <1>2, <2>1 DEF Attach, Admits
<1>3. ASSUME UNCHANGED do PROVE NoStaleListener'  BY <1>3 DEF do
<1>4. ASSUME NEW r \in Requests, Handler(r), ~Evict(r), ~Attach(r) PROVE UNCHANGED do
  BY <1>4 DEF Handler, LookUpInvite, Enrol, Rotate, Issue, FindReceipt, ReadRow, Commit,
              CommitFails, Refind, ClearJob, EvictFails, Discard, Lose, Drain
<1>5. ASSUME NEW m \in Machines, Command(m) PROVE UNCHANGED do
  BY <1>5 DEF Command, Receive, ForgetPending, Crash, StartRotate, StartIssue, Connect, Setup,
              StartRedeem, Resume
<1>6. CASE Tick \/ \E i \in Invites : CreateInvite(i) \/ RevokeInvite(i)
  BY <1>3, <1>6 DEF Tick, CreateInvite, RevokeInvite
<1> QED  BY <1>1, <1>2, <1>3, <1>4, <1>5, <1>6 DEF Next

\* The invariant of the three theorems below.
LEMMA CredentialsKept == Spec => []CredentialInv
<1>1. Init => CredentialInv
  BY AccountsAssumption DEF Init, CredentialInv, ReceiptsPast, ConsumedOnce, ClearsAfterFloor,
     EvictionKept, NoStaleListener, Free
<1>2. TypeOK /\ CredentialInv /\ [Next]_vars => CredentialInv'
  <2>1. TypeOK /\ CredentialInv /\ Next => CredentialInv'
    BY ReceiptsPastStep, ConsumedOnceStep, ClearsAfterFloorStep, EvictionKeptStep,
       NoStaleListenerStep DEF CredentialInv
  <2>2. CredentialInv /\ UNCHANGED vars => CredentialInv'
    BY DEF CredentialInv, ReceiptsPast, ConsumedOnce, ClearsAfterFloor, EvictionKept,
           NoStaleListener, vars, relay, do
  <2> QED  BY <2>1, <2>2
<1> QED  BY <1>1, <1>2, AccountsTyped, PTL DEF Spec

\* No generation is consumed by two operations (recovery.ts, the batch).
THEOREM RecoveryConsumesOnce == Spec => []ConsumedOnce
<1>1. CredentialInv => ConsumedOnce  BY DEF CredentialInv
<1> QED  BY <1>1, CredentialsKept, PTL

\* A committed recovery's eviction is done or queued (drainRecoveryEvictions).
THEOREM RecoveryEvicts == Spec => []EvictionKept
<1>1. CredentialInv => EvictionKept  BY DEF CredentialInv
<1> QED  BY <1>1, CredentialsKept, PTL

\* No listener of an evicted generation is connected (do.ts, connect).
THEOREM EvictedStaysOut == Spec => []NoStaleListener
<1>1. CredentialInv => NoStaleListener  BY DEF CredentialInv
<1> QED  BY <1>1, CredentialsKept, PTL
-----------------------------------------------------------------------------
(* Invites.                                                                *)

\* Only an enrolment marks an invite as spent, and it was open before.
LEMMA InviteStep == TypeOK /\ InviteInv /\ Next => InviteInv'
<1> SUFFICES ASSUME TypeOK, InviteInv, Next PROVE InviteInv'  OBVIOUS
<1> USE DEF TypeOK, RelayTyped
<1>1. None \notin Handles /\ None \notin Invites  BY AccountsAssumption
<1>2. ASSUME NEW f \in [Invites -> Invite]
      PROVE  \A i \in Invites : /\ Cleaned(f)[i].by = f[i].by
                                /\ Cleaned(f)[i].state \in {f[i].state, "gone"}
  BY DEF Cleaned, Invite
<1>3. ASSUME \A i \in Invites : /\ invites'[i].by = invites[i].by
                                /\ invites'[i].state \in {"none", "open"} =>
                                     invites[i].state \in {"none", "open"},
             \A h \in Handles : row'[h].via = row[h].via
      PROVE  InviteInv'
  BY <1>3 DEF InviteInv, OpenIsUnspent, InviteEnrolsOne
<1>4. ASSUME NEW r \in Requests, Enrol(r) PROVE InviteInv'
  <2> DEFINE q == req[r]
             j == req[r].invite
             used == [state |-> "used", at |-> now, by |-> q.h]
             enrolled == [NoRow EXCEPT !.token = q.secret, !.via = q.invite]
  <2>1. q.h \in Handles /\ j \in Invites  BY <1>4, RequestFacts DEF Enrol
  <2>2. CASE Enrolled(r) = <<row, invites>>
    <3>1. row' = row /\ invites' = Cleaned(invites)  BY <1>4, <2>2 DEF Enrol
    <3> QED  BY <1>2, <1>3, <3>1
  <2>3. CASE Enrolled(r) # <<row, invites>>
    <3>1. /\ row[q.h] = NoRow /\ invites[j].state = "open"
          /\ row' = [row EXCEPT ![q.h] = enrolled]
          /\ invites' = Cleaned([invites EXCEPT ![j] = used])
      BY <1>4, <2>3 DEF Enrol, Enrolled, Usable, Open
    <3>2. [invites EXCEPT ![j] = used] \in [Invites -> Invite]
      BY <2>1 DEF Invite, CountersTyped
    <3>3. row[q.h].via = None /\ enrolled.via = j
      BY <3>1 DEF NoRow
    <3>4. \A h \in Handles : row'[h].via = IF h = q.h THEN j ELSE row[h].via
      BY <2>1, <3>1, <3>3
    <3>5. \A i \in Invites : invites'[i].by = IF i = j THEN q.h ELSE invites[i].by
      BY <1>2, <2>1, <3>1, <3>2
    <3>6. \A i \in Invites : invites'[i].state \in {"none", "open"} =>
            i # j /\ invites[i].state \in {"none", "open"}
      BY <1>2, <2>1, <3>1, <3>2
    <3>7. invites[j].by = None  BY <2>1, <3>1 DEF InviteInv, OpenIsUnspent
    <3>8. OpenIsUnspent'  BY <3>5, <3>6 DEF InviteInv, OpenIsUnspent
    <3>9. InviteEnrolsOne'
      BY <1>1, <2>1, <3>3, <3>4, <3>5, <3>7 DEF InviteInv, InviteEnrolsOne
    <3> QED  BY <3>8, <3>9 DEF InviteInv
  <2> QED  BY <2>2, <2>3
<1>5. ASSUME NEW i \in Invites, CreateInvite(i) PROVE InviteInv'
  <2>1. Cleaned(invites) \in [Invites -> Invite]  BY CleanedTyped
  <2>2. \A k \in Invites :
          invites'[k] = IF k = i THEN [Cleaned(invites)[i] EXCEPT !.state = "open", !.at = now + InviteTtl]
                        ELSE Cleaned(invites)[k]
    BY <1>5, <2>1 DEF CreateInvite
  <2>3. \A k \in Invites : invites'[k].by = invites[k].by
    <3>1. Cleaned(invites)[i] \in Invite  BY <2>1
    <3>2. [Cleaned(invites)[i] EXCEPT !.state = "open", !.at = now + InviteTtl].by
            = Cleaned(invites)[i].by
      BY <3>1 DEF Invite
    <3>3. \A k \in Invites : Cleaned(invites)[k].by = invites[k].by  BY <1>2
    <3>4. invites'[i].by = invites[i].by  BY <2>2, <3>2, <3>3
    <3>5. \A k \in Invites \ {i} : invites'[k].by = invites[k].by  BY <2>2, <3>3
    <3> QED  BY <3>4, <3>5
  <2>4. invites[i].state = "none" /\ UNCHANGED row  BY <1>5 DEF CreateInvite
  <2>5. \A k \in Invites : invites'[k].state \in {"none", "open"} =>
          invites[k].state \in {"none", "open"}
    BY <1>2, <2>2, <2>4
  <2> QED  BY <1>3, <2>3, <2>4, <2>5
<1>6. ASSUME NEW i \in Invites, RevokeInvite(i) PROVE InviteInv'
  <2> DEFINE f == [invites EXCEPT ![i].state = "revoked", ![i].at = now]
  <2>1. f \in [Invites -> Invite]
    <3>1. [invites[i] EXCEPT !.state = "revoked", !.at = now] \in Invite
      <4>1. now \in Nat /\ invites[i] \in Invite  BY BoundsTyped DEF CountersTyped
      <4> QED  BY <4>1 DEF Invite
    <3>2. f = [invites EXCEPT ![i] = [invites[i] EXCEPT !.state = "revoked", !.at = now]]
      BY DEF Invite
    <3> QED  BY <3>1, <3>2
  <2>2. \A k \in Invites : f[k].by = invites[k].by /\ f[k].state \in {invites[k].state, "revoked"}
    BY DEF Invite
  <2>3. invites' = Cleaned(f) /\ row' = row  BY <1>6 DEF RevokeInvite
  <2> HIDE DEF f
  <2>4. \A k \in Invites : Cleaned(f)[k].by = f[k].by /\ Cleaned(f)[k].state \in {f[k].state, "gone"}
    BY <1>2, <2>1
  <2>5. \A k \in Invites :
          /\ invites'[k].by = invites[k].by
          /\ invites'[k].state \in {"none", "open"} => invites[k].state \in {"none", "open"}
    BY <2>2, <2>3, <2>4
  <2>6. \A h \in Handles : row'[h].via = row[h].via  BY <2>3
  <2> QED  BY <1>3, <2>5, <2>6
<1>7. ASSUME UNCHANGED invites, \A h \in Handles : row'[h].via = row[h].via PROVE InviteInv'
  BY <1>3, <1>7
<1>8. ASSUME NEW r \in Requests, Rotate(r) \/ Issue(r) PROVE InviteInv'
  <2>1. req[r].h \in Handles  BY <1>8, RequestFacts DEF Rotate, Issue
  <2>2. UNCHANGED invites  BY <1>8 DEF Rotate, Issue
  <2>3. row' = row \/ \E t \in Row : t.via = row[req[r].h].via /\ row' = [row EXCEPT ![req[r].h] = t]
    <3>1. /\ req[r].secret \in 0..MaxSecret /\ req[r].gen + 1 \in Nat
          /\ row[req[r].h] \in Row
      BY <1>8, <2>1, RequestFacts DEF Rotate, Issue
    <3>2. [row[req[r].h] EXCEPT !.token = req[r].secret] \in {t \in Row : t.via = row[req[r].h].via}
      BY <3>1 DEF Row
    <3>3. [row[req[r].h] EXCEPT !.proof = req[r].secret, !.gen = req[r].gen + 1]
            \in {t \in Row : t.via = row[req[r].h].via}
      BY <3>1 DEF Row
    <3> QED  BY ZenonT(30), <1>8, <3>2, <3>3 DEF Rotate, Issue
  <2> QED  BY <1>7, <2>1, <2>2, <2>3
<1>9. ASSUME NEW r \in Requests, Commit(r) \/ CommitFails(r) PROVE InviteInv'
  <2>1. req[r].h \in Handles  BY <1>9, RequestFacts DEF Commit, CommitFails
  <2>2. Batch(req[r]) => UNCHANGED invites /\ \A h \in Handles : row'[h].via = row[h].via
    <3>1. /\ req[r].secret \in 0..MaxSecret /\ req[r].gen + 1 \in Nat
          /\ row[req[r].h] \in Row
      BY <1>9, <2>1, RequestFacts DEF Commit, CommitFails
    <3>2. [row[req[r].h] EXCEPT !.token = req[r].secret, !.proof = req[r].secret,
                                !.gen = req[r].gen + 1]
            \in {t \in Row : t.via = row[req[r].h].via}
      BY <3>1 DEF Row
    <3>3. Batch(req[r]) => UNCHANGED invites /\
            (row' = row \/ row' = [row EXCEPT ![req[r].h] =
               [row[req[r].h] EXCEPT !.token = req[r].secret, !.proof = req[r].secret,
                                     !.gen = req[r].gen + 1]])
      BY DEF Batch
    <3>4. ASSUME NEW t, t.via = row[req[r].h].via, row' = [row EXCEPT ![req[r].h] = t]
          PROVE  \A h \in Handles : row'[h].via = row[h].via
      BY <2>1, <3>4
    <3> QED  BY <3>2, <3>3, <3>4
  <2> QED  BY <1>7, <1>9, <2>2 DEF Commit, CommitFails, relay
<1>10. ASSUME NEW r \in Requests,
              \/ LookUpInvite(r) \/ FindReceipt(r) \/ ReadRow(r) \/ Refind(r) \/ Evict(r)
              \/ ClearJob(r) \/ EvictFails(r) \/ Attach(r) \/ Discard(r) \/ Lose(r)
              \/ \E h \in Handles : Drain(r, h)
       PROVE  UNCHANGED <<row, invites>>
  BY <1>10 DEF LookUpInvite, FindReceipt, ReadRow, Refind, Evict, ClearJob, EvictFails, Attach,
               Discard, Lose, Drain, relay
<1>11. ASSUME NEW m \in Machines, Command(m) PROVE UNCHANGED <<row, invites>>
  BY <1>11 DEF Command, Receive, ForgetPending, Crash, StartRotate, StartIssue, Connect, Setup,
               StartRedeem, Resume, relay
<1>12. CASE Tick  BY <1>7, <1>12 DEF Tick, relay
<1>13. ASSUME NEW r \in Requests, Handler(r) PROVE InviteInv'
  BY <1>4, <1>7, <1>8, <1>9, <1>10, <1>13 DEF Handler
<1> QED  BY <1>5, <1>6, <1>7, <1>11, <1>12, <1>13 DEF Next

\* An invite enrols one handle, and is spent by its enrolment only.
THEOREM InvitesEnrolOne == Spec => []InviteEnrolsOne
<1>1. Init => InviteInv
  BY AccountsAssumption DEF Init, InviteInv, OpenIsUnspent, InviteEnrolsOne, NoRow
<1>2. TypeOK /\ InviteInv /\ [Next]_vars => InviteInv'
  <2>1. InviteInv /\ UNCHANGED vars => InviteInv'
    BY DEF InviteInv, OpenIsUnspent, InviteEnrolsOne, vars, relay
  <2> QED  BY <2>1, InviteStep
<1>3. InviteInv => InviteEnrolsOne  BY DEF InviteInv
<1> QED  BY <1>1, <1>2, <1>3, AccountsTyped, PTL DEF Spec

-----------------------------------------------------------------------------
(* Recovery leaves its credential on a disk.                               *)

\* What requests are about: a redemption that is still open or was granted, or
\* a credential without a proof.
Asking(q)    == q.pc \in {"find", "read", "commit", "refind"}
Granted(q)   == q.pc \in {"evict", "clear", "receipt"} /\ q.secret # 0
Enrolling(q) == q.pc \in {"lookup", "enrol"} \/ (q.pc = "token" /\ q.invite # None)
Rotating(q)  == q.pc \in {"rotate", "token"} /\ q.invite = None

\* A proof is written down once, when it is minted, with the handle and the
\* generation it is to reach.
Written(t, h, g) == \E s \in saved : s.proof = t /\ s.h = h /\ s.gen = g
SavedOnce ==
    /\ \A s \in saved : s.proof <= minted
    /\ \A s, t \in saved : s.proof = t.proof => s.h = t.h /\ s.gen = t.gen
SecretsMinted ==
    /\ \A h \in Handles : row[h].token <= minted
    /\ \A m \in Machines : config[m].token <= minted /\ pending[m].op <= minted
    /\ \A r \in Requests : req[r].secret <= minted
    /\ \A c \in receipts : c.op <= minted

\* The relay has reached a generation of a handle, and a recovered token in
\* force is of that generation or a later one: so it is for every receipt, for
\* every recovered token on a disk, and for every redemption that was granted.
Reached(h, g) ==
    row[h].gen >= g /\ \A s \in saved : s.proof = row[h].token => s.gen >= g
TokensReached ==
    \A h \in Handles : \A s \in saved :
      s.proof = row[h].token => s.h = h /\ s.gen <= row[h].gen
ReceiptsReached == \A c \in receipts : Reached(c.h, c.gen + 1)
ConfigsReached ==
    \A m \in Machines : \A s \in saved :
      s.proof = config[m].token => s.h = config[m].h /\ Reached(s.h, s.gen)
GrantsReached ==
    \A r \in Requests : Granted(req[r]) => Reached(req[r].h, req[r].gen + 1)

\* A redemption is of a candidate that was written down, which is on a disk
\* while it can be granted; the other requests' credentials are no proofs.
CandidatesWritten ==
    \A r \in Requests : LET q == req[r] IN
      /\ Asking(q) \/ Granted(q) => Written(q.secret, q.h, q.gen + 1)
      /\ Asking(q) => \/ \E m \in Machines : pending[m].op = q.secret
                      \/ row[q.h].gen > q.gen
OthersPlain ==
    \A r \in Requests : LET q == req[r] IN
      /\ Enrolling(q) \/ Rotating(q) => ~Recovered(q.secret)
      /\ q.pc = "receipt" => q.secret # 0
      /\ q.pc = "rotate" => q.invite = None

\* What a command knows of the request it waits for.
Waits(m) == proc[m].pc = "wait"
OwnRequest ==
    \A m \in Machines : Waits(m) => LET q == req[proc[m].r] IN
      /\ q.pc = "refused" \/ Enrolling(q) \/ Rotating(q) \/ Asking(q) \/ Granted(q)
      /\ \A n \in Machines \ {m} : Waits(n) => proc[n].r # proc[m].r
TokenExpected ==
    \A m \in Machines : Waits(m) => LET q == req[proc[m].r] IN
      /\ Enrolling(q) => config[m].token = 0
      /\ Rotating(q) => q.old = config[m].token
      /\ Rotating(q) /\ q.pc = "token" =>
           \A h \in Handles : row[h].token = q.old => ~Recovered(q.old)
ReceiptExpected ==
    \A m \in Machines : Waits(m) => LET q == req[proc[m].r] IN
      Asking(q) \/ Granted(q) =>
        /\ pending[m].h = q.h /\ pending[m].gen = q.gen /\ pending[m].op = q.secret
        /\ config[m].h \in {None, q.h}

\* A pending candidate is written down, is forgotten when the configuration has
\* it, and is later than a token it would replace, or can never be granted.
PendingWritten ==
    \A m \in Machines : LET p == pending[m] IN
      /\ p.op # 0 => Written(p.op, p.h, p.gen + 1)
      /\ proc[m].pc = "forget" => p.op # 0 /\ config[m].token = p.op
Hopeless(p) ==
    /\ row[p.h].gen > p.gen
    /\ \A c \in receipts : c.op # p.op
    /\ \A r \in Requests : Granted(req[r]) => req[r].secret # p.op
PendingLater ==
    \A m \in Machines : \A s \in saved :
      s.h = pending[m].h /\ s.proof = config[m].token /\ s.proof # pending[m].op
        => s.gen <= pending[m].gen \/ Hopeless(pending[m])

CodesInv   == /\ SavedOnce /\ SecretsMinted
              /\ TokensReached /\ ReceiptsReached /\ ConfigsReached
RedeemsInv == GrantsReached /\ CandidatesWritten /\ OthersPlain
WaitsInv   == OwnRequest /\ TokenExpected /\ ReceiptExpected
DisksInv   == PendingWritten /\ PendingLater /\ CandidateKept
CandidateInv == CodesInv /\ RedeemsInv /\ WaitsInv /\ DisksInv

\* The numbers and names in all these, once the types are known.
LEMMA CandidateTypes ==
    ASSUME TypeOK
    PROVE  /\ minted \in Nat /\ None \notin Handles /\ None \notin Invites
           /\ \A h \in Handles : row[h].token \in Nat /\ row[h].gen \in Nat
           /\ \A s \in saved : s.h \in Handles /\ s.proof \in Nat \ {0} /\ s.gen \in Nat
           /\ \A m \in Machines :
                /\ config[m].token \in Nat /\ pending[m].op \in Nat /\ pending[m].gen \in Nat
                /\ config[m].h = None => config[m].token = 0
                /\ pending[m].h = None <=> pending[m].op = 0
                /\ pending[m].op # 0 => pending[m].h \in Handles
           /\ \A c \in receipts : c.h \in Handles /\ c.gen \in Nat /\ c.op \in Nat \ {0}
           /\ \A r \in Requests :
                /\ req[r].secret \in Nat /\ req[r].gen \in Nat /\ req[r].old \in Nat
                /\ req[r].pc # "free" => req[r].h \in Handles
                /\ Asking(req[r]) => req[r].secret # 0
           /\ \A m \in Machines : Waits(m) => proc[m].r \in Requests
<1> USE DEF TypeOK
<1>1. \A n \in 0..MaxSecret : n \in Nat  BY BoundsTyped
<1>2. \A n \in Secrets : n \in Nat \ {0}  BY BoundsTyped DEF Secrets
<1>3. minted \in Nat  BY <1>1 DEF CountersTyped
<1>4. None \notin Handles /\ None \notin Invites  BY AccountsAssumption
<1>5. \A h \in Handles : row[h].token \in Nat /\ row[h].gen \in Nat
  BY <1>1 DEF RelayTyped, Row
<1>6. \A s \in saved : s.h \in Handles /\ s.proof \in Nat \ {0} /\ s.gen \in Nat
  BY <1>2 DEF DiskTyped
<1>7. \A c \in receipts : c.h \in Handles /\ c.gen \in Nat /\ c.op \in Nat \ {0}
  BY <1>2 DEF RelayTyped
<1>8. ASSUME NEW m \in Machines
      PROVE  config[m].token \in Nat /\ (config[m].h = None => config[m].token = 0)
  <2>1. config[m] \in [h : Handles, token : 0..MaxSecret] \/ config[m] = NoConfig
    BY DEF DiskTyped
  <2> QED  BY <1>1, <1>4, <2>1 DEF NoConfig
<1>9. ASSUME NEW m \in Machines
      PROVE  /\ pending[m].op \in Nat /\ pending[m].gen \in Nat
             /\ pending[m].h = None <=> pending[m].op = 0
             /\ pending[m].op # 0 => pending[m].h \in Handles
  <2>1. pending[m] \in [h : Handles, gen : Nat, op : Secrets] \/ pending[m] = NoPending
    BY DEF DiskTyped
  <2> QED  BY <1>2, <1>4, <2>1 DEF NoPending
<1>10. ASSUME NEW r \in Requests
       PROVE  /\ req[r].secret \in Nat /\ req[r].gen \in Nat /\ req[r].old \in Nat
              /\ req[r].pc # "free" => req[r].h \in Handles
              /\ Asking(req[r]) => req[r].secret # 0
  <2>1. req[r] \in Request  OBVIOUS
  <2> QED  BY <1>1, <1>2, <2>1 DEF Request, Asking
<1>11. ASSUME NEW m \in Machines, Waits(m) PROVE proc[m].r \in Requests
  <2>1. proc[m] \in Process  OBVIOUS
  <2> QED  BY <1>11, <2>1 DEF Process, Waits
<1> QED  BY <1>3, <1>4, <1>5, <1>6, <1>7, <1>8, <1>9, <1>10, <1>11

-----------------------------------------------------------------------------
(* A handler goes on, and the relay's handles stay as they are.            *)

\* A handler's turn changes its stage and nothing else of it.
LEMMA TurnFacts ==
    ASSUME TypeOK, NEW r \in Requests, NEW pc \in Stages, Become(r, pc)
    PROVE  /\ \A x \in Requests \ {r} : req'[x] = req[x]
           /\ req'[r].pc = pc /\ req'[r].h = req[r].h /\ req'[r].gen = req[r].gen
           /\ req'[r].secret = req[r].secret /\ req'[r].old = req[r].old
           /\ req'[r].invite = req[r].invite
<1>1. req \in [Requests -> Request]  BY DEF TypeOK
<1>2. req[r] \in Request  BY <1>1
<1>3. req' = [req EXCEPT ![r] = [req[r] EXCEPT !.pc = pc]]  BY DEF Become
<1>4. req'[r] = [req[r] EXCEPT !.pc = pc]  BY <1>1, <1>3
<1>5. \A x \in Requests \ {r} : req'[x] = req[x]  BY <1>1, <1>3
<1> QED  BY <1>2, <1>4, <1>5 DEF Request

Turn(r, pc) ==
    /\ req[r].pc # "free" /\ Become(r, pc) /\ pc \in Stages
    /\ UNCHANGED <<minted, row, config, pending, proc, saved>>
    /\ receipts' \subseteq receipts
    /\ \/ pc = "refused"
       \/ pc = "enrol" /\ req[r].pc = "lookup"
       \/ pc \in {"read", "commit", "refind"} /\ Asking(req[r])
       \/ /\ pc = "evict" /\ Asking(req[r])
          /\ \E c \in receipts : /\ c.h = req[r].h /\ c.gen = req[r].gen
                                 /\ c.op = req[r].secret
       \/ /\ pc \in {"clear", "receipt"} /\ req[r].pc \in {"evict", "clear"}
          /\ pc = "receipt" => req[r].secret # 0
       \/ /\ pc = "answered"
          /\ \/ req[r].pc \in {"issue", "attach"}
             \/ req[r].pc \in {"evict", "clear"} /\ req[r].secret = 0

\* All handlers' steps but those that write a handle's row, end a handler or
\* begin one are such turns.
LEMMA Turns ==
    ASSUME TypeOK, NEW r \in Requests,
           \/ LookUpInvite(r) \/ FindReceipt(r) \/ ReadRow(r) \/ Refind(r)
           \/ Evict(r) \/ ClearJob(r) \/ EvictFails(r) \/ Attach(r)
           \/ Rotate(r) /\ row[req[r].h].token # req[r].old
           \/ Commit(r) /\ ~BatchApplies(req[r])
           \/ /\ Enrol(r) \/ Issue(r) \/ CommitFails(r)
              /\ UNCHANGED row /\ receipts' \subseteq receipts
    PROVE  \E pc \in Stages : Turn(r, pc)
<1> USE DEF Refuse, relay, disk, Asking
<1>1. {"enrol", "refused", "token", "read", "commit", "refind", "evict", "clear",
       "receipt", "answered"} \subseteq Stages
  BY DEF Stages
<1>2. CASE LookUpInvite(r)  BY <1>1, <1>2 DEF LookUpInvite, Turn
<1>3. CASE ReadRow(r)  BY <1>1, <1>3 DEF ReadRow, Turn
<1>4. ASSUME NEW q, q = req[r], Exact(q)
      PROVE  \E c \in receipts : /\ c.h = req[r].h /\ c.gen = req[r].gen
                                 /\ c.op = req[r].secret
  BY <1>4 DEF Exact, Receipt
<1>5. CASE FindReceipt(r)
  <2>1. \/ Become(r, "read") \/ (Become(r, "evict") /\ Exact(req[r]))
        \/ Become(r, "refused")
    BY <1>5 DEF FindReceipt
  <2> QED  BY <1>1, <1>4, <1>5, <2>1 DEF FindReceipt, Turn
<1>6. CASE Refind(r)
  <2>1. (Become(r, "evict") /\ Exact(req[r])) \/ Become(r, "refused")
    BY <1>6 DEF Refind
  <2> QED  BY <1>1, <1>4, <1>6, <2>1 DEF Refind, Turn
<1>7. CASE Evict(r)  BY <1>1, <1>7 DEF Evict, Turn
<1>8. CASE ClearJob(r) \/ EvictFails(r)
  <2>1. \/ req[r].secret = 0 /\ Become(r, "answered")
        \/ req[r].secret # 0 /\ Become(r, "receipt")
    BY <1>8 DEF ClearJob, EvictFails, Evicted
  <2> QED  BY <1>1, <1>8, <2>1 DEF ClearJob, EvictFails, Turn
<1>9. CASE Attach(r)  BY <1>1, <1>9 DEF Attach, Turn
<1>10. CASE Rotate(r) /\ row[req[r].h].token # req[r].old
  BY <1>1, <1>10 DEF Rotate, Turn
<1>11. CASE Commit(r) /\ ~BatchApplies(req[r])
  BY <1>1, <1>11 DEF Commit, Batch, Turn
<1>12. CASE Enrol(r) /\ UNCHANGED row /\ receipts' \subseteq receipts
  BY <1>1, <1>12 DEF Enrol, Turn
<1>13. CASE Issue(r) /\ UNCHANGED row /\ receipts' \subseteq receipts
  BY <1>1, <1>13 DEF Issue, Turn
<1>14. CASE CommitFails(r) /\ UNCHANGED row /\ receipts' \subseteq receipts
  BY <1>1, <1>14 DEF CommitFails, Turn
<1> QED  BY <1>2, <1>3, <1>5, <1>6, <1>7, <1>8, <1>9, <1>10, <1>11, <1>12, <1>13, <1>14

\* A turn keeps the invariant: a redemption is granted on a receipt only.
LEMMA TurnStep ==
    ASSUME TypeOK, CandidateInv, NEW r \in Requests, NEW pc \in Stages, Turn(r, pc)
    PROVE  CandidateInv'
<1> USE DEF CandidateInv, CodesInv, RedeemsInv, WaitsInv, DisksInv, Written, Reached, Recovered
<1>0. Asking(req[r]) => req[r].secret # 0  BY CandidateTypes
<1>1. /\ \A x \in Requests \ {r} : req'[x] = req[x]
      /\ req'[r].pc = pc /\ req'[r].h = req[r].h /\ req'[r].gen = req[r].gen
      /\ req'[r].secret = req[r].secret /\ req'[r].old = req[r].old
      /\ req'[r].invite = req[r].invite
  BY TurnFacts DEF Turn
<1>2. /\ UNCHANGED <<minted, row, config, pending, proc, saved>>
      /\ receipts' \subseteq receipts /\ req[r].pc # "free"
  BY DEF Turn
<1>3. /\ Asking(req'[r]) => Asking(req[r])
      /\ Enrolling(req'[r]) => Enrolling(req[r])
      /\ Rotating(req'[r]) => Rotating(req[r])
      /\ pc # "token" /\ pc # "rotate"
      /\ pc = "receipt" => req[r].secret # 0
  BY <1>1 DEF Turn, Asking, Enrolling, Rotating
<1>4. Granted(req'[r]) =>
        \/ Granted(req[r])
        \/ /\ Asking(req[r])
           /\ \E c \in receipts : /\ c.h = req[r].h /\ c.gen = req[r].gen
                                  /\ c.op = req[r].secret
  BY <1>1 DEF Turn, Asking, Granted
<1>5. ASSUME Enrolling(req[r]) \/ Rotating(req[r]) \/ Asking(req[r]) \/ Granted(req[r])
      PROVE  pc = "refused" \/ Enrolling(req'[r]) \/ Asking(req'[r]) \/ Granted(req'[r])
  <2>1. CASE pc = "enrol"  BY <1>1, <2>1 DEF Enrolling
  <2>2. CASE pc \in {"read", "commit", "refind"}  BY <1>1, <2>2 DEF Asking
  <2>3. CASE pc = "evict"  BY <1>1, <1>0, <2>3 DEF Turn, Granted
  <2>4. CASE pc \in {"clear", "receipt"}
    BY <1>1, <1>5, <2>4 DEF Turn, Enrolling, Rotating, Asking, Granted
  <2>5. CASE pc = "answered"
    BY <1>5, <2>5 DEF Turn, Enrolling, Rotating, Asking, Granted
  <2> QED  BY <2>1, <2>2, <2>3, <2>4, <2>5 DEF Turn
<1>6. req[r].pc # "refused" \/ pc = "refused"
  BY DEF Turn, Asking, Granted
<1>16. \A m \in Machines : Waits(m) => proc[m].r \in Requests  BY CandidateTypes
<1> USE <1>1, <1>2
<1>7. CodesInv'
  <2>1. SavedOnce' /\ TokensReached' /\ ReceiptsReached' /\ ConfigsReached'
    BY DEF SavedOnce, TokensReached, ReceiptsReached, ConfigsReached
  <2>2. SecretsMinted'  BY DEF SecretsMinted
  <2> QED  BY <2>1, <2>2
<1>8. GrantsReached'
  BY <1>4 DEF GrantsReached, ReceiptsReached
<1>9. CandidatesWritten'
  BY <1>3, <1>4 DEF CandidatesWritten
<1>10. OthersPlain'
  BY <1>3 DEF OthersPlain
<1>11. OwnRequest'
  BY <1>5, <1>6, <1>16 DEF OwnRequest, Waits
<1>12. TokenExpected'
  BY <1>3, <1>16 DEF TokenExpected, Waits
<1>13. ReceiptExpected'
  BY <1>3, <1>4, <1>16 DEF ReceiptExpected, Waits
<1>14. PendingWritten' /\ CandidateKept'
  BY DEF PendingWritten, CandidateKept
<1>15. PendingLater'
  BY <1>4 DEF PendingLater, Hopeless
<1> QED  BY <1>7, <1>8, <1>9, <1>10, <1>11, <1>12, <1>13, <1>14, <1>15

\* What is lost, discarded or refused takes no proof or token with it.
Dropped ==
    /\ UNCHANGED <<minted, row, receipts, config, pending, saved>>
    /\ \A x \in Requests : req'[x] \in {req[x], Free}
    /\ \A m \in Machines : proc'[m] \in {proc[m], Idle}
    /\ \A m \in Machines : proc'[m].pc = "wait" => req'[proc[m].r] = req[proc[m].r]

LEMMA DroppedStep ==
    ASSUME TypeOK, CandidateInv, Dropped
    PROVE  CandidateInv'
<1> USE DEF CandidateInv, CodesInv, RedeemsInv, WaitsInv, DisksInv, Written, Reached, Recovered
<1>1. /\ \A x \in Requests :
           \/ req'[x] = req[x]
           \/ req'[x].pc = "free" /\ req'[x].secret = 0
      /\ \A m \in Machines :
           proc'[m] = proc[m] \/ proc'[m].pc = "idle"
      /\ \A m \in Machines : proc'[m].pc = "wait" => req'[proc[m].r] = req[proc[m].r]
  BY DEF Dropped, Free, Idle
<1>2. UNCHANGED <<minted, row, receipts, config, pending, saved>>  BY DEF Dropped
<1>3. minted \in Nat  BY CandidateTypes
<1> USE <1>1, <1>2, <1>3 DEF Asking, Granted, Enrolling, Rotating
<1>4. CodesInv'
  <2>1. SavedOnce' /\ TokensReached' /\ ReceiptsReached' /\ ConfigsReached'
    BY DEF SavedOnce, TokensReached, ReceiptsReached, ConfigsReached
  <2>2. SecretsMinted'  BY DEF SecretsMinted
  <2> QED  BY <2>1, <2>2
<1>5. GrantsReached'  BY DEF GrantsReached
<1>6. CandidatesWritten'  BY DEF CandidatesWritten
<1>7. OthersPlain'  BY DEF OthersPlain
<1>8. OwnRequest'  BY DEF OwnRequest, Waits
<1>9. TokenExpected'  BY DEF TokenExpected, Waits
<1>10. ReceiptExpected'  BY DEF ReceiptExpected, Waits
<1>11. PendingWritten' /\ CandidateKept'  BY DEF PendingWritten, CandidateKept
<1>12. PendingLater'  BY DEF PendingLater, Hopeless
<1> QED  BY <1>4, <1>5, <1>6, <1>7, <1>8, <1>9, <1>10, <1>11, <1>12

\* A command lets its pending file go when its configuration has the candidate,
\* so no redemption of it can be granted any more.
LEMMA ForgetStep ==
    ASSUME TypeOK, CandidateInv, NEW m \in Machines, ForgetPending(m)
    PROVE  CandidateInv'
<1> USE DEF CandidateInv, CodesInv, RedeemsInv, WaitsInv, DisksInv, Written, Reached, Recovered
<1>1. /\ \A n \in Machines \ {m} : pending'[n] = pending[n] /\ proc'[n] = proc[n]
      /\ pending'[m].h = None /\ pending'[m].op = 0 /\ pending'[m].gen = 0
      /\ proc'[m].pc = "idle" /\ proc[m].pc = "forget"
  BY DEF ForgetPending, TypeOK, DiskTyped, NoPending, Idle
<1>2. UNCHANGED <<minted, row, receipts, config, saved, req>>
  BY DEF ForgetPending, relay
<1>3. pending[m].op # 0 /\ config[m].token = pending[m].op  BY <1>1 DEF PendingWritten
<1> USE <1>1, <1>2
<1>4. CodesInv'
  <2>1. SavedOnce' /\ TokensReached' /\ ReceiptsReached' /\ ConfigsReached'
    BY DEF SavedOnce, TokensReached, ReceiptsReached, ConfigsReached
  <2>2. SecretsMinted'  BY CandidateTypes DEF SecretsMinted
  <2> QED  BY <2>1, <2>2
<1>5. GrantsReached' /\ OthersPlain'  BY DEF GrantsReached, OthersPlain
<1>6. CandidatesWritten'
  <2>1. ASSUME NEW r \in Requests, Asking(req[r]), pending[m].op = req[r].secret
        PROVE  row[req[r].h].gen > req[r].gen
    <3>1. PICK s \in saved : s.proof = req[r].secret /\ s.h = req[r].h /\ s.gen = req[r].gen + 1
      BY <2>1 DEF CandidatesWritten
    <3>2. row[s.h].gen >= s.gen  BY <1>3, <2>1, <3>1 DEF ConfigsReached
    <3>3. req[r].gen \in Nat /\ req[r].h \in Handles  BY <2>1, CandidateTypes DEF Asking
    <3> QED  BY <3>1, <3>2, <3>3, CandidateTypes
  <2> QED  BY <2>1 DEF CandidatesWritten
<1>7. OwnRequest' /\ TokenExpected' /\ ReceiptExpected'
  BY DEF OwnRequest, TokenExpected, ReceiptExpected, Waits
<1>8. PendingWritten' /\ CandidateKept'  BY <1>3 DEF PendingWritten, CandidateKept
<1>9. PendingLater'
  <2>1. \A s \in saved : s.h # None  BY CandidateTypes
  <2> QED  BY <2>1 DEF PendingLater, Hopeless
<1> QED  BY <1>4, <1>5, <1>6, <1>7, <1>8, <1>9

-----------------------------------------------------------------------------
(* New requests.  A code that is saved with one is fresh, so nothing that  *)
(* is in force, or on a disk, is it.                                       *)

Noted ==
    /\ minted' \in Nat /\ minted <= minted' /\ saved \subseteq saved'
    /\ \A s \in saved' \ saved : minted < s.proof /\ s.proof <= minted'
    /\ \A s, t \in saved' \ saved : s = t
    /\ UNCHANGED <<row, receipts, config>>

\* What was written down stays so, and what is known of tokens stays true.
LEMMA NotedStep ==
    ASSUME TypeOK, CodesInv, Noted
    PROVE  /\ SavedOnce' /\ TokensReached' /\ ReceiptsReached' /\ ConfigsReached'
           /\ \A n \in Nat : n <= minted => (Recovered(n)' <=> Recovered(n))
           /\ \A h \in Handles, g \in Nat : Reached(h, g) => Reached(h, g)'
           /\ \A n, h, g : Written(n, h, g) => Written(n, h, g)'
<1> USE DEF Noted, CodesInv, Reached, Recovered, Written
<1>1. \A s \in saved : s.proof \in Nat /\ s.proof <= minted  BY CandidateTypes DEF SavedOnce
<1>2. minted \in Nat /\ \A h \in Handles : row[h].token \in Nat /\ row[h].token <= minted
  BY CandidateTypes DEF SecretsMinted
<1>3. \A m \in Machines : config[m].token \in Nat /\ config[m].token <= minted
  BY CandidateTypes DEF SecretsMinted
<1>4. \A s \in saved' : \A n \in Nat : s.proof = n /\ n <= minted => s \in saved
  BY <1>2
<1>5. SavedOnce'
  <2>1. \A s \in saved' : s.proof <= minted'  BY <1>1, <1>2
  <2>2. ASSUME NEW s \in saved', NEW t \in saved', s.proof = t.proof
        PROVE  s.h = t.h /\ s.gen = t.gen
    <3>1. CASE s \in saved /\ t \in saved  BY <2>2, <3>1 DEF SavedOnce
    <3>2. CASE s \notin saved /\ t \notin saved  BY <3>2
    <3>3. CASE s \in saved /\ t \notin saved  BY <1>1, <1>4, <2>2, <3>3
    <3>4. CASE s \notin saved /\ t \in saved  BY <1>1, <1>4, <2>2, <3>4
    <3> QED  BY <3>1, <3>2, <3>3, <3>4
  <2> QED  BY <2>1, <2>2 DEF SavedOnce
<1>6. \A h \in Handles, g \in Nat : Reached(h, g) => Reached(h, g)'  BY <1>2, <1>4
<1>7. TokensReached'  BY <1>2, <1>4 DEF TokensReached
<1>8. ReceiptsReached'
  <2>1. \A c \in receipts : c.h \in Handles /\ c.gen + 1 \in Nat  BY CandidateTypes
  <2> QED  BY <1>6, <2>1 DEF ReceiptsReached
<1>9. ConfigsReached'
  <2>1. \A s \in saved : s.h \in Handles /\ s.gen \in Nat  BY CandidateTypes
  <2> QED  BY <1>3, <1>4, <1>6, <2>1 DEF ConfigsReached
<1>10. \A n \in Nat : n <= minted => (Recovered(n)' <=> Recovered(n))  BY <1>4
<1>11. \A n, h, g : Written(n, h, g) => Written(n, h, g)'  OBVIOUS
<1> QED  BY <1>5, <1>6, <1>7, <1>8, <1>9, <1>10, <1>11

\* A request without a credential of its own: a connection, a drained eviction,
\* the issue of a code.
LEMMA QuietStep ==
    ASSUME TypeOK, CandidateInv, Noted, UNCHANGED <<pending, proc>>,
           NEW r \in Requests, req[r].pc = "free",
           \A x \in Requests \ {r} : req'[x] = req[x],
           req'[r].pc \in {"evict", "attach", "issue"},
           req'[r].pc = "evict" => req'[r].secret = 0,
           req'[r].secret <= minted'
    PROVE  CandidateInv'
<1> USE DEF CandidateInv, CodesInv, RedeemsInv, WaitsInv, DisksInv
<1>1. UNCHANGED <<row, receipts, config, pending, proc>> /\ minted <= minted' /\ minted' \in Nat
  BY DEF Noted
<1>2. /\ ~Asking(req'[r]) /\ ~Granted(req'[r]) /\ ~Enrolling(req'[r]) /\ ~Rotating(req'[r])
      /\ req'[r].pc # "receipt" /\ req'[r].pc # "rotate"
  BY DEF Asking, Granted, Enrolling, Rotating
<1>3. \A m \in Machines : Waits(m) => proc[m].r \in Requests \ {r}
  <2>1. ASSUME NEW m \in Machines, Waits(m), proc[m].r = r PROVE FALSE
    BY <2>1 DEF OwnRequest, Asking, Granted, Enrolling, Rotating
  <2> QED  BY <2>1, CandidateTypes
<1>4. /\ SavedOnce' /\ TokensReached' /\ ReceiptsReached' /\ ConfigsReached'
      /\ \A n \in Nat : n <= minted => (Recovered(n)' <=> Recovered(n))
      /\ \A h \in Handles, g \in Nat : Reached(h, g) => Reached(h, g)'
      /\ \A n, h, g : Written(n, h, g) => Written(n, h, g)'
  BY NotedStep
<1>5. /\ \A x \in Requests : /\ req[x].secret \in Nat /\ req[x].secret <= minted
                             /\ req[x].gen \in Nat
                             /\ Granted(req[x]) => req[x].h \in Handles
      /\ \A m \in Machines : config[m].token \in Nat /\ config[m].token <= minted
      /\ \A h \in Handles : row[h].token \in Nat /\ row[h].token <= minted
  BY CandidateTypes DEF SecretsMinted, Granted
<1>6. SecretsMinted'  BY <1>1, CandidateTypes DEF SecretsMinted
<1>7. GrantsReached'  BY <1>2, <1>4, <1>5 DEF GrantsReached
<1>8. CandidatesWritten'  BY <1>1, <1>2, <1>4 DEF CandidatesWritten
<1>9. OthersPlain'  BY <1>2, <1>4, <1>5 DEF OthersPlain
<1>10. OwnRequest' /\ ReceiptExpected'
  BY <1>1, <1>3 DEF OwnRequest, ReceiptExpected, Waits
<1>11. TokenExpected'
  BY <1>1, <1>3, <1>4, <1>5 DEF TokenExpected, Waits
<1>12. PendingWritten'  BY <1>1, <1>4 DEF PendingWritten
<1>13. CandidateKept'  BY <1>1, <1>4, <1>5 DEF CandidateKept
<1>14. PendingLater'
  <2>1. \A s \in saved' : \A m \in Machines : s.proof = config[m].token => s \in saved
    BY <1>5, CandidateTypes DEF Noted
  <2> QED  BY <1>1, <1>2, <2>1 DEF PendingLater, Hopeless
<1> QED  BY <1>4, <1>6, <1>7, <1>8, <1>9, <1>10, <1>11, <1>12, <1>13, <1>14

\* A command asks for a new credential: an installation that has none, or one
\* that shows the one it has.
LEMMA MintStep ==
    ASSUME TypeOK, CandidateInv, Noted, UNCHANGED <<pending, saved>>,
           NEW r \in Requests, req[r].pc = "free",
           \A x \in Requests \ {r} : req'[x] = req[x],
           minted < req'[r].secret, req'[r].secret <= minted', req'[r].secret \in Nat,
           NEW m \in Machines, proc[m].pc = "idle",
           \A n \in Machines \ {m} : proc'[n] = proc[n],
           proc'[m].pc = "wait", proc'[m].r = r,
           \/ req'[r].pc = "lookup" /\ req'[r].invite # None /\ config[m].token = 0
           \/ /\ req'[r].pc = "rotate" /\ req'[r].invite = None
              /\ req'[r].old = config[m].token
    PROVE  CandidateInv'
<1> USE DEF CandidateInv, CodesInv, RedeemsInv, WaitsInv, DisksInv
<1>1. /\ UNCHANGED <<row, receipts, config, pending, saved>>
      /\ minted <= minted' /\ minted' \in Nat
  BY DEF Noted
<1>2. /\ ~Asking(req'[r]) /\ ~Granted(req'[r])
      /\ req'[r].pc # "receipt" /\ req'[r].pc # "token"
      /\ req'[r].pc = "rotate" => req'[r].invite = None
      /\ Enrolling(req'[r]) \/ Rotating(req'[r])
      /\ Enrolling(req'[r]) => config[m].token = 0
      /\ Rotating(req'[r]) => req'[r].old = config[m].token
  BY DEF Asking, Granted, Enrolling, Rotating
<1>3. \A n \in Machines : Waits(n) => n # m /\ proc[n].r \in Requests \ {r}
  <2>1. ASSUME NEW n \in Machines, Waits(n), proc[n].r = r PROVE FALSE
    BY <2>1 DEF OwnRequest, Asking, Granted, Enrolling, Rotating
  <2> QED  BY <2>1, CandidateTypes DEF Waits
<1>4. /\ SavedOnce' /\ TokensReached' /\ ReceiptsReached' /\ ConfigsReached'
      /\ \A n : Recovered(n)' <=> Recovered(n)
      /\ \A h, g : Reached(h, g) => Reached(h, g)'
      /\ \A n, h, g : Written(n, h, g) => Written(n, h, g)'
  BY <1>1, NotedStep DEF Recovered, Reached, Written
<1>5. ~Recovered(req'[r].secret)
  BY CandidateTypes DEF Recovered, SavedOnce
<1>6. SecretsMinted'  BY <1>1, CandidateTypes DEF SecretsMinted
<1>7. GrantsReached'  BY <1>2, <1>4 DEF GrantsReached
<1>8. CandidatesWritten'  BY <1>1, <1>2, <1>4 DEF CandidatesWritten
<1>9. OthersPlain'  BY <1>2, <1>4, <1>5 DEF OthersPlain
<1>10. OwnRequest'
  <2>1. ASSUME NEW n \in Machines, proc'[n].pc = "wait", n # m
        PROVE  Waits(n) /\ proc'[n] = proc[n] /\ req'[proc[n].r] = req[proc[n].r]
    BY <1>3, <2>1 DEF Waits
  <2>2. ASSUME NEW n \in Machines, proc'[n].pc = "wait", n # m,
               NEW k \in Machines \ {n}, proc'[k].pc = "wait"
        PROVE  proc'[k].r # proc'[n].r
    BY <1>3, <2>1, <2>2 DEF OwnRequest, Waits
  <2>3. ASSUME NEW k \in Machines \ {m}, proc'[k].pc = "wait" PROVE proc'[k].r # r
    BY <1>3, <2>1, <2>3
  <2>4. ASSUME NEW n \in Machines, proc'[n].pc = "wait", n # m
        PROVE  LET q == req'[proc'[n].r] IN
               q.pc = "refused" \/ Enrolling(q) \/ Rotating(q) \/ Asking(q) \/ Granted(q)
    BY <2>1, <2>4 DEF OwnRequest
  <2> QED  BY <1>2, <2>2, <2>3, <2>4 DEF OwnRequest, Waits
<1>11. TokenExpected'  BY <1>1, <1>2, <1>3, <1>4 DEF TokenExpected, Waits
<1>12. ReceiptExpected'  BY <1>1, <1>2, <1>3 DEF ReceiptExpected, Waits
<1>13. PendingWritten'  BY <1>1, <1>4 DEF PendingWritten
<1>14. CandidateKept'  BY <1>1, <1>4 DEF CandidateKept
<1>15. PendingLater'  BY <1>1, <1>2 DEF PendingLater, Hopeless
<1> QED  BY <1>4, <1>6, <1>7, <1>8, <1>9, <1>10, <1>11, <1>12, <1>13, <1>14, <1>15

\* A command asks to redeem: a fresh candidate, in the place of none, or the
\* pending one again.  A fresh one that is no later than the token in the
\* configuration can never be granted.
LEMMA AskStep ==
    ASSUME TypeOK, CandidateInv, Noted,
           NEW r \in Requests, req[r].pc = "free", req'[r].pc = "find",
           \A x \in Requests \ {r} : req'[x] = req[x],
           NEW m \in Machines, proc[m].pc = "idle",
           \A n \in Machines \ {m} : proc'[n] = proc[n] /\ pending'[n] = pending[n],
           proc'[m].pc = "wait", proc'[m].r = r,
           pending'[m].h = req'[r].h, pending'[m].gen = req'[r].gen,
           pending'[m].op = req'[r].secret,
           config[m].h \in {None, req'[r].h},
           req'[r].h \in Handles, req'[r].gen \in Nat, req'[r].secret \in Nat \ {0},
           \E s \in saved' : /\ s.proof = req'[r].secret /\ s.h = req'[r].h
                             /\ s.gen = req'[r].gen + 1,
           \/ pending'[m] = pending[m]
           \/ pending[m].op = 0 /\ minted < req'[r].secret /\ req'[r].secret <= minted'
    PROVE  CandidateInv'
<1> USE DEF CandidateInv, CodesInv, RedeemsInv, WaitsInv, DisksInv
<1>1. UNCHANGED <<row, receipts, config>> /\ minted <= minted' /\ minted' \in Nat /\ minted \in Nat
  BY CandidateTypes DEF Noted
<1>2. /\ ~Granted(req'[r]) /\ ~Enrolling(req'[r]) /\ ~Rotating(req'[r]) /\ Asking(req'[r])
      /\ req'[r].pc # "receipt" /\ req'[r].pc # "rotate"
  BY DEF Asking, Granted, Enrolling, Rotating
<1>3. \A n \in Machines : Waits(n) => n # m /\ proc[n].r \in Requests \ {r}
  <2>1. ASSUME NEW n \in Machines, Waits(n), proc[n].r = r PROVE FALSE
    BY <2>1 DEF OwnRequest, Asking, Granted, Enrolling, Rotating
  <2> QED  BY <2>1, CandidateTypes DEF Waits
<1>4. /\ SavedOnce' /\ TokensReached' /\ ReceiptsReached' /\ ConfigsReached'
      /\ \A n \in Nat : n <= minted => (Recovered(n)' <=> Recovered(n))
      /\ \A h \in Handles, g \in Nat : Reached(h, g) => Reached(h, g)'
      /\ \A n, h, g : Written(n, h, g) => Written(n, h, g)'
  BY NotedStep
<1>5. /\ \A x \in Requests : /\ req[x].secret \in Nat /\ req[x].secret <= minted
                             /\ req[x].gen \in Nat
                             /\ Granted(req[x]) => req[x].h \in Handles
                             /\ Asking(req[x]) => req[x].secret # 0
      /\ \A n \in Machines : /\ config[n].token \in Nat /\ config[n].token <= minted
                             /\ pending[n].op \in Nat /\ pending[n].op <= minted
      /\ \A h \in Handles : row[h].token \in Nat /\ row[h].token <= minted
      /\ \A c \in receipts : c.op \in Nat /\ c.op <= minted
  BY CandidateTypes DEF SecretsMinted, Granted
<1>6. SecretsMinted'
  <2>1. \A n \in Machines : config'[n].token <= minted' /\ pending'[n].op <= minted'
    BY <1>1, <1>5
  <2>2. \A x \in Requests : req'[x].secret <= minted'
    <3>1. req'[r].secret <= minted'  BY <1>1, <1>5
    <3> QED  BY <1>1, <1>5, <3>1
  <2> QED  BY <1>1, <1>5, <2>1, <2>2 DEF SecretsMinted
<1>7. GrantsReached'  BY <1>2, <1>4, <1>5 DEF GrantsReached
<1>8. CandidatesWritten'
  <2>1. ASSUME NEW x \in Requests, x # r, Asking(req[x])
        PROVE  (\E n \in Machines : pending'[n].op = req[x].secret) \/ row[req[x].h].gen > req[x].gen
    <3>1. CASE \E n \in Machines : pending[n].op = req[x].secret
      <4>1. PICK n \in Machines : pending[n].op = req[x].secret  BY <3>1
      <4>2. n # m \/ pending'[m] = pending[m]  BY <1>5, <2>1, <4>1
      <4> QED  BY <4>1, <4>2
    <3> QED  BY <2>1, <3>1 DEF CandidatesWritten
  <2>2. ASSUME NEW x \in Requests, x # r, Asking(req[x]) \/ Granted(req[x])
        PROVE  \E s \in saved' : /\ s.proof = req[x].secret /\ s.h = req[x].h
                                 /\ s.gen = req[x].gen + 1
    BY <2>2 DEF Noted, CandidatesWritten, Written
  <2> QED  BY <1>1, <1>2, <2>1, <2>2 DEF CandidatesWritten, Written
<1>9. OthersPlain'  BY <1>2, <1>4, <1>5 DEF OthersPlain
<1>10. OwnRequest'
  <2>1. ASSUME NEW n \in Machines, proc'[n].pc = "wait", n # m
        PROVE  Waits(n) /\ proc'[n] = proc[n] /\ req'[proc[n].r] = req[proc[n].r]
    BY <1>3, <2>1 DEF Waits
  <2>2. ASSUME NEW n \in Machines, proc'[n].pc = "wait", n # m,
               NEW k \in Machines \ {n}, proc'[k].pc = "wait"
        PROVE  proc'[k].r # proc'[n].r
    BY <1>3, <2>1, <2>2 DEF OwnRequest, Waits
  <2>3. ASSUME NEW k \in Machines \ {m}, proc'[k].pc = "wait" PROVE proc'[k].r # r
    BY <1>3, <2>1, <2>3
  <2>4. ASSUME NEW n \in Machines, proc'[n].pc = "wait", n # m
        PROVE  LET q == req'[proc'[n].r] IN
               q.pc = "refused" \/ Enrolling(q) \/ Rotating(q) \/ Asking(q) \/ Granted(q)
    BY <2>1, <2>4 DEF OwnRequest
  <2> QED  BY <1>2, <2>2, <2>3, <2>4 DEF OwnRequest, Waits
<1>11. TokenExpected'  BY <1>1, <1>2, <1>3, <1>4, <1>5 DEF TokenExpected, Waits
<1>12. ReceiptExpected'  BY <1>1, <1>2, <1>3 DEF ReceiptExpected, Waits
<1>13. PendingWritten'
  <2>1. \A n \in Machines \ {m} : pending[n].op # 0 =>
          \E s \in saved' : /\ s.proof = pending[n].op /\ s.h = pending[n].h
                            /\ s.gen = pending[n].gen + 1
    BY DEF Noted, PendingWritten, Written
  <2>2. \E s \in saved' : /\ s.proof = pending'[m].op /\ s.h = pending'[m].h
                          /\ s.gen = pending'[m].gen + 1
    OBVIOUS
  <2>3. \A n \in Machines \ {m} : proc'[n].pc = "forget" =>
          pending'[n].op # 0 /\ config'[n].token = pending'[n].op
    BY <1>1 DEF PendingWritten
  <2> QED  BY <2>1, <2>2, <2>3 DEF PendingWritten, Written
<1>14. CandidateKept'
  <2>1. ASSUME NEW h \in Handles, Recovered(row[h].token)
        PROVE  \E n \in Machines : row[h].token \in {config[n].token, pending'[n].op}
    <3>1. PICK n \in Machines : row[h].token \in {config[n].token, pending[n].op}
      BY <2>1 DEF CandidateKept
    <3>2. row[h].token # 0  BY <2>1, CandidateTypes DEF Recovered
    <3>3. pending'[n] = pending[n] \/ pending[n].op = 0  OBVIOUS
    <3> QED  BY <3>1, <3>2, <3>3
  <2> QED  BY <1>1, <1>4, <1>5, <2>1 DEF CandidateKept
<1>15. PendingLater'
  <2>1. \A s \in saved' : \A n \in Machines : s.proof = config[n].token => s \in saved
    BY <1>1, <1>5 DEF Noted
  <2>2. ASSUME NEW n \in Machines, pending'[n] = pending[n], NEW s \in saved,
               s.h = pending[n].h, s.proof = config[n].token, s.proof # pending[n].op
        PROVE  s.gen <= pending[n].gen \/ Hopeless(pending[n])'
    BY <1>1, <1>2, <2>2 DEF PendingLater, Hopeless
  <2>3. ASSUME pending'[m] # pending[m], NEW s \in saved,
               s.h = pending'[m].h, s.proof = config[m].token, ~(s.gen <= pending'[m].gen)
        PROVE  Hopeless(pending[m])'
    <3>1. s.gen \in Nat /\ s.h \in Handles /\ row[s.h].gen \in Nat /\ row[s.h].gen >= s.gen
      BY <2>3, CandidateTypes DEF ConfigsReached, Reached
    <3>2. row'[pending'[m].h].gen > pending'[m].gen  BY <1>1, <2>3, <3>1
    <3>3. \A c \in receipts' : c.op # pending'[m].op  BY <1>1, <1>5, <2>3
    <3>4. \A x \in Requests : Granted(req'[x]) => req'[x].secret # pending'[m].op
      BY <1>1, <1>2, <1>5, <2>3
    <3> QED  BY <3>2, <3>3, <3>4 DEF Hopeless
  <2> QED  BY <1>1, <2>1, <2>2, <2>3 DEF PendingLater, Hopeless
<1> QED  BY <1>4, <1>6, <1>7, <1>8, <1>9, <1>10, <1>11, <1>12, <1>13, <1>14, <1>15

-----------------------------------------------------------------------------
(* A command gets its answer and writes its configuration.                 *)

\* What an answer with a credential does.
LEMMA ReceiveFacts ==
    ASSUME TypeOK, CandidateInv, NEW m \in Machines, Receive(m), req[proc[m].r].pc # "refused"
    PROVE  /\ Waits(m) /\ proc[m].r \in Requests /\ req[proc[m].r].pc \in {"token", "receipt"}
           /\ \A x \in Requests \ {proc[m].r} : req'[x] = req[x]
           /\ req'[proc[m].r].pc = "free" /\ req'[proc[m].r].secret = 0
           /\ \A n \in Machines \ {m} : config'[n] = config[n] /\ proc'[n] = proc[n]
           /\ config'[m].h = req[proc[m].r].h /\ config'[m].token = req[proc[m].r].secret
           /\ proc'[m].pc = IF req[proc[m].r].pc = "receipt" THEN "forget" ELSE "idle"
           /\ UNCHANGED <<minted, row, receipts, pending, saved>>
<1>1. Waits(m) /\ proc[m].r \in Requests  BY CandidateTypes DEF Receive, Waits
<1>2. /\ req \in [Requests -> Request] /\ proc \in [Machines -> Process]
      /\ config \in [Machines -> [h : Handles, token : 0..MaxSecret] \cup {NoConfig}]
  BY DEF TypeOK, DiskTyped
<1>3. /\ req' = [req EXCEPT ![proc[m].r] = Free]
      /\ config' = [config EXCEPT ![m] = [h |-> req[proc[m].r].h,
                                          token |-> req[proc[m].r].secret]]
      /\ proc' = [proc EXCEPT ![m] = IF req[proc[m].r].pc = "receipt"
                                     THEN [pc |-> "forget", r |-> None] ELSE Idle]
      /\ req[proc[m].r].pc \in {"token", "receipt"}
      /\ UNCHANGED <<minted, row, receipts, pending, saved>>
  BY DEF Receive, relay
<1> QED  BY <1>1, <1>2, <1>3 DEF Free, Idle

\* A new token is not a recovered one, and the one it replaces is no longer
\* in force, or there was none.
LEMMA TokenStep ==
    ASSUME TypeOK, CandidateInv, NEW m \in Machines, Receive(m), req[proc[m].r].pc = "token"
    PROVE  CandidateInv'
<1> USE DEF CandidateInv, CodesInv, RedeemsInv, WaitsInv, DisksInv, Written, Reached, Recovered
<1>1. PICK r \in Requests : r = proc[m].r  BY ReceiveFacts
<1>2. /\ Waits(m) /\ req[r].pc = "token"
      /\ \A x \in Requests \ {r} : req'[x] = req[x]
      /\ req'[r].pc = "free" /\ req'[r].secret = 0
      /\ \A n \in Machines \ {m} : config'[n] = config[n] /\ proc'[n] = proc[n]
      /\ config'[m].token = req[r].secret /\ proc'[m].pc = "idle"
      /\ UNCHANGED <<minted, row, receipts, pending, saved>>
  BY <1>1, ReceiveFacts
<1>3. /\ Enrolling(req[r]) \/ Rotating(req[r])
      /\ ~Asking(req'[r]) /\ ~Granted(req'[r]) /\ ~Enrolling(req'[r]) /\ ~Rotating(req'[r])
  BY <1>2 DEF Asking, Granted, Enrolling, Rotating
<1>4. \A s \in saved : s.proof # req[r].secret
  BY <1>3 DEF OthersPlain
<1>5. \A h \in Handles : row[h].token = config[m].token => ~Recovered(row[h].token)
  <2>1. \A s \in saved : s.proof # 0  BY CandidateTypes
  <2>2. CASE Enrolling(req[r])  BY <1>1, <1>2, <2>1, <2>2 DEF TokenExpected
  <2>3. CASE Rotating(req[r])  BY <1>1, <1>2, <2>3 DEF TokenExpected
  <2> QED  BY <1>3, <2>2, <2>3
<1>6. \A n \in Machines : proc'[n].pc = "wait" => n # m /\ Waits(n) /\ proc[n].r \in Requests \ {r}
  <2>1. ASSUME NEW n \in Machines \ {m}, Waits(n) PROVE proc[n].r # r
    BY <1>1, <1>2, <2>1 DEF OwnRequest
  <2>2. \A n \in Machines \ {m} : Waits(n) => proc[n].r \in Requests \ {r}
    BY <2>1, CandidateTypes
  <2> QED  BY <1>2, <2>2 DEF Waits
<1>7. minted \in Nat  BY CandidateTypes
<1> USE <1>2
<1>8. CodesInv'
  <2>1. SavedOnce' /\ TokensReached' /\ ReceiptsReached'
    BY DEF SavedOnce, TokensReached, ReceiptsReached
  <2>2. ConfigsReached'  BY <1>4 DEF ConfigsReached
  <2>3. SecretsMinted'  BY <1>7 DEF SecretsMinted
  <2> QED  BY <2>1, <2>2, <2>3
<1>9. GrantsReached'  BY <1>3 DEF GrantsReached
<1>10. CandidatesWritten'  BY <1>3 DEF CandidatesWritten
<1>11. OthersPlain'  BY <1>3 DEF OthersPlain
<1>12. OwnRequest'  BY <1>6 DEF OwnRequest, Waits
<1>13. TokenExpected'  BY <1>6 DEF TokenExpected, Waits
<1>14. ReceiptExpected'  BY <1>6 DEF ReceiptExpected, Waits
<1>15. PendingWritten'  BY DEF PendingWritten
<1>16. CandidateKept'  BY <1>5 DEF CandidateKept
<1>17. PendingLater'  BY <1>3, <1>4 DEF PendingLater, Hopeless
<1> QED  BY <1>8, <1>9, <1>10, <1>11, <1>12, <1>13, <1>14, <1>15, <1>16, <1>17

\* A granted candidate takes the place of a token that was recovered earlier,
\* and is not in force any more.
LEMMA ReceiptStep ==
    ASSUME TypeOK, CandidateInv, NEW m \in Machines, Receive(m), req[proc[m].r].pc = "receipt"
    PROVE  CandidateInv'
<1> USE DEF CandidateInv, CodesInv, RedeemsInv, WaitsInv, DisksInv, Written, Reached, Recovered
<1>1. PICK r \in Requests : r = proc[m].r  BY ReceiveFacts
<1>2. /\ Waits(m) /\ req[r].pc = "receipt"
      /\ \A x \in Requests \ {r} : req'[x] = req[x]
      /\ req'[r].pc = "free" /\ req'[r].secret = 0
      /\ \A n \in Machines \ {m} : config'[n] = config[n] /\ proc'[n] = proc[n]
      /\ config'[m].h = req[r].h /\ config'[m].token = req[r].secret
      /\ proc'[m].pc = "forget"
      /\ UNCHANGED <<minted, row, receipts, pending, saved>>
  BY <1>1, ReceiveFacts
<1>3. /\ Granted(req[r])
      /\ ~Asking(req'[r]) /\ ~Granted(req'[r]) /\ ~Enrolling(req'[r]) /\ ~Rotating(req'[r])
      /\ req[r].h \in Handles /\ req[r].gen \in Nat
  BY <1>2, CandidateTypes DEF Asking, Granted, Enrolling, Rotating, OthersPlain
<1>4. /\ pending[m].h = req[r].h /\ pending[m].gen = req[r].gen /\ pending[m].op = req[r].secret
      /\ config[m].h \in {None, req[r].h} /\ req[r].secret # 0
  BY <1>1, <1>2, <1>3 DEF ReceiptExpected, Granted
<1>5. /\ row[req[r].h].gen >= req[r].gen + 1
      /\ \A s \in saved : s.proof = row[req[r].h].token => s.gen >= req[r].gen + 1
  BY <1>3 DEF GrantsReached
<1>6. \A s \in saved : s.proof = req[r].secret => s.h = req[r].h /\ s.gen = req[r].gen + 1
  BY <1>3 DEF CandidatesWritten, SavedOnce
<1>7. \A n \in Machines : proc'[n].pc = "wait" => n # m /\ Waits(n) /\ proc[n].r \in Requests \ {r}
  <2>1. ASSUME NEW n \in Machines \ {m}, Waits(n) PROVE proc[n].r # r
    BY <1>1, <1>2, <2>1 DEF OwnRequest
  <2>2. \A n \in Machines \ {m} : Waits(n) => proc[n].r \in Requests \ {r}
    BY <2>1, CandidateTypes
  <2> QED  BY <1>2, <2>2 DEF Waits
<1>8. ASSUME NEW h \in Handles, NEW s \in saved, s.proof = row[h].token,
             row[h].token = config[m].token
      PROVE  s.proof = req[r].secret
  <2>1. s.h = h /\ s.h = config[m].h  BY <1>8 DEF TokensReached, ConfigsReached
  <2>2. s.h = req[r].h
    <3>1. s.h \in Handles /\ None \notin Handles  BY CandidateTypes
    <3> QED  BY <1>4, <2>1, <3>1
  <2>3. s.gen >= req[r].gen + 1  BY <1>5, <1>8, <2>1, <2>2
  <2>4. ASSUME s.proof # pending[m].op PROVE FALSE
    <3>1. s.gen <= pending[m].gen \/ Hopeless(pending[m])
      BY <1>4, <1>8, <2>2, <2>4 DEF PendingLater
    <3>2. ~Hopeless(pending[m])  BY <1>3, <1>4 DEF Hopeless
    <3>3. s.gen \in Nat  BY CandidateTypes
    <3> QED  BY <1>3, <1>4, <2>3, <3>1, <3>2, <3>3
  <2> QED  BY <1>4, <2>4
<1>9. minted \in Nat  BY CandidateTypes
<1> USE <1>2
<1>10. CodesInv'
  <2>1. SavedOnce' /\ TokensReached' /\ ReceiptsReached'
    BY DEF SavedOnce, TokensReached, ReceiptsReached
  <2>2. ConfigsReached'  BY <1>5, <1>6 DEF ConfigsReached
  <2>3. SecretsMinted'  BY <1>9 DEF SecretsMinted
  <2> QED  BY <2>1, <2>2, <2>3
<1>11. GrantsReached'  BY <1>3 DEF GrantsReached
<1>12. CandidatesWritten'  BY <1>3 DEF CandidatesWritten
<1>13. OthersPlain'  BY <1>3 DEF OthersPlain
<1>14. OwnRequest'  BY <1>7 DEF OwnRequest, Waits
<1>15. TokenExpected'  BY <1>7 DEF TokenExpected, Waits
<1>16. ReceiptExpected'  BY <1>7 DEF ReceiptExpected, Waits
<1>17. PendingWritten'  BY <1>4 DEF PendingWritten
<1>18. CandidateKept'  BY <1>8 DEF CandidateKept
<1>19. PendingLater'  BY <1>3, <1>4 DEF PendingLater, Hopeless
<1> QED  BY <1>10, <1>11, <1>12, <1>13, <1>14, <1>15, <1>16, <1>17, <1>18, <1>19

-----------------------------------------------------------------------------
(* The relay writes a handle's row.                                        *)

\* What a handler's write of its handle's row leaves alone.
Writing(r, pc) ==
    /\ req[r].pc # "free" /\ pc \in Stages /\ Become(r, pc)
    /\ \A h \in Handles \ {req[r].h} : row'[h] = row[h]
    /\ UNCHANGED <<minted, config, pending, proc, saved>>

\* A registration or rotation puts a token in force that is not a recovered
\* one; what a rotation replaces was in force for this handle only.
LEMMA PlacedStep ==
    ASSUME TypeOK, CandidateInv, NEW r \in Requests, Writing(r, "token"),
           UNCHANGED receipts,
           row'[req[r].h].token = req[r].secret, row'[req[r].h].gen = row[req[r].h].gen,
           \/ req[r].pc = "enrol"
           \/ req[r].pc = "rotate" /\ row[req[r].h].token = req[r].old
    PROVE  CandidateInv'
<1> USE DEF CandidateInv, CodesInv, RedeemsInv, WaitsInv, DisksInv, Written, Reached, Recovered
<1>1. /\ \A x \in Requests \ {r} : req'[x] = req[x]
      /\ req'[r].pc = "token" /\ req'[r].h = req[r].h /\ req'[r].gen = req[r].gen
      /\ req'[r].secret = req[r].secret /\ req'[r].old = req[r].old
      /\ req'[r].invite = req[r].invite
  BY TurnFacts DEF Writing
<1>2. /\ UNCHANGED <<minted, config, pending, proc, saved, receipts>>
      /\ \A h \in Handles \ {req[r].h} : row'[h] = row[h]
      /\ req[r].h \in Handles
  BY CandidateTypes DEF Writing
<1>3. /\ ~Asking(req'[r]) /\ ~Granted(req'[r])
      /\ Enrolling(req[r]) \/ Rotating(req[r])
      /\ Enrolling(req'[r]) => Enrolling(req[r])
      /\ Rotating(req'[r]) => Rotating(req[r]) /\ row[req[r].h].token = req[r].old
  <2>1. req[r].pc = "enrol" => req[r].invite \in Invites
    BY RequestFacts DEF TypeOK
  <2>2. req[r].pc = "rotate" => req[r].invite = None  BY DEF OthersPlain
  <2>3. None \notin Invites  BY CandidateTypes
  <2> QED  BY <1>1, <2>1, <2>2, <2>3 DEF Asking, Granted, Enrolling, Rotating
<1>4. \A s \in saved : s.proof # req[r].secret  BY <1>3 DEF OthersPlain
<1>5. \A m \in Machines : Waits(m) => proc[m].r \in Requests  BY CandidateTypes
<1>6. /\ \A h \in Handles : row'[h].gen = row[h].gen
      /\ \A h \in Handles : row'[h].token = row[h].token \/ row'[h].token = req[r].secret
  BY <1>2
<1>7. \A h \in Handles, g \in Nat : Reached(h, g) => Reached(h, g)'  BY <1>2, <1>4, <1>6
<1> USE <1>1, <1>2
<1>8. CodesInv'
  <2>1. SavedOnce'  BY DEF SavedOnce
  <2>2. TokensReached'  BY <1>4, <1>6 DEF TokensReached
  <2>3. ReceiptsReached'
    <3>1. \A c \in receipts : c.h \in Handles /\ c.gen + 1 \in Nat  BY CandidateTypes
    <3> QED  BY <1>7, <3>1 DEF ReceiptsReached
  <2>4. ConfigsReached'
    <3>1. \A s \in saved : s.h \in Handles /\ s.gen \in Nat  BY CandidateTypes
    <3> QED  BY <1>7, <3>1 DEF ConfigsReached
  <2>5. SecretsMinted'  BY <1>6 DEF SecretsMinted
  <2> QED  BY <2>1, <2>2, <2>3, <2>4, <2>5
<1>9. GrantsReached'
  <2>1. \A x \in Requests : Granted(req[x]) => req[x].h \in Handles /\ req[x].gen + 1 \in Nat
    BY CandidateTypes DEF Granted
  <2> QED  BY <1>3, <1>7, <2>1 DEF GrantsReached
<1>10. CandidatesWritten'
  <2>1. \A x \in Requests : Asking(req[x]) => req[x].h \in Handles
    BY CandidateTypes DEF Asking
  <2> QED  BY <1>3, <1>6, <2>1 DEF CandidatesWritten
<1>11. OthersPlain'  BY <1>3 DEF OthersPlain
<1>12. OwnRequest'
  <2>1. Enrolling(req'[r]) \/ Rotating(req'[r])  BY DEF Enrolling, Rotating
  <2> QED  BY <1>5, <2>1 DEF OwnRequest, Waits
<1>13. TokenExpected'
  <2>1. ASSUME NEW h \in Handles, row'[h].token = req[r].old, Rotating(req'[r])
        PROVE  ~Recovered(req[r].old)
    <3>1. CASE row'[h].token = req[r].secret  BY <1>4, <2>1, <3>1
    <3>2. CASE h # req[r].h  BY <1>3, <2>1, <3>2 DEF TokensReached
    <3> QED  BY <3>1, <3>2
  <2>2. ASSUME NEW m \in Machines, Waits(m), proc[m].r # r, NEW h \in Handles,
               Rotating(req[proc[m].r]), req[proc[m].r].pc = "token",
               row'[h].token = req[proc[m].r].old
        PROVE  ~Recovered(req[proc[m].r].old)
    BY <1>4, <1>6, <2>2 DEF TokenExpected
  <2>3. ASSUME NEW m \in Machines, Waits(m)
        PROVE  /\ Enrolling(req'[proc[m].r]) => config[m].token = 0
               /\ Rotating(req'[proc[m].r]) => req'[proc[m].r].old = config[m].token
    BY <1>3, <1>5, <2>3 DEF TokenExpected
  <2> QED  BY <1>5, <2>1, <2>2, <2>3 DEF TokenExpected, Waits
<1>14. ReceiptExpected'  BY <1>3, <1>5 DEF ReceiptExpected, Waits
<1>15. PendingWritten'  BY DEF PendingWritten
<1>16. CandidateKept'  BY <1>4, <1>6 DEF CandidateKept
<1>17. PendingLater'
  <2>1. \A s \in saved : s.h \in Handles  BY CandidateTypes
  <2> QED  BY <1>3, <1>6, <2>1 DEF PendingLater, Hopeless
<1> QED  BY <1>8, <1>9, <1>10, <1>11, <1>12, <1>13, <1>14, <1>15, <1>16, <1>17

\* The issue of a code moves the generation on and leaves the token.
LEMMA IssuedStep ==
    ASSUME TypeOK, CandidateInv, NEW r \in Requests, Writing(r, "answered"),
           UNCHANGED receipts, req[r].pc = "issue",
           row'[req[r].h].token = row[req[r].h].token,
           row'[req[r].h].gen = row[req[r].h].gen + 1
    PROVE  CandidateInv'
<1> USE DEF CandidateInv, CodesInv, RedeemsInv, WaitsInv, DisksInv, Written, Reached, Recovered
<1>1. /\ \A x \in Requests \ {r} : req'[x] = req[x]
      /\ req'[r].pc = "answered" /\ req'[r].secret = req[r].secret
  BY TurnFacts DEF Writing, Stages
<1>2. /\ UNCHANGED <<minted, config, pending, proc, saved, receipts>>
      /\ \A h \in Handles \ {req[r].h} : row'[h] = row[h]
      /\ req[r].h \in Handles
  BY CandidateTypes DEF Writing
<1>3. ~Asking(req'[r]) /\ ~Granted(req'[r]) /\ ~Enrolling(req'[r]) /\ ~Rotating(req'[r])
  BY <1>1 DEF Asking, Granted, Enrolling, Rotating
<1>4. \A m \in Machines : Waits(m) => proc[m].r \in Requests \ {r}
  <2>1. ASSUME NEW m \in Machines, Waits(m), proc[m].r = r PROVE FALSE
    BY <2>1 DEF OwnRequest, Asking, Granted, Enrolling, Rotating
  <2> QED  BY <2>1, CandidateTypes
<1>5. /\ \A h \in Handles : /\ row'[h].token = row[h].token
                            /\ row[h].gen \in Nat /\ row'[h].gen \in Nat
                            /\ row'[h].gen >= row[h].gen
  BY <1>2, CandidateTypes
<1>6. \A h \in Handles, g \in Nat : Reached(h, g) => Reached(h, g)'  BY <1>2, <1>5
<1> USE <1>1, <1>2
<1>7. CodesInv'
  <2>1. SavedOnce' /\ SecretsMinted'  BY <1>5 DEF SavedOnce, SecretsMinted
  <2>2. TokensReached'
    <3>1. \A s \in saved : s.gen \in Nat  BY CandidateTypes
    <3> QED  BY <1>5, <3>1 DEF TokensReached
  <2>3. ReceiptsReached'
    <3>1. \A c \in receipts : c.h \in Handles /\ c.gen + 1 \in Nat  BY CandidateTypes
    <3> QED  BY <1>6, <3>1 DEF ReceiptsReached
  <2>4. ConfigsReached'
    <3>1. \A s \in saved : s.h \in Handles /\ s.gen \in Nat  BY CandidateTypes
    <3> QED  BY <1>6, <3>1 DEF ConfigsReached
  <2> QED  BY <2>1, <2>2, <2>3, <2>4
<1>8. GrantsReached'
  <2>1. \A x \in Requests : Granted(req[x]) => req[x].h \in Handles /\ req[x].gen + 1 \in Nat
    BY CandidateTypes DEF Granted
  <2> QED  BY <1>3, <1>6, <2>1 DEF GrantsReached
<1>9. CandidatesWritten'
  <2>1. \A x \in Requests : req[x].gen \in Nat /\ (Asking(req[x]) => req[x].h \in Handles)
    BY CandidateTypes DEF Asking
  <2> QED  BY <1>3, <1>5, <2>1 DEF CandidatesWritten
<1>10. OthersPlain'  BY <1>3 DEF OthersPlain
<1>11. OwnRequest'  BY <1>4 DEF OwnRequest, Waits
<1>12. TokenExpected'  BY <1>4, <1>5 DEF TokenExpected, Waits
<1>13. ReceiptExpected'  BY <1>4 DEF ReceiptExpected, Waits
<1>14. PendingWritten'  BY DEF PendingWritten
<1>15. CandidateKept'  BY <1>5 DEF CandidateKept
<1>16. PendingLater'
  <2>1. /\ \A s \in saved : s.h \in Handles
        /\ \A m \in Machines : pending[m].gen \in Nat
    BY CandidateTypes
  <2> QED  BY <1>3, <1>5, <2>1 DEF PendingLater, Hopeless
<1> QED  BY <1>7, <1>8, <1>9, <1>10, <1>11, <1>12, <1>13, <1>14, <1>15, <1>16

\* A redemption is committed: its candidate is on a disk, was never in a
\* configuration, and now all that was known of the handle's generation is
\* known of the next one.
LEMMA CommittedStep ==
    ASSUME TypeOK, CandidateInv, NEW r \in Requests, NEW pc \in {"evict", "refind"},
           Writing(r, pc), req[r].pc = "commit",
           row[req[r].h].gen = req[r].gen,
           row'[req[r].h].token = req[r].secret, row'[req[r].h].gen = req[r].gen + 1,
           \A c \in receipts' : \/ c \in receipts
                                \/ c.h = req[r].h /\ c.gen = req[r].gen /\ c.op = req[r].secret
    PROVE  CandidateInv'
<1> USE DEF CandidateInv, CodesInv, RedeemsInv, WaitsInv, DisksInv, Written, Reached, Recovered
<1>1. /\ \A x \in Requests \ {r} : req'[x] = req[x]
      /\ req'[r].pc = pc /\ req'[r].h = req[r].h /\ req'[r].gen = req[r].gen
      /\ req'[r].secret = req[r].secret
  BY TurnFacts DEF Writing
<1>2. /\ UNCHANGED <<minted, config, pending, proc, saved>>
      /\ \A h \in Handles \ {req[r].h} : row'[h] = row[h]
      /\ req[r].h \in Handles /\ req[r].gen \in Nat /\ req[r].secret \in Nat \ {0}
      /\ req[r].secret <= minted
  BY CandidateTypes DEF Writing, SecretsMinted, Asking
<1>3. /\ Asking(req[r])
      /\ (pc = "refind" /\ Asking(req'[r])) \/ (pc = "evict" /\ Granted(req'[r]))
      /\ ~Enrolling(req'[r]) /\ ~Rotating(req'[r])
      /\ req'[r].pc # "receipt" /\ req'[r].pc # "rotate" /\ pc # "refused"
  BY <1>1, <1>2 DEF Asking, Granted, Enrolling, Rotating
<1>4. \A m \in Machines : Waits(m) => proc[m].r \in Requests  BY CandidateTypes
<1>5. \A s \in saved : s.proof = req[r].secret => s.h = req[r].h /\ s.gen = req[r].gen + 1
  BY <1>3 DEF CandidatesWritten, SavedOnce
<1>6. /\ \A h \in Handles : /\ row[h].gen \in Nat /\ row'[h].gen \in Nat
                            /\ row'[h].gen >= row[h].gen
      /\ \A h \in Handles : row'[h].token = row[h].token \/ row'[h].token = req[r].secret
  <2>1. \A h \in Handles : row[h].gen \in Nat  BY CandidateTypes
  <2> QED  BY <1>2, <2>1
<1>7. \A h \in Handles, g \in Nat : Reached(h, g) => Reached(h, g)'
  <2>1. ASSUME NEW h \in Handles, NEW g \in Nat, Reached(h, g), h = req[r].h PROVE Reached(h, g)'
    BY <1>2, <1>5, <2>1
  <2>2. ASSUME NEW h \in Handles, NEW g \in Nat, Reached(h, g), h # req[r].h PROVE Reached(h, g)'
    BY <1>2, <2>2
  <2> QED  BY <2>1, <2>2
<1>8. /\ row'[req[r].h].gen >= req[r].gen + 1
      /\ \A s \in saved : s.proof = row'[req[r].h].token => s.gen >= req[r].gen + 1
  BY <1>2, <1>5
<1>9. \A m \in Machines : config[m].token # req[r].secret
  <2>1. ASSUME NEW m \in Machines, config[m].token = req[r].secret PROVE FALSE
    <3>1. PICK s \in saved : s.proof = req[r].secret /\ s.h = req[r].h /\ s.gen = req[r].gen + 1
      BY <1>3 DEF CandidatesWritten
    <3>2. row[s.h].gen >= s.gen  BY <2>1, <3>1 DEF ConfigsReached
    <3> QED  BY <1>2, <3>1, <3>2
  <2> QED  BY <2>1
<1>10. \A m \in Machines : pending[m].op = req[r].secret =>
         pending[m].h = req[r].h /\ pending[m].gen = req[r].gen
  <2>1. ASSUME NEW m \in Machines, pending[m].op = req[r].secret
        PROVE  pending[m].h = req[r].h /\ pending[m].gen = req[r].gen
    <3>1. PICK s \in saved : /\ s.proof = pending[m].op /\ s.h = pending[m].h
                             /\ s.gen = pending[m].gen + 1
      BY <1>2, <2>1 DEF PendingWritten
    <3>2. pending[m].gen \in Nat  BY CandidateTypes
    <3> QED  BY <1>2, <1>5, <2>1, <3>1, <3>2
  <2> QED  BY <2>1
<1> USE <1>1, <1>2
<1>11. CodesInv'
  <2>1. SavedOnce'  BY DEF SavedOnce
  <2>2. SecretsMinted'  BY <1>6 DEF SecretsMinted
  <2>3. TokensReached'
    <3>1. \A s \in saved : s.gen \in Nat  BY CandidateTypes
    <3>2. ASSUME NEW h \in Handles, h = req[r].h, NEW s \in saved, s.proof = row'[h].token
          PROVE  s.h = h /\ s.gen <= row'[h].gen
      BY <1>5, <3>1, <3>2
    <3>3. ASSUME NEW h \in Handles, h # req[r].h, NEW s \in saved, s.proof = row'[h].token
          PROVE  s.h = h /\ s.gen <= row'[h].gen
      BY <3>1, <3>3 DEF TokensReached
    <3> QED  BY <3>2, <3>3 DEF TokensReached
  <2>4. ReceiptsReached'
    <3>1. \A c \in receipts : c.h \in Handles /\ c.gen + 1 \in Nat  BY CandidateTypes
    <3> QED  BY <1>7, <1>8, <3>1 DEF ReceiptsReached
  <2>5. ConfigsReached'
    <3>1. \A s \in saved : s.h \in Handles /\ s.gen \in Nat  BY CandidateTypes
    <3> QED  BY <1>7, <3>1 DEF ConfigsReached
  <2> QED  BY <2>1, <2>2, <2>3, <2>4, <2>5
<1>12. GrantsReached'
  <2>1. \A x \in Requests : Granted(req[x]) => req[x].h \in Handles /\ req[x].gen + 1 \in Nat
    BY CandidateTypes DEF Granted
  <2> QED  BY <1>7, <1>8, <2>1 DEF GrantsReached
<1>13. CandidatesWritten'
  <2>1. \A x \in Requests : req[x].gen \in Nat /\ (Asking(req[x]) => req[x].h \in Handles)
    BY CandidateTypes DEF Asking
  <2> QED  BY <1>3, <1>6, <2>1 DEF CandidatesWritten
<1>14. OthersPlain'  BY <1>3 DEF OthersPlain
<1>15. OwnRequest'  BY <1>3, <1>4 DEF OwnRequest, Waits
<1>16. TokenExpected'
  <2>1. ASSUME NEW m \in Machines, Waits(m), proc[m].r # r, NEW h \in Handles,
               Rotating(req[proc[m].r]), req[proc[m].r].pc = "token",
               row'[h].token = req[proc[m].r].old
        PROVE  ~Recovered(req[proc[m].r].old)
    <3>1. req[proc[m].r].old # req[r].secret  BY <1>9, <2>1 DEF TokenExpected
    <3> QED  BY <1>6, <2>1, <3>1 DEF TokenExpected
  <2>2. ASSUME NEW m \in Machines, Waits(m)
        PROVE  /\ Enrolling(req'[proc[m].r]) => config[m].token = 0
               /\ Rotating(req'[proc[m].r]) => req'[proc[m].r].old = config[m].token
    BY <1>3, <1>4, <2>2 DEF TokenExpected
  <2> QED  BY <1>3, <1>4, <2>1, <2>2 DEF TokenExpected, Waits
<1>17. ReceiptExpected'  BY <1>3, <1>4 DEF ReceiptExpected, Waits
<1>18. PendingWritten'  BY DEF PendingWritten
<1>19. CandidateKept'
  <2>1. \E m \in Machines : pending[m].op = req[r].secret
    BY <1>3 DEF CandidatesWritten
  <2> QED  BY <1>6, <2>1 DEF CandidateKept
<1>20. PendingLater'
  <2>1. ASSUME NEW m \in Machines, pending[m].h \in Handles, Hopeless(pending[m])
        PROVE  pending[m].op # req[r].secret
    BY <1>10, <2>1 DEF Hopeless
  <2>2. ASSUME NEW m \in Machines, pending[m].h \in Handles, Hopeless(pending[m])
        PROVE  /\ row'[pending[m].h].gen > pending[m].gen
               /\ \A c \in receipts' : c.op # pending[m].op
               /\ \A x \in Requests : Granted(req'[x]) => req'[x].secret # pending[m].op
    <3>1. pending[m].gen \in Nat  BY CandidateTypes
    <3> QED  BY <1>6, <2>1, <2>2, <3>1 DEF Hopeless
  <2>3. \A s \in saved : s.h \in Handles  BY CandidateTypes
  <2> QED  BY <2>2, <2>3 DEF PendingLater, Hopeless
<1> QED  BY <1>11, <1>12, <1>13, <1>14, <1>15, <1>16, <1>17, <1>18, <1>19, <1>20

-----------------------------------------------------------------------------
(* Every action is one of these steps.                                     *)

\* The steps of a handler that goes on.
LEMMA HandlerKeepsCandidates ==
    ASSUME TypeOK, CandidateInv, NEW r \in Requests,
           \/ LookUpInvite(r) \/ Enrol(r) \/ Rotate(r) \/ Issue(r)
           \/ FindReceipt(r) \/ ReadRow(r) \/ Commit(r) \/ CommitFails(r) \/ Refind(r)
           \/ Evict(r) \/ ClearJob(r) \/ EvictFails(r) \/ Attach(r)
    PROVE  CandidateInv'
<1>1. ASSUME \/ LookUpInvite(r) \/ FindReceipt(r) \/ ReadRow(r) \/ Refind(r)
             \/ Evict(r) \/ ClearJob(r) \/ EvictFails(r) \/ Attach(r)
             \/ Rotate(r) /\ row[req[r].h].token # req[r].old
             \/ Commit(r) /\ ~BatchApplies(req[r])
             \/ /\ Enrol(r) \/ Issue(r) \/ CommitFails(r)
                /\ UNCHANGED row /\ receipts' \subseteq receipts
      PROVE  CandidateInv'
  BY <1>1, Turns, TurnStep
<1>2. row \in [Handles -> Row] /\ \A h \in Handles : row[h] \in Row
  BY DEF TypeOK, RelayTyped
<1>3. req[r].pc # "free" => req[r].h \in Handles  BY CandidateTypes
<1>4. {"token", "answered", "evict", "refind"} \subseteq Stages  BY DEF Stages
<1>5. CASE Enrol(r)
  <2>1. req[r].pc = "enrol" /\ UNCHANGED <<minted, receipts, config, pending, proc, saved>>
    BY <1>5 DEF Enrol, disk
  <2>2. CASE row' = row  BY <1>1, <1>5, <2>1, <2>2
  <2>3. CASE row' # row
    <3>1. /\ row' = [row EXCEPT ![req[r].h] = [NoRow EXCEPT !.token = req[r].secret,
                                                            !.via = req[r].invite]]
          /\ row[req[r].h] = NoRow /\ Become(r, "token")
      BY <1>5, <2>3 DEF Enrol, Enrolled
    <3>2. /\ row'[req[r].h].token = req[r].secret
          /\ row'[req[r].h].gen = row[req[r].h].gen
          /\ \A h \in Handles \ {req[r].h} : row'[h] = row[h]
      BY <1>2, <1>3, <2>1, <3>1 DEF NoRow
    <3>3. Writing(r, "token")  BY <1>4, <2>1, <3>1, <3>2 DEF Writing
    <3> QED  BY <2>1, <3>2, <3>3, PlacedStep
  <2> QED  BY <2>2, <2>3
<1>6. CASE Rotate(r)
  <2>1. req[r].pc = "rotate" /\ UNCHANGED <<minted, receipts, config, pending, proc, saved>>
    BY <1>6 DEF Rotate, disk
  <2>2. CASE row[req[r].h].token # req[r].old  BY <1>1, <1>6, <2>2
  <2>3. CASE row[req[r].h].token = req[r].old
    <3>1. /\ row' = [row EXCEPT ![req[r].h] = [row[req[r].h] EXCEPT !.token = req[r].secret]]
          /\ Become(r, "token")
      BY <1>6, <2>3 DEF Rotate
    <3>2. /\ row'[req[r].h].token = req[r].secret
          /\ row'[req[r].h].gen = row[req[r].h].gen
          /\ \A h \in Handles \ {req[r].h} : row'[h] = row[h]
      BY <1>2, <1>3, <2>1, <3>1 DEF Row
    <3>3. Writing(r, "token")  BY <1>4, <2>1, <3>1, <3>2 DEF Writing
    <3> QED  BY <2>1, <2>3, <3>2, <3>3, PlacedStep
  <2> QED  BY <2>2, <2>3
<1>7. CASE Issue(r)
  <2>1. /\ req[r].pc = "issue" /\ Become(r, "answered")
        /\ UNCHANGED <<minted, receipts, config, pending, proc, saved>>
    BY <1>7 DEF Issue, disk
  <2>2. CASE row' = row  BY <1>1, <1>7, <2>1, <2>2
  <2>3. CASE row' # row
    <3>1. /\ row' = [row EXCEPT ![req[r].h] = [row[req[r].h] EXCEPT !.proof = req[r].secret,
                                                                    !.gen = req[r].gen + 1]]
          /\ row[req[r].h].gen = req[r].gen
      BY <1>7, <2>3 DEF Issue
    <3>2. /\ row'[req[r].h].token = row[req[r].h].token
          /\ row'[req[r].h].gen = row[req[r].h].gen + 1
          /\ \A h \in Handles \ {req[r].h} : row'[h] = row[h]
      BY <1>2, <1>3, <2>1, <3>1 DEF Row
    <3>3. Writing(r, "answered")  BY <1>4, <2>1, <3>2 DEF Writing
    <3> QED  BY <2>1, <3>2, <3>3, IssuedStep
  <2> QED  BY <2>2, <2>3
<1>8. ASSUME Batch(req[r]), BatchApplies(req[r]), req[r].pc = "commit",
             NEW pc \in {"evict", "refind"}, Become(r, pc),
             UNCHANGED <<minted, config, pending, proc, saved>>
      PROVE  CandidateInv'
  <2>1. /\ row' = [row EXCEPT ![req[r].h] = [row[req[r].h] EXCEPT
                     !.token = req[r].secret, !.proof = req[r].secret, !.gen = req[r].gen + 1]]
        /\ receipts' = {c \in receipts : c.until > now}
             \cup {[h |-> req[r].h, gen |-> req[r].gen, op |-> req[r].secret,
                    proof |-> req[r].old, until |-> now + ReceiptTtl]}
        /\ row[req[r].h].gen = req[r].gen
    BY <1>8 DEF Batch, BatchApplies, Matches
  <2>2. /\ row'[req[r].h].token = req[r].secret
        /\ row'[req[r].h].gen = req[r].gen + 1
        /\ \A h \in Handles \ {req[r].h} : row'[h] = row[h]
    BY <1>2, <1>3, <1>8, <2>1 DEF Row
  <2>3. \A c \in receipts' : \/ c \in receipts
                             \/ c.h = req[r].h /\ c.gen = req[r].gen /\ c.op = req[r].secret
    BY <2>1
  <2>4. Writing(r, pc)  BY <1>4, <1>8, <2>2 DEF Writing
  <2> QED  BY <1>8, <2>1, <2>2, <2>3, <2>4, CommittedStep
<1>9. CASE Commit(r)
  <2>1. CASE BatchApplies(req[r])
    <3>1. /\ Batch(req[r]) /\ req[r].pc = "commit" /\ Become(r, "evict")
          /\ UNCHANGED <<minted, config, pending, proc, saved>>
      BY <1>9, <2>1 DEF Commit, disk
    <3> QED  BY <1>8, <2>1, <3>1
  <2> QED  BY <1>1, <1>9, <2>1
<1>10. CASE CommitFails(r)
  <2>1. /\ req[r].pc = "commit" /\ Become(r, "refind")
        /\ UNCHANGED <<minted, config, pending, proc, saved>>
        /\ Batch(req[r]) \/ UNCHANGED <<row, receipts>>
    BY <1>10 DEF CommitFails, disk, relay
  <2>2. CASE Batch(req[r]) /\ BatchApplies(req[r])  BY <1>8, <2>1, <2>2
  <2>3. CASE Batch(req[r]) /\ ~BatchApplies(req[r])
    <3>1. UNCHANGED row /\ receipts' \subseteq receipts  BY <2>3 DEF Batch
    <3> QED  BY <1>1, <1>10, <3>1
  <2>4. CASE UNCHANGED <<row, receipts>>  BY <1>1, <1>10, <2>4
  <2> QED  BY <2>1, <2>2, <2>3, <2>4
<1> QED  BY <1>1, <1>5, <1>6, <1>7, <1>9, <1>10

\* What is lost or discarded, and what has no part in recovery.
LEMMA OthersDrop ==
    ASSUME TypeOK, CandidateInv,
           \/ Tick \/ UNCHANGED vars
           \/ \E i \in Invites : CreateInvite(i) \/ RevokeInvite(i)
           \/ \E r \in Requests : Discard(r) \/ Lose(r)
           \/ \E m \in Machines : Crash(m) \/ (Receive(m) /\ req[proc[m].r].pc = "refused")
    PROVE  CandidateInv'
<1>1. /\ req \in [Requests -> Request] /\ proc \in [Machines -> Process]
      /\ config \in [Machines -> [h : Handles, token : 0..MaxSecret] \cup {NoConfig}]
  BY DEF TypeOK, DiskTyped
<1>2. CASE \/ Tick \/ UNCHANGED vars
           \/ \E i \in Invites : CreateInvite(i) \/ RevokeInvite(i)
  <2>1. Dropped
    BY <1>2 DEF Tick, vars, CreateInvite, RevokeInvite, Dropped, relay, disk
  <2> QED  BY <2>1, DroppedStep
<1>3. ASSUME NEW r \in Requests, Discard(r) PROVE CandidateInv'
  <2>1. Dropped  BY <1>1, <1>3 DEF Discard, Dropped, relay, disk
  <2> QED  BY <2>1, DroppedStep
<1>4. ASSUME NEW r \in Requests, Lose(r) PROVE CandidateInv'
  <2>1. Dropped  BY <1>1, <1>4 DEF Lose, Dropped, relay, disk, Idle
  <2> QED  BY <2>1, DroppedStep
<1>5. ASSUME NEW m \in Machines, Crash(m) PROVE CandidateInv'
  <2>1. Dropped  BY <1>1, <1>5 DEF Crash, Dropped, relay, disk, Idle
  <2> QED  BY <2>1, DroppedStep
<1>6. ASSUME NEW m \in Machines, Receive(m), req[proc[m].r].pc = "refused"
      PROVE  CandidateInv'
  <2>1. /\ UNCHANGED <<minted, row, receipts, config, pending, saved>>
        /\ req' = [req EXCEPT ![proc[m].r] = Free]
        /\ proc' = [proc EXCEPT ![m] = Idle]
        /\ Waits(m)
    BY <1>6 DEF Receive, relay, Waits
  <2>2. \A n \in Machines \ {m} : Waits(n) => proc[n].r # proc[m].r
    BY <2>1 DEF CandidateInv, WaitsInv, OwnRequest
  <2>3. Dropped  BY <1>1, <2>1, <2>2 DEF Dropped, Waits, Idle
  <2> QED  BY <2>3, DroppedStep
<1> QED  BY <1>2, <1>3, <1>4, <1>5, <1>6

\* A command's new request, and the drain's.
LEMMA AsksKeepCandidates ==
    ASSUME TypeOK, CandidateInv, NEW r \in Requests,
           \/ \E h \in Handles : Drain(r, h)
           \/ \E m \in Machines :
                \/ StartRotate(m, r) \/ StartIssue(m, r) \/ Connect(m, r)
                \/ \E i \in Invites, h \in Handles : Setup(m, r, i, h)
                \/ \E s \in saved : StartRedeem(m, r, s) \/ Resume(m, r, s)
    PROVE  CandidateInv'
<1> USE DEF Send, Await
<1>1. /\ req \in [Requests -> Request] /\ proc \in [Machines -> Process]
      /\ minted \in Nat /\ None \notin Invites /\ None \notin Handles
      /\ pending \in [Machines -> [h : Handles, gen : Nat, op : Secrets] \cup {NoPending}]
  BY CandidateTypes DEF TypeOK, DiskTyped
<1>2. Mint => minted' = minted + 1 /\ Fresh = minted + 1 /\ Fresh \in Nat \ {0}
  BY <1>1 DEF Mint, Fresh
<1>3. UNCHANGED <<minted, saved, row, receipts, config>> => Noted
  BY <1>1 DEF Noted
<1>4. ASSUME NEW h \in Handles, Drain(r, h) PROVE CandidateInv'
  <2>1. /\ UNCHANGED <<minted, saved, row, receipts, config, pending, proc>>
        /\ req[r].pc = "free" /\ \A x \in Requests \ {r} : req'[x] = req[x]
        /\ req'[r].pc = "evict" /\ req'[r].secret = 0
    BY <1>1, <1>4 DEF Drain, relay, disk, Free
  <2> QED  BY <1>1, <1>3, <2>1, QuietStep
<1>5. ASSUME NEW m \in Machines, Connect(m, r) PROVE CandidateInv'
  <2>1. /\ UNCHANGED <<minted, saved, row, receipts, config, pending, proc>>
        /\ req[r].pc = "free" /\ \A x \in Requests \ {r} : req'[x] = req[x]
        /\ req'[r].pc = "attach" /\ req'[r].secret = 0
    BY <1>1, <1>5 DEF Connect, relay, disk, Free
  <2> QED  BY <1>1, <1>3, <2>1, QuietStep
<1>6. ASSUME NEW m \in Machines, StartIssue(m, r) PROVE CandidateInv'
  <2>1. /\ UNCHANGED <<row, receipts, config, pending, proc>> /\ Mint
        /\ req[r].pc = "free" /\ \A x \in Requests \ {r} : req'[x] = req[x]
        /\ req'[r].pc = "issue" /\ req'[r].secret = Fresh
        /\ saved' = saved \cup {[h |-> config[m].h, proof |-> Fresh,
                                 gen |-> row[config[m].h].gen + 1]}
    BY <1>1, <1>6 DEF StartIssue, relay, disk, Free
  <2>2. Noted  BY <1>1, <1>2, <2>1 DEF Noted
  <2> QED  BY <1>2, <2>1, <2>2, QuietStep
<1>7. ASSUME NEW m \in Machines, StartRotate(m, r) PROVE CandidateInv'
  <2>1. /\ UNCHANGED <<row, receipts, config, pending, saved>> /\ Mint
        /\ req[r].pc = "free" /\ \A x \in Requests \ {r} : req'[x] = req[x]
        /\ req'[r].pc = "rotate" /\ req'[r].secret = Fresh
        /\ req'[r].invite = None /\ req'[r].old = config[m].token
        /\ proc[m].pc = "idle" /\ \A n \in Machines \ {m} : proc'[n] = proc[n]
        /\ proc'[m].pc = "wait" /\ proc'[m].r = r
    BY <1>1, <1>7 DEF StartRotate, relay, disk, Free
  <2>2. Noted  BY <1>1, <1>2, <2>1 DEF Noted
  <2> QED  BY <1>1, <1>2, <2>1, <2>2, MintStep
<1>8. ASSUME NEW m \in Machines, NEW i \in Invites, NEW h \in Handles, Setup(m, r, i, h)
      PROVE  CandidateInv'
  <2>1. /\ UNCHANGED <<row, receipts, config, pending, saved>> /\ Mint
        /\ req[r].pc = "free" /\ \A x \in Requests \ {r} : req'[x] = req[x]
        /\ req'[r].pc = "lookup" /\ req'[r].secret = Fresh /\ req'[r].invite = i
        /\ proc[m].pc = "idle" /\ \A n \in Machines \ {m} : proc'[n] = proc[n]
        /\ proc'[m].pc = "wait" /\ proc'[m].r = r
    BY <1>1, <1>8 DEF Setup, relay, disk, Free
  <2>2. config[m].token = 0
    <3>1. config[m] = NoConfig  BY <1>8 DEF Setup
    <3>2. NoConfig.token = 0  BY DEF NoConfig
    <3> QED  BY <3>1, <3>2
  <2>3. Noted  BY <1>1, <1>2, <2>1 DEF Noted
  <2> HIDE DEF Send, Await
  <2> QED  BY <1>1, <1>2, <2>1, <2>2, <2>3, MintStep
<1>9. ASSUME NEW m \in Machines, NEW s \in saved, StartRedeem(m, r, s) PROVE CandidateInv'
  <2>1. /\ UNCHANGED <<row, receipts, config>> /\ Mint /\ pending[m] = NoPending
        /\ req[r].pc = "free" /\ \A x \in Requests \ {r} : req'[x] = req[x]
        /\ req'[r].pc = "find" /\ req'[r].secret = Fresh
        /\ req'[r].h = s.h /\ req'[r].gen = s.gen /\ config[m].h \in {None, s.h}
        /\ proc[m].pc = "idle" /\ \A n \in Machines \ {m} : proc'[n] = proc[n]
        /\ proc'[m].pc = "wait" /\ proc'[m].r = r
        /\ saved' = saved \cup {[h |-> s.h, proof |-> Fresh, gen |-> s.gen + 1]}
        /\ pending' = [pending EXCEPT ![m] = [h |-> s.h, gen |-> s.gen, op |-> Fresh]]
    BY <1>1, <1>9 DEF StartRedeem, WritesPending, Redemption, relay
  <2>2. Noted  BY <1>1, <1>2, <2>1 DEF Noted
  <2>3. /\ pending'[m].h = s.h /\ pending'[m].gen = s.gen /\ pending'[m].op = Fresh
        /\ \A n \in Machines \ {m} : pending'[n] = pending[n]
        /\ pending[m].op = 0
    BY <1>1, <2>1 DEF NoPending
  <2>4. s.h \in Handles /\ s.gen \in Nat  BY CandidateTypes
  <2>5. \E t \in saved' : t.proof = Fresh /\ t.h = s.h /\ t.gen = s.gen + 1
    <3>1. \E t : t = [h |-> s.h, proof |-> Fresh, gen |-> s.gen + 1]  OBVIOUS
    <3>2. PICK t : t = [h |-> s.h, proof |-> Fresh, gen |-> s.gen + 1]  BY <3>1
    <3>3. t \in saved'  BY <2>1, <3>2
    <3> QED  BY <3>2, <3>3
  <2> HIDE DEF Send, Await
  <2> QED  BY <1>1, <1>2, <2>1, <2>2, <2>3, <2>4, <2>5, AskStep
<1>10. ASSUME NEW m \in Machines, NEW s \in saved, Resume(m, r, s) PROVE CandidateInv'
  <2>1. /\ UNCHANGED <<minted, saved, row, receipts, config, pending>>
        /\ pending[m] # NoPending
        /\ req[r].pc = "free" /\ \A x \in Requests \ {r} : req'[x] = req[x]
        /\ req'[r].pc = "find" /\ req'[r].secret = pending[m].op
        /\ req'[r].h = pending[m].h /\ req'[r].gen = pending[m].gen
        /\ config[m].h \in {None, pending[m].h}
        /\ proc[m].pc = "idle" /\ \A n \in Machines \ {m} : proc'[n] = proc[n]
        /\ proc'[m].pc = "wait" /\ proc'[m].r = r
    BY <1>1, <1>10 DEF Resume, Redemption, relay, disk
  <2>2. pending[m] \in [h : Handles, gen : Nat, op : Secrets]  BY <1>1, <2>1
  <2>3. /\ pending[m].h \in Handles /\ pending[m].gen \in Nat
        /\ pending[m].op \in Nat \ {0}
    BY <2>2, BoundsTyped DEF Secrets
  <2>4. \E t \in saved : /\ t.proof = pending[m].op /\ t.h = pending[m].h
                         /\ t.gen = pending[m].gen + 1
    BY <2>3 DEF CandidateInv, DisksInv, PendingWritten, Written
  <2> HIDE DEF Send, Await
  <2> QED  BY <1>3, <2>1, <2>3, <2>4, AskStep
<1> QED  BY <1>4, <1>5, <1>6, <1>7, <1>8, <1>9, <1>10

\* So every step of the relay, of a handler and of a command keeps it.
LEMMA CandidateStep == TypeOK /\ CandidateInv /\ [Next]_vars => CandidateInv'
<1> SUFFICES ASSUME TypeOK, CandidateInv, [Next]_vars PROVE CandidateInv'
  OBVIOUS
<1>1. CASE UNCHANGED vars  BY <1>1, OthersDrop
<1>2. CASE Tick \/ \E i \in Invites : CreateInvite(i) \/ RevokeInvite(i)
  BY <1>2, OthersDrop
<1>3. ASSUME NEW r \in Requests, Handler(r) PROVE CandidateInv'
  <2>1. CASE Discard(r) \/ Lose(r)  BY <2>1, OthersDrop
  <2>2. CASE \E h \in Handles : Drain(r, h)  BY <2>2, AsksKeepCandidates
  <2> QED  BY <1>3, <2>1, <2>2, HandlerKeepsCandidates DEF Handler
<1>4. ASSUME NEW m \in Machines, Command(m) PROVE CandidateInv'
  <2>1. CASE Crash(m)  BY <2>1, OthersDrop
  <2>2. CASE ForgetPending(m)  BY <2>2, ForgetStep
  <2>3. CASE Receive(m)
    <3>1. req[proc[m].r].pc \in {"refused", "token", "receipt"}  BY <2>3 DEF Receive
    <3>2. CASE req[proc[m].r].pc = "refused"  BY <2>3, <3>2, OthersDrop
    <3> QED  BY <2>3, <3>1, <3>2, TokenStep, ReceiptStep
  <2>4. CASE \E r \in Requests :
               \/ StartRotate(m, r) \/ StartIssue(m, r) \/ Connect(m, r)
               \/ \E i \in Invites, h \in Handles : Setup(m, r, i, h)
               \/ \E s \in saved : StartRedeem(m, r, s) \/ Resume(m, r, s)
    BY <2>4, AsksKeepCandidates
  <2> QED  BY <1>4, <2>1, <2>2, <2>3, <2>4 DEF Command
<1> QED  BY <1>1, <1>2, <1>3, <1>4 DEF Next

\* The token that a recovery put in force is on the disk of a machine: a command
\* that saved its candidate before it asked never loses it, whatever was lost,
\* raced or stopped.
THEOREM CandidateStaysOnDisk == Spec => []CandidateKept
<1>1. Init => CandidateInv
  <2> SUFFICES ASSUME Init PROVE CandidateInv
    OBVIOUS
  <2>1. /\ saved = {} /\ receipts = {} /\ minted = 0
        /\ \A r \in Requests : req[r].pc = "free" /\ req[r].secret = 0
        /\ \A m \in Machines : /\ config[m].token = 0 /\ pending[m].op = 0
                               /\ proc[m].pc = "idle"
        /\ \A h \in Handles : row[h].token = 0
    BY DEF Init, Free, NoConfig, NoPending, Idle, NoRow
  <2>2. CodesInv
    BY <2>1 DEF CodesInv, SavedOnce, SecretsMinted, TokensReached, ReceiptsReached,
                ConfigsReached
  <2>3. RedeemsInv
    BY <2>1 DEF RedeemsInv, GrantsReached, CandidatesWritten, OthersPlain, Asking, Granted,
                Enrolling, Rotating
  <2>4. WaitsInv
    BY <2>1 DEF WaitsInv, OwnRequest, TokenExpected, ReceiptExpected, Waits
  <2>5. DisksInv
    BY <2>1 DEF DisksInv, PendingWritten, PendingLater, CandidateKept, Recovered
  <2> QED  BY <2>2, <2>3, <2>4, <2>5 DEF CandidateInv
<1>2. CandidateInv => CandidateKept  BY DEF CandidateInv, DisksInv
<1> QED  BY <1>1, <1>2, AccountsTyped, CandidateStep, PTL DEF Spec
=============================================================================
