-------------------------- MODULE KeyRingProperties --------------------------
(***************************************************************************)
(* What the key ring and its publication must keep true.                   *)
(***************************************************************************)
EXTENDS KeyRing

\* An epoch has one key: its state (private or tombstone), the copy retained
\* for the mailbox, the record elected for publication, the marker of the
\* relay's acceptance and the relay's record all name it, whichever processes
\* raced for each of these slots and wherever one of them died.
KeysNamed(e) ==
    (IF e = 1 THEN {FirstKey} ELSE {StateFile(e).pub})
      \cup {RetainedFile(e).pub, PendingFile(e).pub, PublishedFile(e).pub}
      \cup (IF Published(e) THEN {relay[e].pub} ELSE {})
EpochAgrees == \A e \in Epochs : Cardinality(KeysNamed(e) \ {NoKey}) <= 1

\* The records at the relay are one chain without gaps: each is linked to the
\* record the relay holds for the epoch before it (shared/src/keys.ts:46 "a
\* client that sees epochs 5 and 7 know it missed 6").
ChainUnbroken ==
    \A e \in Epochs : Published(e) /\ e > 1 =>
      Published(e - 1) /\ StateFile(e).record = relay[e - 1]

\* A publisher is refused by the relay only when a later epoch is already
\* there: no two signed records of one epoch ever reach it, and what a lost
\* answer or a dead process left unacknowledged can be published again.
RefusedOnlyIfSuperseded ==
    \A p \in Procs : Refused(p) =>
      \E e \in Epochs : Published(e) /\ e > proc[p].record.epoch

\* keys.test.ts:226 "retains superseded private keys long enough to decrypt
\* durable mailbox traffic": mail sealed to an epoch that was the newest when
\* its sender fetched it can be opened until the mailbox drops it, unless eight
\* rotations in that time evicted the key (keys.test.ts:249).
PrivateKeyKept(e) ==
    \/ e = 1 /\ initial
    \/ StateFile(e).status = "active"
    \/ RetainedFile(e).status = "whole" /\ now < RetainedFile(e).until
MailOpens ==
    \A s \in Senders :
      mail[s].phase = "sent" /\ mail[s].current /\ mail[s].epoch \notin evicted
        => PrivateKeyKept(mail[s].epoch)
=============================================================================
