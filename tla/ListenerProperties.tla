------------------------- MODULE ListenerProperties -------------------------
(* What the listener promises, and a claim about it that fails.            *)
EXTENDS Listener

PCs == ShortWaits \cup {"idle", "opening", "running", "sealing", "marking"}
Outcomes == {"none", "blocked", "context_unknown", "busy", "indeterminate",
             "delivery_failed", "reply", "failed"}
HandlerType == [pc : PCs, call : Calls \cup {NoCall}, lease : Nat, at : Nat,
                outcome : Outcomes]
RecordType  == [state : {"none", "claimed", "started", "terminal"},
                purge_after : Nat]
JobPCs == {"starting", "spawning", "running"}

\* The shapes of the listener's memory and files; a callback that is in its
\* job is the one the queue runs.
TypeOK ==
    /\ now \in Nat /\ connected \in BOOLEAN /\ stopped \in BOOLEAN
    /\ handler \in [Slots -> HandlerType]
    /\ \A h \in Slots : ~At(h, "idle") => Call(h) \in Calls
    /\ running \in Slots \cup {NoSlot} /\ aborted \in BOOLEAN
    /\ \A h \in Slots : handler[h].pc \in JobPCs => running = h
    /\ journal \in [Calls -> RecordType] /\ reserved \subseteq Calls
    /\ processes \subseteq Calls \X {"agent", "child"}
    /\ spawned \in [Calls -> Nat] /\ deliveries \in [Calls -> Nat]
    /\ failures \in Nat

\* However often a call is delivered, in parallel or after a restart, and
\* whatever the journal and the replay store have pruned meanwhile, its agent
\* is started once at most (claimExecution, reserveReplay).
AtMostOnce == \A c \in Calls : spawned[c] <= 1

\* A listener runs one answering process at a time.
OneAgent == Cardinality({h \in Slots : At(h, "running")}) <= 1

\* A durable call is recorded before it is acknowledged, and its start before
\* its agent is spawned (listener.ts, the job).
JournalFirst ==
    [][\A c \in Durable :
          /\ (\E f \in wire' : f.type = "call_accepted" /\ f.call = c)
                => journal'[c].state # "none"
          /\ spawned'[c] > spawned[c] => journal[c].state \in {"started", "terminal"}]_vars

\* A saved conversation loses turns only by age, by the cap on conversations,
\* or when the agent no longer has it: a job saves the list it read when it
\* was admitted, so no other may have saved in between.
ConversationKept ==
    [][\A c \in Calls :
          Turns(contexts', c) < Turns(contexts, c) =>
             \/ Turns(Bindings, c) = 0
             \/ Len(contexts') = MaxContexts
             \/ \E h \in Slots : /\ At(h, "running") /\ Resumes[Call(h)] = c
                                 /\ handler'[h].outcome = "context_unknown"]_vars

\* Every delivery is answered, under its own lease, unless the socket goes
\* down, the listener stops, a local fault drops the answer or the request is
\* outside the time in which an answer can be sealed.
Answers == {"call_outcome", "call_rejected", "call_cancelled"}
Answered ==
    \A c \in Calls, l \in 1..MaxDeliveries :
       (\E h \in Slots : At(h, "opening") /\ Call(h) = c /\ handler[h].lease = l) ~>
          \/ \E f \in wire : f.type \in Answers /\ f.call = c /\ f.lease = l
          \/ ~connected \/ failures > 0 \/ ~Sealable(c)

\* A job always ends and frees the queue, whatever fails in it.
QueueFrees == []<>(running = NoSlot)

(* What the specification says and the code does not keep. *)

\* docs/spec/v1.md:140 "A relay MUST NOT report a call as cancelled until the
\* callee has confirmed that the pending work was removed or the process group
\* was observed exited": when the listener confirms a cancellation, no process
\* of the call's group is left.
CancelledGroupGone ==
    [][\A f \in wire' : f.type = "call_cancelled" =>
          \A p \in processes' : p[1] # f.call]_vars
-----------------------------------------------------------------------------
(* Why a call is started once: the inductive invariant of the proofs.      *)

BeforeJob == {"reserving", "claiming", "admitting"}
JournalPCs == {"claiming", "starting", "spawning", "marking"}

\* Callbacks of durable calls use the journal, the others do not.
ModesKept ==
    \A h \in Slots : /\ handler[h].pc \in JournalPCs => Call(h) \in Durable
                     /\ At(h, "reserving") => Call(h) \notin Durable

\* A short wait is not long past the request's end.
WaitsInTime ==
    \A h \in Slots :
       /\ handler[h].pc \in ShortWaits => handler[h].at <= now /\ now <= handler[h].at + LockWait
       /\ handler[h].pc \in BeforeJob => handler[h].at < Expires(Call(h))
       /\ handler[h].pc \in {"starting", "spawning"} =>
             handler[h].at < Expires(Call(h)) + LockWait
       /\ At(h, "claiming") => Issued[Call(h)] <= handler[h].at + Skew

\* A record outlives every wait for its call.
RecordsOutlive ==
    \A c \in Durable : journal[c].state # "none" =>
       journal[c].purge_after >= Expires(c) + 2 * LockWait

\* A started durable call has its record until no callback can still be
\* waiting to claim or start it.
DurableOnce ==
    \A c \in Durable :
       /\ spawned[c] <= 1
       /\ spawned[c] = 1 => \/ journal[c].state \in {"started", "terminal"}
                            \/ /\ journal[c].state = "none"
                               /\ now >= Expires(c) + 2 * LockWait
       /\ \A h \in Slots : At(h, "spawning") /\ Call(h) = c =>
             spawned[c] = 0 /\ journal[c].state \in {"started", "terminal"}

\* A synchronous call has one callback past its reservation, or was started.
LiveOnce ==
    \A c \in Calls \ Durable :
       /\ spawned[c] <= 1
       /\ spawned[c] = 1 => c \in reserved \/ now >= Expires(c) + Skew
       /\ \A h \in Slots : At(h, "admitting") /\ Call(h) = c =>
             /\ spawned[c] = 0 /\ c \in reserved
             /\ \A g \in Slots \ {h} : ~(At(g, "admitting") /\ Call(g) = c)

OnceInv == /\ TypeOK /\ ModesKept /\ WaitsInTime
           /\ RecordsOutlive /\ DurableOnce /\ LiveOnce
-----------------------------------------------------------------------------
(* Why conversations are kept: the inductive invariant of the bindings.     *)

Binding == [id : Calls, turns : Nat, last_used_at : Nat]
\* One binding for each conversation, none of the future.
Listed(list) ==
    /\ list \in Seq(Binding)
    /\ \A i, j \in 1..Len(list) : list[i].id = list[j].id => i = j
    /\ \A i \in 1..Len(list) : list[i].last_used_at <= now
\* What a job will save is made of the list that is still on disk.
ContextsInv ==
    /\ Listed(contexts) /\ Len(contexts) <= MaxContexts
    /\ loaded = [h \in Slots |-> loaded[h]]
    /\ \A h \in Slots : handler[h].pc \in JobPCs =>
          /\ handler[h].at <= now
          /\ loaded[h] = PruneContexts(contexts, handler[h].at)
=============================================================================
