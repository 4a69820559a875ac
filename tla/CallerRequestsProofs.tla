------------------------ MODULE CallerRequestsProofs ------------------------
(***************************************************************************)
(* What is proved of the list of tasks, for any number of callers, calls   *)
(* and frames, any queries and any page size: a reader who pages through   *)
(* it while calls start, move and end misses none and sees none twice.     *)
(***************************************************************************)
EXTENDS CallerRequestsProperties, FiniteSetTheorems, WellFoundedInduction, TLAPS

-----------------------------------------------------------------------------
(* Finite sets in an order.  A relation is a set of pairs.                 *)

Orders(R, S) ==
    /\ \A i \in S : <<i, i>> \notin R
    /\ \A i, j, k \in S : <<i, j>> \in R /\ <<j, k>> \in R => <<i, k>> \in R
    /\ \A i, j \in S : i = j \/ <<i, j>> \in R \/ <<j, i>> \in R
Ahead(R, S, i) == {j \in S : <<j, i>> \in R}

\* A set of natural numbers has a least member.
LEMMA LeastNumber ==
    ASSUME NEW S, S \subseteq Nat, S # {}
    PROVE  \E n \in S : \A m \in S : n <= m
<1> DEFINE R == OpToRel(<, Nat)
<1>1. PICK n \in S : \A m \in S : ~(<<m, n>> \in R)
  <2>1. IsWellFoundedOn(R, Nat)  BY NatLessThanWellFounded
  <2> HIDE DEF R
  <2> QED  BY <2>1, WFMin
<1>2. \A i, j \in Nat : i < j => <<i, j>> \in R  BY DEF OpToRel
<1>3. \A m \in S : ~(m < n)  BY <1>1, <1>2
<1> QED  BY <1>3

\* The later a member, the more are ahead of it.
LEMMA AheadGrows ==
    ASSUME NEW S, NEW R, IsFiniteSet(S), Orders(R, S),
           NEW i \in S, NEW j \in S, <<i, j>> \in R
    PROVE  /\ Cardinality(Ahead(R, S, i)) \in Nat /\ Cardinality(Ahead(R, S, j)) \in Nat
           /\ Cardinality(Ahead(R, S, i)) < Cardinality(Ahead(R, S, j))
<1>1. Ahead(R, S, i) \subseteq Ahead(R, S, j)  BY DEF Orders, Ahead
<1>2. i \in Ahead(R, S, j) /\ i \notin Ahead(R, S, i)  BY DEF Orders, Ahead
<1>3. IsFiniteSet(Ahead(R, S, i)) /\ IsFiniteSet(Ahead(R, S, j))
  BY FS_Subset DEF Ahead
<1>4. /\ Cardinality(Ahead(R, S, i)) <= Cardinality(Ahead(R, S, j))
      /\ Cardinality(Ahead(R, S, i)) # Cardinality(Ahead(R, S, j))
  BY <1>1, <1>2, <1>3, FS_Subset
<1>5. Cardinality(Ahead(R, S, i)) \in Nat /\ Cardinality(Ahead(R, S, j)) \in Nat
  BY <1>3, FS_CardinalityType
<1> QED  BY <1>4, <1>5

\* A finite set has a first member.
LEMMA FirstExists ==
    ASSUME NEW S, NEW R, IsFiniteSet(S), Orders(R, S), S # {}
    PROVE  \E i \in S : \A j \in S \ {i} : <<i, j>> \in R
<1> DEFINE N == {Cardinality(Ahead(R, S, i)) : i \in S}
<1>1. N \subseteq Nat /\ N # {}
  <2>1. \A i \in S : Cardinality(Ahead(R, S, i)) \in Nat
    BY FS_Subset, FS_CardinalityType DEF Ahead
  <2> QED  BY <2>1
<1>2. PICK n \in N : \A m \in N : n <= m
  <2> HIDE DEF N
  <2> QED  BY <1>1, LeastNumber
<1>3. PICK i \in S : n = Cardinality(Ahead(R, S, i))  BY <1>2
<1>4. ASSUME NEW j \in S \ {i}, <<j, i>> \in R PROVE FALSE
  <2>1. Cardinality(Ahead(R, S, j)) < n /\ Cardinality(Ahead(R, S, j)) \in Nat /\ n \in Nat
    BY <1>3, <1>4, AheadGrows
  <2>2. n <= Cardinality(Ahead(R, S, j))  BY <1>2
  <2> QED  BY <2>1, <2>2
<1> QED  BY <1>4 DEF Orders

\* A finite set has a last member.
LEMMA LastExists ==
    ASSUME NEW S, NEW R, IsFiniteSet(S), Orders(R, S), S # {}
    PROVE  \E i \in S : \A j \in S \ {i} : <<j, i>> \in R
<1> DEFINE Q == {p \in S \X S : <<p[2], p[1]>> \in R}
<1>1. \A i, j \in S : <<i, j>> \in Q <=> <<j, i>> \in R  OBVIOUS
<1>2. Orders(Q, S)
  <2> HIDE DEF Q
  <2> QED  BY <1>1 DEF Orders
<1>3. \E i \in S : \A j \in S \ {i} : <<i, j>> \in Q
  <2> HIDE DEF Q
  <2> QED  BY <1>2, FirstExists
<1> HIDE DEF Q
<1> QED  BY <1>1, <1>3

\* The first n members: all before them are among them, and there is one.
Foremost(R, S, n) == {i \in S : Cardinality(Ahead(R, S, i)) < n}
LEMMA ForemostFirst ==
    ASSUME NEW S, NEW R, IsFiniteSet(S), Orders(R, S), NEW n \in Nat \ {0}
    PROVE  /\ \A i \in S, j \in Foremost(R, S, n) : i \notin Foremost(R, S, n) => <<j, i>> \in R
           /\ S # {} => Foremost(R, S, n) # {}
<1>1. ASSUME NEW i \in S, NEW j \in Foremost(R, S, n), i \notin Foremost(R, S, n)
      PROVE  <<j, i>> \in R
  <2>1. j \in S /\ i # j  BY <1>1 DEF Foremost
  <2>2. ASSUME <<i, j>> \in R PROVE FALSE
    <3>1. /\ Cardinality(Ahead(R, S, i)) \in Nat /\ Cardinality(Ahead(R, S, j)) \in Nat
          /\ Cardinality(Ahead(R, S, i)) < Cardinality(Ahead(R, S, j))
      BY <2>1, <2>2, AheadGrows
    <3> QED  BY <1>1, <3>1 DEF Foremost
  <2> QED  BY <2>1, <2>2 DEF Orders
<1>2. ASSUME S # {} PROVE Foremost(R, S, n) # {}
  <2>1. PICK i \in S : \A j \in S \ {i} : <<i, j>> \in R  BY <1>2, FirstExists
  <2>2. Ahead(R, S, i) = {}  BY <2>1 DEF Ahead, Orders
  <2>3. Cardinality(Ahead(R, S, i)) = 0  BY <2>2, FS_EmptySet
  <2> QED  BY <2>3 DEF Foremost
<1> QED  BY <1>1, <1>2

-----------------------------------------------------------------------------
(* The list of tasks.                                                      *)

Record == [st : TaskStates \cup {"absent", "deleted"}, durable : BOOLEAN,
           from : Callers \cup {Never}, created_at : Nat, updated_at : Nat, deadline : Int]
Reading == [pc : {"idle", "reading", "done"}, query : TaskListQuery,
            cursor : Seq(Nat), listed : [Ids -> Nat], steady : SUBSET Ids]

\* The records keep their types, and only finitely many ids are used.
Used == {i \in Ids : task[i].st # "absent"}
TasksTyped == now \in Nat /\ task \in [Ids -> Record] /\ IsFiniteSet(Used)

\* Between two pages a task that was listed is not after the cursor, and a
\* steady one that was not listed is: sort keys do not change.
Passed(i)  == i \in Used /\ ~Precedes(listing.cursor, SortKey(i))
Awaited(i) == i \in Used /\ Precedes(listing.cursor, SortKey(i))
PagesInv ==
    /\ listing \in Reading
    /\ \A i \in Ids : listing.listed[i] <= 1
    /\ listing.pc = "reading" =>
         /\ listing.query.pageSize >= 1 /\ Len(listing.cursor) = 2
         /\ \A i \in Ids : listing.listed[i] = 1 => Passed(i)
         /\ \A i \in listing.steady : listing.listed[i] = 1 \/ Awaited(i)
    /\ listing.pc = "done" => \A i \in listing.steady : listing.listed[i] = 1
ListingInv == TasksTyped /\ PagesInv

LEMMA Constants ==
    /\ Callers \subseteq Nat /\ Ids \subseteq Nat /\ Lister \in Callers
    /\ MaxListSize \in Nat \ {0}
    /\ CallTimeout \in Nat /\ MailboxTtl \in Nat /\ TombstoneTtl \in Nat
BY CallerRequestsAssumption

\* A record is begun with a fresh id, or goes on: it keeps its sort key.
GoesOn ==
    /\ now' \in Nat /\ task' \in [Ids -> Record]
    /\ \E i : \A j \in Ids :
         \/ task[j].st # "absent" /\ task'[j].st # "absent"
              /\ task'[j].created_at = task[j].created_at
         \/ task[j].st = "absent" /\ (j = i \/ task'[j] = task[j])

\* Such a change leaves finitely many ids used, and the pages what they are.
LEMMA GoingOn ==
    ASSUME ListingInv, GoesOn, UNCHANGED listing
    PROVE  ListingInv'
<1> USE DEF ListingInv, GoesOn
<1>1. Used \subseteq Used' /\ \A i \in Used : SortKey(i)' = SortKey(i)
  BY DEF Used, SortKey
<1>2. IsFiniteSet(Used')
  <2>1. PICK i : Used' \subseteq Used \cup {i}  BY DEF Used
  <2>2. IsFiniteSet(Used \cup {i})  BY FS_AddElement DEF TasksTyped
  <2> QED  BY <2>1, <2>2, FS_Subset
<1>3. TasksTyped'  BY <1>2 DEF TasksTyped
<1>4. \A i \in Ids : (Passed(i) => Passed(i)') /\ (Awaited(i) => Awaited(i)')
  BY <1>1 DEF Passed, Awaited, Precedes
<1>5. PagesInv'
  <2>1. listing.steady \subseteq Ids  BY DEF PagesInv, Reading
  <2> QED  BY <1>4, <2>1 DEF PagesInv
<1> QED  BY <1>3, <1>5

\* A frame that is stored begins a record; the other handlers of frames, the
\* alarm's end and the clock leave the records alone.
LEMMA FramesGoOn ==
    ASSUME ListingInv,
           \/ \E s \in Slots : Frames(s) \/ LiveAnnounced(s) \/ DurableCharged(s)
           \/ AlarmEnds \/ Tick \/ UNCHANGED vars
    PROVE  GoesOn
<1>0. now \in Nat /\ task \in [Ids -> Record]
  BY DEF ListingInv, TasksTyped
<1>1. ASSUME UNCHANGED task, now' \in Nat PROVE GoesOn
  BY <1>0, <1>1 DEF GoesOn
<1>2. ASSUME UNCHANGED now, NEW c \in Callers, NEW durable \in BOOLEAN, Stored(c, durable)
      PROVE  GoesOn
  <2>1. PICK i \in Ids :
          /\ task[i] = NoTask
          /\ task' = [task EXCEPT ![i] =
               [st |-> "submitted", durable |-> durable, from |-> c, created_at |-> now,
                updated_at |-> now,
                deadline |-> now + (IF durable THEN MailboxTtl ELSE CallTimeout)]]
    BY <1>2 DEF Stored
  <2>2. task[i].st = "absent"  BY <2>1 DEF NoTask
  <2>3. [st |-> "submitted", durable |-> durable, from |-> c, created_at |-> now,
         updated_at |-> now,
         deadline |-> now + (IF durable THEN MailboxTtl ELSE CallTimeout)] \in Record
    BY <1>0, <1>2, Constants DEF Record, TaskStates
  <2>4. task' \in [Ids -> Record] /\ \A j \in Ids : j = i \/ task'[j] = task[j]
    BY <1>0, <2>1, <2>3
  <2> QED  BY <1>0, <1>2, <2>2, <2>4 DEF GoesOn
<1>3. ASSUME NEW s \in Slots, NEW c \in Callers,
             Oversized(s, c) \/ DurableRefused(s, c) \/ LiveAnnounced(s) \/ DurableCharged(s)
      PROVE  GoesOn
  BY <1>0, <1>1, <1>3 DEF Oversized, DurableRefused, LiveAnnounced, DurableCharged
<1>4. ASSUME NEW s \in Slots, NEW c \in Callers, LiveFrame(s, c) \/ DurableFrame(s, c)
      PROVE  GoesOn
  BY <1>2, <1>4 DEF LiveFrame, DurableFrame
<1>5. CASE AlarmEnds \/ UNCHANGED vars  BY <1>0, <1>1, <1>5 DEF AlarmEnds, vars
<1>6. CASE Tick  BY <1>0, <1>1, <1>6 DEF Tick
<1>7. Callers # {}  BY Constants
<1> QED  BY <1>3, <1>4, <1>5, <1>6, <1>7 DEF Frames

\* A call moves, or its deadline passes: its record keeps the time it began.
LEMMA CallsGoOn ==
    ASSUME ListingInv, (\E i \in Ids : TaskMoves(i)) \/ AlarmFires
    PROVE  GoesOn
<1>0. now \in Nat /\ task \in [Ids -> Record] /\ \A i \in Ids : task[i] \in Record
  BY DEF ListingInv, TasksTyped
<1>1. ASSUME NEW i \in Ids, TaskMoves(i) PROVE GoesOn
  <2>1. PICK st \in TaskStates : task' = [task EXCEPT ![i].st = st, ![i].updated_at = now]
    BY <1>1 DEF TaskMoves
  <2>2. task[i].st # "absent" /\ st # "absent" /\ now' = now
    BY <1>1 DEF TaskMoves, TaskStates
  <2>3. task' = [task EXCEPT ![i] = [task[i] EXCEPT !.st = st, !.updated_at = now]]
    BY <1>0, <2>1
  <2>4. /\ [task[i] EXCEPT !.st = st, !.updated_at = now] \in Record
        /\ [task[i] EXCEPT !.st = st, !.updated_at = now].st = st
        /\ [task[i] EXCEPT !.st = st, !.updated_at = now].created_at = task[i].created_at
    BY <1>0 DEF Record
  <2>5. /\ task' \in [Ids -> Record] /\ \A j \in Ids \ {i} : task'[j] = task[j]
        /\ task'[i].st = st /\ task'[i].created_at = task[i].created_at
    BY <1>0, <2>3, <2>4
  <2> QED  BY <1>0, <2>2, <2>5 DEF GoesOn
<1>2. CASE AlarmFires
  <2>1. /\ \A i \in Ids : task'[i] = IF i \in Held /\ task[i].deadline <= now
                                     THEN AfterDeadline(task[i]) ELSE task[i]
        /\ now' = now /\ DOMAIN task' = Ids /\ task' = [i \in Ids |-> task'[i]]
    BY <1>2 DEF AlarmFires
  <2>2. ASSUME NEW i \in Ids
        PROVE  /\ AfterDeadline(task[i]) \in Record
               /\ AfterDeadline(task[i]).st # "absent"
               /\ AfterDeadline(task[i]).created_at = task[i].created_at
    <3>1. PurgeAt(task[i]) \in Int  BY <1>0, Constants DEF PurgeAt, Record
    <3> QED  BY <1>0, <3>1 DEF AfterDeadline, Record, TaskStates
  <2>3. \A i \in Held : task[i].st # "absent"  BY DEF Held, TaskStates
  <2>4. task' \in [Ids -> Record]  BY <1>0, <2>1, <2>2
  <2>5. \A j \in Ids : \/ task[j].st # "absent" /\ task'[j].st # "absent"
                            /\ task'[j].created_at = task[j].created_at
                       \/ task[j].st = "absent" /\ task'[j] = task[j]
    BY <2>1, <2>2, <2>3
  <2> QED  BY <1>0, <2>1, <2>4, <2>5 DEF GoesOn
<1> QED  BY <1>1, <1>2

\* A page: its members are listed for the first time, and what is left for the
\* next one comes after its last member.
SortsBefore(S) == {p \in S \X S : Precedes(SortKey(p[1]), SortKey(p[2]))}
LEMMA SortKeysOrder ==
    ASSUME ListingInv, NEW S \in SUBSET Ids
    PROVE  /\ Orders(SortsBefore(S), S)
           /\ \A i, j \in S : <<i, j>> \in SortsBefore(S) <=> Precedes(SortKey(i), SortKey(j))
<1>1. \A i \in S : i \in Nat /\ task[i].created_at \in Nat
  BY Constants DEF ListingInv, TasksTyped, Record
<1>2. \A i, j \in S : <<i, j>> \in SortsBefore(S) <=> Precedes(SortKey(i), SortKey(j))
  BY DEF SortsBefore
<1>3. \A i, j \in S : Precedes(SortKey(i), SortKey(j)) <=>
        \/ task[i].created_at > task[j].created_at
        \/ task[i].created_at = task[j].created_at /\ i < j
  BY DEF Precedes, SortKey
<1>4. \A i \in S : <<i, i>> \notin SortsBefore(S)  BY <1>1, <1>2, <1>3
<1>5. ASSUME NEW i \in S, NEW j \in S
      PROVE  i = j \/ <<i, j>> \in SortsBefore(S) \/ <<j, i>> \in SortsBefore(S)
  <2>1. PICK a, b \in Nat : a = task[i].created_at /\ b = task[j].created_at  BY <1>1
  <2>2. i \in Nat /\ j \in Nat  BY <1>1
  <2>3. i = j \/ (a > b \/ (a = b /\ i < j)) \/ (b > a \/ (b = a /\ j < i))  BY <2>1, <2>2
  <2> QED  BY <1>2, <1>3, <2>1, <2>3
<1>6. ASSUME NEW i \in S, NEW j \in S, NEW k \in S,
             <<i, j>> \in SortsBefore(S), <<j, k>> \in SortsBefore(S)
      PROVE  <<i, k>> \in SortsBefore(S)
  <2>1. PICK a, b, c \in Nat :
          a = task[i].created_at /\ b = task[j].created_at /\ c = task[k].created_at
    BY <1>1
  <2>2. i \in Nat /\ j \in Nat /\ k \in Nat  BY <1>1
  <2>3. (a > b \/ (a = b /\ i < j)) /\ (b > c \/ (b = c /\ j < k))
    BY <1>2, <1>3, <1>6, <2>1
  <2>4. a > c \/ (a = c /\ i < k)  BY <2>2, <2>3
  <2> QED  BY <1>2, <1>3, <2>1, <2>4
<1> QED  BY <1>2, <1>4, <1>5, <1>6 DEF Orders

LEMMA PageListed ==
    ASSUME ListingInv, NEW query \in TaskListQuery, query.pageSize >= 1,
           NEW cursor, cursor = <<>> \/ (cursor \in Seq(Nat) /\ Len(cursor) = 2),
           NEW listed \in [Ids -> Nat], NEW steady \in SUBSET Visible(query),
           \A i \in Ids : listed[i] <= 1,
           \A i \in Remaining(query, cursor) : listed[i] = 0,
           \A i \in steady : listed[i] = 1 \/ i \in Remaining(query, cursor),
           \A i \in Ids : listed[i] = 1 => i \in Used /\ cursor # <<>> /\ ~Precedes(cursor, SortKey(i)),
           Page(query, cursor, listed, steady)
    PROVE  ListingInv'
<1> DEFINE rest == Remaining(query, cursor)
           page == Selected(rest, query.pageSize)
           R == SortsBefore(rest)
<1>1. rest \subseteq Used /\ rest \subseteq Ids /\ Visible(query) \subseteq Ids
  BY DEF Remaining, Visible, Held, Used, TaskStates
<1>2. IsFiniteSet(rest)  BY <1>1, FS_Subset DEF ListingInv, TasksTyped
<1>3. /\ Orders(R, rest)
      /\ \A i, j \in rest : <<i, j>> \in R <=> Precedes(SortKey(i), SortKey(j))
  BY <1>1, SortKeysOrder
<1>4. query.pageSize \in Nat \ {0}  BY DEF TaskListQuery
<1>5. page = Foremost(R, rest, query.pageSize)
  <2>1. \A i \in rest : Ahead(R, rest, i) = {j \in rest : Precedes(SortKey(j), SortKey(i))}
    BY <1>3 DEF Ahead
  <2> HIDE DEF rest, R
  <2> QED  BY <2>1 DEF Selected, Foremost
<1>6. /\ \A i \in rest, j \in page : i \notin page => Precedes(SortKey(j), SortKey(i))
      /\ rest # {} => page # {}
      /\ page \subseteq rest
  <2>1. page \subseteq rest  BY DEF Selected
  <2> HIDE DEF rest, R, page
  <2> QED  BY <1>2, <1>3, <1>4, <1>5, <2>1, ForemostFirst
<1>7. page # {} =>
        /\ LastOf(page) \in page
        /\ \A i \in page \ {LastOf(page)} : Precedes(SortKey(i), SortKey(LastOf(page)))
  <2> SUFFICES ASSUME page # {}
               PROVE  \E i \in page : \A j \in page \ {i} : Precedes(SortKey(j), SortKey(i))
    BY DEF LastOf
  <2>1. page \subseteq Ids /\ IsFiniteSet(page)  BY <1>1, <1>2, <1>6, FS_Subset
  <2> HIDE DEF rest, R, page
  <2>2. /\ Orders(SortsBefore(page), page)
        /\ \A i, j \in page : <<i, j>> \in SortsBefore(page) <=> Precedes(SortKey(i), SortKey(j))
    BY <2>1, SortKeysOrder
  <2>3. \E i \in page : \A j \in page \ {i} : <<j, i>> \in SortsBefore(page)
    BY <2>1, <2>2, LastExists
  <2> QED  BY <2>2, <2>3
<1>8. /\ listing' = [pc |-> IF rest = page THEN "done" ELSE "reading",
                     query |-> query,
                     cursor |-> IF rest = page THEN <<>> ELSE SortKey(LastOf(page)),
                     listed |-> [i \in Ids |-> IF i \in page THEN listed[i] + 1 ELSE listed[i]],
                     steady |-> steady]
      /\ UNCHANGED <<now, task>>
  BY DEF Page
<1>9. TasksTyped' /\ Used' = Used /\ \A i \in Ids : SortKey(i)' = SortKey(i)
  BY <1>8 DEF ListingInv, TasksTyped, Used, SortKey
<1> HIDE DEF rest, page, R
<1>10. /\ listing'.query = query /\ listing'.steady = steady
       /\ listing'.pc = IF rest = page THEN "done" ELSE "reading"
       /\ rest # page => listing'.cursor = SortKey(LastOf(page))
       /\ listing'.listed \in [Ids -> Nat]
       /\ \A i \in Ids : listing'.listed[i] = IF i \in page THEN 1 ELSE listed[i]
  <2>1. \A i \in page : listed[i] = 0  BY <1>6 DEF rest
  <2> QED  BY <1>1, <1>6, <1>8, <2>1
<1>11. rest # page => page # {} /\ LastOf(page) \in Used /\ LastOf(page) \in Ids
  BY <1>1, <1>6, <1>7
<1>12. rest # page => SortKey(LastOf(page)) \in Seq(Nat) /\ Len(SortKey(LastOf(page))) = 2
  <2>1. \A i \in Ids : task[i].created_at \in Nat /\ i \in Nat
    BY Constants DEF ListingInv, TasksTyped, Record
  <2> QED  BY <1>11, <2>1 DEF SortKey
<1>13. listing' \in Reading
  <2>1. (IF rest = page THEN <<>> ELSE SortKey(LastOf(page))) \in Seq(Nat)  BY <1>12
  <2>2. [i \in Ids |-> IF i \in page THEN listed[i] + 1 ELSE listed[i]] \in [Ids -> Nat]
    OBVIOUS
  <2>3. steady \in SUBSET Ids  BY <1>1
  <2> QED  BY <1>8, <2>1, <2>2, <2>3 DEF Reading
<1>14. \A i \in Ids : listing'.listed[i] <= 1  BY <1>10
<1>15. \A i, j \in Ids, k \in Seq(Nat) :
         /\ Precedes(SortKey(i), SortKey(j)) => ~Precedes(SortKey(j), SortKey(i))
         /\ ~Precedes(SortKey(i), SortKey(i))
         /\ Len(k) = 2 /\ Precedes(k, SortKey(i)) /\ Precedes(SortKey(i), SortKey(j))
              => Precedes(k, SortKey(j))
  <2>1. \A i \in Ids : task[i].created_at \in Nat /\ i \in Nat
    BY Constants DEF ListingInv, TasksTyped, Record
  <2> QED  BY <2>1 DEF SortKey, Precedes
<1>16. ASSUME rest # page, NEW i \in Ids, listing'.listed[i] = 1
       PROVE  i \in Used /\ ~Precedes(SortKey(LastOf(page)), SortKey(i))
  <2>1. CASE i \in page
    <3>1. i = LastOf(page) \/ Precedes(SortKey(i), SortKey(LastOf(page)))
      BY <1>7, <2>1
    <3> QED  BY <1>1, <1>6, <1>11, <1>15, <1>16, <2>1, <3>1
  <2>2. CASE i \notin page
    <3>1. i \in Used /\ cursor # <<>> /\ ~Precedes(cursor, SortKey(i))
      BY <1>10, <1>16, <2>2
    <3>2. Precedes(cursor, SortKey(LastOf(page)))
      BY <1>6, <1>7, <1>11, <1>16, <3>1 DEF rest, Remaining
    <3> QED  BY <1>11, <1>15, <1>16, <3>1, <3>2
  <2> QED  BY <2>1, <2>2
<1>17. ASSUME NEW i \in steady, listing'.listed[i] # 1
       PROVE  rest # page /\ i \in Used /\ Precedes(SortKey(LastOf(page)), SortKey(i))
  <2>1. i \in rest /\ i \notin page  BY <1>1, <1>10, <1>17 DEF rest
  <2>2. LastOf(page) \in page  BY <1>7, <1>11, <2>1
  <2> QED  BY <1>1, <1>6, <2>1, <2>2
<1>18. PagesInv'
  <2>1. ASSUME rest # page, NEW i \in Ids, listing'.listed[i] = 1 PROVE Passed(i)'
    BY <1>9, <1>10, <1>16, <2>1 DEF Passed, Precedes
  <2>2. ASSUME rest # page, NEW i \in steady PROVE listing'.listed[i] = 1 \/ Awaited(i)'
    <3>1. i \in Ids  BY <1>1
    <3> QED  BY <1>9, <1>10, <1>17, <2>2, <3>1 DEF Awaited, Precedes
  <2>3. ASSUME rest # page
        PROVE  listing'.query.pageSize >= 1 /\ Len(listing'.cursor) = 2
    BY <1>10, <1>12, <2>3
  <2> QED  BY <1>10, <1>13, <1>14, <1>17, <2>1, <2>2, <2>3 DEF PagesInv
<1> QED  BY <1>9, <1>18 DEF ListingInv

\* The first page starts with nothing listed, the next ones where the last one
\* stopped.
LEMMA PagesGoOn ==
    ASSUME ListingInv, FirstPage \/ NextPage
    PROVE  ListingInv'
<1>1. /\ listing \in Reading /\ \A i \in Ids : listing.listed[i] <= 1
      /\ listing.listed \in [Ids -> Nat] /\ listing.cursor \in Seq(Nat)
      /\ listing.query \in TaskListQuery /\ listing.steady \subseteq Ids
  BY DEF ListingInv, PagesInv, Reading
<1>2. CASE FirstPage
  <2>1. PICK query \in Queries :
          Parses(query) /\ Page(query, <<>>, [i \in Ids |-> 0], Visible(query))
    BY <1>2 DEF FirstPage
  <2>2. query \in TaskListQuery /\ query.pageSize >= 1  BY <2>1, Constants DEF Parses
  <2>3. Visible(query) = Remaining(query, <<>>)  BY DEF Remaining
  <2>4. [i \in Ids |-> 0] \in [Ids -> Nat] /\ \A i \in Ids : [j \in Ids |-> 0][i] = 0
    OBVIOUS
  <2>5. Remaining(query, <<>>) \subseteq Ids  BY <2>3 DEF Visible, Held
  <2> HIDE DEF ListingInv
  <2> QED  BY <2>1, <2>2, <2>3, <2>4, <2>5, PageListed
<1>3. CASE NextPage
  <2> DEFINE query == listing.query
             cursor == listing.cursor
             steady == listing.steady \cap Visible(query)
  <2>1. /\ query.pageSize >= 1 /\ Len(cursor) = 2
        /\ \A i \in Ids : listing.listed[i] = 1 => Passed(i)
        /\ \A i \in listing.steady : listing.listed[i] = 1 \/ Awaited(i)
        /\ Page(query, cursor, listing.listed, steady)
    BY <1>3 DEF NextPage, ListingInv, PagesInv
  <2>2. cursor # <<>>
    <3> HIDE DEF cursor
    <3>1. Len(<<>>) = 0  OBVIOUS
    <3> QED  BY <2>1, <3>1
  <2>3. \A i \in Remaining(query, cursor) : i \in Ids /\ ~Passed(i)
    BY <2>2 DEF Remaining, Visible, Held, Passed
  <2>4. \A i \in Remaining(query, cursor) : listing.listed[i] = 0
    BY <1>1, <2>1, <2>3
  <2>5. \A i \in steady : listing.listed[i] = 1 \/ i \in Remaining(query, cursor)
    BY <2>1 DEF Remaining, Awaited
  <2>6. \A i \in Ids : listing.listed[i] = 1 =>
          i \in Used /\ cursor # <<>> /\ ~Precedes(cursor, SortKey(i))
    BY <2>1, <2>2 DEF Passed
  <2>7. steady \in SUBSET Visible(query)  OBVIOUS
  <2>8. query \in TaskListQuery /\ cursor \in Seq(Nat)  BY <1>1
  <2> HIDE DEF query, cursor, steady
  <2> QED  BY <1>1, <2>1, <2>4, <2>5, <2>6, <2>7, <2>8, PageListed
<1> QED  BY <1>2, <1>3

\* Paging through the tasks shows every task that was there at each page
\* exactly once, and none twice, whatever calls do between two pages.
THEOREM ListingIsExact == Spec => []ListingExact
<1>1. Init => ListingInv
  <2> SUFFICES ASSUME Init PROVE ListingInv
    OBVIOUS
  <2>1. NoTask \in Record  BY DEF NoTask, Record, Never
  <2>2. TasksTyped
    <3>1. Used = {}  BY DEF Init, Used, NoTask
    <3> QED  BY <2>1, <3>1, FS_EmptySet DEF Init, TasksTyped
  <2>3. NoQuery \in TaskListQuery  BY DEF NoQuery, TaskListQuery
  <2>4. PagesInv  BY <2>3 DEF Init, PagesInv, Reading
  <2> QED  BY <2>2, <2>4 DEF ListingInv
<1>2. ListingInv /\ [Next]_vars => ListingInv'
  <2> SUFFICES ASSUME ListingInv, [Next]_vars PROVE ListingInv'
    OBVIOUS
  <2>1. CASE FirstPage \/ NextPage  BY <2>1, PagesGoOn
  <2>2. CASE \/ \E s \in Slots : Frames(s) \/ LiveAnnounced(s) \/ DurableCharged(s)
             \/ AlarmEnds \/ Tick \/ UNCHANGED vars
    <3>1. UNCHANGED listing
      BY <2>2 DEF Frames, Oversized, LiveFrame, DurableFrame, DurableRefused, LiveAnnounced,
                  DurableCharged, AlarmEnds, Tick, vars
    <3> QED  BY <2>2, <3>1, FramesGoOn, GoingOn
  <2>3. CASE (\E i \in Ids : TaskMoves(i)) \/ AlarmFires
    <3>1. UNCHANGED listing  BY <2>3 DEF TaskMoves, AlarmFires
    <3> QED  BY <2>3, <3>1, CallsGoOn, GoingOn
  <2> QED  BY <2>1, <2>2, <2>3 DEF Next
<1>3. ListingInv => ListingExact  BY DEF ListingInv, PagesInv, ListingExact
<1> QED  BY <1>1, <1>2, <1>3, PTL DEF Spec
=============================================================================
