----------------------------- MODULE MCListener -----------------------------
(* Small instances of the listener for TLC.                                *)
EXTENDS ListenerProperties

CONSTANTS c1, c2

\* c2 goes on with the conversation c1 began.
C2ResumesC1 == [c \in Calls |-> IF c = c2 THEN c1 ELSE NoCall]
NoneResumes == [c \in Calls |-> NoCall]

\* Requests made by a clock that agrees with the listener's, and one
\* that is made after the first was forgotten.
NoneAhead == [c \in Calls |-> 0]
C2Later   == [c \in Calls |-> IF c = c2 THEN 4 ELSE 1]
=============================================================================
