-------------------------- MODULE MCCallerRequests --------------------------
(* Instances of CallerRequests for TLC; its configurations give the bounds. *)
EXTENDS CallerRequestsProperties

\* Any task, the calls nobody has taken up since time 1, and a page too small.
MCQueries ==
    {[status |-> "any", statusTimestampAfter |-> 0, pageSize |-> 1],
     [status |-> "submitted", statusTimestampAfter |-> 1, pageSize |-> 1],
     [status |-> "any", statusTimestampAfter |-> 0, pageSize |-> 0]}
=============================================================================
