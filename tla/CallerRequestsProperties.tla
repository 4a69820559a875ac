----------------------- MODULE CallerRequestsProperties -----------------------
(***************************************************************************)
(* What callers, and the object's storage, can rely on.                    *)
(***************************************************************************)
EXTENDS CallerRequests

\* A caller that reads its tasks page by page sees every task that was there
\* at each page exactly once, and none twice, although calls move, start and
\* end between two pages (listCallerTasks: "Pagination must use immutable
\* fields ... causing that task to be skipped permanently").
ListingExact ==
    /\ \A i \in Ids : listing.listed[i] <= 1
    /\ listing.pc = "done" => \A i \in listing.steady : listing.listed[i] = 1

\* A cleaning of the allowance that stopped at its page limit goes on, by the
\* alarm alone, until it reached the last key (continueRateLimitMaintenance;
\* CHANGELOG.md:532: "Larger backlogs continue by alarm until drained").
SweepDrains == sweep # NoSweep ~> sweep = NoSweep

\* Within a window no caller has more calls admitted than the limit
\* (docs/spec/v1.md: the ceilings must be enforced).  The code charges a
\* mailbox call after a D1 wait, with the stamps it read before.
HourlyBudget ==
    \A c \in Callers :
      Cardinality({i \in Ids : task[i].from = c /\ now - task[i].created_at < Window})
        <= HourlyLimit
=============================================================================
