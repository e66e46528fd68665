--------------------------- MODULE MCLeaseRenewal ---------------------------
(* Stores that work, fail, do not renew or cannot be used, under a prompt  *)
(* scheduler, and one that may fail under a scheduler slower than a lease. *)
EXTENDS LeaseRenewal

Of(store, duration, slack, faults) ==
  [store |-> store, duration |-> duration, slack |-> slack, faults |-> faults]

MCSettings ==
  {Of("renewing", 15, 1, TRUE), Of("renewing", 15, 1, FALSE),
   Of("fixed", 15, 1, TRUE), Of("broken", 15, 1, TRUE),
   Of("renewing", 3, 4, TRUE)}
=============================================================================
