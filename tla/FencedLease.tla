----------------------------- MODULE FencedLease -----------------------------
(***************************************************************************)
(* The contract of a lease store for one execution (ExecutionLeaser and    *)
(* FencedCheckpointStore in execution_lease.go): at most one lease is in   *)
(* force, each new one has a newer token, and a checkpoint is published    *)
(* only while a lease is in force and only over an older revision.         *)
(***************************************************************************)
EXTENDS Integers

VARIABLES
  token,     \* the newest fencing token issued, 0 for none
  held,      \* the lease of that token is in force
  revision   \* of the stored checkpoint: -1 none stored, 0 unversioned

fvars == <<token, held, revision>>

Init == token = 0 /\ held = FALSE /\ revision \in Nat \cup {-1}

Grant ==
  /\ ~held
  /\ token' = token + 1
  /\ held' = TRUE
  /\ UNCHANGED revision

\* Released or expired.
Lapse ==
  /\ held
  /\ held' = FALSE
  /\ UNCHANGED <<token, revision>>

Publish ==
  /\ held
  /\ revision' \in Nat
  /\ revision > 0 => revision' > revision
  /\ UNCHANGED <<token, held>>

Next == Grant \/ Lapse \/ Publish

Spec == Init /\ [][Next]_fvars
=============================================================================
