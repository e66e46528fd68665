------------------------------ MODULE MCHarness ------------------------------
(* Instances of Harness for model checking: runtime configurations, and the *)
(* checkpoints an earlier process may have left behind.                     *)
EXTENDS Harness, TLC

CONSTANTS
  MaxSteps, MaxRetries,   \* the budgets of the configured runtimes
  First                   \* the worker whose runtime differs, where one does

Budgets(steps, retries, tools, reconciles, replays) ==
  [maxSteps |-> steps, maxRetries |-> retries, tools |-> tools,
   reconciles |-> reconciles, replays |-> replays]

\* Every worker runs the same deployment.
Recoverable == [w \in Workers |-> Budgets(MaxSteps, MaxRetries, TRUE, TRUE, TRUE)]

\* Two deployments share a store: one without tools and without retries, and
\* one with another attempt budget that can do everything.
Mixed ==
  [w \in Workers |->
     IF w = First THEN Budgets(MaxSteps, 0, FALSE, FALSE, FALSE)
     ELSE Budgets(2, MaxRetries, TRUE, TRUE, TRUE)]

Seed(schema, retried, iterations, path, steps, pending, error) ==
  [schema |-> schema, revision |-> 0, maxSteps |-> iterations + 1, iterations |-> iterations,
   maxRetries |-> retried, retries |-> retried,
   status |-> path[Len(path)], output |-> "", steps |-> steps,
   transitions |-> [i \in 1..(Len(path) - 1) |->
                      [from |-> path[i], to |-> path[i + 1]]],
   pending |-> pending, error |-> error]

ToModel == <<"created", "running_model">>
ToTool == Append(ToModel, "running_tool")
ToStep == Append(ToTool, "running_model")

\* Records of every schema version, with one attempt left.  They were written
\* before revisions existed, except the last, which carries its revision.
LegacyOf(id) ==
  LET step == [index |-> 1, call |-> id, callID |-> id, output |-> "ok"]
      retriedCall == Seed(3, 1, 2, ToTool, <<>>, id, "")
  IN {Seed(1, 0, 0, ToTool, <<>>, BadCall, ""),
      Seed(2, 0, 0, <<"created">>, <<>>, NoCall, ""),
      Seed(2, 0, 1, ToTool, <<>>, id, ""),
      Seed(2, 0, 1, ToStep, <<step>>, NoCall, ""),
      Seed(2, 0, 1, Append(ToTool, "failed"), <<>>, id, "ok"),
      [retriedCall EXCEPT !.revision = checkpointRevision(retriedCall)]}

Legacy == UNION {LegacyOf(id) : id \in CallIDs}

\* Those of them that were interrupted in a tool call.
LegacyCalls == {c \in Legacy : c.schema > 1 /\ c.status = "running_tool"}

Symmetry == Permutations(Workers) \cup Permutations(CallIDs)
=============================================================================
