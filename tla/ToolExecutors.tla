---------------------------- MODULE ToolExecutors ----------------------------
(***************************************************************************)
(* The tool executors that come with the runtime (mcp_executor.go,         *)
(* sandbox_executor.go) as operators: what Execute returns, given how the  *)
(* caller's resolver maps the call and what the external runtime replies   *)
(* ("none" when it was not called).                                        *)
(***************************************************************************)

\* How the resolver maps the call; "invalid": a request without a tool name, or
\* one that ExecRequest.Validate refuses.
Resolutions == {"error", "invalid", "request"}

\* What the external runtime replies.  A tool that failed by its own account
\* (isError, an exit code) is a result.  Only MCP replies nil or asks for input.
Replies == {"error", "nil", "needs input", "unencodable", "result"}

Execution(reply, ok, sentinel) == [reply |-> reply, ok |-> ok, sentinel |-> sentinel]

NotDispatched(resolution) ==
  Execution("none", FALSE,
            IF resolution = "invalid" THEN "ErrInvalidRequest" ELSE "callback")

MCPExecute(resolution, reply) ==
  IF resolution # "request" THEN NotDispatched(resolution)
  ELSE Execution(reply, reply = "result",
                 IF reply = "needs input" THEN "ErrMCPInputRequired" ELSE "callback")

SandboxExecute(resolution, reply) ==
  IF resolution # "request" THEN NotDispatched("error")
  ELSE Execution(reply, reply = "result", "callback")

Executions ==
  {MCPExecute(resolution, reply) : resolution \in Resolutions, reply \in Replies}
  \cup {SandboxExecute(resolution, reply) :
          resolution \in Resolutions, reply \in {"error", "unencodable", "result"}}
=============================================================================
