---------------------------- MODULE ToolContract ----------------------------
(***************************************************************************)
(* What Executor.Execute promises to those who run it: a tool use is       *)
(* refused without a call, or its tool is called once, before the context  *)
(* is done, and then answers.  Only a called tool can answer without an    *)
(* error.  Module ToolExecutor implements this specification, and module   *)
(* ToolOrchestrator relies on it for each of its uses.                     *)
(***************************************************************************)
VARIABLES cancelled,  \* the context is done
          st,         \* "waiting", "call" or "done"
          res         \* "none", or what Execute returned: "ok" or "err"

vars == <<cancelled, st, res>>

Init ==
  /\ cancelled = FALSE
  /\ st = "waiting"
  /\ res = "none"

Cancel ==
  /\ cancelled' = TRUE
  /\ UNCHANGED <<st, res>>

Refuse ==
  /\ st = "waiting"
  /\ st' = "done" /\ res' = "err"
  /\ UNCHANGED cancelled

Call ==
  /\ st = "waiting"
  /\ ~cancelled
  /\ st' = "call"
  /\ UNCHANGED <<cancelled, res>>

Return ==
  /\ st = "call"
  /\ st' = "done"
  /\ res' \in {"ok", "err"}
  /\ UNCHANGED cancelled

Next == Cancel \/ Refuse \/ Call \/ Return

Spec == Init /\ [][Next]_vars
=============================================================================
