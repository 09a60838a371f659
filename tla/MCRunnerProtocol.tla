-------------------------- MODULE MCRunnerProtocol --------------------------
(* RunnerProtocol for TLC: targets that resume and do not, and event limits  *)
(* at, below and far below the protocol's.                                   *)
EXTENDS RunnerProtocol

CONSTANTS TheLimits

\* The mock's targets: manifest.go requires the resume feature of a target that resumes.
Resuming == {[mode |-> "opaque_resume", limit |-> l, required |-> {"resume"}, request |-> "new"] : l \in TheLimits}

Fresh == {[mode |-> "new_only", limit |-> l, required |-> {}, request |-> "new"] : l \in TheLimits}

Denied == {[mode |-> "new_only", limit |-> MaxEvents, required |-> {}, request |-> q] : q \in {"resume", "oversized"}}

MCTargets == Resuming \cup Fresh \cup Denied

\* The Codex targets are new-only, and the mock's leave room for what it writes, which is always the
\* same number of events and of bytes.
Suits ==
    /\ runner.program = "codex" => target.mode = "new_only"
    /\ runner.program # "untrusted" => target.limit = MaxEvents

MCInit == Init /\ Suits

MCSpec == MCInit /\ [][Next]_vars

MCFairSpec == MCSpec /\ WF_vars(Bridge) /\ WF_vars(Controller) /\ WF_vars(ContextExpires)

=============================================================================
