--------------------------- MODULE MCAgentDispatch ---------------------------
(* A small instance of AgentDispatch: the conversation has had one turn. *)
EXTENDS AgentDispatch

CONSTANTS First, FirstRef   \* the Run of that turn, and the reference it left

OneScope == [r \in Runs |-> CHOOSE s \in Scopes : TRUE]

\* First was dispatched, ran and completed; both processes are idle.
SecondTurn ==
    /\ core = [r \in Runs |->
                  IF r = First THEN [NewCoreRow("completed") EXCEPT !.prepared = TRUE, !.cause = "snapshot"]
                               ELSE NewCoreRow("none")]
    /\ pointer = [s \in Scopes |-> FirstRef]
    /\ box = [r \in Runs |->
                  IF r = First THEN [NoBoxRow EXCEPT !.state = "completed", !.turn = 1, !.result = FirstRef]
                               ELSE NoBoxRow]
    /\ sessions = [f \in Refs |->
                  IF f = FirstRef THEN [by |-> First, root |-> f, turn |-> 1, used |-> NoRun]
                                  ELSE NoSession]
    /\ aged = {} /\ offered = {} /\ late = {First} /\ target = TRUE
    /\ sup = At("list") /\ active = NoRun
    /\ faults = 0 /\ crashes = 0

MCFairSpec == SecondTurn /\ [][Next]_vars /\ Fairness
=============================================================================
