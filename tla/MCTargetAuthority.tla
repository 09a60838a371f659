-------------------------- MODULE MCTargetAuthority --------------------------
(***************************************************************************)
(* Configurations an operator moves between: a target at two revisions     *)
(* with runner state of their own, a revision whose contents were changed, *)
(* a new revision in the old revision's directory or under its name, two   *)
(* targets, and one that Validate refuses.                                 *)
(***************************************************************************)
EXTENDS TargetAuthority, TLC

Target(id, revision, body, state) == [id |-> id, revision |-> revision, body |-> body, state |-> state]

MCConfigs == {
    [states |-> "s1" :> "d1", targets |-> {Target("t1", "r1", "a", "s1")}],
    [states |-> "s1" :> "d1", targets |-> {Target("t1", "r1", "b", "s1")}],
    [states |-> "s2" :> "d1", targets |-> {Target("t1", "r2", "b", "s2")}],
    [states |-> "s2" :> "d2", targets |-> {Target("t1", "r2", "b", "s2"), Target("t2", "r1", "a", None)}],
    [states |-> "s1" :> "d1", targets |-> {Target("t1", "r1", "a", "s1"), Target("t2", "r1", "a", "s1")}]}

Binding(actor, conversation, id, revision) ==
    [actor |-> actor, conversation |-> conversation, target |-> <<id, revision>>]

MCPolicies == {
    {Binding("alice", "room", "t1", "r1")},
    {Binding("alice", "room", "t1", "r2")},
    {Binding("alice", "room", "t1", "r1"), Binding("alice", "room", "t1", "r2")},
    {Binding("bot", "room", "t1", "r1")}}

Symmetry == Permutations(Procs) \cup Permutations(Runs)
=============================================================================
