-------------------------- MODULE MCCredentialLease --------------------------
(* An instance of CredentialLease for TLC. *)
EXTENDS CredentialLease

CONSTANTS s1, s2, o1, o2, t1, t2, t3

Config(slot, generation, revision, scope) ==
    [ref |-> <<slot, generation>>, revision |-> revision, scope |-> scope]

\* The first configuration; its successor; the same file under another slot, with a revision that is
\* taken; a mock target.
OperatorConfigs ==
    {Config(s1, 1, t1, "w1"), Config(s1, 2, t2, "w1"), Config(s2, 1, t2, "w2"),
     [ref |-> NoRef, revision |-> t3, scope |-> "w1"]}

=============================================================================
