----------------------------- MODULE MCCoreStore -----------------------------
(* Instances of CoreStore for TLC. *)
EXTENDS CoreStore, DeliveryBackoff, TLC

CONSTANTS c1, e1, e2, e3, e4, e5, s1, s2, s3

\* One connector, events at the given instants.
OneConnector == [e \in Events |-> c1]
OneConnectorScopes == [s \in Scopes |-> c1]
OccurredEarly == [e \in Events |-> 1]
OccurredInTurn == [e \in Events |-> IF e = e1 THEN 1 ELSE IF e = e2 THEN 2 ELSE IF e = e3 THEN 3
                                       ELSE IF e = e4 THEN 4 ELSE 5]

\* Events and scopes that no instance tells apart.
Symmetry == Permutations(Events) \cup Permutations(Scopes)

\* A first delay of one instant, at most two.
ShortBackoff == [n \in 0..MaxSends |-> RetryBackoffOf(1, 2, n)]

\* The loop of retryBackoff is the capped exponential for every attempt, the delays
\* that are not a power of two below the ceiling included.
ASSUME BackoffIsExponential ==
    \A base \in 1..5, ceiling \in 5..17, attempt \in 1..7 :
        RetryBackoffOf(base, ceiling, attempt) = ExponentialBackoff(base, ceiling, attempt)

=============================================================================
