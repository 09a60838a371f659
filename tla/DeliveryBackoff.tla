--------------------------- MODULE DeliveryBackoff ---------------------------
(***************************************************************************)
(* How long a reply waits after a failed attempt: Store.retryBackoff of    *)
(* internal/corestore/outbox.go, as the loop it is.                        *)
(***************************************************************************)
EXTENDS Integers

\* The loop: `delay` doubles from attempt `current` on, and stops at the ceiling
\* before a doubling could pass it.
DoubleUntil(ceiling, attempt) ==
    LET from[delay \in Nat, current \in Nat] ==
            IF current >= attempt \/ delay >= ceiling
            THEN IF delay > ceiling THEN ceiling ELSE delay
            ELSE IF delay > ceiling \div 2
                 THEN ceiling
                 ELSE from[2 * delay, current + 1]
    IN  from

RetryBackoffOf(base, ceiling, attempt) == DoubleUntil(ceiling, attempt)[base, 1]

\* What the loop is for: base * 2^(attempt-1), and never more than the ceiling.
ExponentialBackoff(base, ceiling, attempt) ==
    LET delay == base * 2 ^ (attempt - 1)
    IN  IF delay > ceiling THEN ceiling ELSE delay

=============================================================================
