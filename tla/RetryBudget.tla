---------------------------- MODULE RetryBudget ----------------------------
(***************************************************************************)
(* The retry policy of one provider stage (RetryPolicy in                  *)
(* inku-pipeline/src/protocol.rs).  Times are in ticks of the caller's     *)
(* clock; None stands for Option::None.                                    *)
(***************************************************************************)
EXTENDS Integers

CONSTANT None

Failures  == {"transport_unavailable", "transport_timeout", "rate_limited",
              "provider_rejected", "malformed_payload", "schema_violation",
              "semantic_violation"}
\* A refusal is not asked for again in the same words.
Permanent == {"provider_rejected", "semantic_violation"}

\* Policies a caller may authorize (RetryPolicy::validate).
Policies == [max_attempts: Nat \ {0}, attempt_timeout: Nat \ {0},
             total_timeout: Nat \ {0}, retry_delay: Nat]

\* Mutant of NextBudgetedAttempt: an attempt that starts with no time left.
NextAttemptAtTheLimit(policy, attempt, elapsed) ==
  IF \/ attempt >= policy.max_attempts
     \/ elapsed + policy.retry_delay > policy.total_timeout
  THEN None ELSE attempt + 1

\* The next attempt, while the attempts and the time of the stage last.
NextBudgetedAttempt(policy, attempt, elapsed) ==
  IF \/ attempt >= policy.max_attempts
     \/ elapsed + policy.retry_delay >= policy.total_timeout
  THEN None ELSE attempt + 1

NextAttempt(policy, attempt, elapsed, failure) ==
  IF failure \in Permanent THEN None
  ELSE NextBudgetedAttempt(policy, attempt, elapsed)

\* attempt_timeout.min(total_timeout.saturating_sub(elapsed))
RemainingAttemptTimeout(policy, elapsed) ==
  LET left == IF elapsed > policy.total_timeout THEN 0
              ELSE policy.total_timeout - elapsed
  IN  IF policy.attempt_timeout < left THEN policy.attempt_timeout ELSE left
=============================================================================
