----------------------------- MODULE MCExecute -----------------------------
(* Execute on small instances, for TLC.                                    *)
EXTENDS Execute, TLC

(* One call and one fallback at a time, with a timeout.                    *)
Normal ==
  [ForcedClosed |-> FALSE, ForceOpen |-> FALSE, Disabled |-> FALSE,
   ExecutionTimeout |-> TRUE, MaxConcurrentRequests |-> 1,
   IgnoreInterrupts |-> FALSE, FallbackDisabled |-> FALSE,
   FallbackMaxConcurrentRequests |-> 1]

(* Everything else.  SetConfigThreadSafe goes from one to the other and    *)
(* back field by field, so that calls meet every mixture on the way.       *)
Overridden ==
  [ForcedClosed |-> TRUE, ForceOpen |-> TRUE, Disabled |-> TRUE,
   ExecutionTimeout |-> FALSE, MaxConcurrentRequests |-> -1,
   IgnoreInterrupts |-> TRUE, FallbackDisabled |-> TRUE,
   FallbackMaxConcurrentRequests |-> 0]

(* The callers are interchangeable.                                        *)
CallerSymmetry == Permutations(Goroutines)

NormalAndOverridden == {Normal, Overridden}
=============================================================================
