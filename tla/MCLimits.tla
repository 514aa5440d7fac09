------------------------------ MODULE MCLimits ------------------------------
(* Instances of CircuitBreaker and of RateLimiter for one run of TLC.  The    *)
(* two share no state, so a behaviour uses one of them and leaves the other as *)
(* it was made.                                                                *)
EXTENDS CircuitBreaker, RateLimiter

VARIABLE used  \* "breaker" or "limiter"

LimitsInit == Init /\ LimiterInit /\ used \in {"breaker", "limiter"}

LimitsNext ==
  /\ \/ used = "breaker" /\ Next /\ UNCHANGED limiter_vars
     \/ used = "limiter" /\ LimiterNext /\ UNCHANGED vars
  /\ UNCHANGED used

LimitsSpec ==
  /\ LimitsInit /\ [][LimitsNext]_<<vars, limiter_vars, used>>
  /\ used = "breaker" => Fairness
=============================================================================
