--------------------------- MODULE CircuitBreaker ---------------------------
(***************************************************************************)
(* core/circuit_breaker.rs: one CircuitBreaker shared by concurrent callers *)
(* of `execute`.  Its mutex covers the admission and, once the wrapped      *)
(* future is over, on_success or on_failure; it is not held in between.     *)
(***************************************************************************)
EXTENDS Naturals, FiniteSets

CONSTANTS
  Callers,          \* tasks that call execute
  FailureThreshold,
  ResetTimeout,     \* in ticks
  CountCap,         \* bound of failure_count in the model
  None

ASSUME BreakerAssumption ==
  /\ FailureThreshold \in Nat \ {0}
  /\ ResetTimeout \in Nat
  /\ CountCap \in Nat /\ CountCap >= FailureThreshold
  /\ None \notin Nat

VARIABLES
  state,          \* Inner::state
  failure_count,  \* Inner::failure_count, up to CountCap
  age,            \* opened_at.elapsed(), up to ResetTimeout; None before any opening
  pc,             \* "idle", or running f as a "regular" or a "trial" call
  dropped,        \* a trial's future was dropped since the breaker was half open
  healthy         \* the target has recovered for good

vars == <<state, failure_count, age, pc, dropped, healthy>>

States == {"Closed", "Open", "HalfOpen"}

Init ==
  /\ state = "Closed"
  /\ failure_count = 0
  /\ age = None
  /\ pc = [c \in Callers |-> "idle"]
  /\ dropped = FALSE
  /\ healthy = FALSE

\* opened_at.map(elapsed).unwrap_or_default()
Elapsed == IF age = None THEN 0 ELSE age

\* Fault: one trial at a time, which a dropped trial blocks for good.
AdmitsOneTrial == state # "HalfOpen" /\ (state = "Open" => Elapsed >= ResetTimeout)

\* execute's guard: only an open breaker refuses, with no effect, and only
\* until reset_timeout has passed.
Admits == state = "Open" => Elapsed >= ResetTimeout

Admit(c) ==
  /\ pc[c] = "idle"
  /\ Admits
  /\ state' = IF state = "Open" THEN "HalfOpen" ELSE state
  /\ pc' = [pc EXCEPT ![c] = IF state' = "HalfOpen" THEN "trial" ELSE "regular"]
  /\ dropped' = (dropped /\ state = "HalfOpen")
  /\ UNCHANGED <<failure_count, age, healthy>>

Ends(c) == pc[c] # "idle" /\ pc' = [pc EXCEPT ![c] = "idle"]

\* Fault: each success takes one failure back, on an unsigned count.
SucceedDecays(c) ==
  /\ Ends(c)
  /\ failure_count' = failure_count - 1
  /\ state' = "Closed"
  /\ UNCHANGED <<age, dropped, healthy>>

\* Fault: a success resets the count and leaves the state to the next call.
SucceedNotClosing(c) ==
  /\ Ends(c)
  /\ failure_count' = 0
  /\ UNCHANGED <<state, age, dropped, healthy>>

\* on_success, whatever state the breaker has reached since the admission.
Succeed(c) ==
  /\ Ends(c)
  /\ failure_count' = 0
  /\ state' = "Closed"
  /\ UNCHANGED <<age, dropped, healthy>>

Bump(n) == IF n < CountCap THEN n + 1 ELSE n

\* Fault: one failure more than the threshold.
TripsLate(count) == state = "HalfOpen" \/ count > FailureThreshold

Trips(count) == state = "HalfOpen" \/ count >= FailureThreshold

\* on_failure, likewise; it stamps opened_at again if the breaker is open.
Fail(c) ==
  /\ ~healthy
  /\ Ends(c)
  /\ failure_count' = Bump(failure_count)
  /\ IF Trips(failure_count')
     THEN state' = "Open" /\ age' = 0
     ELSE UNCHANGED <<state, age>>
  /\ UNCHANGED <<dropped, healthy>>

\* The caller drops the future of execute while f runs: neither handler runs.
Drop(c) ==
  /\ Ends(c)
  /\ dropped' = (dropped \/ pc[c] = "trial")
  /\ UNCHANGED <<state, failure_count, age, healthy>>

\* Time is told apart up to ResetTimeout after the opening.
Tick ==
  /\ age # None /\ age < ResetTimeout
  /\ age' = age + 1
  /\ UNCHANGED <<state, failure_count, pc, dropped, healthy>>

Recover ==
  /\ ~healthy
  /\ healthy' = TRUE
  /\ UNCHANGED <<state, failure_count, age, pc, dropped>>

Next ==
  \/ \E c \in Callers : Admit(c) \/ Succeed(c) \/ Fail(c) \/ Drop(c)
  \/ Tick \/ Recover

Spec == Init /\ [][Next]_vars

\* Time passes, callers keep calling, and not every call of a caller is dropped.
Fairness ==
  /\ WF_vars(Tick)
  /\ \A c \in Callers : WF_vars(Admit(c)) /\ SF_vars(Succeed(c))

-----------------------------------------------------------------------------
(* Properties.                                                              *)

\* Every variable stays in its domain; the unsigned count never underflows.
TypeOK ==
  /\ state \in States
  /\ failure_count \in 0 .. CountCap
  /\ age \in 0 .. ResetTimeout \cup {None}
  /\ pc \in [Callers -> {"idle", "regular", "trial"}]
  /\ dropped \in BOOLEAN
  /\ healthy \in BOOLEAN

\* Inner's three fields, written by calls that overlap in any way, agree: a
\* closed breaker is below its threshold, so that failure_threshold failures in
\* a row always open it; another one has failures behind it and an opened_at,
\* without which execute would refuse for ever (elapsed would stay 0).
FieldsAgree ==
  /\ state = "Closed" => failure_count < FailureThreshold
  /\ state # "Closed" => failure_count > 0 /\ age # None

\* A half-open breaker has a trial in flight that will decide, unless the
\* future of a trial was dropped.
HalfOpenOnTrial == state = "HalfOpen" => dropped \/ \E c \in Callers : pc[c] = "trial"

\* Once the target answers again the breaker closes for good, whatever calls
\* were in flight: neither a late failure nor a dropped trial can wedge it.
ClosesOnceHealthy == healthy ~> [](state = "Closed")

\* circuit_breaker.rs:46: after reset_timeout the breaker "lets one trial call
\* through (HALF_OPEN)".  Nothing counts the trials: a half-open breaker admits
\* every caller.
OneTrial == state = "HalfOpen" => Cardinality({c \in Callers : pc[c] = "trial"}) <= 1
=============================================================================
