----------------------------- MODULE RateLimiter -----------------------------
(***************************************************************************)
(* core/rate_limiter.rs: concurrent callers of RateLimiter::acquire, which  *)
(* reads the clock before it takes the lock on its timestamps.              *)
(*                                                                          *)
(* A grant has its caller, the instant acquire pushed and the instant at    *)
(* which it returned Ok, and a number that tells equal ones apart; the Vec  *)
(* of timestamps is the set of the grants whose instant it still holds.     *)
(*                                                                          *)
(* The names are its own, so that one proof module can extend this module   *)
(* and CircuitBreaker.                                                      *)
(***************************************************************************)
EXTENDS Naturals, FiniteSets

CONSTANTS
  Acquirers,    \* threads that call acquire
  Limit,
  Window,     \* in ticks
  MaxTime,    \* bound of the clock
  MaxGrants   \* bound of the history

ASSUME LimiterAssumption ==
  /\ IsFiniteSet(Acquirers)
  /\ Limit \in Nat
  /\ Window \in Nat \ {0}
  /\ MaxTime \in Nat
  /\ MaxGrants \in Nat

VARIABLES
  clock,        \* Instant::now()
  step,           \* "idle", or "stamped" between the clock and the lock
  now,          \* acquire's local `now`
  timestamps,   \* the grants whose instant is in the Vec
  grants        \* history: every grant there has been

limiter_vars == <<clock, step, now, timestamps, grants>>

Grant == [n : 1 .. MaxGrants, by : Acquirers, stamp : 0 .. MaxTime, at : 0 .. MaxTime]

LimiterInit ==
  /\ clock = 0
  /\ step = [c \in Acquirers |-> "idle"]
  /\ now = [c \in Acquirers |-> 0]
  /\ timestamps = {}
  /\ grants = {}

ReadClock(c) ==
  /\ step[c] = "idle"
  /\ step' = [step EXCEPT ![c] = "stamped"]
  /\ now' = [now EXCEPT ![c] = clock]
  /\ UNCHANGED <<clock, timestamps, grants>>

\* Fault: a timestamp later than `now`, for which checked_duration_since has
\* no answer, is taken for an expired one.
DurationChecked(later, earlier) == IF later >= earlier THEN later - earlier ELSE Window

\* Instant::duration_since saturates: a later instant has age zero.
DurationSince(later, earlier) == IF later > earlier THEN later - earlier ELSE 0

\* Fault: a fixed window, which starts anew when its first timestamp expires.
RecentFixed(t) ==
  IF \E g \in timestamps : DurationSince(t, g.stamp) >= Window THEN {} ELSE timestamps

\* retain
Recent(t) == {g \in timestamps : DurationSince(t, g.stamp) < Window}

Return(c) ==
  /\ step[c] = "stamped"
  /\ step' = [step EXCEPT ![c] = "idle"]
  /\ now' = [now EXCEPT ![c] = 0]
  /\ UNCHANGED clock

\* Fault: off by one.
FullLate(t) == Cardinality(Recent(t)) > Limit

Full(t) == Cardinality(Recent(t)) >= Limit

NewGrant(c) ==
  [n |-> Cardinality(grants) + 1, by |-> c, stamp |-> now[c], at |-> clock]

\* Fault: a call that is turned away is logged like the others.
RejectLogged(c) ==
  /\ Return(c)
  /\ Full(now[c])
  /\ timestamps' = Recent(now[c]) \cup {NewGrant(c)}
  /\ UNCHANGED grants

Reject(c) ==
  /\ Return(c)
  /\ Full(now[c])
  /\ timestamps' = Recent(now[c])
  /\ UNCHANGED grants

Accept(c) ==
  /\ Return(c)
  /\ ~Full(now[c])
  /\ Cardinality(grants) < MaxGrants
  /\ timestamps' = Recent(now[c]) \cup {NewGrant(c)}
  /\ grants' = grants \cup {NewGrant(c)}

ClockTick ==
  /\ clock < MaxTime
  /\ clock' = clock + 1
  /\ UNCHANGED <<step, now, timestamps, grants>>

LimiterNext == ClockTick \/ \E c \in Acquirers : ReadClock(c) \/ Reject(c) \/ Accept(c)

LimiterSpec == LimiterInit /\ [][LimiterNext]_limiter_vars

-----------------------------------------------------------------------------
(* Properties.                                                              *)

\* Every variable stays in its domain; the Vec only holds grants.
LimiterTypeOK ==
  /\ clock \in 0 .. MaxTime
  /\ step \in [Acquirers -> {"idle", "stamped"}]
  /\ now \in [Acquirers -> 0 .. clock]
  /\ timestamps \subseteq grants
  /\ grants \subseteq Grant

\* The Vec never outgrows the limit, whoever retains and pushes in which order.
LogBounded == Cardinality(timestamps) <= Limit

Prompt(g) == g.stamp = g.at

Within(g) == clock - g.at < Window

\* rate_limiter.rs:8, "at most `limit` calls per `window`", for the calls that
\* reach the lock in the instant they read the clock: no caller with an older
\* reading, retaining or pushing in between, makes the limiter forget one.
PromptWithinLimit == Cardinality({g \in grants : Prompt(g) /\ Within(g)}) <= Limit

\* The same for every call.  A caller held up between the clock and the lock is
\* logged with an instant that expires too early, so that the documented bound
\* is exceeded, but by no more than one such call of each caller.
OvershootBounded ==
  Cardinality({g \in grants : Within(g)}) <= Limit + Cardinality(Acquirers)

\* Why they hold.  The Vec has every instant of the last window, for a reader
\* older than the clock only retains more.
StampsKept == \A g \in grants : clock - g.stamp < Window => g \in timestamps

\* A call reads the clock, then is granted; a caller makes one after the other.
CallsInOrder ==
  /\ \A g \in grants : g.stamp <= g.at /\ g.at <= clock
  /\ \A g \in grants : step[g.by] = "stamped" => g.at <= now[g.by]
  /\ \A g, h \in grants : g.by = h.by /\ g # h => g.at <= h.stamp \/ h.at <= g.stamp

LimiterInv == IsFiniteSet(grants) /\ LogBounded /\ StampsKept /\ CallsInOrder
=============================================================================
