----------------------------- MODULE Limits_proofs -----------------------------
(* Theorems about the two parts of core/ that turn calls away: CircuitBreaker, *)
(* for any callers, threshold and timeout, and RateLimiter, for any callers,   *)
(* limit and window.                                                           *)
EXTENDS CircuitBreaker, RateLimiter, FiniteSetTheorems, TLAPS

\* Every step of the breaker keeps its variables in their domains: on_success
\* and on_failure never leave the unsigned count.
THEOREM TypeCorrect == Spec => []TypeOK
<1>1. Init => TypeOK
  <2> SUFFICES ASSUME Init PROVE TypeOK
    OBVIOUS
  <2>1. failure_count \in 0 .. CountCap
    BY BreakerAssumption DEF Init
  <2>2. pc \in [Callers -> {"idle", "regular", "trial"}]
    BY DEF Init
  <2>3. dropped \in BOOLEAN /\ healthy \in BOOLEAN
    BY DEF Init
  <2> QED
    BY <2>1, <2>2, <2>3 DEF Init, TypeOK, States
<1>2. TypeOK /\ [Next]_vars => TypeOK'
  <2> SUFFICES ASSUME TypeOK, [Next]_vars PROVE TypeOK'
    OBVIOUS
  <2> USE BreakerAssumption DEF TypeOK, States
  <2>1. ASSUME NEW c \in Callers, Admit(c) PROVE TypeOK'
    BY <2>1 DEF Admit
  <2>2. ASSUME NEW c \in Callers, Succeed(c) PROVE TypeOK'
    BY <2>2 DEF Succeed, Ends
  <2>3. ASSUME NEW c \in Callers, Fail(c) PROVE TypeOK'
    <3>1. failure_count' \in 0 .. CountCap
      BY <2>3 DEF Fail, Bump
    <3> QED
      BY <2>3, <3>1 DEF Fail, Ends
  <2>4. ASSUME NEW c \in Callers, Drop(c) PROVE TypeOK'
    BY <2>4 DEF Drop, Ends
  <2>5. CASE Tick
    BY <2>5 DEF Tick
  <2>6. CASE Recover
    BY <2>6 DEF Recover
  <2>7. CASE UNCHANGED vars
    BY <2>7 DEF vars
  <2> QED
    BY <2>1, <2>2, <2>3, <2>4, <2>5, <2>6, <2>7 DEF Next
<1> QED
  BY <1>1, <1>2, PTL DEF Spec

\* The three fields of Inner agree after any overlap of calls: on_failure and
\* on_success read the state they find, not the one the call was admitted in.
THEOREM FieldsAlwaysAgree == Spec => []FieldsAgree
<1>1. Init => FieldsAgree
  BY BreakerAssumption DEF Init, FieldsAgree
<1>2. TypeOK /\ FieldsAgree /\ [Next]_vars => FieldsAgree'
  <2> SUFFICES ASSUME TypeOK, FieldsAgree, [Next]_vars PROVE FieldsAgree'
    OBVIOUS
  <2> USE BreakerAssumption DEF TypeOK, States, FieldsAgree
  <2>1. ASSUME NEW c \in Callers, Admit(c) PROVE FieldsAgree'
    BY <2>1 DEF Admit
  <2>2. ASSUME NEW c \in Callers, Succeed(c) PROVE FieldsAgree'
    BY <2>2 DEF Succeed
  <2>3. ASSUME NEW c \in Callers, Fail(c) PROVE FieldsAgree'
    <3>1. failure_count' \in Nat /\ failure_count' > 0
      BY <2>3 DEF Fail, Bump
    <3>2. CASE Trips(failure_count')
      BY <2>3, <3>1, <3>2 DEF Fail
    <3>3. CASE ~Trips(failure_count')
      BY <2>3, <3>1, <3>3 DEF Fail, Trips
    <3> QED
      BY <3>2, <3>3
  <2>4. ASSUME NEW c \in Callers, Drop(c) PROVE FieldsAgree'
    BY <2>4 DEF Drop
  <2>5. CASE Tick
    BY <2>5 DEF Tick
  <2>6. CASE Recover
    BY <2>6 DEF Recover
  <2>7. CASE UNCHANGED vars
    BY <2>7 DEF vars
  <2> QED
    BY <2>1, <2>2, <2>3, <2>4, <2>5, <2>6, <2>7 DEF Next
<1> QED
  BY <1>1, <1>2, TypeCorrect, PTL DEF Spec

\* A half-open breaker waits for a trial that is in flight, or has lost one to a
\* dropped future: no end of another call takes the trial away.
THEOREM HalfOpenAlwaysOnTrial == Spec => []HalfOpenOnTrial
<1>1. Init => HalfOpenOnTrial
  BY DEF Init, HalfOpenOnTrial
<1>2. TypeOK /\ HalfOpenOnTrial /\ [Next]_vars => HalfOpenOnTrial'
  <2> SUFFICES ASSUME TypeOK, HalfOpenOnTrial, [Next]_vars, state' = "HalfOpen", ~dropped'
               PROVE  \E d \in Callers : pc'[d] = "trial"
    BY DEF HalfOpenOnTrial
  <2> USE DEF TypeOK, States
  <2>1. ASSUME NEW c \in Callers, Admit(c) PROVE pc'[c] = "trial"
    BY <2>1 DEF Admit
  <2>2. ASSUME NEW c \in Callers, Succeed(c) PROVE FALSE
    BY <2>2 DEF Succeed
  <2>3. ASSUME NEW c \in Callers, Fail(c) PROVE FALSE
    BY <2>3 DEF Fail, Trips, Ends, HalfOpenOnTrial
  <2>4. ASSUME NEW c \in Callers, Drop(c) PROVE \E d \in Callers : pc'[d] = "trial"
    <3>1. PICK d \in Callers : pc[d] = "trial"
      BY <2>4 DEF Drop, HalfOpenOnTrial
    <3>2. d # c
      BY <2>4, <3>1 DEF Drop
    <3> QED
      BY <2>4, <3>1, <3>2 DEF Drop, Ends
  <2>5. CASE Tick \/ Recover \/ UNCHANGED vars
    BY <2>5 DEF Tick, Recover, vars, HalfOpenOnTrial
  <2> QED
    BY <2>1, <2>2, <2>3, <2>4, <2>5 DEF Next
<1> QED
  BY <1>1, <1>2, TypeCorrect, PTL DEF Spec
-----------------------------------------------------------------------------
(* RateLimiter.                                                             *)

\* acquire keeps its variables in their domains: a call that is turned away
\* leaves nothing in the Vec.
THEOREM LimiterTypeCorrect == LimiterSpec => [](LimiterTypeOK /\ IsFiniteSet(grants))
<1>1. LimiterInit => LimiterTypeOK /\ IsFiniteSet(grants)
  BY LimiterAssumption, FS_EmptySet DEF LimiterInit, LimiterTypeOK
<1>2. LimiterTypeOK /\ IsFiniteSet(grants) /\ [LimiterNext]_limiter_vars
        => LimiterTypeOK' /\ IsFiniteSet(grants)'
  <2> SUFFICES ASSUME LimiterTypeOK, IsFiniteSet(grants), [LimiterNext]_limiter_vars
               PROVE  LimiterTypeOK' /\ IsFiniteSet(grants')
    OBVIOUS
  <2> USE LimiterAssumption DEF LimiterTypeOK
  <2>1. CASE ClockTick
    BY <2>1 DEF ClockTick
  <2>2. ASSUME NEW c \in Acquirers, ReadClock(c) PROVE LimiterTypeOK' /\ IsFiniteSet(grants')
    BY <2>2 DEF ReadClock
  <2>3. ASSUME NEW c \in Acquirers, Reject(c) PROVE LimiterTypeOK' /\ IsFiniteSet(grants')
    BY <2>3 DEF Reject, Return, Recent
  <2>4. ASSUME NEW c \in Acquirers, Accept(c) PROVE LimiterTypeOK' /\ IsFiniteSet(grants')
    <3>1. Cardinality(grants) \in Nat /\ IsFiniteSet(grants \cup {NewGrant(c)})
      BY FS_CardinalityType, FS_AddElement
    <3>2. NewGrant(c) \in Grant
      BY <2>4, <3>1 DEF Accept, NewGrant, Grant
    <3>3. timestamps' \subseteq grants' /\ grants' \subseteq Grant
      BY <2>4, <3>2 DEF Accept, Recent
    <3> QED
      BY <2>4, <3>1, <3>3 DEF Accept, Return
  <2>5. CASE UNCHANGED limiter_vars
    BY <2>5 DEF limiter_vars
  <2> QED
    BY <2>1, <2>2, <2>3, <2>4, <2>5 DEF LimiterNext
<1> QED
  BY <1>1, <1>2, PTL DEF LimiterSpec

\* What retain leaves is finite, and of a size the guard of acquire compares.
LEMMA RecentFinite ==
  ASSUME LimiterTypeOK, IsFiniteSet(grants), NEW t
  PROVE  /\ IsFiniteSet(Recent(t)) /\ Cardinality(Recent(t)) \in Nat
         /\ IsFiniteSet(timestamps) /\ Cardinality(Recent(t)) <= Cardinality(timestamps)
<1>1. IsFiniteSet(timestamps)
  BY FS_Subset DEF LimiterTypeOK
<1>2. Recent(t) \in SUBSET timestamps
  BY DEF Recent
<1> QED
  BY <1>1, <1>2, FS_Subset, FS_CardinalityType

\* A caller whose reading is not ahead of the clock forgets no instant of the
\* last window.
LEMMA RecentKeeps ==
  ASSUME LimiterTypeOK, StampsKept, NEW t \in 0 .. clock,
         NEW g \in grants, clock - g.stamp < Window
  PROVE  g \in Recent(t)
<1>1. g \in timestamps /\ g.stamp \in Nat /\ clock \in Nat
  BY LimiterAssumption DEF StampsKept, LimiterTypeOK, Grant
<1>2. DurationSince(t, g.stamp) < Window
  BY <1>1, LimiterAssumption DEF DurationSince
<1> QED
  BY <1>1, <1>2 DEF Recent

\* Whoever retains and pushes in which order, the Vec never outgrows the limit,
\* has every instant of the last window, and each caller's calls are in order.
THEOREM LimiterInductive == LimiterSpec => []LimiterInv
<1>1. LimiterInit => LimiterInv
  BY LimiterAssumption, FS_EmptySet
  DEF LimiterInit, LimiterInv, LogBounded, StampsKept, CallsInOrder
<1>2. LimiterTypeOK /\ LimiterInv /\ [LimiterNext]_limiter_vars /\ IsFiniteSet(grants)'
        => LimiterInv'
  <2> SUFFICES ASSUME LimiterTypeOK, LimiterInv, [LimiterNext]_limiter_vars
               PROVE  LogBounded' /\ StampsKept' /\ CallsInOrder'
    BY DEF LimiterInv
  <2>0. /\ IsFiniteSet(grants) /\ LogBounded /\ StampsKept /\ CallsInOrder
        /\ \A g \in grants : g.by \in Acquirers /\ g.stamp \in Nat /\ g.at \in Nat
        /\ clock \in Nat
        /\ \A c \in Acquirers : now[c] \in 0 .. clock /\ now[c] \in Nat
    BY LimiterAssumption DEF LimiterInv, LimiterTypeOK, Grant
  <2>1. CASE ClockTick
    BY <2>0, <2>1, LimiterAssumption DEF ClockTick, LogBounded, StampsKept, CallsInOrder
  <2>2. ASSUME NEW c \in Acquirers, ReadClock(c)
        PROVE  LogBounded' /\ StampsKept' /\ CallsInOrder'
    <3>1. LogBounded' /\ StampsKept'
      BY <2>0, <2>2 DEF ReadClock, LogBounded, StampsKept
    <3>2. CallsInOrder'
      BY <2>0, <2>2 DEF ReadClock, CallsInOrder, LimiterTypeOK
    <3> QED
      BY <3>1, <3>2
  <2>3. ASSUME NEW c \in Acquirers, Reject(c)
        PROVE  LogBounded' /\ StampsKept' /\ CallsInOrder'
    <3>1. LogBounded'
      BY <2>0, <2>3, RecentFinite, FS_CardinalityType, LimiterAssumption
      DEF Reject, LogBounded
    <3>2. StampsKept'
      BY <2>0, <2>3, RecentKeeps DEF Reject, Return, StampsKept
    <3>3. CallsInOrder'
      BY <2>0, <2>3 DEF Reject, Return, CallsInOrder, LimiterTypeOK
    <3> QED
      BY <3>1, <3>2, <3>3
  <2>4. ASSUME NEW c \in Acquirers, Accept(c)
        PROVE  LogBounded' /\ StampsKept' /\ CallsInOrder'
    <3> DEFINE new == NewGrant(c)
    <3>1. LogBounded'
      <4>1. /\ IsFiniteSet(Recent(now[c]))
            /\ Cardinality(Recent(now[c])) \in Nat
            /\ Cardinality(Recent(now[c])) < Limit
        BY <2>0, <2>4, RecentFinite, LimiterAssumption DEF Accept, Full
      <4>2. Cardinality(Recent(now[c]) \cup {new}) <= Cardinality(Recent(now[c])) + 1
        <5>1. Cardinality(Recent(now[c]) \cup {new}) =
                IF new \in Recent(now[c]) THEN Cardinality(Recent(now[c]))
                                          ELSE Cardinality(Recent(now[c])) + 1
          BY <4>1, FS_AddElement
        <5> QED
          BY <4>1, <5>1
      <4>3. Cardinality(Recent(now[c]) \cup {new}) \in Nat
        BY <4>1, FS_AddElement, FS_CardinalityType
      <4> QED
        BY <2>4, <4>1, <4>2, <4>3, LimiterAssumption DEF Accept, LogBounded
    <3>2. StampsKept'
      BY <2>0, <2>4, RecentKeeps DEF Accept, Return, StampsKept
    <3>3. CallsInOrder'
      <4>1. new.by = c /\ new.stamp = now[c] /\ new.at = clock
        BY DEF NewGrant
      <4>2. \A g \in grants : g.by = c => g.at <= new.stamp
        BY <2>0, <2>4, <4>1 DEF Accept, Return, CallsInOrder
      <4>3. grants' = grants \cup {new} /\ clock' = clock
        BY <2>4 DEF Accept, Return
      <4>4. step'[c] = "idle" /\ \A d \in Acquirers \ {c} : step'[d] = step[d] /\ now'[d] = now[d]
        BY <2>4 DEF Accept, Return, LimiterTypeOK
      <4>5. \A g \in grants' : g.stamp <= g.at /\ g.at <= clock'
        BY <2>0, <4>1, <4>3 DEF CallsInOrder
      <4>6. \A g \in grants' : step'[g.by] = "stamped" => g.at <= now'[g.by]
        BY <2>0, <4>1, <4>3, <4>4 DEF CallsInOrder
      <4>7. \A g, h \in grants' : g.by = h.by /\ g # h => g.at <= h.stamp \/ h.at <= g.stamp
        BY <2>0, <4>1, <4>2, <4>3 DEF CallsInOrder
      <4> QED
        BY <4>5, <4>6, <4>7 DEF CallsInOrder
    <3> QED
      BY <3>1, <3>2, <3>3
  <2>5. CASE UNCHANGED limiter_vars
    BY <2>0, <2>5 DEF limiter_vars, LogBounded, StampsKept, CallsInOrder
  <2> QED
    BY <2>1, <2>2, <2>3, <2>4, <2>5 DEF LimiterNext
<1> QED
  BY <1>1, <1>2, LimiterTypeCorrect, PTL DEF LimiterSpec

\* rate_limiter.rs:25-36 never holds more instants than the limit.
THEOREM LogAlwaysBounded == LimiterSpec => []LogBounded
<1>1. LimiterInv => LogBounded
  BY DEF LimiterInv
<1> QED
  BY <1>1, LimiterInductive, PTL

\* The instants of the last window are all in the Vec, so at most Limit.
LEMMA RecentStamps ==
  ASSUME LimiterTypeOK, LimiterInv
  PROVE  /\ IsFiniteSet({g \in grants : clock - g.stamp < Window})
         /\ Cardinality({g \in grants : clock - g.stamp < Window}) \in Nat
         /\ Cardinality({g \in grants : clock - g.stamp < Window}) <= Limit
<1> DEFINE fresh == {g \in grants : clock - g.stamp < Window}
<1>1. IsFiniteSet(timestamps) /\ Cardinality(timestamps) \in Nat
  BY FS_Subset, FS_CardinalityType DEF LimiterTypeOK, LimiterInv
<1>2. fresh \in SUBSET timestamps
  BY DEF LimiterInv, StampsKept
<1>3. IsFiniteSet(fresh) /\ Cardinality(fresh) <= Cardinality(timestamps)
  BY <1>1, <1>2, FS_Subset
<1>4. Cardinality(fresh) \in Nat
  BY <1>3, FS_CardinalityType
<1> HIDE DEF fresh
<1>5. Cardinality(fresh) <= Limit
  BY <1>1, <1>3, <1>4, LimiterAssumption DEF LimiterInv, LogBounded
<1> QED
  BY <1>3, <1>4, <1>5 DEF fresh

\* The documented limit holds among the calls that are not held up between the
\* clock and the lock, whatever the held up ones retain and push.
THEOREM PromptAlwaysWithinLimit == LimiterSpec => []PromptWithinLimit
<1>1. LimiterTypeOK /\ LimiterInv => PromptWithinLimit
  <2> SUFFICES ASSUME LimiterTypeOK, LimiterInv PROVE PromptWithinLimit
    OBVIOUS
  <2> DEFINE fresh == {g \in grants : clock - g.stamp < Window}
             prompt == {g \in grants : Prompt(g) /\ Within(g)}
  <2>1. prompt \in SUBSET fresh
    BY DEF Prompt, Within
  <2>2. IsFiniteSet(fresh) /\ Cardinality(fresh) \in Nat /\ Cardinality(fresh) <= Limit
    BY RecentStamps
  <2>3. IsFiniteSet(prompt) /\ Cardinality(prompt) <= Cardinality(fresh)
    BY <2>1, <2>2, FS_Subset
  <2>4. Cardinality(prompt) \in Nat
    BY <2>3, FS_CardinalityType
  <2> HIDE DEF fresh, prompt
  <2>5. Cardinality(prompt) <= Limit
    BY <2>2, <2>3, <2>4, LimiterAssumption
  <2> QED
    BY <2>5 DEF prompt, PromptWithinLimit
<1> QED
  BY <1>1, LimiterTypeCorrect, LimiterInductive, PTL

\* A caller has at most one call in the window whose reading is older than it:
\* the next one read the clock after that one was granted.
LEMMA LateOnes ==
  ASSUME LimiterTypeOK, LimiterInv
  PROVE  /\ IsFiniteSet({g \in grants : Within(g) /\ clock - g.stamp >= Window})
         /\ Cardinality({g \in grants : Within(g) /\ clock - g.stamp >= Window})
              <= Cardinality(Acquirers)
<1> DEFINE late == {g \in grants : Within(g) /\ clock - g.stamp >= Window}
           by == [g \in late |-> g.by]
<1>1. \A g \in grants : g.by \in Acquirers /\ g.stamp \in Nat /\ g.at \in Nat
  BY DEF LimiterTypeOK, Grant
<1>2. clock \in Nat /\ Window \in Nat
  BY LimiterAssumption DEF LimiterTypeOK
<1>3. IsFiniteSet(late) /\ Cardinality(late) \in Nat
  BY FS_Subset, FS_CardinalityType DEF LimiterInv
<1>4. \A g, h \in late : g.by = h.by => g = h
  BY <1>1, <1>2 DEF LimiterInv, CallsInOrder, Within
<1>5. by \in [late -> Acquirers]
  BY <1>1
<1>6. ~(Cardinality(Acquirers) < Cardinality(late))
  <2> SUFFICES ASSUME Cardinality(Acquirers) < Cardinality(late) PROVE FALSE
    OBVIOUS
  <2>1. \E g, h \in late : g # h /\ by[g] = by[h]
    <3> HIDE DEF late, by
    <3> QED
      BY <1>3, <1>5, LimiterAssumption, FS_PigeonHole
  <2> QED
    BY <2>1, <1>4
<1>7. Cardinality(Acquirers) \in Nat
  BY LimiterAssumption, FS_CardinalityType
<1> HIDE DEF late
<1>8. Cardinality(late) <= Cardinality(Acquirers)
  BY <1>3, <1>6, <1>7
<1> QED
  BY <1>3, <1>8 DEF late

\* The documented limit is exceeded by at most one call of each caller.
THEOREM OvershootAlwaysBounded == LimiterSpec => []OvershootBounded
<1>1. LimiterTypeOK /\ LimiterInv => OvershootBounded
  <2> SUFFICES ASSUME LimiterTypeOK, LimiterInv PROVE OvershootBounded
    OBVIOUS
  <2> DEFINE fresh == {g \in grants : clock - g.stamp < Window}
             late == {g \in grants : Within(g) /\ clock - g.stamp >= Window}
             within == {g \in grants : Within(g)}
  <2>1. clock \in Nat /\ Window \in Nat /\ \A g \in grants : g.stamp \in Nat
    BY LimiterAssumption DEF LimiterTypeOK, Grant
  <2>2. within \in SUBSET (fresh \cup late)
    BY <2>1
  <2>3. IsFiniteSet(fresh) /\ Cardinality(fresh) \in Nat /\ Cardinality(fresh) <= Limit
    BY RecentStamps
  <2>4. IsFiniteSet(late) /\ Cardinality(late) <= Cardinality(Acquirers)
    BY LateOnes
  <2> HIDE DEF fresh, late, within
  <2>5. Cardinality(late) \in Nat /\ Cardinality(Acquirers) \in Nat
    BY <2>4, LimiterAssumption, FS_CardinalityType
  <2>6. /\ IsFiniteSet(fresh \cup late)
        /\ Cardinality(fresh \cup late) =
             Cardinality(fresh) + Cardinality(late) - Cardinality(fresh \cap late)
    BY <2>3, <2>4, FS_Union
  <2>7. Cardinality(fresh \cap late) \in Nat
    <3>1. fresh \cap late \in SUBSET late
      OBVIOUS
    <3> QED
      BY <2>4, <3>1, FS_Subset, FS_CardinalityType
  <2>8. Cardinality(within) \in Nat /\ Cardinality(within) <= Cardinality(fresh \cup late)
    BY <2>2, <2>6, FS_Subset, FS_CardinalityType
  <2>9. Cardinality(within) <= Limit + Cardinality(Acquirers)
    BY <2>3, <2>4, <2>5, <2>6, <2>7, <2>8, LimiterAssumption
  <2> QED
    BY <2>9 DEF within, OvershootBounded
<1> QED
  BY <1>1, LimiterTypeCorrect, LimiterInductive, PTL
=============================================================================
