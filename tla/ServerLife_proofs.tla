-------------------------- MODULE ServerLife_proofs --------------------------
(* Proofs about ServerLife: what the registry says while the server starts, *)
(* runs and shuts down, and in which order the callbacks run.               *)
EXTENDS ServerLife, TLAPS

\* The store is in the registry from its registration on, as a critical
\* component with the status last reported; no check runs before.
Early == {"config", "tracing", "signals", "flush", "path", "register"}
StatusOf(result) == IF result = "ok" THEN "healthy" ELSE "unhealthy"

RegistryTells ==
  IF boot \in Early
  THEN checker = "off" /\ reported = "ok" /\ registry = [n \in {} |-> "none"]
  ELSE registry = [n \in {"store"} |-> [critical |-> TRUE, status |-> StatusOf(reported)]]

\* The callback of the health loop is registered last, in callbacks and in what
\* a shutdown has taken.
NoAbort(s, n) == \A j \in 1 .. n : s[j] # "abort"

AbortIsLast ==
  /\ NoAbort(callbacks, Len(callbacks) - 1)
  /\ boot \notin {"connect", "serving"} => NoAbort(callbacks, Len(callbacks))
  /\ NoAbort(taken, Len(taken) - 1)

\* What has run and what is still to run is what was taken, read backwards;
\* nothing is taken before the handlers are installed.
TakenInReverse ==
  /\ boot \in {"config", "tracing", "signals"} => signals = "none"
  /\ signals # "cleaning" => taken = <<>> /\ todo = <<>> /\ ran = <<>>
  /\ Len(ran) + Len(todo) = Len(taken)
  /\ \A i \in 1 .. Len(ran) : ran[i] = taken[Len(taken) + 1 - i]
  /\ \A i \in 1 .. Len(todo) : todo[i] = taken[Len(taken) + 1 - Len(ran) - i]
  /\ ran # <<>> /\ taken[Len(taken)] = "abort" => aborted
  /\ exit = "shutdown" => todo = <<>>

IInv == TypeOK /\ RegistryTells /\ AbortIsLast /\ TakenInReverse

-----------------------------------------------------------------------------
(* Sequences of callbacks.                                                  *)

LEMMA AppendOne ==
  ASSUME NEW s \in Seq(Callbacks), NEW f \in Callbacks
  PROVE  /\ Append(s, f) \in Seq(Callbacks)
         /\ Len(Append(s, f)) = Len(s) + 1
         /\ Append(s, f)[Len(s) + 1] = f
         /\ \A i \in 1 .. Len(s) : Append(s, f)[i] = s[i]
  OBVIOUS

LEMMA TailOf ==
  ASSUME NEW s \in Seq(Callbacks), s # <<>>
  PROVE  /\ Len(s) \in Nat \ {0}
         /\ Head(s) \in Callbacks /\ Head(s) = s[1]
         /\ Tail(s) \in Seq(Callbacks)
         /\ Len(Tail(s)) = Len(s) - 1
         /\ \A i \in 1 .. Len(s) - 1 : Tail(s)[i] = s[i + 1]
  OBVIOUS

LEMMA ReversedSeq ==
  ASSUME NEW s \in Seq(Callbacks)
  PROVE  /\ Reversed(s) \in Seq(Callbacks)
         /\ Len(Reversed(s)) = Len(s)
         /\ \A i \in 1 .. Len(s) : Reversed(s)[i] = s[Len(s) + 1 - i]
  BY DEF Reversed

-----------------------------------------------------------------------------
(* Type correctness.                                                        *)

LEMMA TypeStep == TypeOK /\ [Next]_vars => TypeOK'
  <1> SUFFICES ASSUME TypeOK, [Next]_vars PROVE TypeOK'
    OBVIOUS
  <1>1. CASE UNCHANGED vars
    BY <1>1 DEF TypeOK, vars, bootVars, signalVars, checkVars
  <1>2. CASE \/ LoadConfig \/ BuildLayer \/ InstallShutdownHandlers \/ ResolveStorePath
             \/ StartChecks \/ Connect \/ Fail \/ EndOfInput
    <2>1. CASE LoadConfig
      BY <2>1 DEF TypeOK, LoadConfig, At, Stages, bootVars, signalVars, checkVars
    <2>2. CASE BuildLayer
      BY <2>2 DEF TypeOK, BuildLayer, At, Stages, bootVars, signalVars, checkVars
    <2>3. CASE InstallShutdownHandlers
      BY <2>3 DEF TypeOK, InstallShutdownHandlers, At, Stages, bootVars, signalVars, checkVars
    <2>4. CASE ResolveStorePath
      BY <2>4 DEF TypeOK, ResolveStorePath, At, Stages, bootVars, signalVars, checkVars
    <2>5. CASE StartChecks
      BY <2>5 DEF TypeOK, StartChecks, At, Stages, bootVars, signalVars, checkVars
    <2>6. CASE Connect
      BY <2>6 DEF TypeOK, Connect, At, Stages, bootVars, signalVars, checkVars
    <2>7. CASE Fail
      BY <2>7 DEF TypeOK, Fail, At, Stages, bootVars, signalVars, checkVars
    <2>8. CASE EndOfInput
      BY <2>8 DEF TypeOK, EndOfInput, At, Stages, bootVars, signalVars, checkVars
    <2>9. QED BY <1>2, <2>1, <2>2, <2>3, <2>4, <2>5, <2>6, <2>7, <2>8
  <1>3. CASE RegisterFlush \/ RegisterAbort
    <2>1. callbacks' \in Seq(Callbacks)
      BY <1>3, AppendOne DEF TypeOK, RegisterFlush, RegisterAbort, OnShutdown, Callbacks
    <2>2. QED BY <1>3, <2>1 DEF TypeOK, RegisterFlush, RegisterAbort, At, Stages, signalVars, checkVars
  <1>4. CASE Register \/ ReportCheck
    <2>1. registry' \in [{"store"} -> [critical : BOOLEAN, status : Status]]
      <3>1. ASSUME Register
            PROVE  \E c \in BOOLEAN, s \in Status : registry' = Put("store", [critical |-> c, status |-> s])
        BY <3>1 DEF Register, RegisterComponent, Status
      <3>2. ASSUME ReportCheck
            PROVE  \E c \in BOOLEAN, s \in Status : registry' = Put("store", [critical |-> c, status |-> s])
        <4> DEFINE critical == "store" \in DOMAIN registry /\ registry["store"].critical
                   status == IF outcome = "ok" THEN "healthy" ELSE "unhealthy"
        <4>1. critical \in BOOLEAN /\ status \in Status
          <5>1. CASE "store" \in DOMAIN registry
            BY <5>1 DEF TypeOK, Status
          <5>2. CASE "store" \notin DOMAIN registry
            BY <5>2 DEF Status
          <5>3. QED BY <5>1, <5>2
        <4>2. registry' = Put("store", [critical |-> critical, status |-> status])
          BY <3>2 DEF ReportCheck, Report
        <4>3. QED BY <4>1, <4>2
      <3>3. \E c \in BOOLEAN, s \in Status : registry' = Put("store", [critical |-> c, status |-> s])
        BY <1>4, <3>1, <3>2
      <3>4. PICK c \in BOOLEAN, s \in Status : registry' = Put("store", [critical |-> c, status |-> s])
        BY <3>3
      <3>5. DOMAIN registry \cup {"store"} = {"store"}
        BY DEF TypeOK
      <3>6. QED BY <3>4, <3>5 DEF Put
    <2>2. QED BY <1>4, <2>1 DEF TypeOK, Register, ReportCheck, At, Stages, bootVars, signalVars, checkVars
  <1>5. CASE Listen \/ Signal \/ Exit \/ Tick \/ Check \/ Gone \/ Cleaned \/ ExtractAgain
    <2>1. CASE Listen
      BY <2>1 DEF TypeOK, Listen, bootVars, signalVars, checkVars
    <2>2. CASE Signal
      BY <2>2 DEF TypeOK, Signal, bootVars, signalVars, checkVars
    <2>3. CASE Exit
      BY <2>3 DEF TypeOK, Exit, bootVars, signalVars, checkVars
    <2>4. CASE Tick
      BY <2>4 DEF TypeOK, Tick, bootVars, signalVars, checkVars
    <2>5. CASE Check
      BY <2>5 DEF TypeOK, Check, bootVars, signalVars, checkVars
    <2>6. CASE Gone
      BY <2>6 DEF TypeOK, Gone, bootVars, signalVars, checkVars
    <2>7. CASE Cleaned
      <3>1. extracted' \in BOOLEAN
        BY <2>7 DEF Cleaned
      <3>2. UNCHANGED <<boot, transport, provider, callbacks, signals, taken, todo, ran>>
        BY <2>7 DEF Cleaned, bootVars, signalVars
      <3>3. UNCHANGED <<checker, outcome, reported, aborted, registry, exit>>
        BY <2>7 DEF Cleaned, checkVars
      <3>4. QED BY <3>1, <3>2, <3>3 DEF TypeOK
    <2>8. CASE ExtractAgain
      <3>1. extracted' \in BOOLEAN
        BY <2>8 DEF ExtractAgain
      <3>2. UNCHANGED <<boot, transport, provider, callbacks, signals, taken, todo, ran>>
        BY <2>8 DEF ExtractAgain, bootVars, signalVars
      <3>3. UNCHANGED <<checker, outcome, reported, aborted, registry, exit>>
        BY <2>8 DEF ExtractAgain, checkVars
      <3>4. QED BY <3>1, <3>2, <3>3 DEF TypeOK
    <2>9. QED BY <1>5, <2>1, <2>2, <2>3, <2>4, <2>5, <2>6, <2>7, <2>8
  <1>6. CASE Take
    <2>1. callbacks' \in Seq(Callbacks) /\ taken' \in Seq(Callbacks) /\ todo' \in Seq(Callbacks)
      BY <1>6, ReversedSeq DEF TypeOK, Take
    <2>2. QED BY <1>6, <2>1 DEF TypeOK, Take, bootVars, checkVars
  <1>7. CASE RunCallback
    <2>1. todo' \in Seq(Callbacks) /\ ran' \in Seq(Callbacks)
      BY <1>7, AppendOne, TailOf DEF TypeOK, RunCallback
    <2>2. QED BY <1>7, <2>1 DEF TypeOK, RunCallback, bootVars, checkVars
  <1>8. QED
    BY <1>1, <1>2, <1>3, <1>4, <1>5, <1>6, <1>7 DEF Next, Boot, Shutdown, RunOnce

-----------------------------------------------------------------------------
(* The registry.                                                            *)

LEMMA RegistryStep == TypeOK /\ RegistryTells /\ [Next]_vars => RegistryTells'
  <1> SUFFICES ASSUME TypeOK, RegistryTells, [Next]_vars PROVE RegistryTells'
    OBVIOUS
  <1> USE DEF RegistryTells, Early
  <1>1. CASE UNCHANGED vars
    BY <1>1 DEF vars, bootVars, signalVars, checkVars
  <1>2. CASE Boot /\ ~Register /\ ~StartChecks
    BY <1>2 DEF Boot, LoadConfig, BuildLayer, InstallShutdownHandlers, RegisterFlush, ResolveStorePath,
       RegisterAbort, Connect, Fail, At, bootVars, checkVars
  <1>3. CASE Register
    <2>1. registry' = Put("store", [critical |-> TRUE, status |-> "healthy"]) /\ reported' = "ok"
      BY <1>3 DEF Register, RegisterComponent, At, checkVars
    <2>2. DOMAIN registry \cup {"store"} = {"store"}
      BY DEF TypeOK
    <2>3. boot' = "checks"
      BY <1>3 DEF Register, At
    <2>4. QED BY <2>1, <2>2, <2>3 DEF Put, StatusOf
  <1>4. CASE StartChecks
    BY <1>4 DEF StartChecks, At
  <1>5. CASE ReportCheck
    <2>1. boot \notin Early /\ boot' = boot /\ reported' = outcome
      BY <1>5 DEF ReportCheck, bootVars
    <2>2. registry' = Put("store", [critical |-> TRUE, status |-> StatusOf(outcome)])
      <3>1. "store" \in DOMAIN registry /\ registry["store"].critical = TRUE
        BY <2>1
      <3>2. registry' = Report("store", StatusOf(outcome))
        BY <1>5 DEF ReportCheck, StatusOf
      <3>3. QED BY <3>1, <3>2 DEF Report
    <2>3. DOMAIN registry \cup {"store"} = {"store"}
      BY DEF TypeOK
    <2>4. QED BY <2>1, <2>2, <2>3 DEF Put
  <1>6. CASE EndOfInput \/ Listen \/ Signal \/ Shutdown \/ Cleaned \/ ExtractAgain
    BY <1>6 DEF EndOfInput, Listen, Signal, Shutdown, Take, RunCallback, Exit, Cleaned, ExtractAgain,
       bootVars, signalVars, checkVars
  <1>7. CASE Tick \/ Check \/ Gone
    BY <1>7 DEF Tick, Check, Gone, bootVars
  <1>8. QED
    BY <1>1, <1>2, <1>3, <1>4, <1>5, <1>6, <1>7 DEF Next, RunOnce

LEMMA Tells == TypeOK /\ RegistryTells => HealthzTells
  <1> SUFFICES ASSUME TypeOK, RegistryTells PROVE HealthzTells
    OBVIOUS
  <1>1. CASE boot \in Early
    <2>1. OverallStatus = "Healthy"
      BY <1>1 DEF RegistryTells, OverallStatus
    <2>2. QED BY <1>1, <2>1 DEF RegistryTells, HealthzTells, Healthz, Early
  <1>2. CASE boot \notin Early
    <2>1. DOMAIN registry = {"store"} /\ registry["store"].critical = TRUE
          /\ registry["store"].status = StatusOf(reported)
      BY <1>2 DEF RegistryTells
    <2>2. OverallStatus = "Unhealthy" <=> reported = "failed"
      <3>1. CASE reported = "failed"
        BY <2>1, <3>1 DEF OverallStatus, StatusOf
      <3>2. CASE reported = "ok"
        BY <2>1, <3>2 DEF OverallStatus, StatusOf
      <3>3. QED BY <3>1, <3>2 DEF TypeOK
    <2>3. QED BY <2>1, <2>2 DEF HealthzTells, Healthz
  <1>3. QED BY <1>1, <1>2

-----------------------------------------------------------------------------
(* The callbacks.                                                           *)

LEMMA AbortStep == TypeOK /\ AbortIsLast /\ [Next]_vars => AbortIsLast'
  <1> SUFFICES ASSUME TypeOK, AbortIsLast, [Next]_vars PROVE AbortIsLast'
    OBVIOUS
  <1> USE DEF AbortIsLast, NoAbort
  <1>1. CASE UNCHANGED vars
    BY <1>1 DEF vars, bootVars, signalVars
  <1>2. CASE \/ LoadConfig \/ BuildLayer \/ InstallShutdownHandlers \/ ResolveStorePath
             \/ Register \/ StartChecks \/ Fail
    BY <1>2 DEF LoadConfig, BuildLayer, InstallShutdownHandlers, ResolveStorePath, Register,
       StartChecks, Fail, At, bootVars, signalVars
  <1>3. CASE Connect
    BY <1>3 DEF Connect, At, signalVars
  <1>4. CASE RegisterFlush
    <2>1. callbacks' = Append(callbacks, "flush") /\ boot' = "path" /\ taken' = taken
          /\ boot = "flush"
      BY <1>4 DEF RegisterFlush, At, OnShutdown, signalVars
    <2>2. \A j \in 1 .. Len(callbacks) : callbacks[j] # "abort"
      BY <2>1
    <2>3. \A j \in 1 .. Len(callbacks') : callbacks'[j] # "abort"
      BY <2>1, <2>2, AppendOne DEF TypeOK, Callbacks
    <2>4. Len(callbacks) \in Nat /\ Len(callbacks') = Len(callbacks) + 1
      BY <2>1 DEF TypeOK
    <2>5. QED BY <2>1, <2>3, <2>4
  <1>5. CASE RegisterAbort
    <2>1. callbacks' = Append(callbacks, "abort") /\ boot' = "connect" /\ taken' = taken
          /\ boot = "abort"
      BY <1>5 DEF RegisterAbort, At, OnShutdown, signalVars
    <2>2. \A j \in 1 .. Len(callbacks) : callbacks[j] # "abort"
      BY <2>1
    <2>3. Len(callbacks) \in Nat /\ Len(callbacks') = Len(callbacks) + 1
          /\ \A j \in 1 .. Len(callbacks) : callbacks'[j] = callbacks[j]
      BY <2>1, AppendOne DEF TypeOK, Callbacks
    <2>4. QED BY <2>1, <2>2, <2>3
  <1>6. CASE Take
    BY <1>6 DEF Take, bootVars
  <1>7. CASE EndOfInput \/ Listen \/ Signal \/ RunCallback \/ Exit \/ RunOnce \/ Cleaned \/ ExtractAgain
    BY <1>7 DEF EndOfInput, Listen, Signal, RunCallback, Exit, RunOnce, Tick, Check, ReportCheck, Gone,
       Cleaned, ExtractAgain, bootVars, signalVars
  <1>8. QED
    BY <1>1, <1>2, <1>3, <1>4, <1>5, <1>6, <1>7 DEF Next, Boot, Shutdown

LEMMA Shift == ASSUME NEW m \in Nat, NEW n \in Nat PROVE m + 1 - n - 1 = m - n
  OBVIOUS

LEMMA ReverseStep == TypeOK /\ TakenInReverse /\ [Next]_vars => TakenInReverse'
  <1> SUFFICES ASSUME TypeOK, TakenInReverse, [Next]_vars PROVE TakenInReverse'
    OBVIOUS
  <1> USE DEF TakenInReverse
  <1>1. CASE UNCHANGED vars
    BY <1>1 DEF vars, bootVars, signalVars
  <1>2. CASE \/ Boot \/ EndOfInput \/ Listen \/ Signal \/ RunOnce \/ Cleaned \/ ExtractAgain
    <2>1. /\ signals' # "cleaning" <=> signals # "cleaning"
          /\ boot' \in {"config", "tracing", "signals"} => signals' = "none"
      BY <1>2 DEF Boot, LoadConfig, BuildLayer, InstallShutdownHandlers, RegisterFlush, ResolveStorePath,
         Register, StartChecks, RegisterAbort, Connect, Fail, EndOfInput, Listen, Signal, RunOnce, Tick,
         Check, ReportCheck, Gone, Cleaned, ExtractAgain, At, bootVars, signalVars
    <2>2. UNCHANGED <<taken, todo, ran, aborted>> /\ (exit' = "shutdown" => exit = "shutdown")
      BY <1>2 DEF Boot, LoadConfig, BuildLayer, InstallShutdownHandlers, RegisterFlush, ResolveStorePath,
         Register, StartChecks, RegisterAbort, Connect, Fail, EndOfInput, Listen, Signal, RunOnce, Tick,
         Check, ReportCheck, Gone, Cleaned, ExtractAgain, signalVars
    <2>3. QED BY <2>1, <2>2
  <1>3. CASE Take
    <2>1. /\ taken' = callbacks /\ todo' = Reversed(callbacks) /\ ran' = <<>>
          /\ signals' = "cleaning" /\ exit' = "no"
          /\ signals = "caught" /\ boot' = boot
      BY <1>3 DEF Take, Up, bootVars
    <2>2. callbacks \in Seq(Callbacks) /\ Len(callbacks) \in Nat
      BY DEF TypeOK
    <2>3. /\ Len(todo') = Len(callbacks)
          /\ \A i \in 1 .. Len(callbacks) : todo'[i] = callbacks[Len(callbacks) + 1 - i]
      BY <2>1, <2>2, ReversedSeq
    <2>4. QED BY <2>1, <2>2, <2>3
  <1>4. CASE RunCallback
    <2>1. /\ todo # <<>> /\ ran' = Append(ran, Head(todo)) /\ todo' = Tail(todo)
          /\ taken' = taken /\ signals' = "cleaning" /\ exit' = "no"
          /\ signals = "cleaning" /\ boot' = boot
          /\ aborted' = (aborted \/ Head(todo) = "abort")
      BY <1>4 DEF RunCallback, Up, bootVars
    <2>2. /\ Len(todo) \in Nat \ {0} /\ Head(todo) \in Callbacks /\ Head(todo) = todo[1]
          /\ Len(todo') = Len(todo) - 1
          /\ \A i \in 1 .. Len(todo) - 1 : todo'[i] = todo[i + 1]
      BY <2>1, TailOf DEF TypeOK
    <2>3. /\ Len(ran) \in Nat /\ Len(ran') = Len(ran) + 1
          /\ ran'[Len(ran) + 1] = Head(todo)
          /\ \A i \in 1 .. Len(ran) : ran'[i] = ran[i]
      BY <2>1, <2>2, AppendOne DEF TypeOK
    <2>4. Len(taken) \in Nat /\ Len(ran) \in Nat
      BY DEF TypeOK
    <2>5. Len(ran') + Len(todo') = Len(taken')
      BY <2>1, <2>2, <2>3, <2>4
    <2>6. Head(todo) = taken[Len(taken) - Len(ran)]
      <3>1. 1 \in 1 .. Len(todo)
        BY <2>2, SMT
      <3>2. Len(taken) + 1 - Len(ran) - 1 = Len(taken) - Len(ran)
        BY <2>4, Shift
      <3>3. QED BY <3>1, <3>2, <2>2
    <2>7. ASSUME NEW i \in 1 .. Len(ran') PROVE ran'[i] = taken'[Len(taken') + 1 - i]
      <3>1. CASE i \in 1 .. Len(ran)
        BY <3>1, <2>1, <2>3
      <3>2. CASE i = Len(ran) + 1
        <4>1. Len(taken) + 1 - i = Len(taken) - Len(ran)
          BY <3>2, <2>3, <2>4
        <4>2. QED BY <4>1, <3>2, <2>1, <2>3, <2>6
      <3>3. QED BY <3>1, <3>2, <2>3
    <2>8. ASSUME NEW i \in 1 .. Len(todo') PROVE todo'[i] = taken'[Len(taken') + 1 - Len(ran') - i]
      <3>1. i \in 1 .. Len(todo) - 1 /\ i + 1 \in 1 .. Len(todo)
        BY <2>2
      <3>2. Len(taken) + 1 - Len(ran) - (i + 1) = Len(taken') + 1 - Len(ran') - i
        BY <3>1, <2>1, <2>3, <2>4
      <3>3. QED BY <3>1, <3>2, <2>1, <2>2
    <2>9. ASSUME taken'[Len(taken')] = "abort" PROVE aborted'
      <3>1. CASE ran = <<>>
        <4>1. Len(taken) - Len(ran) = Len(taken)
          BY <3>1, <2>4
        <4>2. QED BY <4>1, <2>1, <2>6, <2>9
      <3>2. CASE ran # <<>>
        BY <3>2, <2>1, <2>9
      <3>3. QED BY <3>1, <3>2
    <2>10. QED BY <2>1, <2>5, <2>7, <2>8, <2>9
  <1>5. CASE Exit
    BY <1>5 DEF Exit, bootVars, signalVars
  <1>6. QED
    BY <1>1, <1>2, <1>3, <1>4, <1>5 DEF Next, Shutdown

LEMMA Clean == TypeOK /\ AbortIsLast /\ TakenInReverse => CleanShutdown
  <1> SUFFICES ASSUME TypeOK, AbortIsLast, TakenInReverse PROVE CleanShutdown
    OBVIOUS
  <1>1. ASSUME exit = "shutdown" PROVE ran = Reversed(taken)
    <2>1. todo = <<>> /\ Len(todo) = 0 /\ Len(ran) = Len(taken)
      BY <1>1 DEF TakenInReverse, TypeOK
    <2>2. ran = [i \in 1 .. Len(ran) |-> ran[i]]
      BY DEF TypeOK
    <2>3. \A i \in 1 .. Len(ran) : ran[i] = taken[Len(taken) + 1 - i]
      BY DEF TakenInReverse
    <2>4. ran = [i \in 1 .. Len(ran) |-> taken[Len(taken) + 1 - i]]
      BY <2>2, <2>3, Zenon
    <2>5. QED BY <2>1, <2>4 DEF Reversed
  <1>2. ASSUME NEW i \in 1 .. Len(ran), ran[i] = "flush"
        PROVE  aborted \/ \A j \in 1 .. Len(taken) : taken[j] # "abort"
    <2>1. ran # <<>> /\ Len(taken) \in Nat
      BY DEF TypeOK
    <2>2. CASE taken[Len(taken)] = "abort"
      BY <2>1, <2>2 DEF TakenInReverse
    <2>3. CASE taken[Len(taken)] # "abort"
      BY <2>1, <2>3 DEF AbortIsLast, NoAbort
    <2>4. QED BY <2>2, <2>3
  <1>3. QED BY <1>1, <1>2 DEF CleanShutdown

-----------------------------------------------------------------------------

LEMMA InitHolds == Init => IInv
  <1> SUFFICES ASSUME Init PROVE IInv
    OBVIOUS
  <1>1. TypeOK
    <2>1. <<>> \in Seq(Callbacks)
      OBVIOUS
    <2>2. registry \in {[n \in {} |-> "none"]}
      BY DEF Init
    <2>3. QED BY <2>1, <2>2 DEF Init, TypeOK, Stages
  <1>2. RegistryTells
    BY DEF Init, RegistryTells, Early
  <1>3. AbortIsLast
    BY DEF Init, AbortIsLast, NoAbort
  <1>4. TakenInReverse
    BY DEF Init, TakenInReverse
  <1>5. QED BY <1>1, <1>2, <1>3, <1>4 DEF IInv

\* The registry is what has been registered and last reported, and the callbacks
\* are those registered so far, the one of the health loop last: inductive.
THEOREM LifeInductive == Spec => []IInv
  <1>1. IInv /\ [Next]_vars => IInv'
    BY TypeStep, RegistryStep, AbortStep, ReverseStep DEF IInv
  <1>2. QED BY <1>1, InitHolds, PTL DEF Spec

\* Every variable of the server keeps its domain.
THEOREM LifeTypeOK == Spec => []TypeOK
  <1>1. IInv => TypeOK
    BY DEF IInv
  <1>2. QED BY <1>1, LifeInductive, PTL

\* /healthz says 503 exactly when the last reported check failed, and a server
\* that serves has its component.
THEOREM AlwaysHealthzTells == Spec => []HealthzTells
  <1>1. IInv => HealthzTells
    BY Tells DEF IInv
  <1>2. QED BY <1>1, LifeInductive, PTL

\* A shutdown runs what it took, once, in reverse; wherever it interrupts the
\* start, it aborts the health loop before it flushes the traces.
THEOREM AlwaysCleanShutdown == Spec => []CleanShutdown
  <1>1. IInv => CleanShutdown
    BY Clean DEF IInv
  <1>2. QED BY <1>1, LifeInductive, PTL
=============================================================================
