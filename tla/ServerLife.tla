----------------------------- MODULE ServerLife -----------------------------
(***************************************************************************)
(* One server process from its start to its exit: run_harness_server         *)
(* (main.rs), the signal task (core/shutdown_handler.rs), the health loop     *)
(* (core/health_check_manager.rs) with the registry it writes and /healthz   *)
(* reads (core/component_registry.rs, http/server.rs), and the extracted      *)
(* store file that the check opens.                                          *)
(*                                                                           *)
(* The three run on different threads: each is an actor, and a step is what  *)
(* it does between two awaits.  The only check that is registered is         *)
(* synchronous, so its timeout cannot fire.                                  *)
(***************************************************************************)
EXTENDS Naturals, Sequences

VARIABLES
  boot,        \* how far run_harness_server is
  transport,
  provider,    \* there is a tracer provider to flush
  callbacks,   \* CLEANUP_FNS
  signals,     \* the signal task: "none", "spawned", "listening", "caught", "cleaning"
  taken,       \* history: the callbacks that the signal task took
  todo, ran,   \* of these, those to run and those run
  checker,     \* the health loop: "off", "waiting", "checking", "checked", "gone"
  outcome,     \* of its last check: "ok" or "failed"
  aborted,     \* the handle of the loop was aborted
  registry,    \* the components by name
  reported,    \* history: the last outcome in the registry, at first "ok"
  extracted,   \* the store file is in the temp directory
  exit         \* "no", "killed", "failed", "ended", "shutdown"

bootVars == <<boot, transport, provider>>
signalVars == <<signals, taken, todo, ran>>
checkVars == <<checker, outcome, reported>>
vars == <<bootVars, callbacks, signalVars, checkVars, aborted, registry, extracted, exit>>

Stages == {"config", "tracing", "signals", "flush", "path", "register", "checks", "abort",
           "connect", "serving"}
Status == {"healthy", "unhealthy"}

-----------------------------------------------------------------------------
(* ComponentRegistry.                                                       *)

Put(name, state) ==
  [n \in DOMAIN registry \cup {name} |-> IF n = name THEN state ELSE registry[n]]

RegisterComponent(name, critical) == Put(name, [critical |-> critical, status |-> "healthy"])

\* Fault: the report makes a component anew.
ReportAnew(name, status) == Put(name, [critical |-> FALSE, status |-> status])

Report(name, status) ==
  Put(name, [critical |-> name \in DOMAIN registry /\ registry[name].critical, status |-> status])

OverallStatus ==
  CASE \E n \in DOMAIN registry : registry[n].critical /\ registry[n].status = "unhealthy" -> "Unhealthy"
    [] \A n \in DOMAIN registry : registry[n].status = "healthy" -> "Healthy"
    [] OTHER -> "Degraded"

\* The status code of GET /healthz.
Healthz == IF OverallStatus = "Unhealthy" THEN 503 ELSE 200

-----------------------------------------------------------------------------
(* run_harness_server.                                                      *)

Init ==
  /\ boot = "config" /\ transport = "stdio" /\ provider = FALSE
  /\ callbacks = <<>>
  /\ signals = "none" /\ taken = <<>> /\ todo = <<>> /\ ran = <<>>
  /\ checker = "off" /\ outcome = "ok" /\ reported = "ok"
  /\ aborted = FALSE
  /\ registry = [n \in {} |-> "none"]
  /\ extracted \in BOOLEAN
  /\ exit = "no"

Up == exit = "no"
At(stage, next) == Up /\ boot = stage /\ boot' = next

\* on_shutdown.
OnShutdown(f) == callbacks' = Append(callbacks, f)

LoadConfig ==
  /\ At("config", "tracing")
  /\ transport' \in {"stdio", "http"}
  /\ UNCHANGED <<provider, callbacks, signalVars, checkVars, aborted, registry, extracted, exit>>

\* A server whose exporter cannot be built runs without traces.
BuildLayer ==
  /\ At("tracing", "signals")
  /\ provider' \in BOOLEAN
  /\ UNCHANGED <<transport, callbacks, signalVars, checkVars, aborted, registry, extracted, exit>>

InstallShutdownHandlers ==
  /\ At("signals", IF provider THEN "flush" ELSE "path")
  /\ signals' = "spawned"
  /\ UNCHANGED <<transport, provider, callbacks, taken, todo, ran, checkVars, aborted, registry,
                 extracted, exit>>

RegisterFlush ==
  /\ At("flush", "path")
  /\ OnShutdown("flush")
  /\ UNCHANGED <<transport, provider, signalVars, checkVars, aborted, registry, extracted, exit>>

ResolveStorePath ==
  /\ At("path", "register")
  /\ extracted' = TRUE
  /\ UNCHANGED <<transport, provider, callbacks, signalVars, checkVars, aborted, registry, exit>>

Register ==
  /\ At("register", "checks")
  /\ registry' = RegisterComponent("store", TRUE)
  /\ UNCHANGED <<transport, provider, callbacks, signalVars, checkVars, aborted, extracted, exit>>

StartChecks ==
  /\ At("checks", "abort")
  /\ checker' = "waiting"
  /\ UNCHANGED <<transport, provider, callbacks, signalVars, outcome, reported, aborted, registry,
                 extracted, exit>>

RegisterAbort ==
  /\ At("abort", "connect")
  /\ OnShutdown("abort")
  /\ UNCHANGED <<transport, provider, signalVars, checkVars, aborted, registry, extracted, exit>>

\* connect_stdio has its initialize request, or start_http_server its address.
Connect ==
  /\ At("connect", "serving")
  /\ UNCHANGED <<transport, provider, callbacks, signalVars, checkVars, aborted, registry,
                 extracted, exit>>

\* An invalid configuration, an unknown version or a full disk, an address that does not parse
\* or is taken, a client that does not initialize: main prints the error and exits.
Fail ==
  /\ Up
  /\ boot \in {"config", "path", "connect"}
  /\ exit' = "failed"
  /\ UNCHANGED <<bootVars, callbacks, signalVars, checkVars, aborted, registry, extracted>>

\* The client of a stdio server closes the pipe: main returns.
EndOfInput ==
  /\ Up
  /\ boot = "serving" /\ transport = "stdio"
  /\ exit' = "ended"
  /\ UNCHANGED <<bootVars, callbacks, signalVars, checkVars, aborted, registry, extracted>>

Boot ==
  \/ LoadConfig \/ BuildLayer \/ InstallShutdownHandlers \/ RegisterFlush \/ ResolveStorePath
  \/ Register \/ StartChecks \/ RegisterAbort \/ Connect \/ Fail

-----------------------------------------------------------------------------
(* The signal task.                                                         *)

Listen ==
  /\ Up
  /\ signals = "spawned"
  /\ signals' = "listening"
  /\ UNCHANGED <<bootVars, callbacks, taken, todo, ran, checkVars, aborted, registry, extracted, exit>>

\* SIGINT or SIGTERM.  Nobody handles it before the task has run; only the first one is
\* waited for.
Signal ==
  /\ Up
  /\ \/ /\ signals \in {"none", "spawned"}
        /\ exit' = "killed"
        /\ UNCHANGED signals
     \/ /\ signals = "listening"
        /\ signals' = "caught"
        /\ UNCHANGED exit
  /\ UNCHANGED <<bootVars, callbacks, taken, todo, ran, checkVars, aborted, registry, extracted>>

Reversed(s) == [i \in 1 .. Len(s) |-> s[Len(s) + 1 - i]]

\* Fault: in the order of registration.
TakeForward ==
  /\ Up
  /\ signals = "caught"
  /\ signals' = "cleaning"
  /\ taken' = callbacks
  /\ todo' = callbacks
  /\ callbacks' = <<>>
  /\ UNCHANGED <<bootVars, ran, checkVars, aborted, registry, extracted, exit>>

\* shutdown takes the list and leaves an empty one.
Take ==
  /\ Up
  /\ signals = "caught"
  /\ signals' = "cleaning"
  /\ taken' = callbacks
  /\ todo' = Reversed(callbacks)
  /\ callbacks' = <<>>
  /\ UNCHANGED <<bootVars, ran, checkVars, aborted, registry, extracted, exit>>

\* Fault: the callback of the health loop waits for its end.
RunJoining ==
  /\ Up
  /\ signals = "cleaning"
  /\ todo # <<>>
  /\ Head(todo) = "abort" => checker = "gone"
  /\ ran' = Append(ran, Head(todo))
  /\ todo' = Tail(todo)
  /\ UNCHANGED <<bootVars, callbacks, signals, taken, checkVars, aborted, registry, extracted, exit>>

RunCallback ==
  /\ Up
  /\ signals = "cleaning"
  /\ todo # <<>>
  /\ ran' = Append(ran, Head(todo))
  /\ todo' = Tail(todo)
  /\ aborted' = (aborted \/ Head(todo) = "abort")
  /\ UNCHANGED <<bootVars, callbacks, signals, taken, checkVars, registry, extracted, exit>>

Exit ==
  /\ Up
  /\ signals = "cleaning"
  /\ todo = <<>>
  /\ exit' = "shutdown"
  /\ UNCHANGED <<bootVars, callbacks, signalVars, checkVars, aborted, registry, extracted>>

Shutdown == Take \/ RunCallback \/ Exit

-----------------------------------------------------------------------------
(* The health loop.                                                         *)

\* An aborted task is not polled again.
Tick ==
  /\ Up
  /\ checker = "waiting" /\ ~aborted
  /\ checker' = "checking"
  /\ UNCHANGED <<bootVars, callbacks, signalVars, outcome, reported, aborted, registry, extracted,
                 exit>>

\* open_store.
Check ==
  /\ Up
  /\ checker = "checking"
  /\ checker' = "checked"
  /\ outcome' = IF extracted THEN "ok" ELSE "failed"
  /\ UNCHANGED <<bootVars, callbacks, signalVars, reported, aborted, registry, extracted, exit>>

\* Fault: only the failures are reported.
ReportFailures ==
  /\ Up
  /\ checker = "checked"
  /\ checker' = "waiting"
  /\ registry' = IF outcome = "ok" THEN registry ELSE Report("store", "unhealthy")
  /\ reported' = outcome
  /\ UNCHANGED <<bootVars, callbacks, signalVars, outcome, aborted, extracted, exit>>

\* Fault: the outcome is not translated.
ReportRaw ==
  /\ Up
  /\ checker = "checked"
  /\ checker' = "waiting"
  /\ registry' = Report("store", outcome)
  /\ reported' = outcome
  /\ UNCHANGED <<bootVars, callbacks, signalVars, outcome, aborted, extracted, exit>>

ReportCheck ==
  /\ Up
  /\ checker = "checked"
  /\ checker' = "waiting"
  /\ registry' = Report("store", IF outcome = "ok" THEN "healthy" ELSE "unhealthy")
  /\ reported' = outcome
  /\ UNCHANGED <<bootVars, callbacks, signalVars, outcome, aborted, extracted, exit>>

\* The loop ends where it waits: for the next tick, or for the lock of the registry.
Gone ==
  /\ Up
  /\ aborted
  /\ checker \in {"waiting", "checked"}
  /\ checker' = "gone"
  /\ UNCHANGED <<bootVars, callbacks, signalVars, outcome, reported, aborted, registry, extracted,
                 exit>>

RunOnce == Tick \/ Check \/ ReportCheck \/ Gone

-----------------------------------------------------------------------------
(* The temp directory: something cleans it, and a tool call that misses the *)
(* cache extracts the file again (resolve_store_path).                      *)

Cleaned ==
  /\ Up
  /\ extracted /\ extracted' = FALSE
  /\ UNCHANGED <<bootVars, callbacks, signalVars, checkVars, aborted, registry, exit>>

ExtractAgain ==
  /\ Up
  /\ boot = "serving"
  /\ ~extracted /\ extracted' = TRUE
  /\ UNCHANGED <<bootVars, callbacks, signalVars, checkVars, aborted, registry, exit>>

Next ==
  \/ Boot \/ EndOfInput
  \/ Listen \/ Signal \/ Shutdown
  \/ RunOnce
  \/ Cleaned \/ ExtractAgain

\* The runtime polls every task that is ready.
Fairness ==
  /\ WF_vars(Boot)
  /\ WF_vars(Listen)
  /\ WF_vars(Shutdown)
  /\ WF_vars(RunOnce)

Spec == Init /\ [][Next]_vars /\ Fairness

-----------------------------------------------------------------------------
(* Properties.                                                              *)

Callbacks == {"flush", "abort"}

TypeOK ==
  /\ boot \in Stages
  /\ transport \in {"stdio", "http"}
  /\ provider \in BOOLEAN
  /\ callbacks \in Seq(Callbacks)
  /\ signals \in {"none", "spawned", "listening", "caught", "cleaning"}
  /\ taken \in Seq(Callbacks) /\ todo \in Seq(Callbacks) /\ ran \in Seq(Callbacks)
  /\ checker \in {"off", "waiting", "checking", "checked", "gone"}
  /\ outcome \in {"ok", "failed"}
  /\ reported \in {"ok", "failed"}
  /\ aborted \in BOOLEAN
  /\ registry \in [{"store"} -> [critical : BOOLEAN, status : Status]] \cup {[n \in {} |-> "none"]}
  /\ extracted \in BOOLEAN
  /\ exit \in {"no", "killed", "failed", "ended", "shutdown"}

\* A process that ends on a signal has run every callback registered when it took the signal,
\* once, the last registered first.  Whatever the signal interrupts, the traces are flushed only
\* once the health loop is aborted, unless the list was taken before the loop's callback was on it.
CleanShutdown ==
  /\ exit = "shutdown" => ran = Reversed(taken)
  /\ (\E i \in 1 .. Len(ran) : ran[i] = "flush") =>
       aborted \/ \A j \in 1 .. Len(taken) : taken[j] # "abort"

\* A server that answers /healthz says 503 exactly when the last check that has been reported
\* failed; it never answers for a registry that knows no component.
HealthzTells ==
  /\ boot = "serving" => DOMAIN registry = {"store"}
  /\ Healthz = 503 <=> reported = "failed"

\* A signal ends the process wherever its start is.
SignalEnds == signals = "caught" ~> ~Up

\* A store file that stays away, or stays there, is what /healthz tells in the end, as long as
\* the server runs and no signal has come.
Watched == Up /\ boot = "serving" /\ signals = "listening"
HealthzCatchesUp ==
  /\ <>[](Watched /\ ~extracted) => <>[](Healthz = 503)
  /\ <>[](Watched /\ extracted) => <>[](Healthz = 200)
=============================================================================
