# Verification of sqlserver-mcp

TLA+ models of the SQL Server MCP server (`src/src`, Rust), checked by TLC on small instances and, where it matters
most, proved with TLAPS for every value of the constants. Paths below are relative to `src/src` unless they start
with `src/`.

## 1. The system

One process serves MCP tool calls (`search`, `get`, `call`) over stdio or HTTP. Tool handlers of all sessions run
concurrently on tokio. `search` and `get` read a store (SQLite, embedded in the binary, extracted to a temporary file
and copied into memory); `call` resolves credentials, takes a pooled connection and runs one statement on SQL Server.

| component | state | operations | interacts with | what is hard | what makes it correct |
|---|---|---|---|---|---|
| `call` path: `core/mcp_server.rs`, `tools/call_tool.rs`, `auth/*`, `services/{api_client,sql_pool}.rs` | `AuthManager` behind one tokio mutex (method, cached credentials), static pool map, stored credentials | call, resolve (cache, environment, storage, refresh), exchange a token, get a pool, connect, query | token endpoint, SQL Server, keychain, wizard | awaits under the lock, a dozen error exits, token expiry, a pool that outlives a token, failed saves | one call at a time in order; every call answered; a call uses the credential it resolved; no exchange while the cached one is valid; `read_only` never sends `EXEC` |
| store extraction and cache: `data/store.rs` | temporary files, one fixed path per version, static `CACHE` | extract and rename, open, copy into memory, cache or leak | other server processes, other builds, crashes | check-then-act around `CACHE`, shared directory, old builds | only whole stores are opened; one handle per process; bounded leaks; own build served |
| circuit breaker: `core/circuit_breaker.rs` | state, failure count, `opened_at` under a mutex that is not held over the await | execute (admit, succeed, fail, future dropped) | a target | late results, dropped futures, concurrent trials | fields agree; a half-open breaker is decided; closes once the target is healthy |
| rate limiter: `core/rate_limiter.rs` | `Vec<Instant>` under a mutex | acquire: clock, then lock | callers | the clock is read before the lock | at most `limit` per `window`, and by how much it may be exceeded |
| credential storage: `core/credential_storage.rs` | keychain entry, encrypted file | save, load, delete, each on the keychain or, failing that, the file | servers (load, refresh), wizard (save) of several processes | unlocked rewrite of a file, two places for one entry, keychain that comes and goes, lost updates | a load finds what the last write left where the load looks; the wizard's save survives; a deleted entry is gone |
| `bin/populate_embeddings.rs` | a raw `.db` and a `.db.zst` per store | extract, delete and insert rows, compress, remove | itself, after a crash | crash between any two file operations, reruns | no store lost; success means populated; a store that is filled in part is as good as a fresh one |
| configuration: `core/{config_manager,config_schema}.rs`, `core/logger.rs` | none (files, environment, flags) | merge six layers, deserialize; choose where to log | wizard, every process | types of environment values, priority, files that are being written | highest layer wins; a bad value never falls through; a server speaks the protocol its command named and does not log into it |
| `cli/`, `cli/setup_wizard.rs`, `main.rs` (subcommands) | the answers so far | prompts, save credential, write a file, print a client's environment; set variables, load, run | configuration, credential storage | a wizard left half way, `.env` and client environments beside the files | what the wizard saved is what runs |
| server life: `main.rs`, `core/{health_check_manager,component_registry,shutdown_handler,otel}.rs`, `http/server.rs` | registry, list of checks, list of callbacks, signal task, health loop | bootstrap, periodic check, `/healthz`, signal, shutdown | store file, HTTP clients | a signal at any point of the start, a loop on another thread, stale status | callbacks run once, in reverse; `/healthz` tells the last check; a signal ends the process |
| statements and values: `services/{api_client,sql_type}.rs`, `validation/validator.rs`, `tools/call_tool.rs` | compiled schemas | validate, resolve the database, build, bind, convert the answer | call path, SQL Server | maps by name and parameters by place, exact decimals, signs, offsets | each argument reaches its parameter; no number is changed on the way |
| query cache, search and get tools, embedding model, prompts, metrics, correlation and sanitizing, `bin/healthcheck.rs`, documentation pipeline | small or none | | | | not modelled, see section 5 |

`PROJECT.json` lists the hazards of this code line by line, each with the properties that would catch it.

## 2. Modules

| module | models | composition |
|---|---|---|
| `CallPath` | the `call` path | implements `SerialCalls` (`SerialRefinement`) |
| `SerialCalls` | abstract: calls are served one at a time, in order of arrival, and every exit passes the turn | |
| `StoreCache` | extraction, rename, open and `CACHE` in several processes and handlers | implements `OnceCells` (`OnceRefinement`) |
| `OnceCells` | abstract: one cell per process, set once, handed to every handler | |
| `CircuitBreaker`, `RateLimiter` | the two primitives | |
| `CredentialStore` | storage, each step on the file an action | |
| `PopulateEmbeddings` | the program, its crashes and reruns | |
| `ConfigManager` | the six layers, the conversion of the environment, the types and defaults of `Config` (operators, no state) | |
| `SetupWizard` | the prompts of `setup` and what they save | extends `ConfigManager` |
| `Deployment` | wizard and processes over time: launch, load, run, end | composes `SetupWizard` with the processes |
| `ServerLife` | one server: bootstrap, signal task, health loop, registry, store file | |
| `SqlType` | JSON to bound value, column to JSON, decimals digit by digit (operators, no state) | |
| `Statement` | one call from its arguments to its answer | extends `SqlType` |
| `MCLimits` | one run for both primitives: a behaviour uses one of them | extends `CircuitBreaker` and `RateLimiter` |
| `MCCallPath`, `MCStoreCache`, `MCPopulateEmbeddings`, `MCDeployment`, `MCStatement` | instances for TLC: configurations, symmetry, file order, files, calls and values | extend their module |
| `*_proofs` | theorems | extend their module and `TLAPS`; `Limits_proofs` has those of `CircuitBreaker` and of `RateLimiter` |

Each action is one atomic stretch of the code: from one await, unlock or file operation to the next, with everything the
stretch changes. The `map` of PROJECT.json gives the source lines of every definition. Definitions whose comment starts
with "Fault:" are mutations of the definition that follows them (a dropped guard, a swapped order); no specification
uses them, they show that a property can fail.

### CallPath
`queue` is the FIFO of the tokio mutex around `AuthManager`, whose head holds it; `pc[c]` is where call `c` is;
`cached` is `cached_credentials`, `stored` what keychain or file hold, `pool`/`idle` the static pool and its idle
connections. A call passes `Call` (lookup of the operation, enqueue), `RefuseCall` or `AdmitCall` (schema, `read_only`,
statement), the cascade of `AuthManager::credentials` (`UseCached`, `UseEnvLogin`, `SendExchange`/`EnvGranted`/`EnvFailed`,
`NoStored`/`UseStored`/`Refresh`...), `GetPool`, `TakeIdle`/`Connect`/`ConnectFails`, `QueryEnds`/`QueryBreaks`, and is
answered by `Collect`. The environment is `Tick`, `DropIdle` (bb8 or the server closes idle connections) and
`WizardSaves`.
A credential is reduced to `expires_at`, what `validate_credentials` compares, and `until`, when SQL Server stops
accepting it: they differ by the time the exchange took. Passwords never expire; a wrong one is accepted at no time. A token response without `expires_in`
is not modelled, nor more than one `host:port` or API version per process.

### StoreCache
`path` is what lies at the fixed path, `tmp[p][w]` at each handler's own temporary file, `cache[p]` is `CACHE`, `leaks[p]`
counts `Box::leak`. A file is `None`, `Torn` (created, not filled) or the build that wrote it. A process may stop at any
step and start again as either build. That a temporary name is never shared rests on the pid and counter of
`data/store.rs:97`: true for processes of one pid namespace, not for containers that share `/tmp`.

### CircuitBreaker, RateLimiter
Time since `opened_at` is `age`, saturated at `ResetTimeout`, since the code compares only with it. `healthy` is a target
that answers from some moment on. The limiter's `Vec` is a set of grants (who, stamp, moment of the grant), since its
order does not matter to `retain` and `len`. Nothing in the crate uses these primitives yet.

### CredentialStore
An entry is the number of the wizard's save it stems from, plus whether a refresh has put a token in it, which makes the
text longer: `fs::write` is `Truncate` then `Write`, and a shorter text written over a longer one leaves a tail that does not
parse (`Torn`), which `read_store` takes for an empty map. `up` is whether the keychain answers. History variables
record what the last write of each place left (`left`) and which place was written last (`via`), whether anything changed during
a load (`calm`), whether the keychain has always answered, or never (`steady`), and whether a refresh was in flight when the
wizard saved (`raced`). A load prefers the keychain, so with one that comes and goes it may return an older entry than the
last one written: `LoadsLast` says which, and that it is the last one with a steady keychain.

### PopulateEmbeddings
`raw` and `zst` are the two files of each store: `Absent`, `Torn`, or the set of operations that have their embedding.
Each SQL statement commits on its own, as in the code. `Start` begins a run on all files or on one. A run ends "ok", or "failed"
by an error of its own: no file to open, a file SQLite refuses, an insert that meets its row (`InsertRow`), an endpoint
without embedding (`had_mismatch`); or "stopped", from outside (`Dies`): killed, or failed by the embedding model or the disk,
at any step.

### ConfigManager, SetupWizard, Deployment
A JSON value is its type and its text, since `env_overrides` gives every variable but `READ_ONLY` as text and it is the type that a
field accepts or refuses. `Merged` is the fold of `Map::extend`, from the lowest layer up; `Loads`/`Loaded` are
`load_config`. `HighestWins` states the documented cascade by the places themselves (`Rank`), not by the layers the code
builds. `SetupWizard` has one action per prompt, in their order, and lets the wizard end at each of them (`Cancel`: Esc, a
failed keychain or file). `files` are the four places that `load_config` reads, `dotenv` the `.env` file, which no code of the crate reads but a
shell or a container does, `printed` the environment in the client configuration that the wizard prints last. `credentials` says whose
keys the storage holds; `CredentialStore` has the storage itself. A process is launched in the shell, with `.env` loaded, or by
the client (`Launch`, `LaunchByClient`); `start` and `http` set variables of their own before `load_config` (`Commands`).
Since a file is truncated before it is filled, `Load` may find it `Garbled`.

### ServerLife
`boot` is where `run_harness_server` is: `load_config`, the tracing layer, `install_shutdown_handlers`, the callback that flushes traces, the
store, the check, the callback that aborts the loop, the transport. The signal task listens only once it has been polled; a
signal before that kills the process. `taken` is what `shutdown` took from `CLEANUP_FNS`, `todo` and `ran` what it has yet to
run and has run: a bootstrap that goes on meanwhile may register callbacks that nobody will run. The health loop is a task of
its own thread: `abort` stops it at its next await, so a check that is under way still ends and reports. The file that
`resolve_store_path` extracted may disappear from the temp directory (`Cleaned`), and be extracted again by another process.

### SqlType, Statement
A text is a sequence of characters where digits matter (decimals), and a value of a small set elsewhere. `ParseNumeric` and
`FormatNumeric` are the code's own steps on them: sign, split at the point, pad, parse as one integer, and back. The JSON
map of the body is walked by name (`key`), parameters have an `ordinal`, and `sort_by_key` is stable: a parameter's place is
the number of parameters that come `Before` it, by ordinal and, within one ordinal, by key. `Received` says, apart from
the code, which value SQL Server then takes for which parameter. `Statement` starts where `CallPath` has `Call` and leaves
out credentials and connections, which do not look at the statement.

## 3. Runs

| run | question | expected | instance | states |
|---|---|---|---|---|
| `call_path` | serial service in order, no starvation, credential stability, `read_only` | pass | 2 calls, 5 configurations, all kinds of operation, 4 instants | 161,767 |
| `call_path_token` | does a call with a fresh token log in? (`auth/strategies/azure_ad.rs:23`) | violation | 1 call | |
| `limits` | breaker: do the three fields agree, is a half-open breaker decided, does it close? limiter: the documented bound for prompt calls, and the excess of late ones | pass | 3 callers, threshold 2, timeout 2; 2 callers, limit 2, window 2, 5 instants | 207,674 |
| `store_cache` | whole stores, one handle, bounded leaks, own build when alone | pass | 2 processes of 2 builds, 2 handlers each, symmetry | 329,524 |
| `store_cache_shadow` | "can never be shadowed by a stale leftover" (`data/store.rs:50`) | violation | 2 processes, 1 handler each | |
| `credential_store` | what loads find, what survives of the wizard's saves | pass | 2 processes, 2 saves | 347,609 |
| `populate_embeddings` | no store lost, success means populated, no failure on a store that can be used | pass | 2 files of 2 operations | 97,318 |
| `deployment` | does the highest layer win, is nothing of the environment ignored, does a server serve what was asked, does what the wizard saved take effect? | pass | 1 wizard run, 7 environments, 24 sets of files, all commands | 893,613 |
| `deployment_port` | does `http --port 3000` start (`src/README.md:101`)? | violation | same | |
| `server_life` | order and completeness of the shutdown, `/healthz` against the last check, and both in the end | pass | no constants: every state of one server | 2,426 |
| `statement` | do the given arguments reach their parameters, are decimals exact, do answers mean what the columns had? | pass | 16 operations with 8 bodies; 12 types with 41 values and 781 texts; 3 databases, `read_only` or not | 77,325 |
| `statement_default` | does a parameter that is left out keep its default (`services/api_client.rs:17`)? | violation | same | |

**Bounds.** `MaxTime` (clock) and `MaxGrants` (grants remembered) bound guards of `Tick`, `ClockTick` and `Accept`; `CountCap`
saturates the failure count above the threshold, where the code no longer tells counts apart; `MaxGen` bounds the
wizard's saves; `Forever` is an instant after `MaxTime`. `Lifetime` 2 in 4 instants lets a token be granted, be used, expire
and be replaced. Two calls, callers, handlers or processes are what every race described here needs: each of them is
between one actor that has read and one that writes. The breaker has a third caller so that a late failure, a trial and a
second trial coexist. `Deployment` has two instances of each layer that matter (a file that sets a field, one that does not), one garbled file, a `READ_ONLY` of a
form that parses and one that does not, and a port beyond 16 bits. The texts of `Statement` are all strings of up to
four characters over `- + . 0 5`: two signs, two points and a point at each place are among them. `limits` sets `CHECK_DEADLOCK FALSE`: when `MaxTime` and `MaxGrants` are reached the limiter has nothing
left to do; `ServerLife` since its process ends, `Statement` since a call ends with its answer. Three saves and readers of `CredentialStore`, or three builds, add length and no new pair of steps.

**Symmetry** is used only in `store_cache`, a run without liveness, over processes, handlers and builds.

**Fairness.** `CallPath`: weak fairness of the steps of each call that waits or runs (`Serve`). Tokio polls a woken task and its mutex
is FIFO; that the token endpoint and SQL Server answer or fail is an assumption, for neither `reqwest` nor
`tiberius` is given a timeout (a hazard in PROJECT.json). No fairness of clients, clock or wizard. `CircuitBreaker`:
time passes and callers keep calling (weak), and a caller's calls are not all dropped (strong fairness of
`Succeed`); `limits` assumes this where it uses the breaker.
`ServerLife`: weak fairness of the bootstrap's next step, of the signal task and of the health loop, which tokio polls whenever they
are ready; signals, clients and whoever cleans the temp directory are free. `RateLimiter`, `StoreCache`, `CredentialStore`, `PopulateEmbeddings`, `Deployment` and `Statement` are
checked for safety only: `populate_embeddings` is a program of bounded loops, a user may leave the wizard, nothing needs to be launched, and a statement is a straight line.

### What the violations show
Each is a sentence of the source that its code does not keep; PROJECT.json quotes both.
* `FreshTokenLogsIn`: the pool of the first call lives as long as the process and logs in with that call's token, so that
  after its expiry new connections are refused although the call has obtained a fresh token.
* `ServesOwnBuild`: a server of an older build that still runs renames its store over the path between the rename and
  the open of the new one. `NeverStale` is what does hold.
* `PortStarts`: a port given on the command line, or in `SQLSERVER_PORT`, is text when it reaches the numeric field, which refuses
  it: `load_config` fails, where without the option it would not. `src/docker-compose.yml` sets such variables too.
* `OmittedStaysOut`: a parameter that a call leaves out is named in the `EXEC` and bound as NULL, so that the default the
  procedure declares does not apply, where the comments of `services/api_client.rs` say that defaulted parameters do not matter
  and that a call without arguments is a bare `EXEC name`.

What holds besides is the normal case: `WizardKept`, for instance, says that with a keychain that has always answered, or never,
the wizard's save is lost only to a refresh in flight, to writers that meet on the file or to a deletion (a keychain that comes
and goes is another way, which the property leaves out), and `OvershootBounded` that the limiter's excess is one
call per caller. `SetupTakesEffect` says under which conditions the wizard's answers do not reach a process: a higher layer sets the field.
A default database left blank stays unset, unless some other layer itself has a blank one.

Two more sentences are stated in their modules and no run reports them, because nothing calls the code: `OneTrial` of
`CircuitBreaker` (`core/circuit_breaker.rs:46` speaks of one trial call, a half-open breaker admits every caller) and `DeletedIsGone` of
`CredentialStore` (`delete_credential` deletes in one of the two places, `load_credential` looks in both).

## 4. Proofs

Every theorem is for any value of the constants under the assumptions named in the module that declares them
(`CallPathAssumption`, `BreakerAssumption`, `LimiterAssumption`, `StoreAssumption`, `PopulateAssumption`, `StorageAssumption`: positive
thresholds, finite sets of callers and handlers where counting needs them, distinct special values; `EnvironmentAssumption`,
`InstalledAssumption`, `DefaultAssumption` and `AnswersAssumption`: environments name fields of `Config`, there is a file, or none, at each
of the four places, the defaults fit their fields, and no answer of the wizard is one of the model's special values;
`CallsAssumption` and `CanonicalAssumption`: operations, arguments and answers have the shape the code's types give them, and a library
takes back what it printed). TLC evaluates each of them in a run.

* **CallPath_proofs.** `IInv`: whoever runs holds the lock (`LockHeld`), has passed the refusals (`Admitted`), uses the cached
  credential (`ResolvedIsCached`) and fetches another only because the cached one is not valid
  (`StaleWhileFetching`). `ResolvedIsCached` alone is not inductive: a second call that fetched would replace the cached
  credential; that there is none is `LockHeld`, and that a runner which fetches does not do so needlessly is
  `StaleWhileFetching`, which gives `ValidNeverReplaced`. `ReadOnlySendsSelect` follows from `Admitted` by comparing the two classifications kind by kind.
  `ServesSerially` is the refinement: each step of `CallPath` maps to a step of `SerialCalls` or a stutter.
* **Limits_proofs.** Of the breaker, `FieldsAgree` and `HalfOpenOnTrial` are inductive with `TypeOK`. The limiter forgets nothing
  that counts (`StampsKept`: every instant of the last window is in the `Vec`), so a full window of prompt calls fits in
  `LogBounded`. The late ones are counted per caller: two late grants of one caller cannot both lie in a window, since its calls
  follow each other (`CallsInOrder`); the pigeonhole principle gives `OvershootBounded`.
* **StoreCache_proofs.** `WholeStore` (only a written temporary file is renamed) gives `OpensWholeStore`; `SameBuild` gives
  `NeverStale`; `LeaksCounted` (leaks plus handlers that may still leak) gives `LeaksBounded`; `OneHandle` and the rest give
  the refinement `CachesOnce`.
* **PopulateEmbeddings_proofs.** `OneIsWhole`: the `.zst` is whole while the raw file is torn, the raw file from its
  opening until the `.zst` equals it; hence `StoreSurvives`. `Progress`: operations outside `rest` are embedded and a
  target that is no longer to do is populated; hence `OkMeansPopulated`. `NoErrorOfItsOwn`: a row that is about
  to be inserted is not there and no target has lacked one, so that the only errors left are those of a file that is no store;
  hence `FailsOnlyUnusable`.

* **CredentialStore_proofs.** `LastIsThere` says that what the last write of a place left is still there; for the file that is so only
  because a writer that nothing disturbs finds it truncated (`WriterAlone`). `CalmLoad` says that a load during which
  nothing changed has what it would find now; both give `LoadsLast`. For `WizardKept`, `NewestOnly` says that all there
  is, and all that refreshes in flight are about to write, stems from the last save; it is inductive only with `SteadyPlace` (a keychain that
  was always up has everything, one that was always down nothing), for otherwise an older entry reappears when the keychain does.
* **Deployment_proofs.** `MergedAt` and `FirstExists`: merging by overwriting gives each field as the highest layer that sets it has it;
  `LayersInOrder`: those layers are the places of the documented cascade, in its order. Both give `HighestWins`. `EnvAt` gives `EnvironmentIsTaken`; with the command's variables in the environment (`DInv`), and what commands
  there are (`CommandShape`), it gives `ServesWhatWasAsked`.
  `SetupTakesEffect` speaks of a load by a wizard that is done, so what each prompt was told and saved must be known until then:
  `WizardInv` says at which prompt which answers are there and what has been saved of them, and it is inductive because the prompts come in one
  order. `AnswersAreReadable` (any answers fit their fields) then leaves only the other layers to stop the load.
* **ServerLife_proofs.** `TakenInReverse` follows the list through `Take` and `RunCallback` by index; `AbortIsLast` says that the callback of the health loop
  is the last one registered, so that it is the first to run: together they give `CleanShutdown`. `RegistryTells` ties the registry to the
  last report and gives `HealthzTells`.

* **Statement_proofs.** What a text of digits is worth is a recursive function, so the conversions need induction. The library's induction
  theorems take an operator, which cannot be instantiated here; the module derives induction for *sets* instead (`NatInductionOnSet`,
  `SeqInductionOnSet`) from the least element of a set of natural numbers, and then each recursive function's equation, since a recursive
  definition is only a choice until the function is shown to exist. On them rest, for every text and every integer, `ParseIsExact` (a number is bound
  exactly as it is written, or refused for having more places than the scale), `ParsedFits` (what a decimal of SQL Server can hold has at most 38
  digits, and cannot overflow the `i128` of the code), `NumericReadsBack` and `AnswerReadsBack` (what is shown is read back as the same
  value), which say more than the runs' texts of four characters.
  `EveryPlaceIsTaken`: distinct ranks among *n* parameters are all of 1 to *n* (an injection of a finite set into one of its size), so
  that `ParamsInOrder` has each parameter in one place. `StatementInv` carries through the stages what is already decided: a refusal that was
  passed, the two parts of the path that are plain names, the database that was asked for, and of a statement that was sent its names and values,
  place by place. The properties are not inductive without it: `ArgumentsReachParameters` is about the statement that is sent, but rests on
  the order in which it was built and on the database resolved two stages before.

Only model-checked: liveness (`CallsAnswered`, `ClosesOnceHealthy`, `SignalEnds`, `HealthzCatchesUp`), which the prover cannot
do. Every invariant and every action property of the passing runs is stated by a theorem. The proofs take the integers as unbounded, where the code
has `i128` (see `ParsedFits`) and counters of 32 or 64 bits that no run of the program fills.

## 5. What was built in which order, and what is not modelled

`CallPath` with `SerialCalls`, `CircuitBreaker`, `RateLimiter`, `StoreCache` with `OnceCells`, `CredentialStore`,
`PopulateEmbeddings`; then `ConfigManager`, `SetupWizard` and `Deployment`, `ServerLife`, `SqlType` and `Statement`; the proofs after the runs of
each module.

Not modelled:
* What belongs to libraries: routing and sessions (axum, rmcp), JSON Schema, the embedding model, tracing, and the texts that chrono, uuid and base64 read and
  print. `Statement` takes what a library prints for a text from a table (`Canonical`).
* Of `sql_type.rs`: the overflow of `i128` (no number that a decimal column can hold comes near it, `ParsedFits`) and the epoch arithmetic of date, time, datetime and
  smalldatetime, which is calendar computation without a state.
* The search and get tools: read-only queries of the store, whose opening is `StoreCache`; the ranking is SQL and vector arithmetic.
* `core/cache_manager.rs` and `http/metrics.rs`: one map under one mutex, the first of which nothing uses.
* Prompts, correlation identifiers, sanitizing, error texts, log format and what the wizard prints for the user: formatting.
* `host_and_port`: the split of an address, a pure function of one string.
* The keys that a `.env` file or a client's configuration may hold besides the fields of `Config` (credentials for the environment cascade): `CallPath` has
  environment logins as an input of their own.
* `bin/healthcheck.rs` (opens `mcp_store.db.zst` and exits with 0 if it can), the documentation pipeline, scripts, CI and images.
