------------------------------ MODULE CallPath ------------------------------
(***************************************************************************)
(* The live half of the server: concurrent `call` tool invocations          *)
(* (core/mcp_server.rs), each holding the shared AuthManager's tokio mutex   *)
(* while it resolves credentials through the cache / environment / store     *)
(* cascade (auth/auth_manager.rs), takes a connection from the process-wide  *)
(* pool (services/sql_pool.rs) and runs its statement                        *)
(* (services/api_client.rs).  One server process, one host:port.             *)
(*                                                                           *)
(* A credential is what validate_credentials and SQL Server tell apart: the  *)
(* `expires_at` the process recorded, and the time `until` which SQL Server  *)
(* accepts it at login.  A login/password pair never expires (Forever), and  *)
(* a wrong one is never accepted (until = 0).  A stored AAD client without a *)
(* usable access_token is the credential expired at 0.                       *)
(***************************************************************************)
EXTENDS Naturals, Sequences

CONSTANTS
  Calls,      \* concurrent invocations of the `call` tool
  Lifetime,   \* expires_in of an AAD token, in ticks
  MaxTime,    \* bound of the clock
  Forever,    \* expiry of a credential without expires_at
  NoCred,     \* None
  Configs,    \* the configurations a process may start with
  Operations  \* the operations clients ask for

Credential == [expires_at : Nat, until : Nat]

\* config_schema's Config, and what the environment holds of credentials.
AuthMethods == {"azure_ad", "sql_server", "windows"}
Config == [auth_method : AuthMethods, read_only : BOOLEAN,
           env : {"absent", "good", "bad"}]

\* A kind is the catalog's type_desc, "missing" an object without one; a flaw
\* is what makes the handler refuse the call before any I/O.
Kinds == {"view", "function", "procedure", "missing"}
Operation == [kind : Kinds, flaw : {"none", "arguments", "statement"}]
NoOperation == [kind |-> "view", flaw |-> "none"]

ASSUME CallPathAssumption ==
  /\ Lifetime \in Nat \ {0}
  /\ MaxTime \in Nat
  /\ Forever \in Nat /\ Forever > MaxTime
  /\ NoCred \notin Credential
  /\ Configs \subseteq Config
  /\ Operations \subseteq Operation

VARIABLES
  config,   \* the loaded Config and the environment: fixed for the process
  now,      \* wall clock
  queue,    \* FIFO of the AuthManager mutex; its head holds the lock
  pc,       \* where each call is
  op,       \* the operation each call asks for
  auth,     \* what resolve_tds_auth returned to each call
  result,   \* how each finished call ended
  sent,     \* when the token request in flight was sent
  cached,   \* AuthManager::cached_credentials
  stored,   \* the "active-credentials" entry of the credential storage
  pool,     \* credential inside the pooled ConnectionManager's Config
  idle      \* idle connections of that pool

vars == <<config, now, queue, pc, op, auth, result, sent, cached, stored, pool, idle>>
locals == <<op, auth, sent>>
services == <<cached, stored, pool, idle>>

Running == {"admitted", "env_exchange", "stored", "refresh",
            "resolved", "checkout", "querying"}
Stages == {"idle", "queued", "done"} \cup Running
\* refused: before any credential is asked for; rejected: SQL Server refused
\* the login; failed: the connection, the query or its transport did.
Results == {"none", "refused", "no_credentials", "rejected", "failed", "rows"}

\* The clock against an expires_at: None is not there, Forever is out of reach.
Valid(cred) == cred # NoCred /\ now < cred.expires_at

SecretOf(quality) == [expires_at |-> Forever, until |-> IF quality = "good" THEN Forever ELSE 0]
ClientOnly == [expires_at |-> 0, until |-> 0]

\* What the setup wizard of another process, or an earlier run, may have stored.
Storable ==
  IF config.auth_method = "azure_ad"
  THEN {ClientOnly, [expires_at |-> Lifetime, until |-> Lifetime]}
  ELSE {SecretOf("good"), SecretOf("bad"), ClientOnly}

Init ==
  /\ config \in Configs
  /\ now = 0
  /\ queue = << >>
  /\ pc = [c \in Calls |-> "idle"]
  /\ op = [c \in Calls |-> NoOperation]
  /\ auth = [c \in Calls |-> NoCred]
  /\ result = [c \in Calls |-> "none"]
  /\ sent = 0
  /\ cached = NoCred
  /\ stored \in Storable \cup {NoCred}
  /\ pool = NoCred
  /\ idle = 0

-----------------------------------------------------------------------------
(* The call handler and its guards.                                         *)

\* Fault: a mutex that any waiting call may take over.
InLine(c) == \E i \in DOMAIN queue : queue[i] = c

\* The holder of the AuthManager mutex: tokio's Mutex is fair.
HasLock(c) == queue # << >> /\ Head(queue) = c

\* A call that holds the lock ends: its future drops the guard and its locals.
Finish(c, outcome) ==
  /\ pc' = [pc EXCEPT ![c] = "done"]
  /\ result' = [result EXCEPT ![c] = outcome]
  /\ queue' = Tail(queue)
  /\ op' = [op EXCEPT ![c] = NoOperation]
  /\ auth' = [auth EXCEPT ![c] = NoCred]
  /\ sent' = 0

Goto(c, stage) ==
  /\ pc' = [pc EXCEPT ![c] = stage]
  /\ UNCHANGED <<queue, result>>

\* Fault: an object without a classification is taken for a safe one.
IsProcedure(kind) == kind = "procedure"

IsWritableKind(kind) == kind \notin {"view", "function"}

\* build_statement's own classification: everything else is EXECuted.
Verb(kind) == IF kind = "view" \/ kind = "function" THEN "SELECT" ELSE "EXEC"

\* The synchronous refusals of call_operation and execute: the arguments do not
\* validate, read_only is on, or no statement can be built.
Refused(o) ==
  \/ o.flaw # "none"
  \/ config.read_only /\ IsWritableKind(o.kind)

\* An operationId the store does not know never waits for the AuthManager.
CallUnknown(c) ==
  /\ pc[c] = "idle"
  /\ pc' = [pc EXCEPT ![c] = "done"]
  /\ result' = [result EXCEPT ![c] = "refused"]
  /\ UNCHANGED <<config, now, queue, locals, services>>

Call(c, o) ==
  /\ pc[c] = "idle"
  /\ pc' = [pc EXCEPT ![c] = "queued"]
  /\ op' = [op EXCEPT ![c] = o]
  /\ queue' = Append(queue, c)
  /\ UNCHANGED <<config, now, auth, result, sent, services>>

RefuseCall(c) ==
  /\ pc[c] = "queued" /\ HasLock(c)
  /\ Refused(op[c])
  /\ Finish(c, "refused")
  /\ UNCHANGED <<config, now, services>>

AdmitCall(c) ==
  /\ pc[c] = "queued" /\ HasLock(c)
  /\ ~Refused(op[c])
  /\ Goto(c, "admitted")
  /\ UNCHANGED <<config, now, locals, services>>

\* run_tool hands the result over; the client may call again.
Collect(c) ==
  /\ pc[c] = "done"
  /\ pc' = [pc EXCEPT ![c] = "idle"]
  /\ result' = [result EXCEPT ![c] = "none"]
  /\ UNCHANGED <<config, now, queue, locals, services>>

-----------------------------------------------------------------------------
(* AuthManager::credentials and resolve_tds_auth.                           *)

\* resolve_tds_auth's last step: there is no Windows authentication off Windows.
Resolve(c, cred) ==
  IF config.auth_method = "windows"
  THEN Finish(c, "no_credentials")
  ELSE /\ auth' = [auth EXCEPT ![c] = cred]
       /\ sent' = 0
       /\ Goto(c, "resolved")
       /\ UNCHANGED op

UseCached(c) ==
  /\ pc[c] = "admitted" /\ HasLock(c)
  /\ Valid(cached)
  /\ Resolve(c, cached)
  /\ UNCHANGED <<config, now, services>>

\* Fault: the environment is asked before the cache.
EnvFirst(c) == pc[c] = "admitted" /\ HasLock(c) /\ config.env # "absent"

NeedsEnv(c) ==
  pc[c] = "admitted" /\ HasLock(c) /\ ~Valid(cached) /\ config.env # "absent"

\* A login and password from the environment need no exchange.
UseEnvLogin(c) ==
  /\ NeedsEnv(c) /\ config.auth_method # "azure_ad"
  /\ cached' = SecretOf(config.env)
  /\ Resolve(c, cached')
  /\ UNCHANGED <<config, now, stored, pool, idle>>

\* The token request leaves; `sent` bounds when the token is issued.
SendExchange(c, stage) ==
  /\ config.auth_method = "azure_ad"
  /\ sent' = now
  /\ Goto(c, stage)
  /\ UNCHANGED <<config, now, op, auth, services>>

EnvExchange(c) == NeedsEnv(c) /\ SendExchange(c, "env_exchange")

\* expires_at counts from the response, the token's life from its issue.
Token(issued) == [expires_at |-> now + Lifetime, until |-> issued + Lifetime]

EnvGranted(c, issued) ==
  /\ pc[c] = "env_exchange" /\ HasLock(c) /\ config.env = "good"
  /\ cached' = Token(issued)
  /\ Resolve(c, cached')
  /\ UNCHANGED <<config, now, stored, pool, idle>>

\* Fault: a failed exchange is tried again, for ever.
EnvRetried(c) ==
  /\ pc[c] = "env_exchange" /\ HasLock(c)
  /\ Goto(c, "admitted")
  /\ sent' = 0
  /\ UNCHANGED <<config, now, op, auth, services>>

EnvFailed(c) ==
  /\ pc[c] = "env_exchange" /\ HasLock(c)
  /\ Goto(c, "stored")
  /\ sent' = 0
  /\ UNCHANGED <<config, now, op, auth, services>>

AtStored(c) ==
  /\ HasLock(c)
  /\ \/ pc[c] = "stored"
     \/ pc[c] = "admitted" /\ ~Valid(cached) /\ config.env = "absent"

\* Nothing is stored, nothing that is can be used or refreshed, or the storage
\* or its content cannot be read.
NoStored(c) ==
  /\ AtStored(c)
  /\ Finish(c, "no_credentials")
  /\ UNCHANGED <<config, now, services>>

UseStored(c) ==
  /\ AtStored(c)
  /\ Valid(stored)
  /\ cached' = stored
  /\ Resolve(c, stored)
  /\ UNCHANGED <<config, now, stored, pool, idle>>

\* Only the azure_ad strategy can refresh.
Refresh(c) ==
  /\ AtStored(c)
  /\ stored # NoCred /\ ~Valid(stored)
  /\ SendExchange(c, "refresh")

\* Fault: a refreshed token is saved but not cached.
RefreshUncached(c, issued) ==
  /\ pc[c] = "refresh" /\ HasLock(c)
  /\ stored' = Token(issued)
  /\ Resolve(c, stored')
  /\ UNCHANGED <<config, now, cached, pool, idle>>

RefreshGranted(c, issued) ==
  /\ pc[c] = "refresh" /\ HasLock(c)
  /\ cached' = Token(issued)
  /\ stored' = cached'
  /\ Resolve(c, cached')
  /\ UNCHANGED <<config, now, pool, idle>>

\* The cache is set before save_credential, whose failure fails the call.
RefreshUnsaved(c, issued) ==
  /\ pc[c] = "refresh" /\ HasLock(c)
  /\ cached' = Token(issued)
  /\ Finish(c, "no_credentials")
  /\ UNCHANGED <<config, now, stored, pool, idle>>

RefreshFailed(c) ==
  /\ pc[c] = "refresh" /\ HasLock(c)
  /\ Finish(c, "no_credentials")
  /\ UNCHANGED <<config, now, services>>

-----------------------------------------------------------------------------
(* cached_pool, the pool and the query.                                     *)

\* Fault: the pool is built and not kept.
PoolNotKept(c) ==
  /\ pc[c] = "resolved" /\ HasLock(c)
  /\ Goto(c, "checkout")
  /\ UNCHANGED <<config, now, locals, services>>

\* The pool is built once, from the Config of the call that found none.
GetPool(c) ==
  /\ pc[c] = "resolved" /\ HasLock(c)
  /\ pool' = IF pool = NoCred THEN auth[c] ELSE pool
  /\ Goto(c, "checkout")
  /\ UNCHANGED <<config, now, locals, cached, stored, idle>>

TakeIdle(c) ==
  /\ pc[c] = "checkout" /\ HasLock(c)
  /\ idle > 0
  /\ idle' = idle - 1
  /\ Goto(c, "querying")
  /\ UNCHANGED <<config, now, locals, cached, stored, pool>>

\* A new connection logs in with the credential the pool was built with.
Connect(c) ==
  /\ pc[c] = "checkout" /\ HasLock(c)
  /\ idle = 0
  /\ now < pool.until
  /\ Goto(c, "querying")
  /\ UNCHANGED <<config, now, locals, services>>

\* bb8 retries, and gives up after its connection timeout.
ConnectFails(c) ==
  /\ pc[c] = "checkout" /\ HasLock(c)
  /\ idle = 0
  /\ \/ now >= pool.until /\ Finish(c, "rejected")
     \/ now < pool.until /\ Finish(c, "failed")
  /\ UNCHANGED <<config, now, services>>

\* The rows are in, or SQL Server raised an error: the connection goes back.
QueryEnds(c, outcome) ==
  /\ pc[c] = "querying" /\ HasLock(c)
  /\ idle' = idle + 1
  /\ Finish(c, outcome)
  /\ UNCHANGED <<config, now, cached, stored, pool>>

QueryBreaks(c) ==
  /\ pc[c] = "querying" /\ HasLock(c)
  /\ Finish(c, "failed")
  /\ UNCHANGED <<config, now, services>>

-----------------------------------------------------------------------------
(* The rest of the world.                                                   *)

\* An idle connection reaches its idle or maximal life, or SQL Server closes it.
DropIdle ==
  /\ idle > 0
  /\ idle' = idle - 1
  /\ UNCHANGED <<config, now, queue, pc, result, locals, cached, stored, pool>>

\* The setup wizard, in a process of its own, stores other credentials.
WizardSaves(cred) ==
  /\ stored' = cred
  /\ UNCHANGED <<config, now, queue, pc, result, locals, cached, pool, idle>>

Tick ==
  /\ now < MaxTime
  /\ now' = now + 1
  /\ UNCHANGED <<config, queue, pc, result, locals, services>>

-----------------------------------------------------------------------------
CredentialStep(c) ==
  \/ UseCached(c) \/ UseEnvLogin(c) \/ EnvExchange(c)
  \/ \E issued \in sent .. now :
       EnvGranted(c, issued) \/ RefreshGranted(c, issued) \/ RefreshUnsaved(c, issued)
  \/ EnvFailed(c) \/ NoStored(c) \/ UseStored(c) \/ Refresh(c) \/ RefreshFailed(c)

QueryStep(c) ==
  \/ GetPool(c) \/ TakeIdle(c) \/ Connect(c) \/ ConnectFails(c)
  \/ \E outcome \in {"rows", "failed"} : QueryEnds(c, outcome)
  \/ QueryBreaks(c)

\* Everything a call does once it waits for the lock.
Serve(c) == RefuseCall(c) \/ AdmitCall(c) \/ CredentialStep(c) \/ QueryStep(c)

Next ==
  \/ \E c \in Calls :
       \/ CallUnknown(c) \/ \E o \in Operations : Call(c, o)
       \/ Serve(c) \/ Collect(c)
  \/ DropIdle \/ Tick
  \/ \E cred \in Storable : WizardSaves(cred)

Spec == Init /\ [][Next]_vars

\* Tokio polls a woken task; the token endpoint and SQL Server answer or fail.
FairSpec == Spec /\ \A c \in Calls : WF_vars(Serve(c))

-----------------------------------------------------------------------------
(* Properties.                                                              *)

PoolComesFirst ==
  /\ \A c \in Calls : pc[c] = "resolved" => auth[c] # NoCred
  /\ pool = NoCred => idle = 0 /\ \A c \in Calls : pc[c] \notin {"checkout", "querying"}

\* Every variable stays in its domain; a connection comes from a pool, which is
\* built with a credential.
TypeOK ==
  /\ config \in Config
  /\ now \in 0 .. MaxTime
  /\ queue \in Seq(Calls)
  /\ pc \in [Calls -> Stages]
  /\ op \in [Calls -> Operation]
  /\ auth \in [Calls -> Credential \cup {NoCred}]
  /\ result \in [Calls -> Results]
  /\ sent \in 0 .. now
  /\ cached \in Credential \cup {NoCred}
  /\ stored \in Credential \cup {NoCred}
  /\ pool \in Credential \cup {NoCred}
  /\ idle \in Nat
  /\ PoolComesFirst

\* The Mutex<AuthManager> held over the whole call (mcp_server.rs:153) serves
\* the calls one at a time and in order, whichever way each of them ends.
SerialStage ==
  [c \in Calls |-> CASE pc[c] = "idle" -> "idle"
                     [] pc[c] = "queued" -> "waiting"
                     [] pc[c] = "done" -> "done"
                     [] pc[c] \in Running -> "running"]

Serial == INSTANCE SerialCalls WITH stage <- SerialStage, line <- queue

SerialRefinement == Serial!Spec

\* Between resolve_tds_auth and the last row, the credential a call resolved is
\* still the cached one: nobody replaces it under a call that uses it.
ResolvedIsCached ==
  \A c \in Calls : pc[c] \in {"resolved", "checkout", "querying"} => auth[c] = cached

\* A cached credential is replaced only once validate_credentials refuses it: a
\* token is used for its whole life and concurrent calls never fetch two.
ValidNeverReplaced == [][cached' # cached => ~Valid(cached)]_vars

\* Under read_only no EXEC reaches SQL Server: is_writable_kind, checked first,
\* and build_statement, classifying again by itself, must agree on every kind.
ReadOnlySendsSelect ==
  \A c \in Calls : pc[c] = "querying" /\ config.read_only => Verb(op[c].kind) = "SELECT"

\* Why they hold: whoever runs holds the lock, passed the refusals, and found no
\* valid cached credential if it is fetching another.
LockHeld == \A c \in Calls : pc[c] \in Running => HasLock(c)

Admitted == \A c \in Calls : pc[c] \in Running => ~Refused(op[c])

StaleWhileFetching ==
  \A c \in Calls : pc[c] \in {"env_exchange", "stored", "refresh"} => ~Valid(cached)

IInv == LockHeld /\ Admitted /\ ResolvedIsCached /\ StaleWhileFetching

\* A call that waits for the AuthManager is eventually answered, whatever the
\* calls before it met: every error path lets go of the lock.
CallsAnswered == \A c \in Calls : pc[c] = "queued" ~> pc[c] = "done"

\* azure_ad.rs:23 promises that the server "re-authenticates automatically on
\* the next tool call after expiry": a call that holds a token SQL Server would
\* accept is not turned away at login.  The cached pool breaks it: it logs in
\* with the token it was built with.
FreshTokenLogsIn ==
  [][\A c \in Calls :
       result'[c] = "rejected" /\ result[c] = "none" => now >= auth[c].until]_vars
=============================================================================
