--------------------------- MODULE CallPath_proofs ---------------------------
(* Theorems about CallPath, for any calls, operations and token lifetime.    *)
EXTENDS CallPath, TLAPS

USE DEF Running, Stages

-----------------------------------------------------------------------------
(* What the parts of an action do to the variables they write.              *)

Domains ==
  /\ queue \in Seq(Calls) /\ pc \in [Calls -> Stages]
  /\ op \in [Calls -> Operation] /\ auth \in [Calls -> Credential \cup {NoCred}]
  /\ result \in [Calls -> Results]

OthersKeep(c) == \A d \in Calls \ {c} : pc'[d] = pc[d] /\ auth'[d] = auth[d] /\ op'[d] = op[d]

LEMMA FinishType ==
  ASSUME TypeOK, NEW c \in Calls, HasLock(c), NEW outcome \in Results, Finish(c, outcome)
  PROVE  Domains' /\ sent' = 0 /\ OthersKeep(c) /\ pc'[c] = "done"
<1>1. queue' \in Seq(Calls)
  BY DEF TypeOK, HasLock, Finish
<1>2. NoOperation \in Operation
  BY DEF NoOperation, Operation, Kinds
<1> QED
  BY <1>1, <1>2 DEF TypeOK, Finish, Domains, OthersKeep

LEMMA GotoType ==
  ASSUME TypeOK, NEW c \in Calls, NEW stage \in Stages, Goto(c, stage),
         op' = op, auth' \in [Calls -> Credential \cup {NoCred}],
         \A d \in Calls \ {c} : auth'[d] = auth[d]
  PROVE  Domains' /\ OthersKeep(c) /\ pc'[c] = stage
BY DEF TypeOK, Goto, Domains, OthersKeep

LEMMA ResolveType ==
  ASSUME TypeOK, NEW c \in Calls, HasLock(c), NEW cred \in Credential, Resolve(c, cred)
  PROVE  /\ Domains' /\ sent' = 0 /\ OthersKeep(c)
         /\ \/ pc'[c] = "done"
            \/ pc'[c] = "resolved" /\ auth'[c] = cred /\ queue' = queue /\ op' = op
<1>1. CASE config.auth_method = "windows"
  <2>1. Finish(c, "no_credentials")
    BY <1>1 DEF Resolve
  <2> QED
    BY <2>1, FinishType DEF Results
<1>2. CASE config.auth_method # "windows"
  <2>1. auth' = [auth EXCEPT ![c] = cred] /\ Goto(c, "resolved") /\ op' = op /\ sent' = 0
    BY <1>2 DEF Resolve
  <2>2. auth' \in [Calls -> Credential \cup {NoCred}] /\ auth'[c] = cred
    BY <2>1 DEF TypeOK
  <2>3. \A d \in Calls \ {c} : auth'[d] = auth[d]
    BY <2>1 DEF TypeOK
  <2>4. queue' = queue
    BY <2>1 DEF Goto
  <2>5. Domains' /\ OthersKeep(c) /\ pc'[c] = "resolved"
    BY <2>1, <2>2, <2>3, GotoType
  <2> QED
    BY <2>1, <2>2, <2>4, <2>5
<1> QED
  BY <1>1, <1>2

\* The pool survives a step that leaves it alone, and takes no call further than
\* the credential it has.
LEMMA PoolKept ==
  ASSUME TypeOK, NEW c \in Calls, OthersKeep(c), pool' = pool, pool = NoCred => idle' = idle,
         pc'[c] = "resolved" => auth'[c] # NoCred,
         pc'[c] \in {"checkout", "querying"} => pool # NoCred
  PROVE  PoolComesFirst'
BY DEF TypeOK, PoolComesFirst, OthersKeep

LEMMA TokenType ==
  ASSUME TypeOK, NEW issued \in sent .. now
  PROVE  Token(issued) \in Credential
BY CallPathAssumption DEF TypeOK, Token, Credential

LEMMA SecretType ==
  ASSUME NEW quality
  PROVE  SecretOf(quality) \in Credential /\ ClientOnly \in Credential
BY CallPathAssumption DEF SecretOf, ClientOnly, Credential

LEMMA StorableType == Storable \subseteq Credential
BY SecretType, CallPathAssumption DEF Storable, Credential

-----------------------------------------------------------------------------
LEMMA InitType == Init => TypeOK
<1> SUFFICES ASSUME Init PROVE TypeOK
  OBVIOUS
<1>1. config \in Config /\ now \in 0 .. MaxTime /\ sent \in 0 .. now /\ idle \in Nat
  BY CallPathAssumption DEF Init
<1>2. NoOperation \in Operation
  BY DEF NoOperation, Operation, Kinds
<1>3. op \in [Calls -> Operation] /\ result \in [Calls -> Results]
  BY <1>2 DEF Init, Results
<1>4. queue \in Seq(Calls) /\ pc \in [Calls -> Stages]
  BY DEF Init
<1>5. /\ auth \in [Calls -> Credential \cup {NoCred}]
      /\ cached \in Credential \cup {NoCred}
      /\ stored \in Credential \cup {NoCred}
      /\ pool \in Credential \cup {NoCred}
  BY StorableType DEF Init
<1>6. PoolComesFirst
  BY DEF Init, PoolComesFirst
<1> QED
  BY <1>1, <1>3, <1>4, <1>5, <1>6 DEF TypeOK

LEMMA CredentialStepType ==
  ASSUME TypeOK, NEW c \in Calls, CredentialStep(c)
  PROVE  TypeOK'
<1>0. NoCred \notin Credential /\ now \in Nat
  BY CallPathAssumption DEF TypeOK
<1>1. ASSUME HasLock(c), NEW cred \in Credential, Resolve(c, cred),
             config' = config, now' = now, pool' = pool, idle' = idle,
             cached' = cred, stored' \in {stored, cred}
      PROVE  TypeOK'
  <2>1. PoolComesFirst'
    BY <1>0, <1>1, ResolveType, PoolKept
  <2> QED
    BY <1>0, <1>1, <2>1, ResolveType DEF TypeOK, Domains
<1>2. ASSUME HasLock(c), Finish(c, "no_credentials"),
             config' = config, now' = now, pool' = pool, idle' = idle,
             cached' \in Credential \cup {NoCred}, stored' = stored
      PROVE  TypeOK'
  <2>1. Domains' /\ sent' = 0 /\ OthersKeep(c) /\ pc'[c] = "done"
    BY <1>2, FinishType DEF Results
  <2>2. PoolComesFirst'
    BY <1>2, <2>1, PoolKept
  <2> QED
    BY <1>0, <1>2, <2>1, <2>2 DEF TypeOK, Domains
<1>3. ASSUME NEW stage \in {"env_exchange", "refresh", "stored"}, Goto(c, stage),
             sent' \in 0 .. now, UNCHANGED <<config, now, op, auth, services>>
      PROVE  TypeOK'
  <2>1. Domains' /\ OthersKeep(c) /\ pc'[c] = stage
    BY <1>3, GotoType DEF TypeOK
  <2>2. PoolComesFirst'
    BY <1>3, <2>1, PoolKept DEF services
  <2> QED
    BY <1>3, <2>1, <2>2 DEF TypeOK, Domains, services
<1>4. CASE UseCached(c)
  <2>1. cached \in Credential
    BY <1>4 DEF UseCached, Valid, TypeOK
  <2> QED
    BY <1>4, <2>1, <1>1 DEF UseCached, services
<1>5. CASE UseEnvLogin(c)
  BY <1>5, <1>1, SecretType DEF UseEnvLogin, NeedsEnv
<1>6. CASE EnvExchange(c)
  BY <1>0, <1>6, <1>3 DEF EnvExchange, SendExchange
<1>7. ASSUME NEW issued \in sent .. now, EnvGranted(c, issued) PROVE TypeOK'
  BY <1>7, <1>1, TokenType DEF EnvGranted
<1>8. ASSUME NEW issued \in sent .. now, RefreshGranted(c, issued) PROVE TypeOK'
  BY <1>8, <1>1, TokenType DEF RefreshGranted
<1>9. ASSUME NEW issued \in sent .. now, RefreshUnsaved(c, issued) PROVE TypeOK'
  BY <1>9, <1>2, TokenType DEF RefreshUnsaved
<1>10. CASE EnvFailed(c)
  BY <1>0, <1>10, <1>3 DEF EnvFailed
<1>11. CASE NoStored(c) \/ RefreshFailed(c)
  BY <1>11, <1>2 DEF NoStored, AtStored, RefreshFailed, services, TypeOK
<1>12. CASE UseStored(c)
  <2>1. stored \in Credential
    BY <1>12 DEF UseStored, Valid, TypeOK
  <2> QED
    BY <1>12, <2>1, <1>1 DEF UseStored, AtStored
<1>13. CASE Refresh(c)
  BY <1>0, <1>13, <1>3 DEF Refresh, SendExchange
<1> QED
  BY <1>4, <1>5, <1>6, <1>7, <1>8, <1>9, <1>10, <1>11, <1>12, <1>13 DEF CredentialStep

LEMMA QueryStepType ==
  ASSUME TypeOK, NEW c \in Calls, QueryStep(c)
  PROVE  TypeOK'
<1>0. now \in Nat /\ (pc[c] \in {"checkout", "querying"} => pool # NoCred)
      /\ (pc[c] = "resolved" => auth[c] \in Credential /\ auth[c] # NoCred)
  BY CallPathAssumption DEF TypeOK, PoolComesFirst
<1>1. CASE GetPool(c)
  <2>1. Domains' /\ OthersKeep(c) /\ pc'[c] = "checkout"
    BY <1>1, GotoType DEF GetPool, locals, TypeOK
  <2>2. pool' \in Credential \cup {NoCred} /\ pool' # NoCred
    BY <1>0, <1>1 DEF GetPool, TypeOK
  <2>3. PoolComesFirst'
    BY <2>1, <2>2 DEF PoolComesFirst, TypeOK, OthersKeep
  <2> QED
    BY <1>1, <2>1, <2>2, <2>3 DEF GetPool, locals, TypeOK, Domains
<1>2. ASSUME pc[c] = "checkout", Goto(c, "querying"), idle' \in Nat,
             UNCHANGED <<config, now, locals, cached, stored, pool>>
      PROVE  TypeOK'
  <2>1. Domains' /\ OthersKeep(c) /\ pc'[c] = "querying"
    BY <1>2, GotoType DEF locals, TypeOK
  <2>2. PoolComesFirst'
    BY <1>0, <1>2, <2>1, PoolKept
  <2> QED
    BY <1>2, <2>1, <2>2 DEF locals, TypeOK, Domains
<1>3. ASSUME pc[c] \in {"checkout", "querying"}, HasLock(c), idle' \in Nat,
             NEW outcome \in Results, Finish(c, outcome),
             UNCHANGED <<config, now, cached, stored, pool>>
      PROVE  TypeOK'
  <2>1. Domains' /\ sent' = 0 /\ OthersKeep(c) /\ pc'[c] = "done"
    BY <1>3, FinishType
  <2>2. PoolComesFirst'
    BY <1>0, <1>3, <2>1, PoolKept
  <2> QED
    BY <1>0, <1>3, <2>1, <2>2 DEF TypeOK, Domains
<1>4. CASE TakeIdle(c)
  BY <1>4, <1>2 DEF TakeIdle, TypeOK
<1>5. CASE Connect(c)
  BY <1>5, <1>2 DEF Connect, TypeOK, services
<1>6. CASE ConnectFails(c)
  BY <1>6, <1>3 DEF ConnectFails, TypeOK, services, Results
<1>7. ASSUME NEW outcome \in {"rows", "failed"}, QueryEnds(c, outcome) PROVE TypeOK'
  BY <1>7, <1>3 DEF QueryEnds, TypeOK, Results
<1>8. CASE QueryBreaks(c)
  BY <1>8, <1>3 DEF QueryBreaks, TypeOK, services, Results
<1> QED
  BY <1>1, <1>4, <1>5, <1>6, <1>7, <1>8 DEF QueryStep

\* Every variable of the call path stays in its domain, and no connection is
\* asked of a pool that was never built.
THEOREM TypeCorrect == Spec => []TypeOK
<1>1. TypeOK /\ [Next]_vars => TypeOK'
  <2> SUFFICES ASSUME TypeOK, [Next]_vars PROVE TypeOK'
    OBVIOUS
  <2>0. now \in Nat
    BY CallPathAssumption DEF TypeOK
  <2>1. ASSUME NEW c \in Calls, CallUnknown(c) \/ Collect(c) PROVE TypeOK'
    <3>1. pc' \in [Calls -> Stages] /\ result' \in [Calls -> Results] /\ PoolComesFirst'
      BY <2>1 DEF CallUnknown, Collect, TypeOK, Results, PoolComesFirst, locals, services
    <3> QED
      BY <2>1, <3>1 DEF CallUnknown, Collect, TypeOK, locals, services
  <2>2. ASSUME NEW c \in Calls, NEW o \in Operations, Call(c, o) PROVE TypeOK'
    <3>1. queue' \in Seq(Calls) /\ op' \in [Calls -> Operation] /\ pc' \in [Calls -> Stages]
      BY <2>2, CallPathAssumption DEF Call, TypeOK
    <3>2. PoolComesFirst'
      BY <2>2 DEF Call, TypeOK, PoolComesFirst, services
    <3> QED
      BY <2>2, <3>1, <3>2 DEF Call, TypeOK, services
  <2>3. ASSUME NEW c \in Calls, RefuseCall(c) PROVE TypeOK'
    <3>1. Domains' /\ sent' = 0 /\ OthersKeep(c) /\ pc'[c] = "done"
      BY <2>3, FinishType DEF RefuseCall, Results
    <3>2. PoolComesFirst'
      BY <2>3, <3>1, PoolKept DEF RefuseCall, services
    <3> QED
      BY <2>0, <2>3, <3>1, <3>2 DEF RefuseCall, TypeOK, Domains, services
  <2>4. ASSUME NEW c \in Calls, AdmitCall(c) PROVE TypeOK'
    <3>1. Domains' /\ OthersKeep(c) /\ pc'[c] = "admitted"
      BY <2>4, GotoType DEF AdmitCall, locals, TypeOK
    <3>2. PoolComesFirst'
      BY <2>4, <3>1, PoolKept DEF AdmitCall, services
    <3> QED
      BY <2>4, <3>1, <3>2 DEF AdmitCall, TypeOK, Domains, locals, services
  <2>5. ASSUME NEW c \in Calls, CredentialStep(c) \/ QueryStep(c) PROVE TypeOK'
    BY <2>5, CredentialStepType, QueryStepType
  <2>6. CASE DropIdle
    BY <2>6 DEF DropIdle, TypeOK, PoolComesFirst, locals
  <2>7. CASE Tick
    <3>1. now' \in 0 .. MaxTime /\ sent' \in 0 .. now'
      BY <2>7, CallPathAssumption DEF Tick, TypeOK, locals
    <3> QED
      BY <2>7, <3>1 DEF Tick, TypeOK, PoolComesFirst, locals, services
  <2>8. ASSUME NEW cred \in Storable, WizardSaves(cred) PROVE TypeOK'
    BY <2>8, StorableType DEF WizardSaves, TypeOK, PoolComesFirst, locals
  <2>9. CASE UNCHANGED vars
    BY <2>9 DEF vars, TypeOK, PoolComesFirst, locals, services
  <2> QED
    BY <2>1, <2>2, <2>3, <2>4, <2>5, <2>6, <2>7, <2>8, <2>9 DEF Next, Serve
<1> QED
  BY <1>1, InitType, PTL DEF Spec

-----------------------------------------------------------------------------
(* The lock, the cache and the credential a call uses.                      *)

\* The lock has one holder: no other call runs.
LEMMA RunsAlone ==
  ASSUME LockHeld, NEW c \in Calls, HasLock(c)
  PROVE  \A d \in Calls \ {c} : pc[d] \notin Running
BY DEF LockHeld, HasLock

\* Once a call has let go of the lock, nothing runs and nothing can be wrong.
LEMMA FinishInv ==
  ASSUME TypeOK, LockHeld, NEW c \in Calls, HasLock(c),
         NEW outcome \in Results, Finish(c, outcome)
  PROVE  IInv'
<1>1. \A d \in Calls : pc'[d] \notin Running
  BY FinishType, RunsAlone DEF OthersKeep
<1> QED
  BY <1>1 DEF IInv, LockHeld, Admitted, ResolvedIsCached, StaleWhileFetching

\* A call that stays in the lock and keeps its operation only has its own part
\* of the invariant to re-establish.
LEMMA HolderInv ==
  ASSUME TypeOK, IInv, NEW c \in Calls, HasLock(c), queue' = queue, config' = config,
         OthersKeep(c), op'[c] = op[c], ~Refused(op[c]),
         pc'[c] \in {"resolved", "checkout", "querying"} => auth'[c] = cached',
         pc'[c] \in {"env_exchange", "stored", "refresh"} => ~Valid(cached)'
  PROVE  IInv'
<1>1. \A d \in Calls \ {c} : pc'[d] \notin Running
  BY RunsAlone DEF IInv, OthersKeep
<1>2. HasLock(c)'
  BY DEF HasLock
<1>3. ~Refused(op[c])'
  BY DEF Refused
<1> QED
  BY <1>1, <1>2, <1>3
  DEF IInv, LockHeld, Admitted, ResolvedIsCached, StaleWhileFetching, Refused

LEMMA ResolveInv ==
  ASSUME TypeOK, IInv, NEW c \in Calls, HasLock(c), pc[c] \in Running,
         NEW cred \in Credential, Resolve(c, cred), cached' = cred, config' = config
  PROVE  IInv'
<1>1. CASE config.auth_method = "windows"
  BY <1>1, FinishInv DEF Resolve, Results, IInv
<1>2. CASE config.auth_method # "windows"
  <2>1. queue' = queue /\ op' = op /\ pc'[c] = "resolved"
    BY <1>2 DEF Resolve, Goto, TypeOK
  <2>2. OthersKeep(c) /\ auth'[c] = cred
    BY <2>1, ResolveType
  <2>3. ~Refused(op[c])
    BY DEF IInv, Admitted
  <2> QED
    BY <2>1, <2>2, <2>3, HolderInv
<1> QED
  BY <1>1, <1>2

\* The holder of the lock replaces only a credential that is not valid any more.
LEMMA CredentialStepInv ==
  ASSUME TypeOK, IInv, NEW c \in Calls, CredentialStep(c)
  PROVE  IInv' /\ (cached' # cached => ~Valid(cached))
<1>0. /\ pc[c] \in Running => ~Refused(op[c])
      /\ pc[c] \in {"env_exchange", "stored", "refresh"} => ~Valid(cached)
      /\ LockHeld
  BY DEF IInv, Admitted, StaleWhileFetching
<1>1. ASSUME HasLock(c), pc[c] \in Running, ~Valid(cached), NEW stage \in Stages, Goto(c, stage),
             UNCHANGED <<config, now, op, auth, services>>,
             stage \in {"env_exchange", "stored", "refresh"}
      PROVE  IInv' /\ cached' = cached
  <2>1. OthersKeep(c) /\ pc'[c] = stage /\ queue' = queue
    BY <1>1, GotoType DEF TypeOK, Goto
  <2>2. ~Valid(cached)'
    BY <1>1 DEF Valid, services
  <2> QED
    BY <1>0, <1>1, <2>1, <2>2, HolderInv DEF services
<1>2. CASE UseCached(c)
  <2>1. cached \in Credential
    BY <1>2 DEF UseCached, Valid, TypeOK
  <2> QED
    BY <1>2, <2>1, ResolveInv DEF UseCached, services
<1>3. CASE UseEnvLogin(c)
  BY <1>3, ResolveInv, SecretType DEF UseEnvLogin, NeedsEnv
<1>4. CASE EnvExchange(c)
  BY <1>4, <1>1 DEF EnvExchange, SendExchange, NeedsEnv
<1>5. ASSUME NEW issued \in sent .. now, EnvGranted(c, issued)
      PROVE  IInv' /\ (cached' # cached => ~Valid(cached))
  BY <1>0, <1>5, ResolveInv, TokenType DEF EnvGranted
<1>6. ASSUME NEW issued \in sent .. now, RefreshGranted(c, issued)
      PROVE  IInv' /\ (cached' # cached => ~Valid(cached))
  BY <1>0, <1>6, ResolveInv, TokenType DEF RefreshGranted
<1>7. ASSUME NEW issued \in sent .. now, RefreshUnsaved(c, issued)
      PROVE  IInv' /\ (cached' # cached => ~Valid(cached))
  BY <1>0, <1>7, FinishInv DEF RefreshUnsaved, Results
<1>8. CASE EnvFailed(c)
  BY <1>0, <1>8, <1>1 DEF EnvFailed
<1>9. CASE NoStored(c) \/ RefreshFailed(c)
  BY <1>0, <1>9, FinishInv DEF NoStored, RefreshFailed, AtStored, Results, services
<1>10. CASE UseStored(c)
  <2>1. stored \in Credential /\ HasLock(c) /\ pc[c] \in Running /\ ~Valid(cached)
    BY <1>0, <1>10 DEF UseStored, AtStored, Valid, TypeOK
  <2> QED
    BY <1>10, <2>1, ResolveInv DEF UseStored
<1>11. CASE Refresh(c)
  BY <1>0, <1>11, <1>1 DEF Refresh, SendExchange, AtStored
<1> QED
  BY <1>2, <1>3, <1>4, <1>5, <1>6, <1>7, <1>8, <1>9, <1>10, <1>11 DEF CredentialStep

LEMMA QueryStepInv ==
  ASSUME TypeOK, IInv, NEW c \in Calls, QueryStep(c)
  PROVE  IInv' /\ cached' = cached
<1>0. /\ pc[c] \in Running => ~Refused(op[c])
      /\ pc[c] \in {"resolved", "checkout", "querying"} => auth[c] = cached
      /\ LockHeld
  BY DEF IInv, Admitted, ResolvedIsCached
<1>1. ASSUME HasLock(c), pc[c] \in {"resolved", "checkout"},
             NEW stage \in {"checkout", "querying"}, Goto(c, stage),
             UNCHANGED <<config, now, locals, cached, stored>>
      PROVE  IInv' /\ cached' = cached
  <2>1. OthersKeep(c) /\ pc'[c] = stage /\ queue' = queue
    BY <1>1, GotoType DEF TypeOK, Goto, locals
  <2> QED
    BY <1>0, <1>1, <2>1, HolderInv DEF locals
<1>2. CASE GetPool(c) \/ TakeIdle(c) \/ Connect(c)
  BY <1>1, <1>2 DEF GetPool, TakeIdle, Connect, services
<1>3. CASE ConnectFails(c) \/ QueryBreaks(c)
  BY <1>0, <1>3, FinishInv DEF ConnectFails, QueryBreaks, Results, services
<1>4. ASSUME NEW outcome \in {"rows", "failed"}, QueryEnds(c, outcome)
      PROVE  IInv' /\ cached' = cached
  BY <1>0, <1>4, FinishInv DEF QueryEnds, Results
<1> QED
  BY <1>2, <1>3, <1>4 DEF QueryStep

\* Whatever step is taken, the invariant survives and a valid credential stays.
LEMMA StepInv ==
  ASSUME TypeOK, IInv, [Next]_vars
  PROVE  IInv' /\ (cached' # cached => ~Valid(cached))
<1> USE DEF IInv, LockHeld, Admitted, ResolvedIsCached, StaleWhileFetching
<1>1. ASSUME NEW c \in Calls, CallUnknown(c) \/ Collect(c)
      PROVE  IInv' /\ cached' = cached
  BY <1>1 DEF CallUnknown, Collect, TypeOK, HasLock, Refused, Valid, locals, services
<1>2. ASSUME NEW c \in Calls, NEW o \in Operations, Call(c, o)
      PROVE  IInv' /\ cached' = cached
  <2>1. \A d \in Calls : HasLock(d) => HasLock(d)'
    BY <1>2 DEF Call, HasLock, TypeOK
  <2>2. pc'[c] = "queued" /\ \A d \in Calls \ {c} : pc'[d] = pc[d] /\ op'[d] = op[d]
    BY <1>2 DEF Call, TypeOK
  <2> QED
    BY <1>2, <2>1, <2>2 DEF Call, Refused, Valid, services
<1>3. ASSUME NEW c \in Calls, RefuseCall(c) PROVE IInv' /\ cached' = cached
  <2>1. IInv'
    BY <1>3, FinishInv DEF RefuseCall, Results
  <2> QED
    BY <1>3, <2>1 DEF RefuseCall, services
<1>4. ASSUME NEW c \in Calls, AdmitCall(c) PROVE IInv' /\ cached' = cached
  <2>1. OthersKeep(c) /\ pc'[c] = "admitted" /\ queue' = queue
    BY <1>4, GotoType DEF AdmitCall, TypeOK, Goto, locals
  <2>2. IInv'
    BY <1>4, <2>1, HolderInv DEF AdmitCall, locals
  <2> QED
    BY <1>4, <2>2 DEF AdmitCall, services
<1>5. CASE \E c \in Calls : CredentialStep(c) \/ QueryStep(c)
  BY <1>5, CredentialStepInv, QueryStepInv
<1>6. CASE DropIdle \/ (\E cred \in Storable : WizardSaves(cred)) \/ UNCHANGED vars
  BY <1>6 DEF DropIdle, WizardSaves, vars, locals, services, HasLock, Refused, Valid
<1>7. CASE Tick
  <2>1. ~Valid(cached) => ~Valid(cached)'
    BY <1>7, CallPathAssumption DEF Tick, Valid, TypeOK, Credential, services
  <2> QED
    BY <1>7, <2>1 DEF Tick, HasLock, Refused, locals, services
<1> QED
  BY <1>1, <1>2, <1>3, <1>4, <1>5, <1>6, <1>7 DEF Next, Serve

LEMMA InitInv == Init => IInv
BY DEF Init, IInv, LockHeld, Admitted, ResolvedIsCached, StaleWhileFetching

\* Who runs holds the lock of mcp_server.rs:153, was not refused, and fetches a
\* credential only because the cached one is not valid.
THEOREM Inductive == Spec => []IInv
BY InitInv, StepInv, TypeCorrect, PTL DEF Spec

\* Nobody replaces the cached credential under a call that uses it.
THEOREM ResolvedAlwaysCached == Spec => []ResolvedIsCached
<1>1. IInv => ResolvedIsCached
  BY DEF IInv
<1> QED
  BY <1>1, Inductive, PTL

\* Under read_only no EXEC reaches SQL Server, whatever the kind.
THEOREM ReadOnlyAlwaysSelects == Spec => []ReadOnlySendsSelect
<1>1. TypeOK /\ IInv => ReadOnlySendsSelect
  BY DEF IInv, Admitted, ReadOnlySendsSelect, Refused, IsWritableKind, Verb
<1> QED
  BY <1>1, TypeCorrect, Inductive, PTL

\* A cached credential is used until it is refused by validate_credentials, and
\* concurrent calls never fetch two.
THEOREM ValidAlwaysKept == Spec => ValidNeverReplaced
<1>1. TypeOK /\ IInv /\ [Next]_vars => [cached' # cached => ~Valid(cached)]_vars
  BY StepInv
<1> QED
  BY <1>1, TypeCorrect, Inductive, PTL DEF Spec, ValidNeverReplaced

-----------------------------------------------------------------------------
(* CallPath implements SerialCalls.                                         *)

Stage(point) == IF point = "queued" THEN "waiting"
                ELSE IF point \in Running THEN "running" ELSE point

LEMMA StageOf ==
  ASSUME TypeOK
  PROVE  SerialStage = [c \in Calls |-> Stage(pc[c])]
BY DEF SerialStage, Stage, TypeOK

LEMMA StageOfNext ==
  ASSUME TypeOK'
  PROVE  SerialStage' = [c \in Calls |-> Stage(pc'[c])]
BY DEF SerialStage, Stage, TypeOK

\* A step that moves one call moves its stage, and no other.
LEMMA StageMoves ==
  ASSUME TypeOK, TypeOK', NEW c \in Calls, NEW point \in Stages, pc' = [pc EXCEPT ![c] = point]
  PROVE  SerialStage' = [SerialStage EXCEPT ![c] = Stage(point)]
<1>1. \A d \in Calls : pc'[d] = IF d = c THEN point ELSE pc[d]
  BY DEF TypeOK
<1> QED
  BY <1>1, StageOf, StageOfNext

LEMMA SerialEnd ==
  ASSUME TypeOK, TypeOK', NEW c \in Calls, HasLock(c), pc[c] \in Running \cup {"queued"},
         NEW outcome, Finish(c, outcome)
  PROVE  Serial!End(c)
<1>1. SerialStage[c] \in {"waiting", "running"}
  BY StageOf DEF Stage
<1>2. SerialStage' = [SerialStage EXCEPT ![c] = "done"]
  BY StageMoves DEF Finish, Stage
<1> QED
  BY <1>1, <1>2 DEF Serial!End, Serial!Front, HasLock, Finish

\* A step of a running call that keeps the lock is no step of SerialCalls.
LEMMA SerialStutter ==
  ASSUME TypeOK, TypeOK', NEW c \in Calls, pc[c] \in Running,
         NEW stage \in Running, Goto(c, stage)
  PROVE  SerialStage' = SerialStage /\ queue' = queue
<1>1. SerialStage' = [SerialStage EXCEPT ![c] = "running"] /\ SerialStage[c] = "running"
  BY StageOf, StageMoves DEF Goto, Stage
<1>2. SerialStage' = SerialStage
  BY <1>1, StageOf
<1> QED
  BY <1>2 DEF Goto

LEMMA SerialResolve ==
  ASSUME TypeOK, TypeOK', NEW c \in Calls, HasLock(c), pc[c] \in Running,
         NEW cred, Resolve(c, cred)
  PROVE  Serial!End(c) \/ (SerialStage' = SerialStage /\ queue' = queue)
<1>1. CASE config.auth_method = "windows"
  BY <1>1, SerialEnd DEF Resolve
<1>2. CASE config.auth_method # "windows"
  BY <1>2, SerialStutter DEF Resolve
<1> QED
  BY <1>1, <1>2

LEMMA SerialStep ==
  ASSUME TypeOK, TypeOK', [Next]_vars
  PROVE  Serial!Next \/ (SerialStage' = SerialStage /\ queue' = queue)
<1> DEFINE Stutter == SerialStage' = SerialStage /\ queue' = queue
<1>1. ASSUME NEW c \in Calls, CallUnknown(c) PROVE Serial!Refuse(c)
  <2>1. SerialStage[c] = "idle" /\ SerialStage' = [SerialStage EXCEPT ![c] = "done"]
    BY <1>1, StageOf, StageMoves DEF CallUnknown, Stage
  <2> QED
    BY <1>1, <2>1 DEF Serial!Refuse, Serial!Move, CallUnknown
<1>2. ASSUME NEW c \in Calls, NEW o \in Operations, Call(c, o) PROVE Serial!Arrive(c)
  <2>1. SerialStage[c] = "idle" /\ SerialStage' = [SerialStage EXCEPT ![c] = "waiting"]
    BY <1>2, StageOf, StageMoves DEF Call, Stage
  <2> QED
    BY <1>2, <2>1 DEF Serial!Arrive, Serial!Move, Call
<1>3. ASSUME NEW c \in Calls, RefuseCall(c) PROVE Serial!End(c)
  BY <1>3, SerialEnd DEF RefuseCall
<1>4. ASSUME NEW c \in Calls, AdmitCall(c) PROVE Serial!Begin(c)
  <2>1. SerialStage[c] = "waiting" /\ SerialStage' = [SerialStage EXCEPT ![c] = "running"]
    BY <1>4, StageOf, StageMoves DEF AdmitCall, Goto, Stage
  <2> QED
    BY <1>4, <2>1 DEF Serial!Begin, Serial!Move, Serial!Front, AdmitCall, Goto, HasLock
<1>5. ASSUME NEW c \in Calls, Collect(c) PROVE Serial!Leave(c)
  <2>1. SerialStage[c] = "done" /\ SerialStage' = [SerialStage EXCEPT ![c] = "idle"]
    BY <1>5, StageOf, StageMoves DEF Collect, Stage
  <2> QED
    BY <1>5, <2>1 DEF Serial!Leave, Serial!Move, Collect
<1>6. ASSUME NEW c \in Calls, CredentialStep(c) PROVE Serial!End(c) \/ Stutter
  <2>1. CASE UseCached(c) \/ UseEnvLogin(c) \/ UseStored(c)
    BY <2>1, SerialResolve DEF UseCached, UseEnvLogin, NeedsEnv, UseStored, AtStored
  <2>2. CASE \E issued \in sent .. now : EnvGranted(c, issued) \/ RefreshGranted(c, issued)
    BY <2>2, SerialResolve DEF EnvGranted, RefreshGranted
  <2>3. CASE EnvExchange(c) \/ EnvFailed(c) \/ Refresh(c)
    BY <2>3, SerialStutter DEF EnvExchange, NeedsEnv, EnvFailed, Refresh, AtStored, SendExchange
  <2>4. CASE \/ NoStored(c) \/ RefreshFailed(c)
             \/ \E issued \in sent .. now : RefreshUnsaved(c, issued)
    BY <2>4, SerialEnd DEF NoStored, AtStored, RefreshFailed, RefreshUnsaved
  <2> QED
    BY <1>6, <2>1, <2>2, <2>3, <2>4 DEF CredentialStep
<1>7. ASSUME NEW c \in Calls, QueryStep(c) PROVE Serial!End(c) \/ Stutter
  <2>1. CASE GetPool(c) \/ TakeIdle(c) \/ Connect(c)
    BY <2>1, SerialStutter DEF GetPool, TakeIdle, Connect
  <2>2. CASE ConnectFails(c) \/ QueryBreaks(c) \/ \E outcome \in {"rows", "failed"} : QueryEnds(c, outcome)
    BY <2>2, SerialEnd DEF ConnectFails, QueryBreaks, QueryEnds
  <2> QED
    BY <1>7, <2>1, <2>2 DEF QueryStep
<1>8. ASSUME DropIdle \/ Tick \/ (\E cred \in Storable : WizardSaves(cred)) \/ UNCHANGED vars
      PROVE  Stutter
  <2>1. pc' = pc /\ queue' = queue
    BY <1>8 DEF DropIdle, Tick, WizardSaves, vars
  <2> QED
    BY <2>1, StageOf, StageOfNext
<1>9. ASSUME NEW c \in Calls,
             Serial!Refuse(c) \/ Serial!Arrive(c) \/ Serial!End(c) \/ Serial!Begin(c) \/ Serial!Leave(c)
      PROVE  Serial!Next
  BY <1>9 DEF Serial!Next
<1> HIDE DEF Stutter
<1>10. Serial!Next \/ Stutter
  BY <1>1, <1>2, <1>3, <1>4, <1>5, <1>6, <1>7, <1>8, <1>9 DEF Next, Serve
<1> QED
  BY <1>10 DEF Stutter

\* The call path serves its calls as SerialCalls promises: one at a time, first
\* come first served, and every exit passes the turn on.
THEOREM ServesSerially == Spec => SerialRefinement
<1>1. Init => Serial!Init
  BY DEF Init, Serial!Init, SerialStage
<1>2. TypeOK /\ TypeOK' /\ [Next]_vars => [Serial!Next]_<<SerialStage, queue>>
  BY SerialStep
<1> QED
  BY <1>1, <1>2, TypeCorrect, PTL DEF Spec, SerialRefinement, Serial!Spec
=============================================================================
