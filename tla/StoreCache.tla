----------------------------- MODULE StoreCache -----------------------------
(***************************************************************************)
(* data/store.rs: server processes of different builds, and the concurrent  *)
(* tool handlers in each, extract the embedded catalog to one fixed path in *)
(* the temporary directory, open it, copy it into memory and keep the copy  *)
(* for the life of the process (cached_store_connection).                   *)
(*                                                                          *)
(* One api_version; a store is the build whose bytes it holds.  A connection *)
(* to a copy in memory is the handler that made it and what it copied.       *)
(***************************************************************************)
EXTENDS Naturals, FiniteSets

CONSTANTS
  Procs,     \* processes that share the temporary directory
  Workers,   \* concurrent tool handlers of a process
  Builds,    \* embedded bytes a binary may have
  None,      \* no file, no connection, or a process that does not run
  Torn       \* a file that is not written to its end

Content == Builds \cup {None, Torn}
Conn == [by : Workers, content : Content]

ASSUME StoreAssumption ==
  /\ IsFiniteSet(Workers)
  /\ None # Torn /\ {None, Torn} \cap Builds = {}
  /\ None \notin Conn

VARIABLES
  build,   \* the build each process runs, or None
  path,    \* what is at the fixed path
  tmp,     \* what is at the temporary file of each handler
  pc,      \* where each handler is
  conn,    \* its local connection: to the file, then to the cached copy
  cache,   \* CACHE of each process
  leaks,   \* boxes leaked by each process
  mixed    \* another build ran at some time in the life of the process

vars == <<build, path, tmp, pc, conn, cache, leaks, mixed>>

Stages == {"idle", "writing", "written", "resolved", "missed", "copying", "serving"}

Init ==
  /\ build = [p \in Procs |-> None]
  /\ path \in Builds \cup {None}
  /\ tmp = [p \in Procs |-> [w \in Workers |-> None]]
  /\ pc = [p \in Procs |-> [w \in Workers |-> "idle"]]
  /\ conn = [p \in Procs |-> [w \in Workers |-> None]]
  /\ cache = [p \in Procs |-> None]
  /\ leaks = [p \in Procs |-> 0]
  /\ mixed = [p \in Procs |-> FALSE]

-----------------------------------------------------------------------------
(* resolve_store_path.                                                      *)

Goto(p, w, from, to) ==
  /\ build[p] # None
  /\ pc[p][w] = from
  /\ pc' = [pc EXCEPT ![p][w] = to]
  /\ UNCHANGED <<build, mixed>>

\* Fault: without UNIQUE the handlers of a process share a temporary file.
TmpShared(w) == CHOOSE x \in Workers : TRUE

\* The process id and UNIQUE name the file of a handler.
TmpOwner(w) == w

\* fs::write creates or truncates the file before it has written it.
Create(p, w) ==
  /\ Goto(p, w, "idle", "writing")
  /\ tmp' = [tmp EXCEPT ![p][TmpOwner(w)] = Torn]
  /\ UNCHANGED <<path, conn, cache, leaks>>

Write(p, w) ==
  /\ Goto(p, w, "writing", "written")
  /\ tmp' = [tmp EXCEPT ![p][TmpOwner(w)] = build[p]]
  /\ UNCHANGED <<path, conn, cache, leaks>>

\* Fault: the store is extracted only where there is none.
RenameOnce(p, w) ==
  /\ Goto(p, w, "written", "resolved")
  /\ tmp[p][TmpOwner(w)] # None
  /\ path' = IF path = None THEN tmp[p][TmpOwner(w)] ELSE path
  /\ tmp' = [tmp EXCEPT ![p][TmpOwner(w)] = None]
  /\ UNCHANGED <<conn, cache, leaks>>

Rename(p, w) ==
  /\ Goto(p, w, "written", "resolved")
  /\ tmp[p][TmpOwner(w)] # None
  /\ path' = tmp[p][TmpOwner(w)]
  /\ tmp' = [tmp EXCEPT ![p][TmpOwner(w)] = None]
  /\ UNCHANGED <<conn, cache, leaks>>

\* The write or the rename fails, and the call with it; the file stays behind.
ExtractFails(p, w) ==
  /\ \E from \in {"writing", "written"} : Goto(p, w, from, "idle")
  /\ UNCHANGED <<path, tmp, conn, cache, leaks>>

-----------------------------------------------------------------------------
(* cached_in_memory_connection: CACHE is locked twice, not in between.      *)

Hit(p, w) ==
  /\ Goto(p, w, "resolved", "serving")
  /\ cache[p] # None
  /\ conn' = [conn EXCEPT ![p][w] = cache[p]]
  /\ UNCHANGED <<path, tmp, cache, leaks>>

\* Fault: a handler copies the store whatever CACHE holds.
MissAlways(p, w) ==
  /\ Goto(p, w, "resolved", "missed")
  /\ UNCHANGED <<path, tmp, conn, cache, leaks>>

Miss(p, w) ==
  /\ Goto(p, w, "resolved", "missed")
  /\ cache[p] = None
  /\ UNCHANGED <<path, tmp, conn, cache, leaks>>

\* The open file keeps its content when another one is renamed over it.
Open(p, w) ==
  /\ Goto(p, w, "missed", "copying")
  /\ conn' = [conn EXCEPT ![p][w] = [by |-> w, content |-> path]]
  /\ UNCHANGED <<path, tmp, cache, leaks>>

\* Fault: insert() instead of entry().or_insert().
Insert(old, new) == new

\* entry().or_insert(): the first copy stays, a later one is leaked for nothing.
OrInsert(old, new) == IF old = None THEN new ELSE old

Publish(p, w) ==
  /\ Goto(p, w, "copying", "serving")
  /\ leaks' = [leaks EXCEPT ![p] = @ + 1]
  /\ cache' = [cache EXCEPT ![p] = OrInsert(@, conn[p][w])]
  /\ conn' = [conn EXCEPT ![p][w] = cache'[p]]
  /\ UNCHANGED <<path, tmp>>

\* Fault: a handler that gives up keeps its connection.
LeaveOpen(p, w) ==
  /\ \E from \in {"missed", "copying", "serving"} : Goto(p, w, from, "idle")
  /\ UNCHANGED <<path, tmp, conn, cache, leaks>>

\* Opening or copying fails, or the handler is done with the connection.
Leave(p, w) ==
  /\ \E from \in {"missed", "copying", "serving"} : Goto(p, w, from, "idle")
  /\ conn' = [conn EXCEPT ![p][w] = None]
  /\ UNCHANGED <<path, tmp, cache, leaks>>

-----------------------------------------------------------------------------
(* Processes.                                                               *)

Others(p, b) == {q \in Procs \ {p} : build[q] \notin {None, b}}

Start(p, b) ==
  /\ build[p] = None
  /\ build' = [build EXCEPT ![p] = b]
  /\ mixed' = [q \in Procs |-> IF q = p THEN Others(p, b) # {}
                               ELSE mixed[q] \/ q \in Others(p, b)]
  /\ UNCHANGED <<path, tmp, pc, conn, cache, leaks>>

\* A stop or a crash, at any point: only the files survive.
Stop(p) ==
  /\ build[p] # None
  /\ build' = [build EXCEPT ![p] = None]
  /\ pc' = [pc EXCEPT ![p] = [w \in Workers |-> "idle"]]
  /\ conn' = [conn EXCEPT ![p] = [w \in Workers |-> None]]
  /\ cache' = [cache EXCEPT ![p] = None]
  /\ leaks' = [leaks EXCEPT ![p] = 0]
  /\ mixed' = [mixed EXCEPT ![p] = FALSE]
  /\ UNCHANGED <<path, tmp>>

Handle(p, w) ==
  \/ Create(p, w) \/ Write(p, w) \/ Rename(p, w) \/ ExtractFails(p, w)
  \/ Hit(p, w) \/ Miss(p, w) \/ Open(p, w) \/ Publish(p, w) \/ Leave(p, w)

Next ==
  \E p \in Procs :
    \/ \E w \in Workers : Handle(p, w)
    \/ Stop(p)
    \/ \E b \in Builds : Start(p, b)

Spec == Init /\ [][Next]_vars

-----------------------------------------------------------------------------
(* Properties.                                                              *)

\* Every variable stays in its domain, and a handler has a connection exactly
\* from the open to its end, in a process that runs.
TypeOK ==
  /\ build \in [Procs -> Builds \cup {None}]
  /\ path \in Content
  /\ tmp \in [Procs -> [Workers -> Content]]
  /\ pc \in [Procs -> [Workers -> Stages]]
  /\ conn \in [Procs -> [Workers -> Conn \cup {None}]]
  /\ cache \in [Procs -> Conn \cup {None}]
  /\ leaks \in [Procs -> Nat]
  /\ mixed \in [Procs -> BOOLEAN]
  /\ \A p \in Procs :
       /\ \A w \in Workers : conn[p][w] # None <=> pc[p][w] \in {"copying", "serving"}
       /\ build[p] = None => cache[p] = None /\ \A w \in Workers : pc[p][w] = "idle"

\* store.rs:76-84: no handler ever opens a missing or a half-written store,
\* whichever handlers, processes and crashes share the temporary directory.
OpensWholeStore ==
  \A p \in Procs, w \in Workers : conn[p][w] # None => conn[p][w].content \in Builds

\* CACHE hands every handler of a process the same connection, even when
\* several miss it at once, open the file each for itself and race to insert.
Held == [p \in Procs |-> [w \in Workers |->
           IF pc[p][w] = "serving" THEN conn[p][w] ELSE None]]

Once == INSTANCE OnceCells WITH cell <- cache, held <- Held

OnceRefinement == Once!Spec

\* The copies that lose that race are leaked: there are never more of them than
\* handlers running at once, however long the process lives.
LeaksBounded == \A p \in Procs : leaks[p] <= Cardinality(Workers)

\* store.rs:52, without a second build at work: what an earlier install or a
\* crash left at the path is never served, for every call extracts anew.
NeverStale ==
  \A p \in Procs : cache[p] # None /\ ~mixed[p] => cache[p].content = build[p]

\* Why they hold.  Only whole stores are renamed to the path, which is never
\* empty again.
WholeStore ==
  /\ path # Torn
  /\ \A p \in Procs, w \in Workers :
       /\ pc[p][w] = "written" => tmp[p][w] = build[p]
       /\ pc[p][w] \in {"resolved", "missed"} => path # None
  /\ \A p \in Procs : cache[p] # None => cache[p].content \in Builds

\* Every other process runs the same build, so that whoever renames last leaves
\* the same bytes at the path.
SameBuild ==
  \A p \in Procs : ~mixed[p] =>
    /\ \A q \in Procs \ {p} : None \notin {build[p], build[q]} => build[q] = build[p]
    /\ \A w \in Workers :
         /\ pc[p][w] \in {"resolved", "missed"} => path = build[p]
         /\ conn[p][w] # None => conn[p][w].content = build[p]

OneHandle ==
  \A p \in Procs, w \in Workers : pc[p][w] = "serving" => cache[p] # None /\ conn[p][w] = cache[p]

\* Whoever has missed CACHE may leak one copy, and nobody misses it once it is set.
InFlight(p) == {w \in Workers : pc[p][w] \in {"missed", "copying"}}

LeaksCounted ==
  \A p \in Procs : /\ leaks[p] + Cardinality(InFlight(p)) <= Cardinality(Workers)
                   /\ cache[p] = None => leaks[p] = 0

\* store.rs:50-54 as it is written: a rebuilt binary "can never be shadowed by
\* a stale leftover from a previous install".  A server of the previous install
\* that still runs extracts its own bytes on every call, also between the
\* rename and the open of the new one.
ServesOwnBuild ==
  \A p \in Procs : cache[p] # None => cache[p].content = build[p]
=============================================================================
