------------------------------ MODULE OnceCells ------------------------------
(***************************************************************************)
(* What data/store.rs promises the tool handlers of a process: there is one *)
(* in-memory store per process, whoever opens it, and every handler of that *)
(* process works on it until the process ends.  StoreCache implements this.  *)
(***************************************************************************)
CONSTANTS Procs, Workers, None

VARIABLES
  cell,   \* the one store of each process, or None
  held    \* the store each handler works on, or None

Init ==
  /\ cell = [p \in Procs |-> None]
  /\ held = [p \in Procs |-> [w \in Workers |-> None]]

\* A handler gets the store of its process; the first to ask decides which.
Obtain(p, w) ==
  /\ held[p][w] = None
  /\ cell'[p] # None
  /\ cell[p] # None => cell'[p] = cell[p]
  /\ cell' = [cell EXCEPT ![p] = cell'[p]]
  /\ held' = [held EXCEPT ![p][w] = cell'[p]]

Release(p, w) ==
  /\ held[p][w] # None
  /\ held' = [held EXCEPT ![p][w] = None]
  /\ UNCHANGED cell

Restart(p) ==
  /\ cell' = [cell EXCEPT ![p] = None]
  /\ held' = [held EXCEPT ![p] = [w \in Workers |-> None]]

Next == \E p \in Procs : Restart(p) \/ \E w \in Workers : Obtain(p, w) \/ Release(p, w)

Spec == Init /\ [][Next]_<<cell, held>>
=============================================================================
