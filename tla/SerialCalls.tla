----------------------------- MODULE SerialCalls -----------------------------
(***************************************************************************)
(* What the `call` tool of McpifyServer promises its callers, whatever the  *)
(* number of sessions: calls are served one at a time, in the order in      *)
(* which they asked for the shared AuthManager, and every exit gives the    *)
(* turn to the next caller.  CallPath implements this specification.        *)
(***************************************************************************)
EXTENDS Naturals, Sequences

CONSTANT Calls

VARIABLES stage, line

Stages == {"idle", "waiting", "running", "done"}

Init ==
  /\ stage = [c \in Calls |-> "idle"]
  /\ line = << >>

Move(c, from, to) ==
  /\ stage[c] = from
  /\ stage' = [stage EXCEPT ![c] = to]

Front(c) == line # << >> /\ Head(line) = c

\* A call asks for its turn.
Arrive(c) == Move(c, "idle", "waiting") /\ line' = Append(line, c)

\* A call of an operation that does not exist ends without a turn.
Refuse(c) == Move(c, "idle", "done") /\ UNCHANGED line

\* The first in line, and only the first, starts.
Begin(c) == Front(c) /\ Move(c, "waiting", "running") /\ UNCHANGED line

\* The call whose turn it is ends, before or after it has started.
End(c) ==
  /\ Front(c)
  /\ stage[c] \in {"waiting", "running"}
  /\ stage' = [stage EXCEPT ![c] = "done"]
  /\ line' = Tail(line)

Leave(c) == Move(c, "done", "idle") /\ UNCHANGED line

Next == \E c \in Calls : Arrive(c) \/ Refuse(c) \/ Begin(c) \/ End(c) \/ Leave(c)

Spec == Init /\ [][Next]_<<stage, line>>
=============================================================================
