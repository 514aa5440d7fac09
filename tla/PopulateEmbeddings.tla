-------------------------- MODULE PopulateEmbeddings --------------------------
(***************************************************************************)
(* bin/populate_embeddings.rs: fills the semantic_endpoints table of the    *)
(* store files and leaves each compressed.  A run may end anywhere: a step  *)
(* fails, or the process is killed.  The next one starts from what is left. *)
(*                                                                          *)
(* A store is the set of the operations that have their embedding; all the  *)
(* operations of its endpoints table are Ops.                               *)
(***************************************************************************)
EXTENDS Sequences

CONSTANTS
  VersionStoreFiles,  \* VERSION_STORE_FILES
  Ops,                \* operations of the endpoints table
  Files,              \* the store files
  Absent,             \* no such file
  Torn                \* a file that has been truncated and not filled again

Stores == SUBSET Ops

IsStore(content) == content \notin {Absent, Torn}

ASSUME PopulateAssumption ==
  /\ VersionStoreFiles \in Seq(Files)
  /\ VersionStoreFiles # <<>>
  /\ Absent # Torn
  /\ \A s \in Stores : s \notin {Absent, Torn}

VARIABLES
  raw,      \* the .db of each file
  zst,      \* its .db.zst
  targets,  \* history: all targets of the run
  todo,     \* those it has not finished
  stage,    \* where the run is
  rest,     \* operations that populate_one has still to embed
  row,      \* the one it is at
  had_mismatch,  \* a target lacked embeddings when it was compressed
  outcome   \* history: how the last run ended

vars == <<raw, zst, targets, todo, stage, rest, row, had_mismatch, outcome>>

Stages == {"down", "ensure", "extracting", "opening", "populating", "inserting",
           "compressing", "removing"}

Elements(s) == {s[i] : i \in DOMAIN s}

Whole(file) == IsStore(raw[file]) \/ IsStore(zst[file])

\* The file of the run's present round.
f == Head(todo)

\* A committed store, one that a run has left behind, or nothing.
Init ==
  /\ raw \in [Files -> {Absent} \cup Stores]
  /\ zst \in [Files -> {Absent} \cup Stores]
  /\ targets = {}
  /\ todo = <<>>
  /\ stage = "down"
  /\ rest = {}
  /\ row \in Ops
  /\ had_mismatch = FALSE
  /\ outcome = "none"

Goto(from, to) == stage = from /\ stage' = to

run == <<targets, todo, had_mismatch, outcome>>

\* Fault: the first target is skipped along with the program's name.
StartAt(files) ==
  /\ Goto("down", "ensure")
  /\ targets' = Elements(files)
  /\ todo' = Tail(files)
  /\ had_mismatch' = FALSE
  /\ UNCHANGED <<raw, zst, rest, row, outcome>>

\* targets(): all files, or the one of the argument.
Start(files) ==
  /\ Goto("down", "ensure")
  /\ targets' = Elements(files)
  /\ todo' = files
  /\ had_mismatch' = FALSE
  /\ UNCHANGED <<raw, zst, rest, row, outcome>>

Ends(how) ==
  /\ stage' = "down"
  /\ outcome' = how
  /\ UNCHANGED <<raw, zst, targets, todo, rest, row, had_mismatch>>

\* An error of the program's own: `?` returns it, and main ends with it.
Fails == Ends("failed")

-----------------------------------------------------------------------------
(* ensure_raw_db.                                                           *)

\* What is there is the working copy, whatever it is.
KeepRaw ==
  /\ Goto("ensure", "opening")
  /\ raw[f] # Absent
  /\ UNCHANGED <<raw, zst, run, rest, row>>

\* fs::write of what was decompressed: the file is created, then filled.
CreateRaw ==
  /\ Goto("ensure", "extracting")
  /\ raw[f] = Absent
  /\ IsStore(zst[f])
  /\ raw' = [raw EXCEPT ![f] = Torn]
  /\ UNCHANGED <<zst, run, rest, row>>

FillRaw ==
  /\ Goto("extracting", "opening")
  /\ raw' = [raw EXCEPT ![f] = zst[f]]
  /\ UNCHANGED <<zst, run, rest, row>>

NothingToExtract ==
  /\ stage = "ensure"
  /\ raw[f] = Absent
  /\ ~IsStore(zst[f])
  /\ Fails

-----------------------------------------------------------------------------
(* populate_one.  Each statement is a transaction of its own.               *)

Open ==
  /\ Goto("opening", "populating")
  /\ IsStore(raw[f])
  /\ rest' = Ops
  /\ UNCHANGED <<raw, zst, run, row>>

\* SQLite refuses a file that is shorter than its header says.
Malformed ==
  /\ stage = "opening"
  /\ ~IsStore(raw[f])
  /\ Fails

\* Fault: INSERT alone.
NoDelete(op) ==
  /\ Goto("populating", "inserting")
  /\ op \in rest
  /\ row' = op
  /\ UNCHANGED <<raw, zst, run, rest>>

DeleteRow(op) ==
  /\ Goto("populating", "inserting")
  /\ op \in rest
  /\ row' = op
  /\ raw' = [raw EXCEPT ![f] = @ \ {op}]
  /\ UNCHANGED <<zst, run, rest>>

\* vec0 refuses a second row with the key, and the run ends with that error.
InsertRow ==
  /\ stage = "inserting"
  /\ IF row \in raw[f] THEN Fails
     ELSE /\ stage' = "populating"
          /\ raw' = [raw EXCEPT ![f] = @ \cup {row}]
          /\ rest' = rest \ {row}
          /\ UNCHANGED <<zst, run, row>>

-----------------------------------------------------------------------------
(* missing_operation_ids and recompress_and_remove_raw.                      *)

\* Endpoints that the working copy has no embedding for.
Missing == Ops \ raw[f]

\* They are noted, and the file is compressed all the same.
Checked == had_mismatch' = (had_mismatch \/ Missing # {})

\* Fault: the raw file is removed as soon as it has been read.
RemoveFirst ==
  /\ Goto("populating", "compressing")
  /\ rest = {}
  /\ Checked
  /\ zst' = [zst EXCEPT ![f] = Torn]
  /\ raw' = [raw EXCEPT ![f] = Absent]
  /\ UNCHANGED <<targets, todo, outcome, rest, row>>

\* Fault: a compressed store that is there already is left as it is.
KeepZst ==
  /\ stage = "populating"
  /\ rest = {}
  /\ Checked
  /\ IF IsStore(zst[f]) THEN stage' = "removing" /\ UNCHANGED zst
     ELSE stage' = "compressing" /\ zst' = [zst EXCEPT ![f] = Torn]
  /\ UNCHANGED <<raw, targets, todo, outcome, rest, row>>

CreateZst ==
  /\ Goto("populating", "compressing")
  /\ rest = {}
  /\ Checked
  /\ zst' = [zst EXCEPT ![f] = Torn]
  /\ UNCHANGED <<raw, targets, todo, outcome, rest, row>>

FillZst ==
  /\ Goto("compressing", "removing")
  /\ zst' = [zst EXCEPT ![f] = raw[f]]
  /\ UNCHANGED <<raw, run, rest, row>>

\* The next target, or the end, which is an error if any lacked embeddings.
RemoveRaw ==
  /\ stage = "removing"
  /\ raw' = [raw EXCEPT ![f] = Absent]
  /\ todo' = Tail(todo)
  /\ IF todo' = <<>> THEN stage' = "down" /\ outcome' = IF had_mismatch THEN "failed" ELSE "ok"
     ELSE stage' = "ensure" /\ UNCHANGED outcome
  /\ UNCHANGED <<zst, targets, rest, row, had_mismatch>>

\* The embedding model or the disk fails the run at any step, or it is killed.
Dies == stage # "down" /\ Ends("stopped")

Step ==
  \/ KeepRaw \/ CreateRaw \/ FillRaw \/ NothingToExtract
  \/ Open \/ Malformed \/ InsertRow
  \/ \E op \in Ops : DeleteRow(op)
  \/ CreateZst \/ FillZst \/ RemoveRaw

Next ==
  \/ Start(VersionStoreFiles)
  \/ \E file \in Files : Start(<<file>>)
  \/ Step
  \/ Dies

Spec == Init /\ [][Next]_vars

-----------------------------------------------------------------------------
(* Properties.                                                              *)

\* Every variable stays in its domain; a run has a target until it ends.
TypeOK ==
  /\ raw \in [Files -> {Absent, Torn} \cup Stores]
  /\ zst \in [Files -> {Absent, Torn} \cup Stores]
  /\ targets \subseteq Files
  /\ todo \in Seq(Files)
  /\ stage \in Stages
  /\ rest \subseteq Ops
  /\ row \in Ops
  /\ had_mismatch \in BOOLEAN
  /\ outcome \in {"none", "ok", "failed", "stopped"}
  /\ stage # "down" => todo # <<>>

\* Wherever the runs were killed, a store that was there is there, raw or
\* compressed: the .zst is truncated while the raw file is whole, and the raw
\* file is torn only while the .zst is whole.
StoreSurvives == [][\A file \in Files : Whole(file) => Whole(file)']_vars

Populated(file) == raw[file] = Absent /\ zst[file] = Ops

\* A run that ends well leaves every target with the embeddings of all its
\* operations and no raw file, whatever the runs before it left behind.
OkMeansPopulated ==
  outcome = "ok" /\ stage = "down" =>
    \A file \in targets : Populated(file)

\* The working copy is a store, or there is none and the .zst can be extracted.
Usable(file) == IsStore(raw[file]) \/ (raw[file] = Absent /\ IsStore(zst[file]))

\* A run that nothing outside it stops ends well, unless a target has no store
\* that the run takes: a store of which earlier runs have embedded any part is
\* as good as a fresh one, since no insert meets a row of theirs and no target
\* lacks a row in the end.  A raw file that was torn while it was extracted is no
\* such store (ensure_raw_db prefers it to the .zst), nor is a torn .zst alone.
FailsOnlyUnusable ==
  outcome = "failed" /\ stage = "down" =>
    \E file \in targets : ~Usable(file)
=============================================================================
