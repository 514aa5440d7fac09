--------------------------- MODULE CredentialStore ---------------------------
(***************************************************************************)
(* core/credential_storage.rs: the "active-credentials" entry, which server *)
(* processes load, refresh and save while a setup wizard saves another one. *)
(* It is in the OS keychain, or while that does not answer in one encrypted *)
(* file that all processes read and rewrite without a lock.                 *)
(*                                                                          *)
(* An entry tells which save of the wizard it stems from, and whether a     *)
(* refresh has added a token, which makes it longer.                        *)
(***************************************************************************)
EXTENDS Naturals

CONSTANTS
  Procs,    \* processes that share the keychain and the home directory
  MaxGen,   \* bound of the wizard's saves
  None,     \* no entry
  Torn      \* text that is no JSON object

Entry == [gen : 1 .. MaxGen, token : BOOLEAN]

ASSUME StorageAssumption ==
  /\ MaxGen \in Nat
  /\ None # Torn
  /\ {None, Torn} \cap Entry = {}

VARIABLES
  up,         \* the keychain answers
  keychain,   \* its entry, or None
  file,       \* credentials.enc; a missing file reads like an empty one
  pc,         \* where each process is
  got,        \* the entry it has loaded or will save
  entered,    \* saves that the wizard has begun
  newest,     \* history: the wizard's save that ended last
  left,       \* history: what the last write of each of the two places has left
  via,        \* history: where the last write of all went
  calm,       \* history: nothing has changed since the process began to load
  steady,     \* history: the keychain has always been up, or always down
  raced,      \* history: a refresh was in flight when the wizard last saved
  disturbed   \* history: writers met on the file, or one gave up on it

vars == <<up, keychain, file, pc, got, entered, newest, left, via, calm, steady, raced, disturbed>>
storage == <<up, keychain, file>>
history == <<newest, left, via, steady, raced, disturbed>>

Stages == {"idle", "loading", "loaded", "saving", "deleting", "opening", "writing"}

\* The length of the file's text: nothing, "{}", the wizard's entry, a token's.
Size(e) == IF e = None THEN 1 ELSE IF e.token THEN 3 ELSE 2

NoFile == [size |-> 0, content |-> None]

Init ==
  /\ up \in BOOLEAN
  /\ keychain = None
  /\ file = NoFile
  /\ pc = [p \in Procs |-> "idle"]
  /\ got = [p \in Procs |-> None]
  /\ entered = 0
  /\ newest = 0
  /\ left = [keychain |-> None, file |-> None]
  /\ via = "file"
  /\ calm = [p \in Procs |-> FALSE]
  /\ steady = TRUE
  /\ raced = FALSE
  /\ disturbed = FALSE

Goto(p, from, to) == pc[p] = from /\ pc' = [pc EXCEPT ![p] = to]

\* Keychain, file or availability changes: no load is undisturbed any more.
Changed == calm' = [p \in Procs |-> FALSE]

Writers == {p \in Procs : pc[p] = "writing"}

-----------------------------------------------------------------------------
(* load_credential, and what the AuthManager does with the entry.           *)

\* read_store: what does not parse is an empty map.
ReadStore == IF file.content = Torn THEN None ELSE file.content

\* Fault: a keychain without the entry ends the search.
LoadKeychainOnly(p) ==
  /\ IF up THEN Goto(p, "idle", "loaded") ELSE Goto(p, "idle", "loading")
  /\ got' = [got EXCEPT ![p] = IF up THEN keychain ELSE None]
  /\ calm' = [calm EXCEPT ![p] = TRUE]
  /\ UNCHANGED <<storage, entered, history>>

\* NoEntry and a keychain that does not answer both lead to the file.
LoadKeychain(p) ==
  /\ IF up /\ keychain # None THEN Goto(p, "idle", "loaded") ELSE Goto(p, "idle", "loading")
  /\ got' = [got EXCEPT ![p] = IF up THEN keychain ELSE None]
  /\ calm' = [calm EXCEPT ![p] = TRUE]
  /\ UNCHANGED <<storage, entered, history>>

LoadFile(p) ==
  /\ Goto(p, "loading", "loaded")
  /\ got' = [got EXCEPT ![p] = ReadStore]
  /\ UNCHANGED <<storage, entered, calm, history>>

\* Fault: a process that found nothing saves what the exchange returns.
RefreshNothing(p) ==
  /\ Goto(p, "loaded", "saving")
  /\ got' = [got EXCEPT ![p] = IF @ = None THEN None ELSE [@ EXCEPT !.token = TRUE]]
  /\ UNCHANGED <<storage, entered, calm, history>>

\* The exchange has ended well: the entry with its new token is to be saved.
Refresh(p) ==
  /\ got[p] # None
  /\ Goto(p, "loaded", "saving")
  /\ got' = [got EXCEPT ![p].token = TRUE]
  /\ UNCHANGED <<storage, entered, calm, history>>

-----------------------------------------------------------------------------
(* save_credential and delete_credential.                                   *)

\* The wizard has asked for other credentials.
Enter(p) ==
  /\ entered < MaxGen
  /\ Goto(p, "idle", "saving")
  /\ entered' = entered + 1
  /\ got' = [got EXCEPT ![p] = [gen |-> entered', token |-> FALSE]]
  /\ UNCHANGED <<storage, calm, history>>

\* An entry the process has loaded and may yet save, with a token.
InFlight(q) ==
  /\ got[q] # None
  /\ \/ pc[q] = "loaded"
     \/ pc[q] \in {"saving", "opening", "writing"} /\ got[q].token

\* A write that leaves e ends.
Ends(p, e, where) ==
  /\ left' = [left EXCEPT ![where] = e]
  /\ via' = where
  /\ IF e # None /\ ~e.token
     THEN newest' = e.gen /\ raced' = \E q \in Procs \ {p} : InFlight(q)
     ELSE UNCHANGED <<newest, raced>>
  /\ got' = [got EXCEPT ![p] = None]
  /\ Changed
  /\ UNCHANGED <<entered, steady>>

SaveKeychain(p) ==
  /\ up
  /\ Goto(p, "saving", "idle")
  /\ keychain' = got[p]
  /\ Ends(p, got[p], "keychain")
  /\ UNCHANGED <<up, file, disturbed>>

\* save_to_file has read the store and inserted the entry.
SaveToFile(p) ==
  /\ ~up
  /\ Goto(p, "saving", "opening")
  /\ UNCHANGED <<storage, got, entered, calm, history>>

DeleteKeychain(p) ==
  /\ up
  /\ Goto(p, "idle", "idle")
  /\ keychain' = None
  /\ Ends(p, None, "keychain")
  /\ UNCHANGED <<up, file, disturbed>>

DeleteFromFile(p) ==
  /\ ~up
  /\ Goto(p, "idle", "deleting")
  /\ UNCHANGED <<storage, got, entered, calm, history>>

DeleteFound(p) ==
  /\ ReadStore # None
  /\ Goto(p, "deleting", "opening")
  /\ UNCHANGED <<storage, got, entered, calm, history>>

DeleteNothing(p) ==
  /\ ReadStore = None
  /\ Goto(p, "deleting", "idle")
  /\ Ends(p, None, "file")
  /\ UNCHANGED <<storage, disturbed>>

\* Fault: the file is opened for writing and not truncated.
OpenOnly(p) ==
  /\ Goto(p, "opening", "writing")
  /\ disturbed' = (Writers # {})
  /\ Changed
  /\ UNCHANGED <<up, keychain, file, got, entered, newest, left, via, steady, raced>>

\* write_store's fs::write truncates the file first.
Truncate(p) ==
  /\ Goto(p, "opening", "writing")
  /\ file' = NoFile
  /\ disturbed' = (Writers # {})
  /\ Changed
  /\ UNCHANGED <<up, keychain, got, entered, newest, left, via, steady, raced>>

\* It writes from the start: what is longer there sticks out.
Overlay(e) ==
  IF Size(e) >= file.size THEN [size |-> Size(e), content |-> e]
  ELSE [file EXCEPT !.content = Torn]

Write(p) ==
  /\ Goto(p, "writing", "idle")
  /\ file' = Overlay(got[p])
  /\ Ends(p, got[p], "file")
  /\ UNCHANGED <<up, keychain, disturbed>>

-----------------------------------------------------------------------------
\* The entry is used as it is, a step fails, or the process dies before it.
Abandon(p) ==
  /\ pc[p] # "idle"
  /\ pc' = [pc EXCEPT ![p] = "idle"]
  /\ got' = [got EXCEPT ![p] = None]
  /\ disturbed' = (disturbed \/ pc[p] = "writing")
  /\ UNCHANGED <<storage, entered, newest, left, via, calm, steady, raced>>

\* The keychain's daemon starts or stops.
Flip ==
  /\ up' = ~up
  /\ steady' = FALSE
  /\ Changed
  /\ UNCHANGED <<keychain, file, pc, got, entered, newest, left, via, raced, disturbed>>

Next ==
  \/ \E p \in Procs :
       \/ LoadKeychain(p) \/ LoadFile(p) \/ Refresh(p)
       \/ Enter(p) \/ SaveKeychain(p) \/ SaveToFile(p)
       \/ DeleteKeychain(p) \/ DeleteFromFile(p) \/ DeleteFound(p) \/ DeleteNothing(p)
       \/ Truncate(p) \/ Write(p) \/ Abandon(p)
  \/ Flip

Spec == Init /\ [][Next]_vars

-----------------------------------------------------------------------------
(* Properties.                                                              *)

\* Every variable stays in its domain, a process saves only an entry it has,
\* and a file that parses is as long as its entry.
TypeOK ==
  /\ up \in BOOLEAN
  /\ keychain \in Entry \cup {None}
  /\ file \in [size : 0 .. 3, content : Entry \cup {None, Torn}]
  /\ pc \in [Procs -> Stages]
  /\ got \in [Procs -> Entry \cup {None}]
  /\ entered \in 0 .. MaxGen
  /\ newest \in 0 .. entered
  /\ left \in [{"keychain", "file"} -> Entry \cup {None}]
  /\ via \in {"keychain", "file"}
  /\ calm \in [Procs -> BOOLEAN]
  /\ {steady, raced, disturbed} \subseteq BOOLEAN
  /\ \A p \in Procs : /\ pc[p] = "saving" => got[p] # None
                      /\ pc[p] \in {"idle", "loading", "deleting"} => got[p] = None
  /\ file.content \in Entry => file.size = Size(file.content)
  /\ file.content = None => file.size <= 1

Settled == ~disturbed /\ Writers = {}

\* The entry of the last write of all.
last == left[via]

\* What a load that nothing overlaps returns: what the last write of the keychain
\* has left, where the keychain answers and has an entry, and else what the last
\* write of the file has left, which an empty keychain does not hide
\* (credential_storage.rs:150), whatever became of the file in between.  That is
\* the last write of all while the keychain has always answered, or never: one
\* that comes back hides a newer entry of the file, one that goes hides its own.
LoadsLast ==
  \A p \in Procs :
    pc[p] = "loaded" /\ calm[p] /\ Settled =>
      /\ got[p] = IF up /\ left.keychain # None THEN left.keychain ELSE left.file
      /\ steady => got[p] = last

\* The entry that is found.
Found == IF up /\ keychain # None THEN keychain ELSE ReadStore

\* A refresh saves what it had loaded before the exchange, over whatever has
\* been saved since.  With a keychain that has always answered, or never, that is
\* the only way to lose what the wizard saved, but for writers that meet on the
\* file and for a deletion: where no refresh was in flight as the wizard saved,
\* the servers find its credentials, with their token or not.
WizardKept ==
  steady /\ ~raced =>
    /\ Found # None => Found.gen = newest
    /\ Settled /\ last # None => Found # None

\* Nobody loads what the last write has deleted, wherever it was: that the
\* keychain has no entry does not rule out the file (credential_storage.rs:150),
\* yet delete_credential then leaves the file alone.
DeletedIsGone ==
  \A p \in Procs : pc[p] = "loaded" /\ calm[p] /\ Settled /\ last = None => got[p] = None
=============================================================================
