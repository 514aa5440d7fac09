------------------------ MODULE CredentialStore_proofs ------------------------
(* Theorems about CredentialStore, for any processes and any number of saves. *)
EXTENDS CredentialStore, TLAPS

USE DEF Stages

-----------------------------------------------------------------------------
(* The inductive invariant.                                                 *)

\* The entries that the wizard has entered so far, with a token or not.
Known == [gen : 1 .. entered, token : BOOLEAN]

KnownOnly ==
  /\ keychain \in Known \cup {None}
  /\ file.content \in Known \cup {None, Torn}
  /\ left.keychain \in Known \cup {None} /\ left.file \in Known \cup {None}
  /\ got \in [Procs -> Known \cup {None}]

\* One writer on the file that nothing disturbs finds it truncated.
WriterAlone ==
  ~disturbed /\ Writers # {} => file = NoFile /\ \A p, q \in Writers : p = q

\* What the last write of each place has left is still there.
LastIsThere ==
  /\ keychain = left.keychain
  /\ Settled => ReadStore = left.file

\* A load that nothing overlaps has what a load would still find.
CalmLoad ==
  \A p \in Procs : calm[p] =>
    /\ pc[p] = "loaded" => got[p] = Found
    /\ pc[p] = "loading" => ~up \/ keychain = None

\* A keychain that was always up is all there is, one that was always down is empty.
SteadyPlace ==
  steady =>
    /\ up => /\ file = NoFile /\ left.file = None
             /\ left.keychain # None => via = "keychain"
             /\ \A p \in Procs : pc[p] \in {"idle", "loading", "loaded", "saving"}
    /\ ~up => keychain = None /\ via = "file"

\* With no refresh under way as the wizard saved, all there is stems from that save.
NewestOnly ==
  steady /\ ~raced =>
    /\ Found # None => Found.gen = newest
    /\ \A q \in Procs : InFlight(q) => got[q].gen = newest

IInv ==
  /\ TypeOK /\ KnownOnly
  /\ WriterAlone /\ LastIsThere /\ CalmLoad /\ SteadyPlace /\ NewestOnly

LEMMA KnownEntries ==
  ASSUME TypeOK
  PROVE  /\ Known \subseteq Entry
         /\ None \notin Known /\ Torn \notin Known /\ None # Torn
  BY StorageAssumption DEF TypeOK, Known, Entry

-----------------------------------------------------------------------------
(* The steps.                                                               *)

\* The load asks the keychain.
LEMMA LoadKeychainStep ==
  ASSUME IInv, NEW p \in Procs, LoadKeychain(p)
  PROVE  IInv'
  <1>1. TypeOK'
    BY DEF IInv, TypeOK, LoadKeychain, Goto, storage, history
  <1>2. KnownOnly'
    BY DEF IInv, KnownOnly, Known, LoadKeychain, storage, history
  <1>3. WriterAlone'
    BY DEF IInv, TypeOK, WriterAlone, Writers, LoadKeychain, Goto, storage, history
  <1>4. LastIsThere'
    BY DEF IInv, TypeOK, LastIsThere, Settled, Writers, ReadStore, LoadKeychain, Goto, storage,
       history
  <1>5. CalmLoad'
    BY DEF IInv, TypeOK, CalmLoad, Found, ReadStore, LoadKeychain, Goto, storage
  <1>6. SteadyPlace'
    BY DEF IInv, TypeOK, SteadyPlace, LoadKeychain, Goto, storage, history
  <1>7. NewestOnly'
    BY DEF IInv, TypeOK, NewestOnly, InFlight, Found, ReadStore, LoadKeychain, Goto, storage,
       history
  <1>8. QED BY <1>1, <1>2, <1>3, <1>4, <1>5, <1>6, <1>7 DEF IInv

\* The load reads the file.
LEMMA LoadFileStep ==
  ASSUME IInv, NEW p \in Procs, LoadFile(p)
  PROVE  IInv'
  <1>1. TypeOK'
    BY DEF IInv, TypeOK, ReadStore, LoadFile, Goto, storage, history
  <1>2. KnownOnly'
    BY DEF IInv, KnownOnly, Known, ReadStore, LoadFile, storage, history
  <1>3. WriterAlone'
    BY DEF IInv, WriterAlone, Writers, LoadFile, Goto, storage, history
  <1>4. LastIsThere'
    BY DEF IInv, LastIsThere, Settled, Writers, ReadStore, LoadFile, Goto, storage, history
  <1>5. CalmLoad'
    BY DEF IInv, TypeOK, CalmLoad, Found, ReadStore, LoadFile, Goto, storage
  <1>6. SteadyPlace'
    BY DEF IInv, SteadyPlace, LoadFile, Goto, storage, history
  <1>7. NewestOnly'
    BY DEF IInv, TypeOK, SteadyPlace, NewestOnly, InFlight, Found, ReadStore, NoFile, LoadFile,
       Goto, storage, history
  <1>8. QED BY <1>1, <1>2, <1>3, <1>4, <1>5, <1>6, <1>7 DEF IInv

\* A refresh adds a token.
LEMMA RefreshStep ==
  ASSUME IInv, NEW p \in Procs, Refresh(p)
  PROVE  IInv'
  <1>1. TypeOK'
    <2>1. got[p] \in Known /\ got'[p] = [got[p] EXCEPT !.token = TRUE]
      BY DEF IInv, KnownOnly, Refresh
    <2>2. got'[p] \in Known
      BY <2>1 DEF Known
    <2>3. got' \in [Procs -> Entry \cup {None}] /\ got'[p] # None
      BY <2>1, <2>2, KnownEntries DEF IInv, TypeOK, Refresh
    <2>4. \A q \in Procs \ {p} : got'[q] = got[q] /\ pc'[q] = pc[q]
      BY DEF Refresh, Goto
    <2>5. pc' \in [Procs -> Stages] /\ pc'[p] = "saving"
      BY DEF IInv, TypeOK, Refresh, Goto
    <2>6. QED BY <2>3, <2>4, <2>5 DEF IInv, TypeOK, Refresh, storage, history
  <1>2. KnownOnly'
    <2>1. got[p] \in Known /\ got'[p] = [got[p] EXCEPT !.token = TRUE]
      BY DEF IInv, KnownOnly, Refresh
    <2>2. got'[p] \in Known
      BY <2>1 DEF Known
    <2>3. QED BY <2>2 DEF IInv, KnownOnly, Known, Refresh, storage, history
  <1>3. WriterAlone'
    BY DEF IInv, WriterAlone, Writers, Refresh, Goto, storage, history
  <1>4. LastIsThere'
    BY DEF IInv, LastIsThere, Settled, Writers, ReadStore, Refresh, Goto, storage, history
  <1>5. CalmLoad'
    BY DEF IInv, TypeOK, CalmLoad, Found, ReadStore, Refresh, Goto, storage
  <1>6. SteadyPlace'
    BY DEF IInv, SteadyPlace, Refresh, Goto, storage, history
  <1>7. NewestOnly'
    BY DEF IInv, NewestOnly, InFlight, Found, ReadStore, Refresh, Goto, storage, history
  <1>8. QED BY <1>1, <1>2, <1>3, <1>4, <1>5, <1>6, <1>7 DEF IInv

\* The wizard enters another entry.
LEMMA EnterStep ==
  ASSUME IInv, NEW p \in Procs, Enter(p)
  PROVE  IInv'
  <1>1. TypeOK'
    <2>1. entered' \in 1 .. MaxGen /\ newest \in 0 .. entered'
      BY StorageAssumption DEF IInv, TypeOK, Enter
    <2>2. got' \in [Procs -> Entry \cup {None}] /\ got'[p] # None
      <3> DEFINE e == [gen |-> entered', token |-> FALSE]
      <3>1. e \in Entry
        BY <2>1 DEF Entry
      <3>2. got' = [got EXCEPT ![p] = e] /\ None \notin Entry
        BY StorageAssumption DEF Enter
      <3> HIDE DEF e
      <3>3. QED BY <3>1, <3>2 DEF IInv, TypeOK
    <2>3. \A q \in Procs \ {p} : got'[q] = got[q] /\ pc'[q] = pc[q]
      BY DEF Enter, Goto
    <2>4. pc' \in [Procs -> Stages] /\ pc'[p] = "saving"
      BY DEF IInv, TypeOK, Enter, Goto
    <2>5. QED BY <2>1, <2>2, <2>3, <2>4 DEF IInv, TypeOK, Enter, storage, history
  <1>2. KnownOnly'
    BY DEF IInv, TypeOK, KnownOnly, Known, Enter, storage, history
  <1>3. WriterAlone'
    BY DEF IInv, WriterAlone, Writers, Enter, Goto, storage, history
  <1>4. LastIsThere'
    BY DEF IInv, LastIsThere, Settled, Writers, ReadStore, Enter, Goto, storage, history
  <1>5. CalmLoad'
    BY DEF IInv, CalmLoad, Found, ReadStore, Enter, Goto, storage
  <1>6. SteadyPlace'
    BY DEF IInv, SteadyPlace, Enter, Goto, storage, history
  <1>7. NewestOnly'
    BY DEF IInv, TypeOK, NewestOnly, InFlight, Found, ReadStore, Enter, Goto, storage, history
  <1>8. QED BY <1>1, <1>2, <1>3, <1>4, <1>5, <1>6, <1>7 DEF IInv

\* A save in the keychain ends.
LEMMA SaveKeychainStep ==
  ASSUME IInv, NEW p \in Procs, SaveKeychain(p)
  PROVE  IInv'
  <1>1. TypeOK'
    <2>1. got' \in [Procs -> Entry \cup {None}] /\ got'[p] = None
      BY DEF IInv, TypeOK, SaveKeychain, Ends
    <2>2. \A q \in Procs \ {p} : got'[q] = got[q] /\ pc'[q] = pc[q]
      BY DEF SaveKeychain, Ends, Goto
    <2>3. pc' \in [Procs -> Stages] /\ pc'[p] = "idle"
      BY DEF IInv, TypeOK, SaveKeychain, Goto
    <2>4. /\ left' \in [{"keychain", "file"} -> Entry \cup {None}]
          /\ got[p] \in Known \cup {None}
      BY DEF IInv, TypeOK, KnownOnly, SaveKeychain, Ends
    <2>5. newest' \in 0 .. entered /\ raced' \in BOOLEAN
      <3>1. CASE got[p] # None /\ ~got[p].token
        <4>1. newest' = got[p].gen /\ raced' = \E q \in Procs \ {p} : InFlight(q)
          BY <3>1 DEF SaveKeychain, Ends
        <4>2. got[p].gen \in 1 .. entered
          BY <3>1, <2>4 DEF Known
        <4>3. newest' \in 0 .. entered
          BY <4>1, <4>2 DEF IInv
        <4>4. QED BY <4>1, <4>3
      <3>2. CASE ~(got[p] # None /\ ~got[p].token)
        BY <3>2 DEF IInv, TypeOK, SaveKeychain, Ends
      <3>3. QED BY <3>1, <3>2
    <2>6. {steady', raced', disturbed'} \subseteq BOOLEAN
      BY <2>5 DEF IInv, TypeOK, SaveKeychain, Ends
    <2>7. keychain' \in Entry \cup {None} /\ UNCHANGED <<up, file, entered>>
      BY DEF IInv, TypeOK, SaveKeychain, Ends
    <2>8. via' \in {"keychain", "file"} /\ calm' \in [Procs -> BOOLEAN]
      BY DEF SaveKeychain, Ends, Changed
    <2>9. QED BY <2>1, <2>2, <2>3, <2>4, <2>5, <2>6, <2>7, <2>8 DEF IInv, TypeOK
  <1>2. KnownOnly'
    BY DEF IInv, KnownOnly, Known, SaveKeychain, Ends
  <1>3. WriterAlone'
    BY DEF IInv, WriterAlone, Writers, SaveKeychain, Goto
  <1>4. LastIsThere'
    BY DEF IInv, TypeOK, LastIsThere, Settled, Writers, ReadStore, SaveKeychain, Goto, Ends
  <1>5. CalmLoad'
    BY DEF CalmLoad, SaveKeychain, Ends, Changed
  <1>6. SteadyPlace'
    BY DEF IInv, TypeOK, SteadyPlace, SaveKeychain, Goto, Ends
  <1>7. NewestOnly'
    BY DEF IInv, TypeOK, NewestOnly, InFlight, Found, SaveKeychain, Goto, Ends
  <1>8. QED BY <1>1, <1>2, <1>3, <1>4, <1>5, <1>6, <1>7 DEF IInv

\* A save turns to the file.
LEMMA SaveToFileStep ==
  ASSUME IInv, NEW p \in Procs, SaveToFile(p)
  PROVE  IInv'
  <1>1. TypeOK'
    BY DEF IInv, TypeOK, SaveToFile, Goto, storage, history
  <1>2. KnownOnly'
    BY DEF IInv, KnownOnly, Known, SaveToFile, storage, history
  <1>3. WriterAlone'
    BY DEF IInv, WriterAlone, Writers, SaveToFile, Goto, storage, history
  <1>4. LastIsThere'
    BY DEF IInv, LastIsThere, Settled, Writers, ReadStore, SaveToFile, Goto, storage, history
  <1>5. CalmLoad'
    BY DEF IInv, CalmLoad, Found, ReadStore, SaveToFile, Goto, storage
  <1>6. SteadyPlace'
    BY DEF IInv, SteadyPlace, SaveToFile, storage, history
  <1>7. NewestOnly'
    BY DEF IInv, NewestOnly, InFlight, Found, ReadStore, SaveToFile, Goto, storage, history
  <1>8. QED BY <1>1, <1>2, <1>3, <1>4, <1>5, <1>6, <1>7 DEF IInv

\* A deletion in the keychain ends.
LEMMA DeleteKeychainStep ==
  ASSUME IInv, NEW p \in Procs, DeleteKeychain(p)
  PROVE  IInv'
  <1>1. TypeOK'
    BY DEF IInv, TypeOK, DeleteKeychain, Goto, Ends, Changed
  <1>2. KnownOnly'
    BY DEF IInv, KnownOnly, Known, DeleteKeychain, Ends
  <1>3. WriterAlone'
    BY DEF IInv, WriterAlone, Writers, DeleteKeychain, Goto
  <1>4. LastIsThere'
    BY DEF IInv, TypeOK, LastIsThere, Settled, Writers, ReadStore, DeleteKeychain, Goto, Ends
  <1>5. CalmLoad'
    BY DEF CalmLoad, DeleteKeychain, Ends, Changed
  <1>6. SteadyPlace'
    BY DEF IInv, TypeOK, SteadyPlace, DeleteKeychain, Goto, Ends
  <1>7. NewestOnly'
    BY DEF IInv, SteadyPlace, NewestOnly, InFlight, Found, ReadStore, NoFile, DeleteKeychain,
       Goto, Ends
  <1>8. QED BY <1>1, <1>2, <1>3, <1>4, <1>5, <1>6, <1>7 DEF IInv

\* A deletion turns to the file.
LEMMA DeleteFromFileStep ==
  ASSUME IInv, NEW p \in Procs, DeleteFromFile(p)
  PROVE  IInv'
  <1>1. TypeOK'
    BY DEF IInv, TypeOK, DeleteFromFile, Goto, storage, history
  <1>2. KnownOnly'
    BY DEF IInv, KnownOnly, Known, DeleteFromFile, storage, history
  <1>3. WriterAlone'
    BY DEF IInv, WriterAlone, Writers, DeleteFromFile, Goto, storage, history
  <1>4. LastIsThere'
    BY DEF IInv, LastIsThere, Settled, Writers, ReadStore, DeleteFromFile, Goto, storage, history
  <1>5. CalmLoad'
    BY DEF IInv, CalmLoad, Found, ReadStore, DeleteFromFile, Goto, storage
  <1>6. SteadyPlace'
    BY DEF IInv, SteadyPlace, DeleteFromFile, storage, history
  <1>7. NewestOnly'
    BY DEF IInv, NewestOnly, InFlight, Found, ReadStore, DeleteFromFile, Goto, storage, history
  <1>8. QED BY <1>1, <1>2, <1>3, <1>4, <1>5, <1>6, <1>7 DEF IInv

\* A deletion has found the entry.
LEMMA DeleteFoundStep ==
  ASSUME IInv, NEW p \in Procs, DeleteFound(p)
  PROVE  IInv'
  <1>1. TypeOK'
    BY DEF IInv, TypeOK, DeleteFound, Goto, storage, history
  <1>2. KnownOnly'
    BY DEF IInv, KnownOnly, Known, DeleteFound, storage, history
  <1>3. WriterAlone'
    BY DEF IInv, WriterAlone, Writers, DeleteFound, Goto, storage, history
  <1>4. LastIsThere'
    BY DEF IInv, WriterAlone, LastIsThere, Settled, ReadStore, NoFile, DeleteFound, storage, history
  <1>5. CalmLoad'
    BY DEF IInv, CalmLoad, Found, ReadStore, DeleteFound, Goto, storage
  <1>6. SteadyPlace'
    BY DEF IInv, SteadyPlace, DeleteFound, Goto, storage, history
  <1>7. NewestOnly'
    BY DEF IInv, TypeOK, NewestOnly, InFlight, Found, ReadStore, DeleteFound, Goto, storage, history
  <1>8. QED BY <1>1, <1>2, <1>3, <1>4, <1>5, <1>6, <1>7 DEF IInv

\* A deletion has found nothing.
LEMMA DeleteNothingStep ==
  ASSUME IInv, NEW p \in Procs, DeleteNothing(p)
  PROVE  IInv'
  <1>1. TypeOK'
    BY DEF IInv, TypeOK, DeleteNothing, Goto, Ends, Changed, storage
  <1>2. KnownOnly'
    BY DEF IInv, KnownOnly, Known, DeleteNothing, Ends, storage
  <1>3. WriterAlone'
    BY DEF IInv, WriterAlone, Writers, DeleteNothing, Goto, storage
  <1>4. LastIsThere'
    BY DEF IInv, TypeOK, LastIsThere, ReadStore, DeleteNothing, Ends, storage
  <1>5. CalmLoad'
    BY DEF CalmLoad, DeleteNothing, Ends, Changed
  <1>6. SteadyPlace'
    BY DEF IInv, TypeOK, SteadyPlace, DeleteNothing, Goto, Ends, storage
  <1>7. NewestOnly'
    BY DEF IInv, NewestOnly, InFlight, Found, ReadStore, DeleteNothing, Goto, Ends, storage
  <1>8. QED BY <1>1, <1>2, <1>3, <1>4, <1>5, <1>6, <1>7 DEF IInv

\* The file is truncated.
LEMMA TruncateStep ==
  ASSUME IInv, NEW p \in Procs, Truncate(p)
  PROVE  IInv'
  <1>1. TypeOK'
    <2>1. disturbed' \in BOOLEAN /\ UNCHANGED <<steady, raced>>
      BY DEF Truncate
    <2>2. {steady', raced', disturbed'} \subseteq BOOLEAN
      BY <2>1 DEF IInv, TypeOK
    <2>3. pc' \in [Procs -> Stages] /\ pc'[p] = "writing"
      BY DEF IInv, TypeOK, Truncate, Goto
    <2>4. \A q \in Procs \ {p} : pc'[q] = pc[q]
      BY DEF Truncate, Goto
    <2>5. /\ file' \in [size : 0 .. 3, content : Entry \cup {None, Torn}]
          /\ file'.content = None /\ file'.size = 0 /\ file'.content \notin Entry
      BY StorageAssumption DEF Truncate, NoFile
    <2>6. calm' \in [Procs -> BOOLEAN]
      BY DEF Truncate, Changed
    <2>7. UNCHANGED <<up, keychain, got, entered, newest, left, via>>
      BY DEF Truncate
    <2>8. QED BY <2>2, <2>3, <2>4, <2>5, <2>6, <2>7 DEF IInv, TypeOK
  <1>2. KnownOnly'
    BY DEF IInv, KnownOnly, Known, NoFile, Truncate
  <1>3. WriterAlone'
    BY DEF IInv, TypeOK, WriterAlone, Writers, Truncate, Goto
  <1>4. LastIsThere'
    BY DEF IInv, TypeOK, LastIsThere, Settled, Writers, Truncate, Goto
  <1>5. CalmLoad'
    BY DEF CalmLoad, Truncate, Changed
  <1>6. SteadyPlace'
    BY DEF IInv, SteadyPlace, Truncate, Goto
  <1>7. NewestOnly'
    BY DEF IInv, NewestOnly, InFlight, Found, ReadStore, NoFile, Truncate, Goto
  <1>8. QED BY <1>1, <1>2, <1>3, <1>4, <1>5, <1>6, <1>7 DEF IInv

\* A write of the file ends.
LEMMA WriteStep ==
  ASSUME IInv, NEW p \in Procs, Write(p)
  PROVE  IInv'
  <1>1. TypeOK'
    <2>1. got' \in [Procs -> Entry \cup {None}] /\ got'[p] = None
      BY DEF IInv, TypeOK, Write, Ends
    <2>2. \A q \in Procs \ {p} : got'[q] = got[q] /\ pc'[q] = pc[q]
      BY DEF Write, Ends, Goto
    <2>3. pc' \in [Procs -> Stages] /\ pc'[p] = "idle"
      BY DEF IInv, TypeOK, Write, Goto
    <2>4. /\ left' \in [{"keychain", "file"} -> Entry \cup {None}]
          /\ got[p] \in Known \cup {None}
      BY DEF IInv, TypeOK, KnownOnly, Write, Ends
    <2>5. newest' \in 0 .. entered /\ raced' \in BOOLEAN
      <3>1. CASE got[p] # None /\ ~got[p].token
        <4>1. newest' = got[p].gen /\ raced' = \E q \in Procs \ {p} : InFlight(q)
          BY <3>1 DEF Write, Ends
        <4>2. got[p].gen \in 1 .. entered
          BY <3>1, <2>4 DEF Known
        <4>3. newest' \in 0 .. entered
          BY <4>1, <4>2 DEF IInv
        <4>4. QED BY <4>1, <4>3
      <3>2. CASE ~(got[p] # None /\ ~got[p].token)
        BY <3>2 DEF IInv, TypeOK, Write, Ends
      <3>3. QED BY <3>1, <3>2
    <2>6. {steady', raced', disturbed'} \subseteq BOOLEAN
      BY <2>5 DEF IInv, TypeOK, Write, Ends
    <2>7. /\ file' \in [size : 0 .. 3, content : Entry \cup {None, Torn}]
          /\ file'.content \in Entry => file'.size = Size(file'.content)
          /\ file'.content = None => file'.size <= 1
      <3>1. Size(got[p]) \in 1 .. 3 /\ (got[p] = None => Size(got[p]) = 1)
        BY DEF Size
      <3>2. got[p] \in Entry \cup {None} /\ Torn \notin Entry /\ Torn # None
        BY StorageAssumption DEF IInv, TypeOK
      <3>3. CASE Size(got[p]) >= file.size
        <4>1. file' = [size |-> Size(got[p]), content |-> got[p]]
          BY <3>3 DEF Write, Overlay
        <4>2. QED BY <3>1, <3>2, <4>1
      <3>4. CASE ~(Size(got[p]) >= file.size)
        <4>1. file' = [file EXCEPT !.content = Torn]
          BY <3>4 DEF Write, Overlay
        <4>2. QED BY <3>2, <4>1 DEF IInv, TypeOK
      <3>5. QED BY <3>3, <3>4
    <2>8. via' \in {"keychain", "file"} /\ calm' \in [Procs -> BOOLEAN]
      BY DEF Write, Ends, Changed
    <2>9. UNCHANGED <<up, keychain, entered>>
      BY DEF Write, Ends
    <2>10. QED BY <2>1, <2>2, <2>3, <2>4, <2>5, <2>6, <2>7, <2>8, <2>9 DEF IInv, TypeOK
  <1>2. KnownOnly'
    BY DEF IInv, KnownOnly, Known, Write, Overlay, Ends
  <1>3. WriterAlone'
    BY DEF IInv, TypeOK, WriterAlone, Writers, Write, Goto
  <1>4. LastIsThere'
    <2>1. left'.file = got[p] /\ left'.keychain = left.keychain /\ p \in Writers
      BY DEF IInv, TypeOK, Write, Ends, Goto, Writers
    <2>2. ASSUME Settled' PROVE ReadStore' = left'.file
      <3>1. ~disturbed
        BY <2>2 DEF Settled, Write
      <3>2. file = NoFile
        BY <2>1, <3>1 DEF IInv, WriterAlone
      <3>3. Size(got[p]) >= file.size
        BY <3>2 DEF NoFile, Size
      <3>4. file'.content = got[p]
        BY <3>3 DEF Write, Overlay
      <3>5. got[p] # Torn
        BY StorageAssumption DEF IInv, TypeOK
      <3>6. QED BY <2>1, <3>4, <3>5 DEF ReadStore
    <2>3. keychain' = left'.keychain
      BY <2>1 DEF IInv, LastIsThere, Write
    <2>4. QED BY <2>2, <2>3 DEF LastIsThere
  <1>5. CalmLoad'
    BY DEF CalmLoad, Write, Ends, Changed
  <1>6. SteadyPlace'
    BY DEF IInv, TypeOK, SteadyPlace, Write, Goto, Ends
  <1>7. NewestOnly'
    BY DEF IInv, TypeOK, SteadyPlace, NewestOnly, InFlight, Found, ReadStore, Write, Overlay,
       Goto, Ends
  <1>8. QED BY <1>1, <1>2, <1>3, <1>4, <1>5, <1>6, <1>7 DEF IInv

\* A process gives up.
LEMMA AbandonStep ==
  ASSUME IInv, NEW p \in Procs, Abandon(p)
  PROVE  IInv'
  <1>1. TypeOK'
    BY DEF IInv, TypeOK, Abandon, storage
  <1>2. KnownOnly'
    BY DEF IInv, KnownOnly, Known, Abandon, storage
  <1>3. WriterAlone'
    BY DEF IInv, TypeOK, WriterAlone, Writers, Abandon, storage
  <1>4. LastIsThere'
    BY DEF IInv, TypeOK, LastIsThere, Settled, Writers, ReadStore, Abandon, storage
  <1>5. CalmLoad'
    BY DEF IInv, TypeOK, CalmLoad, Found, ReadStore, Abandon, storage
  <1>6. SteadyPlace'
    BY DEF IInv, SteadyPlace, Abandon, storage
  <1>7. NewestOnly'
    BY DEF IInv, NewestOnly, InFlight, Found, ReadStore, Abandon, storage
  <1>8. QED BY <1>1, <1>2, <1>3, <1>4, <1>5, <1>6, <1>7 DEF IInv

\* The keychain starts or stops to answer.
LEMMA FlipStep ==
  ASSUME IInv, Flip
  PROVE  IInv'
  <1>1. TypeOK' /\ KnownOnly'
    <2>1. up' \in BOOLEAN /\ steady' \in BOOLEAN
      BY Zenon DEF Flip, IInv, TypeOK
    <2>2. calm' \in [Procs -> BOOLEAN]
      BY DEF Flip, Changed
    <2>3. UNCHANGED <<keychain, file, pc, got, entered, newest, left, via, raced, disturbed>>
      BY DEF Flip
    <2>4. {steady', raced', disturbed'} \subseteq BOOLEAN
      BY <2>1, <2>3 DEF IInv, TypeOK
    <2>5. QED BY <2>1, <2>2, <2>3, <2>4 DEF IInv, TypeOK, KnownOnly, Known
  <1>2. WriterAlone' /\ LastIsThere'
    BY DEF IInv, TypeOK, WriterAlone, LastIsThere, Settled, Writers, ReadStore, Flip
  <1>3. CalmLoad' /\ SteadyPlace' /\ NewestOnly'
    BY DEF CalmLoad, SteadyPlace, NewestOnly, Flip, Changed
  <1>4. QED BY <1>1, <1>2, <1>3 DEF IInv

-----------------------------------------------------------------------------
(* The theorems.                                                            *)

LEMMA StorageInit == Init => IInv
  <1> SUFFICES ASSUME Init PROVE IInv
    OBVIOUS
  <1>1. TypeOK
    <2>1. /\ file \in [size : 0 .. 3, content : Entry \cup {None, Torn}]
          /\ file.content \notin Entry /\ file.size = 0
      BY StorageAssumption DEF Init, NoFile
    <2>2. entered \in 0 .. MaxGen /\ newest \in 0 .. entered
      BY StorageAssumption DEF Init
    <2>3. {steady, raced, disturbed} \subseteq BOOLEAN /\ up \in BOOLEAN
      BY DEF Init
    <2>4. calm \in [Procs -> BOOLEAN] /\ pc \in [Procs -> Stages]
      BY DEF Init
    <2>5. QED BY <2>1, <2>2, <2>3, <2>4 DEF Init, TypeOK
  <1>2. KnownOnly
    BY DEF Init, KnownOnly, NoFile
  <1>3. WriterAlone /\ LastIsThere /\ CalmLoad /\ SteadyPlace
    BY StorageAssumption DEF Init, WriterAlone, Writers, LastIsThere, ReadStore, CalmLoad,
       SteadyPlace, NoFile
  <1>4. NewestOnly
    BY StorageAssumption DEF Init, NewestOnly, Found, ReadStore, InFlight, NoFile
  <1>5. QED BY <1>1, <1>2, <1>3, <1>4 DEF IInv

\* What the storage holds and what processes make of it stay in step, whoever
\* writes, dies or loses the keychain.
THEOREM StorageInductive == Spec => []IInv
  <1>1. IInv /\ [Next]_vars => IInv'
    <2> SUFFICES ASSUME IInv, [Next]_vars PROVE IInv'
      OBVIOUS
    <2>1. ASSUME NEW p \in Procs,
                 \/ LoadKeychain(p) \/ LoadFile(p) \/ Refresh(p)
                 \/ Enter(p) \/ SaveKeychain(p) \/ SaveToFile(p)
                 \/ DeleteKeychain(p) \/ DeleteFromFile(p) \/ DeleteFound(p) \/ DeleteNothing(p)
                 \/ Truncate(p) \/ Write(p) \/ Abandon(p)
          PROVE  IInv'
      BY <2>1, LoadKeychainStep, LoadFileStep, RefreshStep, EnterStep, SaveKeychainStep,
         SaveToFileStep, DeleteKeychainStep, DeleteFromFileStep, DeleteFoundStep,
         DeleteNothingStep, TruncateStep, WriteStep, AbandonStep
    <2>2. CASE Flip
      BY <2>2, FlipStep
    <2>3. CASE UNCHANGED vars
      BY <2>3 DEF vars, IInv, TypeOK, KnownOnly, Known, WriterAlone, Writers, LastIsThere, Settled,
         ReadStore, CalmLoad, Found, SteadyPlace, NewestOnly, InFlight
    <2>4. QED BY <2>1, <2>2, <2>3 DEF Next
  <1>2. QED BY StorageInit, <1>1, PTL DEF Spec

\* Keychain, file and processes hold entries of the wizard and no others, and a
\* process saves only what it has.
THEOREM StorageTypeOK == Spec => []TypeOK
  <1>1. IInv => TypeOK
    BY DEF IInv
  <1>2. QED BY StorageInductive, <1>1, PTL

\* A load that nothing overlaps finds what the last write of the keychain has
\* left, or else of the file; with a steady keychain that is the last write of all.
THEOREM AlwaysLoadsLast == Spec => []LoadsLast
  <1>1. IInv => LoadsLast
    <2> DEFINE L == IF up /\ left.keychain # None THEN left.keychain ELSE left.file
    <2> SUFFICES ASSUME IInv, NEW p \in Procs, pc[p] = "loaded", calm[p], Settled
                 PROVE  got[p] = L /\ (steady => got[p] = last)
      BY DEF LoadsLast
    <2>1. got[p] = Found
      BY DEF IInv, CalmLoad
    <2>2. got[p] = L
      BY <2>1 DEF IInv, LastIsThere, Found
    <2>3. ASSUME steady PROVE L = last
      <3>1. CASE up
        BY <2>3, <3>1 DEF IInv, TypeOK, SteadyPlace, last
      <3>2. CASE ~up
        BY <2>3, <3>2 DEF IInv, SteadyPlace, last
      <3>3. QED BY <3>1, <3>2
    <2>4. QED BY <2>2, <2>3
  <1>2. QED BY StorageInductive, <1>1, PTL

\* Only a refresh that was under way loses what the wizard saved.
THEOREM AlwaysWizardKept == Spec => []WizardKept
  <1>1. IInv => WizardKept
    <2> SUFFICES ASSUME IInv, steady, ~raced
                 PROVE  /\ Found # None => Found.gen = newest
                        /\ Settled /\ last # None => Found # None
      BY DEF WizardKept
    <2>1. Found # None => Found.gen = newest
      BY DEF IInv, NewestOnly
    <2>2. ASSUME Settled, last # None PROVE Found # None
      <3>1. CASE up
        BY <3>1, <2>2 DEF IInv, TypeOK, SteadyPlace, LastIsThere, Found, last
      <3>2. CASE ~up
        BY <3>2, <2>2 DEF IInv, SteadyPlace, LastIsThere, Found, last
      <3>3. QED BY <3>1, <3>2
    <2>3. QED BY <2>1, <2>2
  <1>2. QED BY StorageInductive, <1>1, PTL
=============================================================================
