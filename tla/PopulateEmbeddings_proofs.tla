----------------------- MODULE PopulateEmbeddings_proofs -----------------------
(* Proofs about PopulateEmbeddings, for any store files and operations.      *)
EXTENDS PopulateEmbeddings, SequenceTheorems, TLAPS

\* The .zst is whole while the raw file is torn, and the raw file from where it
\* has been opened until the .zst is its equal.
OneIsWhole ==
  /\ stage = "extracting" => IsStore(zst[f])
  /\ stage \in {"populating", "inserting", "compressing", "removing"} => IsStore(raw[f])
  /\ stage = "removing" => zst[f] = raw[f]

\* All operations but those of rest have their embedding; a target that is no
\* longer to do has them all, compressed.
Progress ==
  /\ stage \in {"populating", "inserting"} => Ops \ rest \subseteq raw[f]
  /\ stage = "inserting" => row \in rest
  /\ stage \in {"compressing", "removing"} => raw[f] = Ops
  /\ outcome = "ok" /\ stage = "down" => todo = <<>>
  /\ stage # "down" \/ outcome = "ok" =>
       \A file \in targets : Populated(file) \/ file \in Elements(todo)

\* There is a working copy to open, the row to be inserted is not in it, no target
\* has lacked a row, and a run that its own error ended has one it cannot use.
NoErrorOfItsOwn ==
  /\ stage = "opening" => raw[f] # Absent
  /\ stage = "inserting" => row \notin raw[f]
  /\ stage # "down" => ~had_mismatch /\ Elements(todo) \subseteq targets
  /\ FailsOnlyUnusable

IInv == TypeOK /\ OneIsWhole /\ Progress /\ NoErrorOfItsOwn

LEMMA StoresAreStores == ASSUME NEW s \in Stores PROVE IsStore(s)
  BY PopulateAssumption DEF IsStore

LEMMA ContentIsStore ==
  ASSUME NEW c \in {Absent, Torn} \cup Stores, IsStore(c)
  PROVE  c \in Stores
  BY DEF IsStore

\* What the head and the tail of a sequence of files are.
LEMMA HeadTail ==
  ASSUME NEW s \in Seq(Files), s # <<>>
  PROVE  /\ Head(s) \in Files
         /\ Tail(s) \in Seq(Files)
         /\ Elements(s) = {Head(s)} \cup Elements(Tail(s))
  <1>1. Len(s) \in Nat \ {0} /\ DOMAIN s = 1 .. Len(s)
    BY EmptySeq, SMT
  <1>2. Head(s) = s[1] /\ Head(s) \in Files /\ Tail(s) \in Seq(Files)
    BY <1>1
  <1>3. Len(Tail(s)) = Len(s) - 1 /\ \A i \in 1 .. Len(s) - 1 : Tail(s)[i] = s[i + 1]
    BY <1>1
  <1>4. DOMAIN Tail(s) = 1 .. Len(s) - 1
    BY <1>2, <1>3
  <1>5. ASSUME NEW x PROVE x \in Elements(s) <=> x = Head(s) \/ x \in Elements(Tail(s))
    <2>1. x \in Elements(s) <=> \E i \in 1 .. Len(s) : x = s[i]
      BY <1>1 DEF Elements
    <2>2. x \in Elements(Tail(s)) <=> \E i \in 1 .. Len(s) - 1 : x = s[i + 1]
      BY <1>3, <1>4 DEF Elements
    <2>3. (\E i \in 1 .. Len(s) : x = s[i]) <=> x = s[1] \/ \E i \in 1 .. Len(s) - 1 : x = s[i + 1]
      <3>1. ASSUME NEW i \in 1 .. Len(s), x = s[i], x # s[1]
            PROVE  \E j \in 1 .. Len(s) - 1 : x = s[j + 1]
        <4>1. i - 1 \in 1 .. Len(s) - 1 /\ x = s[(i - 1) + 1]
          BY <3>1, <1>1
        <4>2. QED BY <4>1
      <3>2. ASSUME NEW j \in 1 .. Len(s) - 1, x = s[j + 1]
            PROVE  \E i \in 1 .. Len(s) : x = s[i]
        <4>1. j + 1 \in 1 .. Len(s)
          BY <1>1
        <4>2. QED BY <4>1, <3>2
      <3>3. QED BY <3>1, <3>2, <1>1
    <2>4. QED BY <2>1, <2>2, <2>3, <1>2
  <1>6. QED BY <1>2, <1>5

-----------------------------------------------------------------------------

LEMMA Starts ==
  ASSUME NEW files \in Seq(Files), files # <<>>, IInv, Start(files)
  PROVE  IInv'
  <1>1. Elements(files) \subseteq Files
    BY DEF Elements
  <1>2. TypeOK'
    BY <1>1 DEF IInv, TypeOK, Start, Goto, Stages
  <1>3. OneIsWhole'
    BY DEF OneIsWhole, Start, Goto
  <1>4. Progress'
    BY DEF IInv, Progress, Start, Goto, Elements
  <1>5. NoErrorOfItsOwn'
    BY DEF NoErrorOfItsOwn, FailsOnlyUnusable, Start, Goto
  <1>6. QED BY <1>2, <1>3, <1>4, <1>5 DEF IInv

\* What the steps of a run may assume of its file.
LEMMA AtFile ==
  ASSUME IInv, stage # "down"
  PROVE  /\ f \in Files
         /\ f \in Elements(todo)
         /\ raw[f] \in {Absent, Torn} \cup Stores
         /\ zst[f] \in {Absent, Torn} \cup Stores
  BY HeadTail DEF IInv, TypeOK, f

\* The run stops, by an error of its own only at a target that it cannot use.
LEMMA Ending ==
  ASSUME IInv, stage # "down", NEW how \in {"failed", "stopped"}, Ends(how),
         how = "failed" => ~Usable(f)
  PROVE  IInv'
  <1>1. TypeOK' /\ OneIsWhole' /\ Progress'
    BY DEF IInv, TypeOK, OneIsWhole, Progress, Ends, Stages
  <1>2. ASSUME how = "failed" PROVE \E file \in targets' : ~Usable(file)'
    <2>1. f \in targets
      BY AtFile DEF IInv, NoErrorOfItsOwn
    <2>2. QED BY <1>2, <2>1 DEF Ends, Usable
  <1>3. NoErrorOfItsOwn'
    BY <1>2 DEF NoErrorOfItsOwn, FailsOnlyUnusable, Ends
  <1>4. QED BY <1>1, <1>3 DEF IInv

\* The run goes on with its targets.
LEMMA GoesOn ==
  ASSUME IInv, stage # "down", stage' # "down", UNCHANGED <<targets, todo>>,
         ~had_mismatch', stage' = "inserting" => row' \notin raw'[f],
         stage' = "opening" => raw'[f] # Absent
  PROVE  NoErrorOfItsOwn'
  BY DEF IInv, NoErrorOfItsOwn, FailsOnlyUnusable, f

\* A step that changes nothing but the files of f keeps the other targets' state.
LEMMA OthersKeep ==
  ASSUME IInv, stage # "down",
         UNCHANGED <<targets, todo, outcome>>,
         \A file \in Files \ {f} : raw'[file] = raw[file] /\ zst'[file] = zst[file]
  PROVE  \A file \in targets' : Populated(file)' \/ file \in Elements(todo)'
  <1> SUFFICES ASSUME NEW file \in targets, file \notin Elements(todo)
               PROVE  Populated(file)'
    BY DEF Elements
  <1>1. file \in Files \ {f} /\ Populated(file)
    BY AtFile DEF IInv, TypeOK, Progress
  <1>2. QED BY <1>1 DEF Populated

THEOREM PopulateInductive == Spec => []IInv
  <1>1. Init => IInv
    <2> SUFFICES ASSUME Init PROVE IInv
      OBVIOUS
    <2>1. TypeOK
      <3>1. /\ raw \in [Files -> {Absent, Torn} \cup Stores]
            /\ zst \in [Files -> {Absent, Torn} \cup Stores]
        BY DEF Init
      <3>2. todo \in Seq(Files)
        BY DEF Init
      <3>3. had_mismatch \in BOOLEAN
        BY Zenon DEF Init
      <3>4. QED BY <3>1, <3>2, <3>3 DEF Init, TypeOK, Stages
    <2>2. OneIsWhole /\ Progress /\ NoErrorOfItsOwn
      BY DEF Init, OneIsWhole, Progress, NoErrorOfItsOwn, FailsOnlyUnusable
    <2>3. QED BY <2>1, <2>2 DEF IInv
  <1>2. IInv /\ [Next]_vars => IInv'
    <2> SUFFICES ASSUME IInv, [Next]_vars PROVE IInv'
      OBVIOUS
    <2>1. CASE Start(VersionStoreFiles)
      BY <2>1, Starts, PopulateAssumption
    <2>2. ASSUME NEW file \in Files, Start(<<file>>) PROVE IInv'
      <3>1. <<file>> \in Seq(Files) /\ <<file>> # <<>>
        OBVIOUS
      <3>2. QED BY <2>2, <3>1, Starts
    <2>3. CASE KeepRaw
      <3> USE <2>3 DEF KeepRaw, Goto, run
      <3>1. TypeOK' BY DEF IInv, TypeOK, Stages
      <3>2. OneIsWhole' BY DEF OneIsWhole
      <3>3. Progress' BY OthersKeep DEF IInv, Progress
      <3>4. NoErrorOfItsOwn' BY GoesOn DEF IInv, NoErrorOfItsOwn
      <3>5. QED BY <3>1, <3>2, <3>3, <3>4 DEF IInv
    <2>4. CASE CreateRaw
      <3> USE AtFile, <2>4 DEF CreateRaw, Goto, run
      <3>1. TypeOK' BY DEF IInv, TypeOK, Stages
      <3>2. OneIsWhole' BY DEF IInv, OneIsWhole, f
      <3>3. Progress' BY OthersKeep DEF IInv, TypeOK, Progress
      <3>4. NoErrorOfItsOwn' BY GoesOn DEF IInv, NoErrorOfItsOwn
      <3>5. QED BY <3>1, <3>2, <3>3, <3>4 DEF IInv
    <2>5. CASE FillRaw
      <3> USE AtFile, <2>5 DEF FillRaw, Goto, run
      <3>1. TypeOK' BY DEF IInv, TypeOK, Stages
      <3>2. OneIsWhole' BY DEF IInv, OneIsWhole, f
      <3>3. Progress' BY OthersKeep DEF IInv, TypeOK, Progress
      <3>4. NoErrorOfItsOwn' BY GoesOn DEF IInv, NoErrorOfItsOwn, TypeOK, OneIsWhole, IsStore
      <3>5. QED BY <3>1, <3>2, <3>3, <3>4 DEF IInv
    <2>6. CASE NothingToExtract
      <3>1. ~Usable(f)
        BY <2>6 DEF NothingToExtract, Usable, IsStore
      <3>2. stage # "down" /\ Ends("failed")
        BY <2>6 DEF NothingToExtract, Fails
      <3>3. QED BY <3>1, <3>2, Ending
    <2>7. CASE Open
      <3> USE AtFile, <2>7 DEF Open, Goto, run
      <3>1. TypeOK' BY DEF IInv, TypeOK, Stages
      <3>2. OneIsWhole' BY DEF IInv, OneIsWhole, f
      <3>3. Progress' BY OthersKeep DEF IInv, Progress
      <3>4. NoErrorOfItsOwn' BY GoesOn DEF IInv, NoErrorOfItsOwn
      <3>5. QED BY <3>1, <3>2, <3>3, <3>4 DEF IInv
    <2>8. CASE Malformed
      <3>1. stage # "down" /\ Ends("failed") /\ ~IsStore(raw[f])
        BY <2>8 DEF Malformed, Fails
      <3>2. ~Usable(f)
        BY <3>1, <2>8 DEF Malformed, IInv, NoErrorOfItsOwn, Usable
      <3>3. QED BY <3>1, <3>2, Ending
    <2>9. ASSUME NEW op \in Ops, DeleteRow(op) PROVE IInv'
      <3> USE AtFile, <2>9 DEF DeleteRow, Goto, run
      <3>1. raw[f] \in Stores
        BY ContentIsStore DEF IInv, OneIsWhole
      <3>2. raw[f] \ {op} \in Stores /\ IsStore(raw[f] \ {op})
        BY <3>1, StoresAreStores DEF Stores
      <3>3. raw'[f] = raw[f] \ {op} /\ f' = f
        BY DEF IInv, TypeOK, f
      <3>4. TypeOK' BY <3>2 DEF IInv, TypeOK, Stages
      <3>5. OneIsWhole' BY <3>2, <3>3 DEF IInv, OneIsWhole
      <3>6. Progress' BY <3>3, OthersKeep DEF IInv, TypeOK, Progress
      <3>7. NoErrorOfItsOwn' BY <3>3, GoesOn DEF IInv, NoErrorOfItsOwn
      <3>8. QED BY <3>4, <3>5, <3>6, <3>7 DEF IInv
    <2>10. CASE InsertRow
      <3>0. row \notin raw[f]
        BY <2>10 DEF InsertRow, IInv, NoErrorOfItsOwn
      <3> USE AtFile, <2>10, <3>0 DEF InsertRow, run
      <3>1. raw[f] \in Stores /\ row \in Ops
        BY ContentIsStore DEF IInv, OneIsWhole, TypeOK
      <3>2. raw[f] \cup {row} \in Stores /\ IsStore(raw[f] \cup {row})
        BY <3>1, StoresAreStores DEF Stores
      <3>3. raw'[f] = raw[f] \cup {row} /\ f' = f
        BY DEF IInv, TypeOK, f
      <3>4. TypeOK' BY <3>2 DEF IInv, TypeOK, Stages
      <3>5. OneIsWhole' BY <3>2, <3>3 DEF IInv, OneIsWhole
      <3>6. Progress' BY <3>3, OthersKeep DEF IInv, TypeOK, Progress
      <3>7. NoErrorOfItsOwn' BY GoesOn DEF IInv, NoErrorOfItsOwn
      <3>8. QED BY <3>4, <3>5, <3>6, <3>7 DEF IInv
    <2>11. CASE CreateZst
      <3> USE AtFile, <2>11 DEF CreateZst, Goto
      <3>1. raw[f] \in Stores
        BY ContentIsStore DEF IInv, OneIsWhole
      <3>2. raw[f] = Ops
        BY <3>1 DEF IInv, Progress, Stores
      <3>3. TypeOK' BY DEF IInv, TypeOK, Stages, Checked
      <3>4. OneIsWhole' BY <3>1, StoresAreStores DEF IInv, OneIsWhole, f
      <3>5. Progress' BY <3>2, OthersKeep DEF IInv, TypeOK, Progress, f
      <3>6. ~had_mismatch' BY <3>2 DEF Checked, Missing, IInv, NoErrorOfItsOwn
      <3>7. NoErrorOfItsOwn' BY <3>6, GoesOn
      <3>8. QED BY <3>3, <3>4, <3>5, <3>7 DEF IInv
    <2>12. CASE FillZst
      <3> USE AtFile, <2>12 DEF FillZst, Goto, run
      <3>1. TypeOK' BY DEF IInv, TypeOK, Stages
      <3>2. OneIsWhole' BY DEF IInv, TypeOK, OneIsWhole, f
      <3>3. Progress' BY OthersKeep DEF IInv, TypeOK, Progress, f
      <3>4. NoErrorOfItsOwn' BY GoesOn DEF IInv, NoErrorOfItsOwn
      <3>5. QED BY <3>1, <3>2, <3>3, <3>4 DEF IInv
    <2>13. CASE RemoveRaw
      <3> USE AtFile, <2>13 DEF RemoveRaw
      <3>1. /\ todo' \in Seq(Files)
            /\ Elements(todo) = {f} \cup Elements(todo')
        BY HeadTail DEF IInv, TypeOK, f
      <3>2. raw'[f] = Absent /\ zst'[f] = Ops
        BY DEF IInv, TypeOK, OneIsWhole, Progress
      <3>3. TypeOK' BY <3>1 DEF IInv, TypeOK, Stages
      <3>4. OneIsWhole' BY DEF OneIsWhole
      <3>5. ASSUME NEW file \in targets PROVE Populated(file)' \/ file \in Elements(todo')
        <4>1. CASE file = f
          BY <4>1, <3>2 DEF Populated
        <4>2. CASE file # f
          <5>1. Populated(file) \/ file \in Elements(todo')
            BY <4>2, <3>1 DEF IInv, Progress
          <5>2. raw'[file] = raw[file] /\ zst'[file] = zst[file]
            BY <4>2 DEF IInv, TypeOK
          <5>3. QED BY <5>1, <5>2 DEF Populated
        <4>3. QED BY <4>1, <4>2
      <3>6. Progress'
        BY <3>5 DEF Progress, IInv, TypeOK, Elements
      <3>7. NoErrorOfItsOwn'
        BY <3>1 DEF NoErrorOfItsOwn, FailsOnlyUnusable, IInv
      <3>8. QED BY <3>3, <3>4, <3>6, <3>7 DEF IInv
    <2>14. CASE Dies
      BY <2>14, Ending DEF Dies
    <2>15. CASE UNCHANGED vars
      BY <2>15 DEF vars, IInv, TypeOK, OneIsWhole, Progress, Populated, Elements, f,
         NoErrorOfItsOwn, FailsOnlyUnusable, Usable
    <2>16. QED
      BY <2>1, <2>2, <2>3, <2>4, <2>5, <2>6, <2>7, <2>8, <2>9, <2>10, <2>11, <2>12,
         <2>13, <2>14, <2>15 DEF Next, Step
  <1>3. QED BY <1>1, <1>2, PTL DEF Spec

\* Every reachable state is well typed and has its file in one piece at least.
THEOREM PopulateTypeOK == Spec => []TypeOK
  BY PopulateInductive, PTL DEF IInv

\* A store that was there is there after every step, in one of its two files.
THEOREM AlwaysStoreSurvives == Spec => StoreSurvives
  <1>1. IInv /\ [Next]_vars => [\A file \in Files : Whole(file) => Whole(file)']_vars
    <2> SUFFICES ASSUME IInv, Next, NEW file \in Files, Whole(file) PROVE Whole(file)'
      OBVIOUS
    <2>1. CASE Step
      <3>1. stage # "down"
        BY <2>1 DEF Step, KeepRaw, CreateRaw, FillRaw, NothingToExtract, Open, Malformed,
                    DeleteRow, InsertRow, CreateZst, FillZst, RemoveRaw, Goto
      <3>2. CASE file # f
        BY <2>1, <3>1, <3>2 DEF IInv, TypeOK, Whole, Step, KeepRaw, CreateRaw, FillRaw,
          NothingToExtract, Open, Malformed, DeleteRow, InsertRow, CreateZst, FillZst, RemoveRaw,
          Fails, Ends
      <3>3. CASE file = f
        <4> USE <3>3, AtFile, <3>1 DEF Whole
        <4>1. CASE KeepRaw \/ NothingToExtract \/ Open \/ Malformed
          BY <4>1 DEF KeepRaw, NothingToExtract, Open, Malformed, Fails, Ends
        <4>2. CASE CreateRaw
          BY <4>2 DEF CreateRaw
        <4>3. CASE FillRaw
          BY <4>3 DEF FillRaw, Goto, IInv, OneIsWhole
        <4>4. ASSUME NEW op \in Ops, DeleteRow(op) PROVE Whole(file)'
          <5>1. raw[f] \ {op} \in Stores
            BY <4>4, ContentIsStore DEF IInv, OneIsWhole, DeleteRow, Goto, Stores
          <5>2. QED BY <4>4, <5>1, StoresAreStores DEF DeleteRow, IInv, TypeOK
        <4>5. CASE InsertRow
          <5>1. raw[f] \cup {row} \in Stores /\ row \notin raw[f]
            BY <4>5, ContentIsStore
            DEF IInv, TypeOK, OneIsWhole, NoErrorOfItsOwn, InsertRow, Stores
          <5>2. QED BY <4>5, <5>1, StoresAreStores DEF InsertRow, IInv, TypeOK
        <4>6. CASE CreateZst
          <5>1. raw[f] \in Stores
            BY <4>6, ContentIsStore DEF IInv, OneIsWhole, CreateZst, Goto
          <5>2. QED BY <4>6, <5>1, StoresAreStores DEF CreateZst
        <4>7. CASE FillZst
          BY <4>7 DEF FillZst, Goto, IInv, OneIsWhole
        <4>8. CASE RemoveRaw
          BY <4>8 DEF RemoveRaw, IInv, OneIsWhole
        <4>9. QED BY <2>1, <4>1, <4>2, <4>3, <4>4, <4>5, <4>6, <4>7, <4>8 DEF Step
      <3>4. QED BY <3>2, <3>3
    <2>2. CASE ~Step
      BY <2>2 DEF Next, Start, Dies, Ends, Whole
    <2>3. QED BY <2>1, <2>2
  <1>2. QED BY <1>1, PopulateInductive, PTL DEF Spec, StoreSurvives

\* A run that ends well leaves every target populated.
THEOREM OkAlwaysPopulated == Spec => []OkMeansPopulated
  <1>1. IInv => OkMeansPopulated
    <2> SUFFICES ASSUME IInv, outcome = "ok", stage = "down", NEW file \in targets
                 PROVE  Populated(file)
      BY DEF OkMeansPopulated
    <2>1. Populated(file) \/ file \in Elements(<<>>)
      BY DEF IInv, Progress
    <2>2. QED BY <2>1 DEF Elements
  <1>2. QED BY <1>1, PopulateInductive, PTL

\* A run fails of its own accord only on a target that has no store it can take,
\* for any files and operations and whatever earlier runs have left half done.
THEOREM AlwaysFailsOnlyUnusable == Spec => []FailsOnlyUnusable
  <1>1. IInv => FailsOnlyUnusable
    BY DEF IInv, NoErrorOfItsOwn
  <1>2. QED BY <1>1, PopulateInductive, PTL
=============================================================================
