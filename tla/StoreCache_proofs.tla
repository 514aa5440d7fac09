-------------------------- MODULE StoreCache_proofs --------------------------
(* Theorems about StoreCache, for any processes, handlers and builds.        *)
EXTENDS StoreCache, FiniteSetTheorems, TLAPS

USE DEF Stages, TmpOwner

\* What a handler's step leaves alone, and where it takes the handler.
LEMMA GotoType ==
  ASSUME TypeOK, NEW p \in Procs, NEW w \in Workers, NEW from \in Stages, NEW to \in Stages,
         Goto(p, w, from, to)
  PROVE  /\ build[p] \in Builds /\ build' = build /\ mixed' = mixed
         /\ pc[p][w] = from /\ pc' \in [Procs -> [Workers -> Stages]]
         /\ \A q \in Procs, v \in Workers :
              pc'[q][v] = IF q = p /\ v = w THEN to ELSE pc[q][v]
BY DEF TypeOK, Goto

\* A handler's local connection is written, and no other.
LEMMA ConnType ==
  ASSUME TypeOK, NEW p \in Procs, NEW w \in Workers, NEW c \in Conn \cup {None},
         conn' = [conn EXCEPT ![p][w] = c]
  PROVE  /\ conn' \in [Procs -> [Workers -> Conn \cup {None}]]
         /\ \A q \in Procs, v \in Workers :
              conn'[q][v] = IF q = p /\ v = w THEN c ELSE conn[q][v]
BY DEF TypeOK

LEMMA TmpType ==
  ASSUME TypeOK, NEW p \in Procs, NEW w \in Workers, NEW c \in Content,
         tmp' = [tmp EXCEPT ![p][w] = c]
  PROVE  /\ tmp' \in [Procs -> [Workers -> Content]]
         /\ \A q \in Procs, v \in Workers :
              tmp'[q][v] = IF q = p /\ v = w THEN c ELSE tmp[q][v]
BY DEF TypeOK

Domains ==
  /\ build \in [Procs -> Builds \cup {None}]
  /\ path \in Content
  /\ tmp \in [Procs -> [Workers -> Content]]
  /\ pc \in [Procs -> [Workers -> Stages]]
  /\ conn \in [Procs -> [Workers -> Conn \cup {None}]]
  /\ cache \in [Procs -> Conn \cup {None}]
  /\ leaks \in [Procs -> Nat]
  /\ mixed \in [Procs -> BOOLEAN]

Shape ==
  \A p \in Procs :
    /\ \A w \in Workers : conn[p][w] # None <=> pc[p][w] \in {"copying", "serving"}
    /\ build[p] = None => cache[p] = None /\ \A w \in Workers : pc[p][w] = "idle"

LEMMA TypeParts == TypeOK <=> Domains /\ Shape
BY DEF TypeOK, Domains, Shape

LEMMA TypePartsNext == TypeOK' <=> Domains' /\ Shape'
BY DEF TypeOK, Domains, Shape

\* A step without a connection before and after keeps the shape.
LEMMA ShapeKept ==
  ASSUME TypeOK, NEW p \in Procs, NEW w \in Workers,
         NEW from \in Stages \ {"copying", "serving"}, NEW to \in Stages \ {"copying", "serving"},
         Goto(p, w, from, to), conn' = conn, cache' = cache
  PROVE  Shape'
<1>1. /\ build' = build /\ build[p] # None /\ pc[p][w] = from
      /\ \A q \in Procs, v \in Workers : pc'[q][v] = IF q = p /\ v = w THEN to ELSE pc[q][v]
  BY GotoType, StoreAssumption
<1>2. Shape
  BY TypeParts
<1> QED
  BY <1>1, <1>2 DEF Shape

LEMMA HandleType ==
  ASSUME TypeOK, NEW p \in Procs, NEW w \in Workers, Handle(p, w)
  PROVE  TypeOK'
<1>0. Domains /\ Shape /\ None \in Content /\ Torn \in Content /\ None \notin Conn
  BY TypeParts, StoreAssumption DEF Content
<1>1. CASE Create(p, w)
  <2>1. Shape'
    BY <1>1, ShapeKept DEF Create
  <2>2. Domains'
    BY <1>0, <1>1, GotoType, TmpType DEF Create, Domains
  <2> QED
    BY <2>1, <2>2, TypePartsNext
<1>2. CASE Write(p, w)
  <2>1. build[p] \in Content
    BY <1>0 DEF Domains, Content
  <2>2. Shape'
    BY <1>2, ShapeKept DEF Write
  <2>3. Domains'
    BY <1>0, <1>2, <2>1, GotoType, TmpType DEF Write, Domains
  <2> QED
    BY <2>2, <2>3, TypePartsNext
<1>3. CASE Rename(p, w)
  <2>1. path' \in Content
    BY <1>0, <1>3 DEF Rename, Domains
  <2>2. Shape'
    BY <1>3, ShapeKept DEF Rename
  <2>3. Domains'
    BY <1>0, <1>3, <2>1, GotoType, TmpType DEF Rename, Domains
  <2> QED
    BY <2>2, <2>3, TypePartsNext
<1>4. CASE ExtractFails(p, w)
  <2>1. Shape'
    BY <1>4, ShapeKept DEF ExtractFails
  <2>2. Domains'
    BY <1>0, <1>4, GotoType DEF ExtractFails, Domains
  <2> QED
    BY <2>1, <2>2, TypePartsNext
<1>5. CASE Hit(p, w)
  <2>1. cache[p] \in Conn
    BY <1>0, <1>5 DEF Hit, Domains
  <2> QED
    BY <1>0, <1>5, <2>1, GotoType, ConnType, TypePartsNext DEF Hit, Domains, Shape
<1>6. CASE Miss(p, w)
  <2>1. Shape'
    BY <1>6, ShapeKept DEF Miss
  <2>2. Domains'
    BY <1>0, <1>6, GotoType DEF Miss, Domains
  <2> QED
    BY <2>1, <2>2, TypePartsNext
<1>7. CASE Open(p, w)
  <2>1. [by |-> w, content |-> path] \in Conn
    BY <1>0 DEF Conn, Domains
  <2> QED
    BY <1>0, <1>7, <2>1, GotoType, ConnType, TypePartsNext, SMTT(20) DEF Open, Domains, Shape
<1>8. CASE Publish(p, w)
  <2>1. conn[p][w] \in Conn
    BY <1>0, <1>8 DEF Publish, Goto, Domains, Shape
  <2>2. OrInsert(cache[p], conn[p][w]) \in Conn
    BY <1>0, <2>1 DEF OrInsert, Domains
  <2>3. /\ cache' \in [Procs -> Conn \cup {None}] /\ cache'[p] = OrInsert(cache[p], conn[p][w])
        /\ \A q \in Procs \ {p} : cache'[q] = cache[q]
    BY <1>0, <1>8, <2>2 DEF Publish, Domains
  <2>4. leaks' \in [Procs -> Nat]
    BY <1>0, <1>8 DEF Publish, Domains
  <2>5. /\ conn' \in [Procs -> [Workers -> Conn \cup {None}]]
        /\ \A q \in Procs, v \in Workers :
             conn'[q][v] = IF q = p /\ v = w THEN cache'[p] ELSE conn[q][v]
    <3>1. conn' = [conn EXCEPT ![p][w] = cache'[p]]
      BY <1>8 DEF Publish
    <3>2. PICK c \in Conn \cup {None} : c = cache'[p]
      BY <2>2, <2>3
    <3>3. conn' = [conn EXCEPT ![p][w] = c]
      BY <3>1, <3>2
    <3>4. /\ conn' \in [Procs -> [Workers -> Conn \cup {None}]]
          /\ \A q \in Procs, v \in Workers :
               conn'[q][v] = IF q = p /\ v = w THEN c ELSE conn[q][v]
      BY <1>0, <3>3, ConnType
    <3> QED
      BY <3>2, <3>4
  <2>6. Domains'
    BY <1>0, <1>8, <2>3, <2>4, <2>5, GotoType DEF Publish, Domains
  <2>7. Shape'
    BY <1>0, <1>8, <2>2, <2>3, <2>5, GotoType DEF Publish, Domains, Shape
  <2> QED
    BY <2>6, <2>7, TypePartsNext
<1>9. CASE Leave(p, w)
  BY <1>0, <1>9, GotoType, ConnType, TypePartsNext DEF Leave, Domains, Shape
<1> QED
  BY <1>1, <1>2, <1>3, <1>4, <1>5, <1>6, <1>7, <1>8, <1>9 DEF Handle

\* A handler has a connection only from the open to its end, and a process that
\* has stopped has no handler and no cached store.
THEOREM TypeCorrect == Spec => []TypeOK
<1>1. Init => TypeOK
  BY StoreAssumption DEF Init, TypeOK, Content
<1>2. TypeOK /\ [Next]_vars => TypeOK'
  <2> SUFFICES ASSUME TypeOK, [Next]_vars PROVE TypeOK'
    OBVIOUS
  <2>1. ASSUME NEW p \in Procs, NEW w \in Workers, Handle(p, w) PROVE TypeOK'
    BY <2>1, HandleType
  <2>2. ASSUME NEW p \in Procs, Stop(p) PROVE TypeOK'
    BY <2>2, TypeParts, TypePartsNext DEF Stop, Domains, Shape
  <2>3. ASSUME NEW p \in Procs, NEW b \in Builds, Start(p, b) PROVE TypeOK'
    <3>1. Domains /\ Shape
      BY TypeParts
    <3>2. build' \in [Procs -> Builds \cup {None}] /\ \A q \in Procs \ {p} : build'[q] = build[q]
      BY <2>3, <3>1 DEF Start, Domains
    <3>3. build'[p] = b /\ b # None
      BY <2>3, <3>1, StoreAssumption DEF Start, Domains
    <3>4. \A q \in Procs : (IF q = p THEN Others(p, b) # {} ELSE mixed[q] \/ q \in Others(p, b)) \in BOOLEAN
      BY <3>1 DEF Domains
    <3>5. mixed' \in [Procs -> BOOLEAN]
      BY <2>3, <3>4 DEF Start
    <3>6. Shape'
      BY <2>3, <3>1, <3>2, <3>3 DEF Start, Shape
    <3>7. Domains'
      BY <2>3, <3>1, <3>2, <3>5 DEF Start, Domains
    <3> QED
      BY <3>6, <3>7, TypePartsNext
  <2>4. CASE UNCHANGED vars
    BY <2>4, TypeParts, TypePartsNext DEF vars, Domains, Shape
  <2> QED
    BY <2>1, <2>2, <2>3, <2>4 DEF Next
<1> QED
  BY <1>1, <1>2, PTL DEF Spec

-----------------------------------------------------------------------------
(* What each step writes, point by point.                                   *)

Moved(p, w, from, to) ==
  /\ build' = build /\ mixed' = mixed /\ build[p] \in Builds
  /\ pc[p][w] = from
  /\ \A q \in Procs, v \in Workers : pc'[q][v] = IF q = p /\ v = w THEN to ELSE pc[q][v]

ConnSet(p, w, c) ==
  \A q \in Procs, v \in Workers : conn'[q][v] = IF q = p /\ v = w THEN c ELSE conn[q][v]

TmpSet(p, w, c) ==
  \A q \in Procs, v \in Workers : tmp'[q][v] = IF q = p /\ v = w THEN c ELSE tmp[q][v]

LEMMA MovedBy ==
  ASSUME TypeOK, NEW p \in Procs, NEW w \in Workers, NEW from \in Stages, NEW to \in Stages,
         Goto(p, w, from, to)
  PROVE  Moved(p, w, from, to)
BY GotoType DEF Moved

LEMMA ConnSetBy ==
  ASSUME TypeOK, NEW p \in Procs, NEW w \in Workers, NEW c,
         conn' = [conn EXCEPT ![p][w] = c]
  PROVE  ConnSet(p, w, c)
BY DEF TypeOK, ConnSet

LEMMA TmpSetBy ==
  ASSUME TypeOK, NEW p \in Procs, NEW w \in Workers, NEW c,
         tmp' = [tmp EXCEPT ![p][w] = c]
  PROVE  TmpSet(p, w, c)
BY DEF TypeOK, TmpSet

LEMMA CreateEffect ==
  ASSUME TypeOK, NEW p \in Procs, NEW w \in Workers, Create(p, w)
  PROVE  /\ Moved(p, w, "idle", "writing") /\ TmpSet(p, w, Torn)
         /\ UNCHANGED <<path, conn, cache, leaks>>
<1>1. Moved(p, w, "idle", "writing")
  BY MovedBy DEF Create
<1>2. TmpSet(p, w, Torn)
  BY TmpSetBy DEF Create
<1> QED
  BY <1>1, <1>2 DEF Create

LEMMA WriteEffect ==
  ASSUME TypeOK, NEW p \in Procs, NEW w \in Workers, Write(p, w)
  PROVE  /\ Moved(p, w, "writing", "written") /\ TmpSet(p, w, build[p])
         /\ UNCHANGED <<path, conn, cache, leaks>>
<1>1. Moved(p, w, "writing", "written")
  BY MovedBy DEF Write
<1>2. TmpSet(p, w, build[p])
  BY TmpSetBy DEF Write
<1> QED
  BY <1>1, <1>2 DEF Write

LEMMA RenameEffect ==
  ASSUME TypeOK, NEW p \in Procs, NEW w \in Workers, Rename(p, w)
  PROVE  /\ Moved(p, w, "written", "resolved") /\ TmpSet(p, w, None)
         /\ path' = tmp[p][w] /\ UNCHANGED <<conn, cache, leaks>>
<1>1. Moved(p, w, "written", "resolved")
  BY MovedBy DEF Rename
<1>2. TmpSet(p, w, None)
  BY TmpSetBy DEF Rename
<1> QED
  BY <1>1, <1>2 DEF Rename

LEMMA ExtractFailsEffect ==
  ASSUME TypeOK, NEW p \in Procs, NEW w \in Workers, ExtractFails(p, w)
  PROVE  /\ \E from \in {"writing", "written"} : Moved(p, w, from, "idle")
         /\ UNCHANGED <<path, tmp, conn, cache, leaks>>
BY MovedBy DEF ExtractFails

LEMMA HitEffect ==
  ASSUME TypeOK, NEW p \in Procs, NEW w \in Workers, Hit(p, w)
  PROVE  /\ Moved(p, w, "resolved", "serving") /\ ConnSet(p, w, cache[p])
         /\ cache[p] \in Conn /\ cache[p] # None /\ UNCHANGED <<path, tmp, cache, leaks>>
<1>1. cache[p] \in Conn
  BY DEF Hit, TypeOK
<1>2. Moved(p, w, "resolved", "serving")
  BY MovedBy DEF Hit
<1>3. ConnSet(p, w, cache[p])
  BY ConnSetBy DEF Hit
<1> QED
  BY <1>1, <1>2, <1>3 DEF Hit

LEMMA MissEffect ==
  ASSUME TypeOK, NEW p \in Procs, NEW w \in Workers, Miss(p, w)
  PROVE  /\ Moved(p, w, "resolved", "missed")
         /\ cache[p] = None /\ UNCHANGED <<path, tmp, conn, cache, leaks>>
BY MovedBy DEF Miss

LEMMA OpenEffect ==
  ASSUME TypeOK, NEW p \in Procs, NEW w \in Workers, Open(p, w)
  PROVE  /\ Moved(p, w, "missed", "copying")
         /\ \E c \in Conn : c.content = path /\ ConnSet(p, w, c)
         /\ UNCHANGED <<path, tmp, cache, leaks>>
<1>1. [by |-> w, content |-> path] \in Conn
  BY DEF TypeOK, Conn
<1>2. Moved(p, w, "missed", "copying")
  BY MovedBy DEF Open
<1>3. ConnSet(p, w, [by |-> w, content |-> path])
  BY ConnSetBy DEF Open
<1> QED
  BY <1>1, <1>2, <1>3 DEF Open

\* The store of the process is the one it had, or else the handler's.
LEMMA PublishEffect ==
  ASSUME TypeOK, NEW p \in Procs, NEW w \in Workers, Publish(p, w)
  PROVE  \E c \in Conn :
           /\ Moved(p, w, "copying", "serving") /\ ConnSet(p, w, c)
           /\ cache[p] # None => c = cache[p]
           /\ cache[p] = None => c = conn[p][w]
           /\ cache'[p] = c /\ \A q \in Procs \ {p} : cache'[q] = cache[q]
           /\ cache' = [cache EXCEPT ![p] = c]
           /\ leaks'[p] = leaks[p] + 1 /\ \A q \in Procs \ {p} : leaks'[q] = leaks[q]
           /\ UNCHANGED <<path, tmp>>
<1> DEFINE c == OrInsert(cache[p], conn[p][w])
<1>1. Domains /\ Shape
  BY TypeParts
<1>2. conn[p][w] \in Conn
  BY <1>1 DEF Publish, Goto, Domains, Shape
<1>3. c \in Conn /\ (cache[p] # None => c = cache[p]) /\ (cache[p] = None => c = conn[p][w])
  BY <1>1, <1>2 DEF OrInsert, Domains
<1>4. /\ cache' = [cache EXCEPT ![p] = c] /\ leaks' = [leaks EXCEPT ![p] = leaks[p] + 1]
      /\ conn' = [conn EXCEPT ![p][w] = cache'[p]] /\ UNCHANGED <<path, tmp>>
      /\ Goto(p, w, "copying", "serving")
  BY DEF Publish
<1> HIDE DEF c
<1>5. cache'[p] = c /\ \A q \in Procs \ {p} : cache'[q] = cache[q]
  BY <1>1, <1>4 DEF Domains
<1>6. ConnSet(p, w, c)
  BY <1>4, <1>5, ConnSetBy
<1>7. leaks'[p] = leaks[p] + 1 /\ \A q \in Procs \ {p} : leaks'[q] = leaks[q]
  BY <1>1, <1>4 DEF Domains
<1>8. Moved(p, w, "copying", "serving")
  BY <1>4, MovedBy
<1> QED
  BY <1>3, <1>4, <1>5, <1>6, <1>7, <1>8

LEMMA LeaveEffect ==
  ASSUME TypeOK, NEW p \in Procs, NEW w \in Workers, Leave(p, w)
  PROVE  /\ \E from \in {"missed", "copying", "serving"} : Moved(p, w, from, "idle")
         /\ ConnSet(p, w, None) /\ UNCHANGED <<path, tmp, cache, leaks>>
<1>1. \E from \in {"missed", "copying", "serving"} : Moved(p, w, from, "idle")
  BY MovedBy DEF Leave
<1>2. ConnSet(p, w, None)
  BY ConnSetBy DEF Leave
<1> QED
  BY <1>1, <1>2 DEF Leave

LEMMA StopEffect ==
  ASSUME TypeOK, NEW p \in Procs, Stop(p)
  PROVE  /\ build'[p] = None /\ cache'[p] = None /\ leaks'[p] = 0
         /\ \A v \in Workers : pc'[p][v] = "idle" /\ conn'[p][v] = None
         /\ \A q \in Procs \ {p} :
              /\ build'[q] = build[q] /\ cache'[q] = cache[q] /\ leaks'[q] = leaks[q]
              /\ mixed'[q] = mixed[q]
              /\ \A v \in Workers : pc'[q][v] = pc[q][v] /\ conn'[q][v] = conn[q][v]
         /\ UNCHANGED <<path, tmp>>
BY DEF Stop, TypeOK

LEMMA StartEffect ==
  ASSUME TypeOK, NEW p \in Procs, NEW b \in Builds, Start(p, b)
  PROVE  /\ build[p] = None /\ build'[p] = b /\ cache[p] = None
         /\ \A v \in Workers : pc[p][v] = "idle" /\ conn[p][v] = None
         /\ ~mixed'[p] => Others(p, b) = {}
         /\ \A q \in Procs \ {p} :
              build'[q] = build[q] /\ (~mixed'[q] => ~mixed[q] /\ q \notin Others(p, b))
         /\ UNCHANGED <<path, tmp, pc, conn, cache, leaks>>
<1>1. Domains /\ Shape
  BY TypeParts
<1>2. build[p] = None /\ build'[p] = b /\ \A q \in Procs \ {p} : build'[q] = build[q]
  BY <1>1 DEF Start, Domains
<1>3. cache[p] = None /\ \A v \in Workers : pc[p][v] = "idle" /\ conn[p][v] = None
  BY <1>1, <1>2 DEF Shape
<1>4. ~mixed'[p] => Others(p, b) = {}
  BY DEF Start
<1>5. \A q \in Procs \ {p} : ~mixed'[q] => ~mixed[q] /\ q \notin Others(p, b)
  BY DEF Start
<1> QED
  BY <1>2, <1>3, <1>4, <1>5 DEF Start

-----------------------------------------------------------------------------
(* Only whole stores are opened.                                            *)

Whole == OpensWholeStore /\ WholeStore

LEMMA HandleWhole ==
  ASSUME TypeOK, Whole, NEW p \in Procs, NEW w \in Workers, Handle(p, w)
  PROVE  Whole'
<1>0. Torn \notin Builds /\ None \notin Builds /\ None # Torn /\ Shape /\ path \in Content
  BY StoreAssumption, TypeParts DEF TypeOK
<1> USE DEF Whole, WholeStore, OpensWholeStore, Moved
<1>1. CASE Create(p, w)
  BY <1>0, <1>1, CreateEffect DEF TmpSet
<1>2. CASE Write(p, w)
  BY <1>0, <1>2, WriteEffect DEF TmpSet
<1>3. CASE Rename(p, w)
  BY <1>0, <1>3, RenameEffect DEF TmpSet
<1>4. CASE ExtractFails(p, w)
  BY <1>0, <1>4, ExtractFailsEffect
<1>5. CASE Hit(p, w)
  BY <1>0, <1>5, HitEffect DEF ConnSet
<1>6. CASE Miss(p, w)
  BY <1>0, <1>6, MissEffect
<1>7. CASE Open(p, w)
  <2>1. path \in Builds
    BY <1>0, <1>7, OpenEffect DEF Content
  <2> QED
    BY <1>0, <1>7, <2>1, OpenEffect DEF ConnSet
<1>8. CASE Publish(p, w)
  BY <1>0, <1>8, PublishEffect DEF ConnSet, Shape
<1>9. CASE Leave(p, w)
  BY <1>0, <1>9, LeaveEffect DEF ConnSet
<1> QED
  BY <1>1, <1>2, <1>3, <1>4, <1>5, <1>6, <1>7, <1>8, <1>9 DEF Handle

\* store.rs:76-84: a handler renames what it has written to its end, and nothing
\* else reaches the path, whatever crashes in between.
THEOREM WholeInductive == Spec => []Whole
<1>1. Init => Whole
  BY StoreAssumption DEF Init, Whole, WholeStore, OpensWholeStore
<1>2. TypeOK /\ Whole /\ [Next]_vars => Whole'
  <2> SUFFICES ASSUME TypeOK, Whole, [Next]_vars PROVE Whole'
    OBVIOUS
  <2> USE DEF Whole, WholeStore, OpensWholeStore
  <2>1. ASSUME NEW p \in Procs, NEW w \in Workers, Handle(p, w) PROVE Whole'
    BY <2>1, HandleWhole
  <2>2. ASSUME NEW p \in Procs, Stop(p) PROVE Whole'
    BY <2>2, TypeParts DEF Stop, Domains
  <2>3. ASSUME NEW p \in Procs, NEW b \in Builds, Start(p, b) PROVE Whole'
    <3>1. \A q \in Procs, v \in Workers : pc[q][v] = "written" => build'[q] = build[q]
      BY <2>3, TypeParts DEF Start, Domains, Shape
    <3> QED
      BY <2>3, <3>1 DEF Start
  <2>4. CASE UNCHANGED vars
    BY <2>4 DEF vars
  <2> QED
    BY <2>1, <2>2, <2>3, <2>4 DEF Next
<1> QED
  BY <1>1, <1>2, TypeCorrect, PTL DEF Spec

\* So no handler of any process ever opens a missing or a half-written store.
THEOREM AlwaysOpensWholeStore == Spec => []OpensWholeStore
<1>1. Whole => OpensWholeStore
  BY DEF Whole
<1> QED
  BY <1>1, WholeInductive, PTL

-----------------------------------------------------------------------------
(* Without another build at work, the own build is served.                  *)

Fresh == SameBuild /\ NeverStale

LEMMA HandleFresh ==
  ASSUME TypeOK, Whole, Fresh, NEW p \in Procs, NEW w \in Workers, Handle(p, w)
  PROVE  Fresh'
<1>0. None \notin Builds /\ Shape
  BY StoreAssumption, TypeParts
<1> USE DEF Fresh, SameBuild, NeverStale, Moved
<1>1. CASE Create(p, w) \/ Write(p, w) \/ ExtractFails(p, w) \/ Miss(p, w)
  BY <1>0, <1>1, CreateEffect, WriteEffect, ExtractFailsEffect, MissEffect
<1>2. CASE Rename(p, w)
  <2>1. path' = build[p] /\ Moved(p, w, "written", "resolved") /\ conn' = conn /\ cache' = cache
    BY <1>2, RenameEffect DEF Whole, WholeStore
  <2>2. \A q \in Procs, v \in Workers : pc[q][v] # "idle" => build[q] # None
    BY <1>0 DEF Shape
  <2> QED
    BY <1>0, <2>1, <2>2
<1>3. CASE Hit(p, w)
  BY <1>0, <1>3, HitEffect DEF ConnSet
<1>4. CASE Open(p, w)
  BY <1>0, <1>4, OpenEffect DEF ConnSet
<1>5. CASE Publish(p, w)
  BY <1>0, <1>5, PublishEffect DEF ConnSet, Shape
<1>6. CASE Leave(p, w)
  BY <1>0, <1>6, LeaveEffect DEF ConnSet
<1> QED
  BY <1>1, <1>2, <1>3, <1>4, <1>5, <1>6 DEF Handle

\* While no other build runs, from its own rename on a handler finds at the path
\* the bytes of its own build, whichever process renamed last.
THEOREM FreshInductive == Spec => []Fresh
<1>1. Init => Fresh
  BY DEF Init, Fresh, SameBuild, NeverStale
<1>2. TypeOK /\ Whole /\ Fresh /\ [Next]_vars => Fresh'
  <2> SUFFICES ASSUME TypeOK, Whole, Fresh, [Next]_vars PROVE Fresh'
    OBVIOUS
  <2>0. None \notin Builds /\ Domains /\ Shape
    BY StoreAssumption, TypeParts
  <2> USE DEF Fresh, SameBuild, NeverStale
  <2>1. ASSUME NEW p \in Procs, NEW w \in Workers, Handle(p, w) PROVE Fresh'
    BY <2>1, HandleFresh
  <2>2. ASSUME NEW p \in Procs, Stop(p) PROVE Fresh'
    BY <2>0, <2>2, StopEffect
  <2>3. ASSUME NEW p \in Procs, NEW b \in Builds, Start(p, b) PROVE Fresh'
    <3>1. \A q \in Procs \ {p} : build[q] # None /\ q \notin Others(p, b) => build[q] = b
      BY DEF Others
    <3> QED
      BY <2>0, <2>3, <3>1, StartEffect
  <2>4. CASE UNCHANGED vars
    BY <2>4 DEF vars
  <2> QED
    BY <2>1, <2>2, <2>3, <2>4 DEF Next
<1> QED
  BY <1>1, <1>2, TypeCorrect, WholeInductive, PTL DEF Spec

\* store.rs:50-54, as long as no server of another build runs beside this one:
\* nothing an earlier install or a crash left behind is ever served.
THEOREM AlwaysNeverStale == Spec => []NeverStale
<1>1. Fresh => NeverStale
  BY DEF Fresh
<1> QED
  BY <1>1, FreshInductive, PTL

-----------------------------------------------------------------------------
(* One handle per process.                                                  *)

\* Every handler that serves has the connection of CACHE, whichever handlers
\* missed it at once.
THEOREM AlwaysOneHandle == Spec => []OneHandle
<1>1. Init => OneHandle
  BY DEF Init, OneHandle
<1>2. TypeOK /\ OneHandle /\ [Next]_vars => OneHandle'
  <2> SUFFICES ASSUME TypeOK, OneHandle, [Next]_vars PROVE OneHandle'
    OBVIOUS
  <2>0. None \notin Conn /\ None \notin Builds
    BY StoreAssumption
  <2> USE DEF OneHandle, Moved, ConnSet
  <2>1. ASSUME NEW p \in Procs, NEW w \in Workers,
               Create(p, w) \/ Write(p, w) \/ Rename(p, w) \/ ExtractFails(p, w)
        PROVE  OneHandle'
    BY <2>1, CreateEffect, WriteEffect, RenameEffect, ExtractFailsEffect
  <2>2. ASSUME NEW p \in Procs, NEW w \in Workers, Hit(p, w) PROVE OneHandle'
    BY <2>2, HitEffect
  <2>3. ASSUME NEW p \in Procs, NEW w \in Workers, Miss(p, w) PROVE OneHandle'
    BY <2>3, MissEffect
  <2>4. ASSUME NEW p \in Procs, NEW w \in Workers, Open(p, w) PROVE OneHandle'
    BY <2>4, OpenEffect
  <2>5. ASSUME NEW p \in Procs, NEW w \in Workers, Publish(p, w) PROVE OneHandle'
    BY <2>0, <2>5, PublishEffect
  <2>6. ASSUME NEW p \in Procs, NEW w \in Workers, Leave(p, w) PROVE OneHandle'
    BY <2>6, LeaveEffect
  <2>7. ASSUME NEW p \in Procs, Stop(p) PROVE OneHandle'
    BY <2>7, StopEffect
  <2>8. CASE (\E p \in Procs, b \in Builds : Start(p, b)) \/ UNCHANGED vars
    BY <2>8 DEF Start, vars
  <2> QED
    BY <2>1, <2>2, <2>3, <2>4, <2>5, <2>6, <2>7, <2>8 DEF Next, Handle
<1> QED
  BY <1>1, <1>2, TypeCorrect, PTL DEF Spec

\* Within a process only the acting handler's stage changes, so the handlers in
\* flight only change by that one.
LEMMA InFlightOf ==
  ASSUME NEW p \in Procs, NEW w \in Workers, NEW from, NEW to, Moved(p, w, from, to)
  PROVE  /\ \A q \in Procs \ {p} : InFlight(q)' = InFlight(q)
         /\ to \in {"missed", "copying"} => InFlight(p)' = InFlight(p) \cup {w}
         /\ to \notin {"missed", "copying"} => InFlight(p)' = InFlight(p) \ {w}
         /\ from \in {"missed", "copying"} <=> w \in InFlight(p)
BY DEF Moved, InFlight

LEMMA InFlightFinite ==
  ASSUME NEW S \in SUBSET Workers
  PROVE  /\ IsFiniteSet(S) /\ Cardinality(S) \in Nat /\ Cardinality(Workers) \in Nat
         /\ Cardinality(S) <= Cardinality(Workers)
BY StoreAssumption, FS_Subset, FS_CardinalityType

LEMMA HandleLeaks ==
  ASSUME TypeOK, LeaksCounted, NEW p \in Procs, NEW w \in Workers, Handle(p, w)
  PROVE  LeaksCounted'
<1> DEFINE before == InFlight(p)
           after == InFlight(p)'
<1>0. /\ before \in SUBSET Workers /\ after \in SUBSET Workers
      /\ \A q \in Procs : leaks[q] \in Nat
      /\ leaks[p] + Cardinality(before) <= Cardinality(Workers)
      /\ cache[p] = None => leaks[p] = 0
      /\ None \notin Conn
  BY StoreAssumption DEF InFlight, LeaksCounted, TypeOK
<1>1. /\ IsFiniteSet(before) /\ Cardinality(before) \in Nat /\ Cardinality(Workers) \in Nat
      /\ Cardinality(after) \in Nat /\ Cardinality(after) <= Cardinality(Workers)
  <2> HIDE DEF before, after
  <2> QED
    BY <1>0, InFlightFinite
<1>2. ASSUME \A q \in Procs \ {p} : InFlight(q)' = InFlight(q),
             leaks' = leaks, cache' = cache, after \subseteq before
      PROVE  LeaksCounted'
  <2>1. Cardinality(after) <= Cardinality(before)
    <3> HIDE DEF before, after
    <3> QED
      BY <1>1, <1>2, FS_Subset
  <2>2. leaks[p] + Cardinality(after) <= Cardinality(Workers)
    <3> HIDE DEF before, after
    <3> QED
      BY <1>0, <1>1, <2>1
  <2>3. \A q \in Procs : leaks'[q] + Cardinality(InFlight(q)') <= Cardinality(Workers)
    BY <1>2, <2>2 DEF LeaksCounted
  <2> QED
    BY <1>2, <2>3 DEF LeaksCounted
<1>3. CASE Create(p, w) \/ Write(p, w) \/ Rename(p, w) \/ ExtractFails(p, w) \/ Hit(p, w)
  <2>1. /\ \E from \in Stages, to \in {"idle", "writing", "written", "resolved", "serving"} :
             Moved(p, w, from, to)
        /\ leaks' = leaks /\ cache' = cache
    BY <1>3, CreateEffect, WriteEffect, RenameEffect, ExtractFailsEffect, HitEffect
  <2> QED
    BY <1>2, <2>1, InFlightOf
<1>4. CASE Miss(p, w)
  <2>1. Moved(p, w, "resolved", "missed") /\ cache[p] = None /\ cache' = cache /\ leaks' = leaks
    BY <1>4, MissEffect
  <2>2. leaks[p] + Cardinality(after) <= Cardinality(Workers)
    BY <1>0, <1>1, <2>1
  <2>3. \A q \in Procs \ {p} : InFlight(q)' = InFlight(q)
    BY <2>1, InFlightOf
  <2>4. \A q \in Procs : leaks'[q] + Cardinality(InFlight(q)') <= Cardinality(Workers)
    BY <2>1, <2>2, <2>3 DEF LeaksCounted
  <2> QED
    BY <2>1, <2>4 DEF LeaksCounted
<1>5. CASE Open(p, w)
  <2>1. Moved(p, w, "missed", "copying") /\ leaks' = leaks /\ cache' = cache
    BY <1>5, OpenEffect
  <2> QED
    BY <1>2, <2>1, InFlightOf
<1>6. CASE Publish(p, w)
  <2>1. /\ Moved(p, w, "copying", "serving") /\ leaks'[p] = leaks[p] + 1 /\ cache'[p] # None
        /\ \A q \in Procs \ {p} : leaks'[q] = leaks[q] /\ cache'[q] = cache[q]
    BY <1>0, <1>6, PublishEffect
  <2>2. after = before \ {w} /\ w \in before /\ \A q \in Procs \ {p} : InFlight(q)' = InFlight(q)
    BY <2>1, InFlightOf
  <2>3. Cardinality(after) = Cardinality(before) - 1
    <3> HIDE DEF before, after
    <3> QED
      BY <1>1, <2>2, FS_RemoveElement
  <2>4. leaks'[p] + Cardinality(after) <= Cardinality(Workers)
    <3> HIDE DEF before, after
    <3> QED
      BY <1>0, <1>1, <2>1, <2>3
  <2>5. \A q \in Procs : leaks'[q] + Cardinality(InFlight(q)') <= Cardinality(Workers)
    BY <2>1, <2>2, <2>4 DEF LeaksCounted
  <2> QED
    BY <2>1, <2>5 DEF LeaksCounted
<1>7. CASE Leave(p, w)
  <2>1. /\ \E from \in Stages : Moved(p, w, from, "idle")
        /\ leaks' = leaks /\ cache' = cache
    BY <1>7, LeaveEffect
  <2> QED
    BY <1>2, <2>1, InFlightOf
<1> QED
  BY <1>3, <1>4, <1>5, <1>6, <1>7 DEF Handle

\* However many handlers race to insert their copy, no more copies are leaked
\* than handlers run at once: a handler that finds CACHE set leaks none.
THEOREM LeaksAlwaysBounded == Spec => []LeaksBounded
<1>1. Init => LeaksCounted
  <2> SUFFICES ASSUME Init, NEW p \in Procs
               PROVE  leaks[p] + Cardinality(InFlight(p)) <= Cardinality(Workers) /\ leaks[p] = 0
    BY DEF LeaksCounted
  <2>1. InFlight(p) \in SUBSET Workers /\ leaks[p] = 0
    BY DEF Init, InFlight
  <2> QED
    BY <2>1, InFlightFinite
<1>2. TypeOK /\ LeaksCounted /\ [Next]_vars => LeaksCounted'
  <2> SUFFICES ASSUME TypeOK, LeaksCounted, [Next]_vars PROVE LeaksCounted'
    OBVIOUS
  <2>1. ASSUME NEW p \in Procs, NEW w \in Workers, Handle(p, w) PROVE LeaksCounted'
    BY <2>1, HandleLeaks
  <2>2. ASSUME NEW p \in Procs, Stop(p) PROVE LeaksCounted'
    <3>1. \A q \in Procs \ {p} : InFlight(q)' = InFlight(q) /\ leaks'[q] = leaks[q] /\ cache'[q] = cache[q]
      BY <2>2, StopEffect DEF InFlight
    <3>2. leaks'[p] = 0 /\ InFlight(p)' \in SUBSET Workers
      BY <2>2, StopEffect DEF InFlight
    <3>3. leaks'[p] + Cardinality(InFlight(p)') <= Cardinality(Workers)
      BY <3>2, InFlightFinite
    <3> QED
      BY <3>1, <3>2, <3>3 DEF LeaksCounted
  <2>3. CASE (\E p \in Procs, b \in Builds : Start(p, b)) \/ UNCHANGED vars
    BY <2>3 DEF Start, vars, LeaksCounted, InFlight
  <2> QED
    BY <2>1, <2>2, <2>3 DEF Next
<1>3. TypeOK /\ LeaksCounted => LeaksBounded
  <2> SUFFICES ASSUME TypeOK, LeaksCounted, NEW p \in Procs PROVE leaks[p] <= Cardinality(Workers)
    BY DEF LeaksBounded
  <2>1. InFlight(p) \in SUBSET Workers /\ leaks[p] \in Nat
    BY DEF InFlight, TypeOK
  <2>2. Cardinality(InFlight(p)) \in Nat /\ Cardinality(Workers) \in Nat
    BY <2>1, InFlightFinite
  <2> QED
    BY <2>1, <2>2 DEF LeaksCounted
<1> QED
  BY <1>1, <1>2, <1>3, TypeCorrect, PTL DEF Spec

-----------------------------------------------------------------------------
(* StoreCache implements OnceCells.                                         *)

\* Only handlers that begin or end to serve change what is held.
LEMMA HeldSame ==
  ASSUME NEW p \in Procs, NEW w \in Workers, NEW from, NEW to, Moved(p, w, from, to),
         from # "serving", to # "serving",
         \A q \in Procs, v \in Workers : pc[q][v] = "serving" => conn'[q][v] = conn[q][v]
  PROVE  Held' = Held
BY DEF Held, Moved

LEMMA HeldSet ==
  ASSUME NEW p \in Procs, NEW w \in Workers, NEW from, NEW to, Moved(p, w, from, to),
         NEW c, ConnSet(p, w, c), to = "serving" \/ c = None
  PROVE  Held' = [Held EXCEPT ![p][w] = c]
<1>1. \A q \in Procs, v \in Workers :
        Held'[q][v] = IF q = p /\ v = w THEN c ELSE Held[q][v]
  BY DEF Held, Moved, ConnSet
<1>2. Held' = [q \in Procs |-> [v \in Workers |-> Held'[q][v]]]
  BY DEF Held
<1>3. [Held EXCEPT ![p][w] = c] =
        [q \in Procs |-> [v \in Workers |-> IF q = p /\ v = w THEN c ELSE Held[q][v]]]
  BY DEF Held
<1> QED
  BY <1>1, <1>2, <1>3

LEMMA OnceStep ==
  ASSUME TypeOK, OneHandle, [Next]_vars
  PROVE  Once!Next \/ (cache' = cache /\ Held' = Held)
<1> DEFINE Stutter == cache' = cache /\ Held' = Held
<1>0. None \notin Conn /\ Shape
  BY StoreAssumption, TypeParts
<1>1. ASSUME NEW p \in Procs, NEW w \in Workers,
             Create(p, w) \/ Write(p, w) \/ Rename(p, w) \/ ExtractFails(p, w) \/ Miss(p, w)
      PROVE  Stutter
  <2>1. /\ \E from \in {"idle", "writing", "written", "resolved"},
              to \in {"idle", "writing", "written", "resolved", "missed"} : Moved(p, w, from, to)
        /\ conn' = conn /\ cache' = cache
    BY <1>1, CreateEffect, WriteEffect, RenameEffect, ExtractFailsEffect, MissEffect
  <2> QED
    BY <2>1, HeldSame
<1>2. ASSUME NEW p \in Procs, NEW w \in Workers, Open(p, w) PROVE Stutter
  <2>1. /\ Moved(p, w, "missed", "copying") /\ cache' = cache
        /\ \E c \in Conn : ConnSet(p, w, c)
    BY <1>2, OpenEffect
  <2>2. \A q \in Procs, v \in Workers : pc[q][v] = "serving" => conn'[q][v] = conn[q][v]
    BY <2>1 DEF Moved, ConnSet
  <2> QED
    BY <2>1, <2>2, HeldSame
<1>3. ASSUME NEW p \in Procs, NEW w \in Workers, Hit(p, w) PROVE Once!Obtain(p, w)
  <2>1. /\ Moved(p, w, "resolved", "serving") /\ ConnSet(p, w, cache[p])
        /\ cache[p] # None /\ cache' = cache
    BY <1>3, HitEffect
  <2>2. Held' = [Held EXCEPT ![p][w] = cache[p]]
    BY <2>1, HeldSet
  <2>3. Held[p][w] = None
    BY <2>1 DEF Held, Moved
  <2>4. cache' = [cache EXCEPT ![p] = cache'[p]]
    BY <2>1 DEF TypeOK
  <2> QED
    BY <2>1, <2>2, <2>3, <2>4 DEF Once!Obtain
<1>4. ASSUME NEW p \in Procs, NEW w \in Workers, Publish(p, w) PROVE Once!Obtain(p, w)
  <2>1. PICK c \in Conn :
          /\ Moved(p, w, "copying", "serving") /\ ConnSet(p, w, c)
          /\ cache[p] # None => c = cache[p]
          /\ cache'[p] = c /\ cache' = [cache EXCEPT ![p] = c]
    BY <1>4, PublishEffect
  <2>2. Held' = [Held EXCEPT ![p][w] = c]
    BY <2>1, HeldSet
  <2>3. Held[p][w] = None
    BY <2>1 DEF Held, Moved
  <2> QED
    BY <1>0, <2>1, <2>2, <2>3 DEF Once!Obtain
<1>5. ASSUME NEW p \in Procs, NEW w \in Workers, Leave(p, w)
      PROVE  Once!Release(p, w) \/ Stutter
  <2>1. PICK from \in {"missed", "copying", "serving"} : Moved(p, w, from, "idle")
    BY <1>5, LeaveEffect
  <2>2. ConnSet(p, w, None) /\ cache' = cache
    BY <1>5, LeaveEffect
  <2>3. CASE from = "serving"
    <3>1. Held[p][w] # None
      BY <1>0, <2>1, <2>3 DEF Held, Moved, Shape
    <3>2. Held' = [Held EXCEPT ![p][w] = None]
      BY <2>1, <2>2, HeldSet
    <3> QED
      BY <2>2, <3>1, <3>2 DEF Once!Release
  <2>4. CASE from # "serving"
    <3>1. \A q \in Procs, v \in Workers : pc[q][v] = "serving" => conn'[q][v] = conn[q][v]
      BY <2>1, <2>2, <2>4 DEF Moved, ConnSet
    <3> QED
      BY <2>1, <2>2, <2>4, <3>1, HeldSame
  <2> QED
    BY <2>3, <2>4
<1>6. ASSUME NEW p \in Procs, Stop(p) PROVE Once!Restart(p)
  <2>1. \A q \in Procs, v \in Workers : Held'[q][v] = IF q = p THEN None ELSE Held[q][v]
    BY <1>6, StopEffect DEF Held
  <2>2. Held' = [Held EXCEPT ![p] = [v \in Workers |-> None]]
    BY <2>1 DEF Held
  <2> QED
    BY <1>6, <2>2 DEF Stop, Once!Restart
<1>7. ASSUME (\E p \in Procs, b \in Builds : Start(p, b)) \/ UNCHANGED vars
      PROVE  Stutter
  BY <1>7 DEF Start, vars, Held
<1>8. ASSUME NEW p \in Procs, NEW w \in Workers, Once!Obtain(p, w) \/ Once!Release(p, w) \/ Once!Restart(p)
      PROVE  Once!Next
  BY <1>8 DEF Once!Next
<1>9. ASSUME NEW p \in Procs, Once!Restart(p)
      PROVE  Once!Next
  BY <1>9 DEF Once!Next
<1> HIDE DEF Stutter
<1>10. Once!Next \/ Stutter
  BY <1>1, <1>2, <1>3, <1>4, <1>5, <1>6, <1>7, <1>8, <1>9 DEF Next, Handle
<1> QED
  BY <1>10 DEF Stutter

\* CACHE is a cell set once per process, which every handler of the process
\* gets, although it is unlocked between the check and the insert.
THEOREM CachesOnce == Spec => OnceRefinement
<1>1. Init => Once!Init
  BY DEF Init, Once!Init, Held
<1>2. TypeOK /\ OneHandle /\ [Next]_vars => [Once!Next]_<<cache, Held>>
  BY OnceStep
<1> QED
  BY <1>1, <1>2, TypeCorrect, AlwaysOneHandle, PTL DEF Spec, OnceRefinement, Once!Spec
=============================================================================
