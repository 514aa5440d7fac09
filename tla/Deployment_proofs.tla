-------------------------- MODULE Deployment_proofs --------------------------
(* Proofs about Deployment: which layer a field comes from, for any files,  *)
(* environments and numbers.                                                *)
EXTENDS Deployment, TLAPS

-----------------------------------------------------------------------------
(* Partial maps.                                                            *)

LEMMA ExtendAt ==
  ASSUME NEW m, NEW l, NEW f
  PROVE  /\ f \in DOMAIN Extend(m, l) <=> f \in DOMAIN m \/ f \in DOMAIN l
         /\ f \in DOMAIN l => Extend(m, l)[f] = l[f]
         /\ f \in DOMAIN m /\ f \notin DOMAIN l => Extend(m, l)[f] = m[f]
  BY DEF Extend

\* Merging keeps every field that some layer sets, as the highest one sets it.
LEMMA MergedAt ==
  ASSUME NEW ls, NEW f
  PROVE  /\ f \in DOMAIN Merged(ls) <=> SetIn(ls, f) # {}
         /\ \A i \in SetIn(ls, f) :
              (\A j \in SetIn(ls, f) : i <= j) => Merged(ls)[f] = ls[i][f]
  <1> DEFINE m5 == Extend(ls[6], ls[5])
             m4 == Extend(m5, ls[4])
             m3 == Extend(m4, ls[3])
             m2 == Extend(m3, ls[2])
             m1 == Extend(m2, ls[1])
             D(i) == f \in DOMAIN ls[i]
  <1>1. /\ f \in DOMAIN m5 <=> D(6) \/ D(5)
        /\ D(5) => m5[f] = ls[5][f]
        /\ D(6) /\ ~D(5) => m5[f] = ls[6][f]
    BY ExtendAt
  <1>2. /\ f \in DOMAIN m4 <=> f \in DOMAIN m5 \/ D(4)
        /\ D(4) => m4[f] = ls[4][f]
        /\ f \in DOMAIN m5 /\ ~D(4) => m4[f] = m5[f]
    <2> HIDE DEF m5
    <2>1. QED BY ExtendAt
  <1>3. /\ f \in DOMAIN m3 <=> f \in DOMAIN m4 \/ D(3)
        /\ D(3) => m3[f] = ls[3][f]
        /\ f \in DOMAIN m4 /\ ~D(3) => m3[f] = m4[f]
    <2> HIDE DEF m4
    <2>1. QED BY ExtendAt
  <1>4. /\ f \in DOMAIN m2 <=> f \in DOMAIN m3 \/ D(2)
        /\ D(2) => m2[f] = ls[2][f]
        /\ f \in DOMAIN m3 /\ ~D(2) => m2[f] = m3[f]
    <2> HIDE DEF m3
    <2>1. QED BY ExtendAt
  <1>5. /\ f \in DOMAIN m1 <=> f \in DOMAIN m2 \/ D(1)
        /\ D(1) => m1[f] = ls[1][f]
        /\ f \in DOMAIN m2 /\ ~D(1) => m1[f] = m2[f]
    <2> HIDE DEF m2
    <2>1. QED BY ExtendAt
  <1>6. Merged(ls) = m1
    BY DEF Merged
  <1> HIDE DEF m1, m2, m3, m4, m5
  <1>7. \A i \in 1 .. 6 : i \in SetIn(ls, f) <=> D(i)
    BY DEF SetIn
  <1> HIDE DEF D
  <1>8. SetIn(ls, f) \subseteq 1 .. 6
    BY DEF SetIn
  <1>9. SetIn(ls, f) # {} <=> D(1) \/ D(2) \/ D(3) \/ D(4) \/ D(5) \/ D(6)
    BY <1>7, <1>8
  <1>10. ASSUME NEW i \in SetIn(ls, f), \A j \in SetIn(ls, f) : i <= j
         PROVE  m1[f] = ls[i][f]
    <2>1. i \in 1 .. 6 /\ D(i) /\ \A j \in 1 .. 6 : j < i => ~D(j)
      BY <1>7, <1>8, <1>10
    <2>2. i = 1 \/ i = 2 \/ i = 3 \/ i = 4 \/ i = 5 \/ i = 6
      BY <2>1
    <2>3. QED BY <2>1, <2>2, <1>1, <1>2, <1>3, <1>4, <1>5
  <1>11. QED BY <1>1, <1>2, <1>3, <1>4, <1>5, <1>6, <1>9, <1>10

LEMMA FirstExists ==
  ASSUME NEW ls, NEW f, SetIn(ls, f) # {}
  PROVE  /\ FirstMatch(ls, f) \in SetIn(ls, f)
         /\ \A j \in SetIn(ls, f) : FirstMatch(ls, f) <= j
  <1>1. SetIn(ls, f) \subseteq 1 .. 6
    BY DEF SetIn
  <1>2. \E i \in SetIn(ls, f) : \A j \in SetIn(ls, f) : i <= j
    <2> DEFINE S == SetIn(ls, f)
    <2>1. S \subseteq 1 .. 6 /\ S # {}
      BY <1>1
    <2> HIDE DEF S
    <2>2. 1 \in S \/ 2 \in S \/ 3 \in S \/ 4 \in S \/ 5 \in S \/ 6 \in S
      <3>1. PICK x \in S : TRUE
        BY <2>1
      <3>2. x = 1 \/ x = 2 \/ x = 3 \/ x = 4 \/ x = 5 \/ x = 6
        BY <2>1
      <3>3. QED BY <3>1, <3>2
    <2>3. \E i \in S : \A j \in S : i <= j
      <3>1. \A j \in S : j = 1 \/ j = 2 \/ j = 3 \/ j = 4 \/ j = 5 \/ j = 6
        BY <2>1
      <3>2. CASE 1 \in S
        BY <3>1, <3>2
      <3>3. CASE 1 \notin S /\ 2 \in S
        BY <3>1, <3>3
      <3>4. CASE 1 \notin S /\ 2 \notin S /\ 3 \in S
        BY <3>1, <3>4
      <3>5. CASE 1 \notin S /\ 2 \notin S /\ 3 \notin S /\ 4 \in S
        BY <3>1, <3>5
      <3>6. CASE 1 \notin S /\ 2 \notin S /\ 3 \notin S /\ 4 \notin S
        BY <3>1, <3>6, <2>2
      <3>7. QED BY <3>2, <3>3, <3>4, <3>5, <3>6
    <2>4. QED BY <2>3 DEF S
  <1>3. QED BY <1>2 DEF FirstMatch

\* What load_config gives a field.
LEMMA TypedAt ==
  ASSUME NEW ls, NEW f \in Field
  PROVE  Typed(Merged(ls))[f] =
           IF SetIn(ls, f) # {} THEN ls[FirstMatch(ls, f)][f] ELSE Default[f]
  BY MergedAt, FirstExists DEF Typed

\* A field that the environment sets has its text.
LEMMA EnvAt ==
  ASSUME NEW e, NEW layered, NEW f \in DOMAIN e, f \in Field
  PROVE  Loaded(e, layered)[f].text = e[f]
  <1> DEFINE ls == Layers(e, layered)
  <1>1. DOMAIN ls[1] = {} /\ DOMAIN ls[2] = DOMAIN e /\ ls[2][f] = EnvValue(f, e[f])
    BY DEF Layers, Empty, EnvOverrides
  <1> HIDE DEF ls
  <1>2. 2 \in SetIn(ls, f) /\ 1 \notin SetIn(ls, f) /\ SetIn(ls, f) \subseteq 1 .. 6
    BY <1>1 DEF SetIn
  <1>3. FirstMatch(ls, f) = 2
    BY <1>2, FirstExists
  <1>4. Typed(Merged(ls))[f] = EnvValue(f, e[f])
    BY <1>1, <1>2, <1>3, TypedAt
  <1>5. EnvValue(f, e[f]).text = e[f]
    BY DEF EnvValue, Str, Bool
  <1>6. QED BY <1>4, <1>5 DEF Loaded, ls

-----------------------------------------------------------------------------
(* The cascade.                                                             *)

\* load_config by the numbers of its layers.
LEMMA LoadStep ==
  ASSUME Load
  PROVE  LET layers == Layers(penv, files)
             Some(f) == SetIn(layers, f) # {}
             First(f) == layers[FirstMatch(layers, f)][f]
         IN \/ /\ pc' = "running"
               /\ \A f \in Field : config'[f] = IF Some(f) THEN First(f) ELSE Default[f]
            \/ /\ pc' = "failed"
               /\ \/ \E f \in Required : ~Some(f)
                  \/ \E f \in Field : Some(f) /\ ~Holds(FieldType[f], First(f))
  <1> DEFINE layers == Layers(penv, files)
  <1>1. CASE Loads(penv, files)
    <2>1. pc' = "running" /\ config' = Typed(Merged(layers))
      BY <1>1 DEF Load, Loaded
    <2> HIDE DEF layers
    <2>2. QED BY <2>1, TypedAt DEF layers
  <1>2. CASE ~Loads(penv, files)
    <2>1. pc' = "failed" /\ ~Readable(Merged(layers))
      BY <1>2 DEF Load, Loads
    <2> HIDE DEF layers
    <2>2. \/ \E f \in Required : f \notin DOMAIN Merged(layers)
          \/ \E f \in Field : f \in DOMAIN Merged(layers) /\ ~Holds(FieldType[f], Merged(layers)[f])
      BY <2>1 DEF Readable
    <2>3. \/ \E f \in Required : ~(SetIn(layers, f) # {})
          \/ \E f \in Field : /\ SetIn(layers, f) # {}
                              /\ ~Holds(FieldType[f], layers[FirstMatch(layers, f)][f])
      BY <2>2, MergedAt, FirstExists
    <2>4. QED BY <2>1, <2>3 DEF layers
  <1>3. QED BY <1>1, <1>2

\* The layers of load_config are the places of the cascade, in their order.
LEMMA LayersInOrder ==
  ASSUME NEW f
  PROVE  LET layers == Layers(penv, files)
         IN /\ SetIn(layers, f) # {} <=> IsSet(f)
            /\ IsSet(f) => layers[FirstMatch(layers, f)][f] = Top(f)
<1> DEFINE layers == Layers(penv, files)
           S == SetIn(layers, f)
           F == Setting(f)
           at == [local |-> 3, home |-> 4, system |-> 5, install |-> 6]
<1>1. /\ DOMAIN layers[1] = {}
      /\ DOMAIN layers[2] = DOMAIN penv
      /\ f \in DOMAIN penv => layers[2][f] = EnvValue(f, penv[f])
  BY DEF Layers, Empty, EnvOverrides
<1>2. ASSUME NEW p \in Places
      PROVE  /\ f \in DOMAIN layers[at[p]] <=> p \in F
             /\ p \in F => layers[at[p]] = files[p]
  <2>1. layers[at[p]] = ReadYaml(files[p])
    BY DEF Layers, Places
  <2> HIDE DEF layers, at
  <2>2. QED BY <2>1 DEF ReadYaml, Empty, Setting
<1>3. S \subseteq 1 .. 6 /\ \A i \in 1 .. 6 : i \in S <=> f \in DOMAIN layers[i]
  BY DEF SetIn
<1>4. F \subseteq Places
  BY DEF Setting
<1>5. /\ 1 \notin S /\ (2 \in S <=> f \in DOMAIN penv)
      /\ \A p \in Places : at[p] \in S <=> p \in F
      /\ \A i \in S : i = 2 \/ \E p \in F : i = at[p]
  <2>1. \A p \in Places : at[p] \in 1 .. 6
    BY DEF Places
  <2>2. \A i \in 1 .. 6 : i = 1 \/ i = 2 \/ \E p \in Places : i = at[p]
    BY DEF Places
  <2> HIDE DEF layers, S, F, at
  <2>3. QED BY <1>1, <1>2, <1>3, <2>1, <2>2
<1>6. \A p, q \in Places : Rank[p] <= Rank[q] <=> at[p] <= at[q]
  BY DEF Places, Rank
<1>7. \A p \in Places : at[p] \in 3 .. 6
  BY DEF Places
<1>8. S # {} => FirstMatch(layers, f) \in S /\ \A j \in S : FirstMatch(layers, f) <= j
  BY FirstExists
<1>9. F = Setting(f)
  OBVIOUS
<1> HIDE DEF layers, S, F, at
<1>10. S # {} <=> IsSet(f)
  BY <1>4, <1>5, <1>9 DEF IsSet
<1>11. ASSUME f \in DOMAIN penv PROVE layers[FirstMatch(layers, f)][f] = Top(f)
  <2>1. 2 \in S /\ FirstMatch(layers, f) \in S /\ FirstMatch(layers, f) <= 2
    BY <1>5, <1>8, <1>11
  <2>2. FirstMatch(layers, f) \in 1 .. 6 /\ FirstMatch(layers, f) # 1
    BY <2>1, <1>3, <1>5
  <2>3. FirstMatch(layers, f) = 2
    BY <2>1, <2>2
  <2>4. QED BY <1>1, <1>11, <2>3 DEF Top
<1>12. ASSUME f \notin DOMAIN penv, S # {} PROVE layers[FirstMatch(layers, f)][f] = Top(f)
  <2>1. PICK p \in F : FirstMatch(layers, f) = at[p]
    BY <1>5, <1>8, <1>12
  <2>2. \A q \in F : Rank[p] <= Rank[q]
    BY <2>1, <1>4, <1>5, <1>6, <1>8, <1>12
  <2>3. FirstFile(f) \in F /\ \A q \in F : Rank[FirstFile(f)] <= Rank[q]
    BY <2>2, <1>9 DEF FirstFile
  <2>4. FirstFile(f) = p
    <3>1. FirstFile(f) \in Places /\ p \in Places
      BY <2>3, <1>4
    <3>2. Rank[p] <= Rank[FirstFile(f)] /\ Rank[FirstFile(f)] <= Rank[p]
      BY <2>2, <2>3
    <3>3. QED BY <3>1, <3>2 DEF Places, Rank
  <2>5. QED BY <2>1, <2>4, <1>2, <1>4, <1>12 DEF Top
<1>13. IsSet(f) => layers[FirstMatch(layers, f)][f] = Top(f)
  BY <1>10, <1>11, <1>12
<1>14. (SetIn(layers, f) # {}) <=> IsSet(f)
  BY <1>10 DEF S
<1>15. QED BY <1>13, <1>14 DEF layers

\* A process takes every field from the highest place that sets it, and stops on
\* a value there that the field cannot hold: for any files and environments.
THEOREM HighestAlwaysWins == Spec => HighestWins
  <1>1. Load =>
          \/ /\ pc' = "running"
             /\ \A f \in Field : config'[f] = IF IsSet(f) THEN Top(f) ELSE Default[f]
          \/ /\ pc' = "failed"
             /\ \/ \E f \in Required : ~IsSet(f)
                \/ \E f \in Field : IsSet(f) /\ ~Holds(FieldType[f], Top(f))
    <2> DEFINE layers == Layers(penv, files)
    <2>1. \A f : /\ SetIn(layers, f) # {} <=> IsSet(f)
                 /\ IsSet(f) => layers[FirstMatch(layers, f)][f] = Top(f)
      BY LayersInOrder
    <2>2. Load =>
            \/ /\ pc' = "running"
               /\ \A f \in Field :
                    config'[f] = IF SetIn(layers, f) # {} THEN layers[FirstMatch(layers, f)][f]
                                                         ELSE Default[f]
            \/ /\ pc' = "failed"
               /\ \/ \E f \in Required : ~(SetIn(layers, f) # {})
                  \/ \E f \in Field : /\ SetIn(layers, f) # {}
                                      /\ ~Holds(FieldType[f], layers[FirstMatch(layers, f)][f])
      BY LoadStep
    <2> HIDE DEF layers
    <2>3. QED BY <2>1, <2>2
  <1>2. [Next]_vars =>
          [ Load =>
              \/ /\ pc' = "running"
                 /\ \A f \in Field : config'[f] = IF IsSet(f) THEN Top(f) ELSE Default[f]
              \/ /\ pc' = "failed"
                 /\ \/ \E f \in Required : ~IsSet(f)
                    \/ \E f \in Field : IsSet(f) /\ ~Holds(FieldType[f], Top(f)) ]_vars
    BY <1>1
  <1>3. QED BY <1>2, PTL DEF Spec, HighestWins

-----------------------------------------------------------------------------
(* What is typed, and whose environment a process runs on.                  *)

LEMMA ExtendIn ==
  ASSUME NEW m, NEW l, NEW S, DOMAIN m \subseteq S, DOMAIN l \subseteq S
  PROVE  DOMAIN Extend(m, l) \subseteq S
  BY DEF Extend

LEMMA OnlyIn ==
  ASSUME NEW f, NEW text
  PROVE  DOMAIN Only(f, text) = {f} /\ Only(f, text)[f] = text
  BY DEF Only

LEMMA EmptyIn ==
  /\ DOMAIN Empty = {}
  /\ Empty \in Commands
  /\ Only("transport", "stdio") \in Commands
  BY DEF Empty, Commands

\* What is extended with something else keeps its transport.
LEMMA TransportKept ==
  ASSUME NEW m, NEW l, "transport" \in DOMAIN m, "transport" \notin DOMAIN l
  PROVE  "transport" \in DOMAIN Extend(m, l) /\ Extend(m, l)["transport"] = m["transport"]
  BY DEF Extend

LEMMA CommandShape ==
  ASSUME NEW c \in Commands
  PROVE  /\ DOMAIN c \subseteq Field
         /\ c # Empty => "transport" \in DOMAIN c /\ c["transport"] \in {"stdio", "http"}
  <1>1. "transport" \in Field /\ "host" \in Field /\ "port" \in Field /\ "cors_allow" \in Field
    BY DEF Field, FieldType
  <1>2. CASE c = Empty
    BY <1>2, EmptyIn
  <1>3. CASE c = Only("transport", "stdio")
    <2>1. DOMAIN c = {"transport"} /\ c["transport"] = "stdio"
      BY <1>3, OnlyIn
    <2>2. QED BY <2>1, <1>1
  <1>4. ASSUME c # Empty, c # Only("transport", "stdio")
        PROVE  \E host, port, origin :
                 /\ c = Extend(Extend(Extend(Only("transport", "http"), host), port), origin)
                 /\ host = Empty \/ \E text : host = Only("host", text)
                 /\ port = Empty \/ \E text : port = Only("port", text)
                 /\ origin = Empty \/ \E text : origin = Only("cors_allow", text)
    BY <1>4 DEF Commands
  <1>5. CASE c # Empty /\ c # Only("transport", "stdio")
    <2>1. PICK host, port, origin :
                 /\ c = Extend(Extend(Extend(Only("transport", "http"), host), port), origin)
                 /\ host = Empty \/ \E text : host = Only("host", text)
                 /\ port = Empty \/ \E text : port = Only("port", text)
                 /\ origin = Empty \/ \E text : origin = Only("cors_allow", text)
      BY <1>4, <1>5
    <2>2. DOMAIN host \subseteq Field /\ "transport" \notin DOMAIN host
      <3>1. CASE host = Empty
        BY <3>1, EmptyIn
      <3>2. CASE host # Empty
        <4>1. DOMAIN host = {"host"}
          BY <2>1, <3>2 DEF Only
        <4>2. QED BY <4>1, <1>1
      <3>3. QED BY <3>1, <3>2
    <2>3. DOMAIN port \subseteq Field /\ "transport" \notin DOMAIN port
      <3>1. CASE port = Empty
        BY <3>1, EmptyIn
      <3>2. CASE port # Empty
        <4>1. DOMAIN port = {"port"}
          BY <2>1, <3>2 DEF Only
        <4>2. QED BY <4>1, <1>1
      <3>3. QED BY <3>1, <3>2
    <2>4. DOMAIN origin \subseteq Field /\ "transport" \notin DOMAIN origin
      <3>1. CASE origin = Empty
        BY <3>1, EmptyIn
      <3>2. CASE origin # Empty
        <4>1. DOMAIN origin = {"cors_allow"}
          BY <2>1, <3>2 DEF Only
        <4>2. QED BY <4>1, <1>1
      <3>3. QED BY <3>1, <3>2
    <2> DEFINE c0 == Only("transport", "http")
               c1 == Extend(c0, host)
               c2 == Extend(c1, port)
    <2>5. DOMAIN c0 = {"transport"} /\ c0["transport"] = "http"
      BY OnlyIn
    <2> HIDE DEF c0
    <2>6. DOMAIN c0 \subseteq Field /\ "transport" \in DOMAIN c0
      BY <2>5, <1>1
    <2>7. DOMAIN c1 \subseteq Field /\ "transport" \in DOMAIN c1 /\ c1["transport"] = "http"
      BY <2>2, <2>5, <2>6, ExtendIn, TransportKept
    <2> HIDE DEF c1
    <2>8. DOMAIN c2 \subseteq Field /\ "transport" \in DOMAIN c2 /\ c2["transport"] = "http"
      BY <2>3, <2>7, ExtendIn, TransportKept
    <2> HIDE DEF c2
    <2>9. c = Extend(c2, origin)
      BY <2>1 DEF c0, c1, c2
    <2>10. QED BY <2>4, <2>8, <2>9, ExtendIn, TransportKept
  <1>6. QED BY <1>2, <1>3, <1>5

\* Every field of a Config that was read is one its type can hold.
LEMMA LoadedTyped ==
  ASSUME NEW e, NEW layered, Loads(e, layered), NEW f \in Field
  PROVE  Holds(FieldType[f], Loaded(e, layered)[f])
  <1> DEFINE m == Merged(Layers(e, layered))
  <1>1. Readable(m)
    BY DEF Loads
  <1>2. Loaded(e, layered)[f] = IF f \in DOMAIN m THEN m[f] ELSE Default[f]
    BY DEF Loaded, Typed
  <1> HIDE DEF m
  <1>3. CASE f \in DOMAIN m
    BY <1>1, <1>2, <1>3 DEF Readable
  <1>4. CASE f \notin DOMAIN m
    <2>1. f \notin Required
      BY <1>1, <1>4 DEF Readable
    <2>2. f \in DOMAIN Default
      BY <2>1 DEF Default, Field, FieldType, Required
    <2>3. QED BY <1>2, <1>4, <2>2, DefaultAssumption
  <1>5. QED BY <1>3, <1>4

\* A process has in its environment what its command sets, and once it runs
\* it has in its Config what its environment sets.
DInv ==
  /\ TypeOK
  /\ \A f \in DOMAIN command : f \in DOMAIN penv /\ penv[f] = command[f]
  /\ EnvironmentIsTaken

LEMMA DInvInit == Init => DInv
  <1> SUFFICES ASSUME Init PROVE DInv
    OBVIOUS
  <1>1. DOMAIN files = Places
    BY InstalledAssumption DEF Init
  <1>2. QED BY <1>1, EmptyIn DEF Init, WizardInit, NoAnswers, DInv, TypeOK, EnvironmentIsTaken

\* The wizard keeps its own types and touches no process.
LEMMA WizardStep ==
  ASSUME DInv, WizardNext, UNCHANGED processVars
  PROVE  DInv'
  <1> USE DEF Goes, Prompts
  <1>1. \A f \in {"url", "auth_method", "api_version", "default_database", "transport"} : f \in Field
    BY DEF Field, FieldType
  <1>2. /\ prompt' \in Prompts \cup {"off", "done", "failed"}
        /\ place' \in {"nowhere", "local", "home", "dotenv", "printed"}
        /\ credentials' \in {"none", "login", "client"}
    BY DEF DInv, TypeOK, WizardNext, RunSetupWizard, PromptBaseUrl, PromptAuthMethod,
       PromptCredentials, PromptApiVersion, PromptDefaultDatabase, PromptTransport,
       SaveCredential, CredentialsFor, PromptPersistence, WriteConfigYaml, PrintMcpClientConfig, Cancel
  <1>3. DOMAIN answers' \subseteq Field
    <2>1. ASSUME NEW f \in Field, NEW text, Answered(f, text)
          PROVE  DOMAIN answers' \subseteq Field
      <3> DEFINE told == [g \in {f} |-> Str(text)]
      <3>1. DOMAIN told \subseteq Field /\ DOMAIN answers \subseteq Field
        BY DEF DInv, TypeOK
      <3>2. answers' = Extend(answers, told)
        BY <2>1 DEF Answered
      <3> HIDE DEF told
      <3>3. QED BY <3>1, <3>2, ExtendIn
    <2>2. UNCHANGED answers => DOMAIN answers' \subseteq Field
      BY DEF DInv, TypeOK
    <2>3. CASE PromptBaseUrl
      BY <2>3, <2>1, <1>1 DEF PromptBaseUrl
    <2>4. CASE PromptAuthMethod
      BY <2>4, <2>1, <1>1 DEF PromptAuthMethod
    <2>5. CASE PromptApiVersion
      BY <2>5, <2>1, <1>1 DEF PromptApiVersion
    <2>6. CASE PromptDefaultDatabase
      BY <2>6, <2>1, <2>2, <1>1 DEF PromptDefaultDatabase
    <2>7. CASE PromptTransport
      BY <2>7, <2>1, <1>1 DEF PromptTransport
    <2>8. CASE \/ RunSetupWizard \/ PromptCredentials \/ SaveCredential \/ PromptPersistence
               \/ WriteConfigYaml \/ PrintMcpClientConfig \/ Cancel
      BY <2>8, <2>2 DEF RunSetupWizard, PromptCredentials, SaveCredential, PromptPersistence,
         WriteConfigYaml, PrintMcpClientConfig, Cancel
    <2>9. QED BY <2>3, <2>4, <2>5, <2>6, <2>7, <2>8 DEF WizardNext
  <1>4. DOMAIN files' = Places /\ DOMAIN dotenv' \subseteq Field /\ DOMAIN printed' \subseteq Field
    <2>1. DOMAIN AsEnv \subseteq Field /\ DOMAIN Empty = {}
      BY DEF AsEnv, DInv, TypeOK, Empty
    <2>2. \A where, file : DOMAIN [files EXCEPT ![where] = file] = Places
      BY DEF DInv, TypeOK
    <2>3. CASE PromptPersistence
      BY <2>3, <2>1, <2>2 DEF PromptPersistence, DInv, TypeOK
    <2>4. CASE WriteConfigYaml
      BY <2>4, <2>1, <2>2 DEF WriteConfigYaml, DInv, TypeOK
    <2>5. CASE PrintMcpClientConfig
      BY <2>5, <2>1 DEF PrintMcpClientConfig, DInv, TypeOK
    <2>6. CASE UNCHANGED <<files, dotenv, printed>>
      BY <2>6 DEF DInv, TypeOK
    <2>7. QED BY <2>3, <2>4, <2>5, <2>6 DEF WizardNext, RunSetupWizard, PromptBaseUrl,
            PromptAuthMethod, PromptCredentials, PromptApiVersion, PromptDefaultDatabase,
            PromptTransport, SaveCredential, Cancel
  <1>5. QED BY <1>2, <1>3, <1>4 DEF DInv, TypeOK, EnvironmentIsTaken, processVars

LEMMA LaunchStep ==
  ASSUME DInv, Launch \/ LaunchByClient
  PROVE  DInv'
  <1>1. /\ command' \in Commands /\ pc # "running" /\ pc' = "load"
        /\ \E e : DOMAIN e \subseteq Field /\ penv' = Extend(e, command')
        /\ UNCHANGED <<wizardVars, env, config>>
    <2>1. DOMAIN env \subseteq Field /\ DOMAIN dotenv \subseteq Field /\ DOMAIN printed \subseteq Field
      BY EnvironmentAssumption DEF DInv, TypeOK
    <2>2. DOMAIN Extend(env, dotenv) \subseteq Field /\ DOMAIN Extend(env, printed) \subseteq Field
      BY <2>1, ExtendIn
    <2>3. QED BY <2>1, <2>2, EmptyIn DEF Launch, LaunchByClient
  <1>2. PICK e : DOMAIN e \subseteq Field /\ penv' = Extend(e, command')
    BY <1>1
  <1>3. DOMAIN penv' \subseteq Field
    BY <1>1, <1>2, ExtendIn, CommandShape
  <1>4. \A f \in DOMAIN command' : f \in DOMAIN penv' /\ penv'[f] = command'[f]
    BY <1>2, ExtendAt
  <1>5. QED BY <1>1, <1>3, <1>4 DEF DInv, TypeOK, EnvironmentIsTaken, wizardVars

LEMMA ProcessLoads ==
  ASSUME DInv, Load
  PROVE  DInv'
  <1>1. CASE Loads(penv, files)
    <2>1. pc' = "running" /\ config' = Loaded(penv, files)
      BY <1>1 DEF Load
    <2>2. DOMAIN config' = Field
      BY <2>1 DEF Loaded, Typed
    <2>3. \A f \in DOMAIN config' : Holds(FieldType[f], config'[f])
      BY <2>1, <2>2, <1>1, LoadedTyped
    <2>4. \A f \in DOMAIN penv : config'[f].text = penv[f]
      <3>1. DOMAIN penv \subseteq Field
        BY DEF DInv, TypeOK
      <3>2. QED BY <2>1, <3>1, EnvAt
    <2>5. QED BY <2>1, <2>2, <2>3, <2>4 DEF Load, DInv, TypeOK, EnvironmentIsTaken, wizardVars
  <1>2. CASE ~Loads(penv, files)
    BY <1>2 DEF Load, DInv, TypeOK, EnvironmentIsTaken, wizardVars
  <1>3. QED BY <1>1, <1>2

THEOREM DInductive == Spec => []DInv
  <1>1. DInv /\ [Next]_vars => DInv'
    <2> SUFFICES ASSUME DInv, [Next]_vars PROVE DInv'
      OBVIOUS
    <2>1. CASE WizardNext /\ UNCHANGED processVars
      BY <2>1, WizardStep
    <2>2. CASE Launch \/ LaunchByClient
      BY <2>2, LaunchStep
    <2>3. CASE Load
      BY <2>3, ProcessLoads
    <2>4. CASE End
      BY <2>4, EmptyIn DEF End, DInv, TypeOK, EnvironmentIsTaken, wizardVars
    <2>5. CASE UNCHANGED vars
      BY <2>5 DEF vars, wizardVars, processVars, DInv, TypeOK, EnvironmentIsTaken
    <2>6. QED BY <2>1, <2>2, <2>3, <2>4, <2>5 DEF Next
  <1>2. QED BY DInvInit, <1>1, PTL DEF Spec

\* The files, the environments and the Config have their types, for any of them.
THEOREM DeploymentTypeOK == Spec => []TypeOK
  <1>1. DInv => TypeOK
    BY DEF DInv
  <1>2. QED BY DInductive, <1>1, PTL

\* A process that runs took its whole environment.
THEOREM AlwaysTaken == Spec => []EnvironmentIsTaken
  <1>1. DInv => EnvironmentIsTaken
    BY DEF DInv
  <1>2. QED BY DInductive, <1>1, PTL

\* A server has the transport, host, port and origin of its command line, and
\* logs to stdout only when MCP is not spoken there.
THEOREM AlwaysServesWhatWasAsked == Spec => []ServesWhatWasAsked
  <1>1. DInv => ServesWhatWasAsked
    <2> SUFFICES ASSUME DInv, pc = "running", command # Empty
                 PROVE  /\ \A f \in DOMAIN command : config[f].text = command[f]
                        /\ (config.transport.text = "stdio") = ~LogsToStdout(penv)
      BY DEF ServesWhatWasAsked
    <2>1. \A f \in DOMAIN command : f \in DOMAIN penv /\ penv[f] = command[f] /\ config[f].text = command[f]
      BY DEF DInv, EnvironmentIsTaken
    <2>2. "transport" \in DOMAIN command /\ command["transport"] \in {"stdio", "http"}
      BY CommandShape DEF DInv, TypeOK
    <2>3. QED BY <2>1, <2>2 DEF LogsToStdout
  <1>2. QED BY DInductive, <1>1, PTL

-----------------------------------------------------------------------------
(* What the wizard saves takes effect.                                      *)

\* The prompts after the last question.
Told == {"save", "persistence", "write", "print", "done"}

\* What the wizard has been told at each prompt, and what it has saved of it: from SaveCredential
\* on the credentials are those of the chosen method, from WriteConfigYaml on the file has the
\* answers.
WizardInv ==
  /\ answers = [f \in DOMAIN answers |-> answers[f]]
  /\ \A f \in DOMAIN answers :
       f \in DOMAIN AnswersTo /\ answers[f] \in {Str(text) : text \in AnswersTo[f]}
  /\ prompt \in {"auth_method", "credentials", "api_version", "default_database", "transport"}
                  \cup Told => "url" \in DOMAIN answers
  /\ prompt \in {"credentials", "api_version", "default_database", "transport"} \cup Told =>
       "auth_method" \in DOMAIN answers
  /\ prompt \in {"default_database", "transport"} \cup Told => "api_version" \in DOMAIN answers
  /\ prompt \in Told => "transport" \in DOMAIN answers
  /\ prompt \in Told \ {"save"} => credentials = CredentialsFor(answers.auth_method.text)
  /\ prompt \in {"print", "done"} /\ place \in {"local", "home"} => files[place] = answers

\* An answer sets its own field and leaves the others.
LEMMA AnswerAdds ==
  ASSUME NEW f, NEW text, Answered(f, text)
  PROVE  /\ answers' = [g \in DOMAIN answers' |-> answers'[g]]
         /\ DOMAIN answers' = DOMAIN answers \cup {f}
         /\ answers'[f] = Str(text)
         /\ \A g \in DOMAIN answers : g # f => answers'[g] = answers[g]
  BY DEF Answered, Extend

LEMMA AnswerFits ==
  ASSUME WizardInv, NEW f \in DOMAIN AnswersTo, NEW text \in AnswersTo[f], Answered(f, text)
  PROVE  /\ answers' = [g \in DOMAIN answers' |-> answers'[g]]
         /\ \A g \in DOMAIN answers' :
              g \in DOMAIN AnswersTo /\ answers'[g] \in {Str(t) : t \in AnswersTo[g]}
<1> HIDE DEF AnswersTo
<1>1. /\ answers' = [g \in DOMAIN answers' |-> answers'[g]]
      /\ DOMAIN answers' = DOMAIN answers \cup {f}
      /\ answers'[f] = Str(text)
      /\ \A g \in DOMAIN answers : g # f => answers'[g] = answers[g]
  BY AnswerAdds
<1>2. \A g \in DOMAIN answers :
        g \in DOMAIN AnswersTo /\ answers[g] \in {Str(t) : t \in AnswersTo[g]}
  BY DEF WizardInv
<1>3. ASSUME NEW g \in DOMAIN answers'
      PROVE  g \in DOMAIN AnswersTo /\ answers'[g] \in {Str(t) : t \in AnswersTo[g]}
  BY <1>1, <1>2
<1> QED
  BY <1>1, <1>3

LEMMA WizardInvStep ==
  ASSUME DInv, WizardInv, WizardNext
  PROVE  WizardInv'
<1> USE DEF Goes, Prompts, Told
<1>0. /\ DOMAIN AnswersTo = {"url", "auth_method", "api_version", "default_database", "transport"}
      /\ AnswersTo["url"] = Urls /\ AnswersTo["auth_method"] = AuthMethod
      /\ AnswersTo["api_version"] = Versions /\ AnswersTo["default_database"] = Databases
      /\ AnswersTo["transport"] = Transport
  BY DEF AnswersTo
<1>1. CASE RunSetupWizard
  BY <1>1 DEF RunSetupWizard, WizardInv
<1>2. CASE PromptBaseUrl
  <2>1. PICK url \in Urls : Answered("url", url)
    BY <1>2 DEF PromptBaseUrl
  <2>2. /\ answers' = [g \in DOMAIN answers' |-> answers'[g]]
        /\ \A g \in DOMAIN answers' :
             g \in DOMAIN AnswersTo /\ answers'[g] \in {Str(t) : t \in AnswersTo[g]}
    BY <1>0, <2>1, AnswerFits
  <2>3. "url" \in DOMAIN answers'
    BY <2>1, AnswerAdds
  <2> QED
    BY <1>2, <2>2, <2>3 DEF PromptBaseUrl, WizardInv
<1>3. CASE PromptAuthMethod
  <2>1. PICK selection \in AuthMethodChoices :
          Answered("auth_method", ParseAuthMethodSelection(selection))
    BY <1>3 DEF PromptAuthMethod
  <2>2. ParseAuthMethodSelection(selection) \in AuthMethod
    BY DEF AuthMethodChoices, ParseAuthMethodSelection, AuthMethod
  <2>3. /\ answers' = [g \in DOMAIN answers' |-> answers'[g]]
        /\ \A g \in DOMAIN answers' :
             g \in DOMAIN AnswersTo /\ answers'[g] \in {Str(t) : t \in AnswersTo[g]}
    BY <1>0, <2>1, <2>2, AnswerFits
  <2>4. "auth_method" \in DOMAIN answers' /\ "url" \in DOMAIN answers'
    BY <1>3, <2>1, AnswerAdds DEF PromptAuthMethod, WizardInv
  <2> QED
    BY <1>3, <2>3, <2>4 DEF PromptAuthMethod, WizardInv
<1>4. CASE PromptCredentials
  BY <1>4 DEF PromptCredentials, WizardInv
<1>5. CASE PromptApiVersion
  <2>1. PICK version \in Versions : Answered("api_version", version)
    BY <1>5 DEF PromptApiVersion
  <2>2. /\ answers' = [g \in DOMAIN answers' |-> answers'[g]]
        /\ \A g \in DOMAIN answers' :
             g \in DOMAIN AnswersTo /\ answers'[g] \in {Str(t) : t \in AnswersTo[g]}
    BY <1>0, <2>1, AnswerFits
  <2>3. /\ "api_version" \in DOMAIN answers' /\ "url" \in DOMAIN answers'
        /\ "auth_method" \in DOMAIN answers'
    BY <1>5, <2>1, AnswerAdds DEF PromptApiVersion, WizardInv
  <2> QED
    BY <1>5, <2>2, <2>3 DEF PromptApiVersion, WizardInv
<1>6. CASE PromptDefaultDatabase
  <2>1. PICK answer \in Databases \cup {Blank} :
          IF answer = Blank THEN UNCHANGED answers ELSE Answered("default_database", answer)
    BY <1>6 DEF PromptDefaultDatabase
  <2>2. /\ answers' = [g \in DOMAIN answers' |-> answers'[g]]
        /\ \A g \in DOMAIN answers' :
             g \in DOMAIN AnswersTo /\ answers'[g] \in {Str(t) : t \in AnswersTo[g]}
    <3>1. CASE answer = Blank
      BY <2>1, <3>1 DEF WizardInv
    <3>2. CASE answer # Blank
      BY <1>0, <2>1, <3>2, AnswerFits
    <3> QED
      BY <3>1, <3>2
  <2>3. DOMAIN answers \subseteq DOMAIN answers'
    BY <2>1, AnswerAdds
  <2> QED
    BY <1>6, <2>2, <2>3 DEF PromptDefaultDatabase, WizardInv
<1>7. CASE PromptTransport
  <2>1. PICK transport \in Transport : Answered("transport", transport)
    BY <1>7 DEF PromptTransport
  <2>2. /\ answers' = [g \in DOMAIN answers' |-> answers'[g]]
        /\ \A g \in DOMAIN answers' :
             g \in DOMAIN AnswersTo /\ answers'[g] \in {Str(t) : t \in AnswersTo[g]}
    BY <1>0, <2>1, AnswerFits
  <2>3. DOMAIN answers \subseteq DOMAIN answers' /\ "transport" \in DOMAIN answers'
    BY <2>1, AnswerAdds
  <2> QED
    BY <1>7, <2>2, <2>3 DEF PromptTransport, WizardInv
<1>8. CASE SaveCredential
  BY <1>8 DEF SaveCredential, WizardInv
<1>9. CASE PromptPersistence
  BY <1>9 DEF PromptPersistence, WizardInv
<1>10. CASE WriteConfigYaml
  <2>1. place \in {"local", "home"} => files'[place] = answers
    BY <1>10 DEF WriteConfigYaml, DInv, TypeOK, Places
  <2> QED
    BY <1>10, <2>1 DEF WriteConfigYaml, WizardInv
<1>11. CASE PrintMcpClientConfig
  BY <1>11 DEF PrintMcpClientConfig, WizardInv
<1>12. CASE Cancel
  BY <1>12 DEF Cancel, WizardInv
<1> QED
  BY <1>1, <1>2, <1>3, <1>4, <1>5, <1>6, <1>7, <1>8, <1>9, <1>10, <1>11, <1>12 DEF WizardNext

THEOREM WizardInductive == Spec => []WizardInv
<1>1. Init => WizardInv
  BY EmptyIn DEF Init, WizardInit, WizardInv, NoAnswers, Told
<1>2. ASSUME DInv, WizardInv, [Next]_vars PROVE WizardInv'
  <2>1. CASE WizardNext
    BY <1>2, <2>1, WizardInvStep
  <2>2. CASE UNCHANGED wizardVars
    BY <1>2, <2>2 DEF wizardVars, WizardInv
  <2> QED
    BY <1>2, <2>1, <2>2 DEF Next, Launch, LaunchByClient, Load, End, vars
<1> QED
  BY <1>1, <1>2, DInductive, PTL DEF Spec

\* The answers are a map that load_config can read, whatever they are.
LEMMA AnswersAreReadable ==
  ASSUME WizardInv
  PROVE  /\ ReadYaml(answers) = answers
         /\ \A f \in DOMAIN answers : f \in Field /\ Holds(FieldType[f], answers[f])
         /\ \A f \in DOMAIN answers : f = "default_database" => answers[f].text # Blank
<1>1. \A f \in DOMAIN answers :
        f \in DOMAIN AnswersTo /\ answers[f] \in {Str(text) : text \in AnswersTo[f]}
  BY DEF WizardInv
<1>2. ASSUME NEW f \in DOMAIN answers
      PROVE  /\ f \in Field /\ Holds(FieldType[f], answers[f])
             /\ f = "default_database" => answers[f].text # Blank
  <2>1. PICK text \in AnswersTo[f] : answers[f] = Str(text)
    BY <1>1
  <2>2. f \in {"url", "auth_method", "api_version", "default_database", "transport"}
    BY <1>1 DEF AnswersTo
  <2>3. answers[f].json = "string" /\ answers[f].text = text
    BY <2>1 DEF Str
  <2>4. /\ f = "auth_method" => text \in AuthMethod
        /\ f = "transport" => text \in Transport
        /\ f = "default_database" => text \in Databases
    BY <2>1 DEF AnswersTo
  <2>5. f \in Field /\ FieldType[f] = CASE f = "auth_method" -> "auth_method"
                                       [] f = "default_database" -> "option"
                                       [] f = "transport" -> "transport"
                                       [] OTHER -> "string"
    BY <2>2 DEF Field, FieldType
  <2>6. Holds(FieldType[f], answers[f])
    BY <2>2, <2>3, <2>4, <2>5 DEF Holds, Words
  <2>7. f = "default_database" => answers[f].text # Blank
    BY <2>3, <2>4, AnswersAssumption
  <2> QED
    BY <2>5, <2>6, <2>7
<1>3. answers \in AnswerMaps
  <2> DEFINE texts == UNION {AnswersTo[f] : f \in DOMAIN AnswersTo}
             D == DOMAIN answers
  <2>1. D \in SUBSET DOMAIN AnswersTo
    BY <1>1
  <2>2. \A f \in D : answers[f] \in {Str(text) : text \in texts}
    <3> HIDE DEF D
    <3> TAKE f \in D
    <3>1. f \in DOMAIN AnswersTo /\ answers[f] \in {Str(text) : text \in AnswersTo[f]}
      BY <1>1 DEF D
    <3>2. AnswersTo[f] \subseteq texts
      BY <3>1
    <3> HIDE DEF texts
    <3> QED
      BY <3>1, <3>2
  <2>3. answers = [f \in D |-> answers[f]]
    BY DEF WizardInv
  <2> HIDE DEF texts, D
  <2>4. answers \in [D -> {Str(text) : text \in texts}]
    BY <2>2, <2>3
  <2> QED
    BY <2>1, <2>4 DEF AnswerMaps, texts
<1>4. answers \notin {Unset, Garbled}
  BY <1>3, AnswersAssumption
<1> QED
  BY <1>2, <1>4 DEF ReadYaml

\* What an answer sets in the file, at the place of the file, is what the field gets.
LEMMA FileSets ==
  ASSUME WizardInv, NEW e, NEW rank \in {3, 4}, prompt = "done",
         rank = IF place = "local" THEN 3 ELSE 4, place \in {"local", "home"}
  PROVE  LET layers == Layers(e, files) IN
         /\ layers[rank] = answers
         /\ \A f \in DOMAIN answers :
              /\ rank \in SetIn(layers, f) /\ SetIn(layers, f) # {}
              /\ (\E i \in SetIn(layers, f) : i < rank)
                   \/ layers[FirstMatch(layers, f)][f] = answers[f]
<1> DEFINE layers == Layers(e, files)
<1>1. files[place] = answers
  BY DEF WizardInv, Told
<1>2. layers[rank] = answers
  <2>1. layers[3] = ReadYaml(files.local) /\ layers[4] = ReadYaml(files.home)
    BY DEF Layers
  <2> HIDE DEF layers
  <2> QED
    BY <1>1, <2>1, AnswersAreReadable
<1> HIDE DEF layers
<1>3. ASSUME NEW f \in DOMAIN answers
      PROVE  /\ rank \in SetIn(layers, f) /\ SetIn(layers, f) # {}
             /\ (\E i \in SetIn(layers, f) : i < rank)
                  \/ layers[FirstMatch(layers, f)][f] = answers[f]
  <2>1. rank \in SetIn(layers, f)
    BY <1>2 DEF SetIn
  <2>2. /\ FirstMatch(layers, f) \in SetIn(layers, f)
        /\ FirstMatch(layers, f) <= rank
    BY <2>1, FirstExists
  <2>3. FirstMatch(layers, f) \in 1 .. 6
    BY <2>2 DEF SetIn
  <2>4. FirstMatch(layers, f) < rank \/ FirstMatch(layers, f) = rank
    BY <2>2, <2>3
  <2> QED
    BY <1>2, <2>1, <2>2, <2>4
<1> QED
  BY <1>2, <1>3 DEF layers

\* What `setup` has saved in a file is what a process loaded afterwards runs with, but for what a
\* higher layer sets or a field that was not asked for makes unreadable: for any answers, files
\* and environments.
THEOREM AlwaysTakesEffect == Spec => SetupTakesEffect
<1> DEFINE Effect ==
      Load /\ prompt = "done" /\ place \in {"local", "home"} =>
        LET layers == Layers(penv, files)
            rank == IF place = "local" THEN 3 ELSE 4
            Shadowed(f) == \E i \in SetIn(layers, f) : i < rank
        IN /\ pc' = "failed" =>
                \E f \in Field : Shadowed(f) \/ (f \notin DOMAIN answers /\ SetIn(layers, f) # {})
           /\ pc' = "running" =>
                /\ \A f \in DOMAIN answers : Shadowed(f) \/ config'[f] = answers[f]
                /\ \/ Shadowed("auth_method")
                   \/ credentials = CredentialsFor(config'.auth_method.text)
                /\ config'.default_database.text = Blank =>
                     \E i \in SetIn(layers, "default_database") \ {rank} :
                       layers[i].default_database.text = Blank
<1>1. ASSUME WizardInv, Load, prompt = "done", place \in {"local", "home"}
      PROVE  Effect
  <2> DEFINE layers == Layers(penv, files)
             rank == IF place = "local" THEN 3 ELSE 4
             Shadowed(f) == \E i \in SetIn(layers, f) : i < rank
             First(f) == layers[FirstMatch(layers, f)][f]
  <2>1. /\ layers[rank] = answers
        /\ \A f \in DOMAIN answers :
             /\ rank \in SetIn(layers, f) /\ SetIn(layers, f) # {}
             /\ Shadowed(f) \/ First(f) = answers[f]
    BY <1>1, FileSets
  <2>2. \/ /\ pc' = "running"
           /\ \A f \in Field :
                config'[f] = IF SetIn(layers, f) # {} THEN First(f) ELSE Default[f]
        \/ /\ pc' = "failed"
           /\ \/ \E f \in Required : ~(SetIn(layers, f) # {})
              \/ \E f \in Field : SetIn(layers, f) # {} /\ ~Holds(FieldType[f], First(f))
    BY <1>1, LoadStep
  <2>3. /\ \A f \in DOMAIN answers : f \in Field /\ Holds(FieldType[f], answers[f])
        /\ \A f \in DOMAIN answers : f = "default_database" => answers[f].text # Blank
    BY <1>1, AnswersAreReadable
  <2>4. /\ Required \subseteq DOMAIN answers
        /\ credentials = CredentialsFor(answers.auth_method.text)
    BY <1>1 DEF WizardInv, Told, Required
  <2>5. /\ rank \in {3, 4}
        /\ \A f : SetIn(layers, f) # {} =>
             /\ FirstMatch(layers, f) \in SetIn(layers, f)
             /\ \A j \in SetIn(layers, f) : FirstMatch(layers, f) <= j
    BY FirstExists
  <2> HIDE DEF layers, rank
  <2>6. ASSUME pc' = "failed"
        PROVE  \E f \in Field : Shadowed(f) \/ (f \notin DOMAIN answers /\ SetIn(layers, f) # {})
    <3>1. PICK f \in Field : SetIn(layers, f) # {} /\ ~Holds(FieldType[f], First(f))
      BY <2>1, <2>2, <2>4, <2>6
    <3>2. CASE f \in DOMAIN answers
      BY <2>1, <2>3, <3>1, <3>2
    <3> QED
      BY <3>1, <3>2
  <2>7. ASSUME pc' = "running"
        PROVE  /\ \A f \in DOMAIN answers : Shadowed(f) \/ config'[f] = answers[f]
               /\ \/ Shadowed("auth_method")
                  \/ credentials = CredentialsFor(config'.auth_method.text)
               /\ config'.default_database.text = Blank =>
                    \E i \in SetIn(layers, "default_database") \ {rank} :
                      layers[i].default_database.text = Blank
    <3>1. \A f \in Field : config'[f] = IF SetIn(layers, f) # {} THEN First(f) ELSE Default[f]
      BY <2>2, <2>7
    <3>2. \A f \in DOMAIN answers : Shadowed(f) \/ config'[f] = answers[f]
      BY <2>1, <2>3, <3>1
    <3>3. Shadowed("auth_method") \/ credentials = CredentialsFor(config'.auth_method.text)
      BY <2>4, <3>2 DEF Required
    <3>4. ASSUME config'.default_database.text = Blank
          PROVE  \E i \in SetIn(layers, "default_database") \ {rank} :
                   layers[i].default_database.text = Blank
      <4>1. "default_database" \in Field /\ Default["default_database"].text = "null"
        BY DEF Field, FieldType, Default, Null
      <4>2. /\ SetIn(layers, "default_database") # {}
            /\ config'["default_database"] = First("default_database")
        BY <3>1, <3>4, <4>1, AnswersAssumption
      <4> DEFINE first == FirstMatch(layers, "default_database")
      <4>3. first \in SetIn(layers, "default_database")
        BY <2>5, <4>2
      <4>4. layers[first].default_database.text = Blank
        BY <3>4, <4>2
      <4>5. first # rank
        <5>1. SUFFICES ASSUME first = rank PROVE FALSE
          OBVIOUS
        <5>2. "default_database" \in DOMAIN answers
          BY <2>1, <4>3, <5>1 DEF SetIn
        <5>3. answers["default_database"].text = Blank
          BY <2>1, <4>4, <5>1
        <5> QED
          BY <2>3, <5>2, <5>3
      <4> QED
        BY <4>3, <4>4, <4>5
    <3> QED
      BY <3>2, <3>3, <3>4
  <2> QED
    BY <2>6, <2>7 DEF layers, rank
<1>2. WizardInv /\ [Next]_vars => [Effect]_vars
  <2> SUFFICES ASSUME WizardInv, Load, prompt = "done", place \in {"local", "home"}
               PROVE  Effect
    OBVIOUS
  <2> HIDE DEF Effect
  <2> QED
    BY <1>1
<1>3. []WizardInv /\ [][Next]_vars => [][Effect]_vars
  <2> HIDE DEF Effect
  <2> QED
    BY <1>2, PTL
<1> QED
  BY <1>3, WizardInductive, PTL DEF Spec, SetupTakesEffect
=============================================================================
