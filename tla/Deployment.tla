----------------------------- MODULE Deployment -----------------------------
(***************************************************************************)
(* The settings of a deployment over time: an operator runs `setup`, edits    *)
(* nothing else, and launches processes that read the settings (main.rs and  *)
(* the subcommands of cli/, core/logger.rs).  Wizard and processes           *)
(* interleave: a file can be read between its truncation and its writing.    *)
(*                                                                           *)
(* Bounds: one wizard run; one process at a time; the shell's environment is *)
(* fixed; the home and system files do not move.                             *)
(***************************************************************************)
EXTENDS SetupWizard

CONSTANTS
  Environments,   \* the shell's SQLSERVER_* variables, by field
  Installed,      \* the configuration files found at the start
  Hosts, Ports, Origins    \* values of `http --host`, `--port` and `--cors-allow`

Places == {"local", "home", "system", "install"}

ASSUME EnvironmentAssumption == \A e \in Environments : DOMAIN e \subseteq Field
ASSUME InstalledAssumption == \A f \in Installed : DOMAIN f = Places
ASSUME DefaultAssumption == \A f \in DOMAIN Default : Holds(FieldType[f], Default[f])

VARIABLES
  env,
  pc,        \* the process: "none", "load", "running", "failed", "ended"
  command,   \* the variables its subcommand sets
  penv,      \* its environment
  config     \* its Config

processVars == <<env, pc, command, penv, config>>
vars == <<wizardVars, processVars>>

Only(f, text) == [g \in {f} |-> text]

Init ==
  /\ WizardInit
  /\ env \in Environments
  /\ files \in Installed
  /\ dotenv = Empty
  /\ credentials = "none"
  /\ pc = "none"
  /\ command = Empty /\ penv = Empty /\ config = Empty

\* `start` and `http` set variables of their own process; the others set none.
Commands ==
  LET Optional(f, texts) == {Empty} \cup {Only(f, text) : text \in texts}
  IN  {Empty, Only("transport", "stdio")}
      \cup { Extend(Extend(Extend(Only("transport", "http"), host), port), origin) :
               host \in Optional("host", Hosts), port \in Optional("port", Ports),
               origin \in Optional("cors_allow", Origins) }

\* Fault: a variable that is set already stays.
LaunchKeeping ==
  /\ pc \in {"none", "failed", "ended"}
  /\ pc' = "load"
  /\ \E c \in Commands, e \in {env, Extend(env, dotenv)} :
       /\ command' = c
       /\ penv' = Extend(c, e)
  /\ UNCHANGED <<wizardVars, env, config>>

\* A process is started in the shell, or with the .env file loaded.
Launch ==
  /\ pc \in {"none", "failed", "ended"}
  /\ pc' = "load"
  /\ \E c \in Commands, e \in {env, Extend(env, dotenv)} :
       /\ command' = c
       /\ penv' = Extend(e, c)
  /\ UNCHANGED <<wizardVars, env, config>>

\* The client runs `start` with the environment that the wizard has printed for it.
LaunchByClient ==
  /\ pc \in {"none", "failed", "ended"}
  /\ printed # Empty
  /\ pc' = "load"
  /\ command' = Only("transport", "stdio")
  /\ penv' = Extend(Extend(env, printed), command')
  /\ UNCHANGED <<wizardVars, env, config>>

\* load_config, the first thing that every subcommand but `version` does.
Load ==
  /\ pc = "load"
  /\ IF Loads(penv, files)
     THEN pc' = "running" /\ config' = Loaded(penv, files)
     ELSE pc' = "failed" /\ UNCHANGED config
  /\ UNCHANGED <<wizardVars, env, command, penv>>

End ==
  /\ pc = "running"
  /\ pc' = "ended"
  /\ command' = Empty /\ penv' = Empty /\ config' = Empty
  /\ UNCHANGED <<wizardVars, env>>

Next == (WizardNext /\ UNCHANGED processVars) \/ Launch \/ LaunchByClient \/ Load \/ End

Spec == Init /\ [][Next]_vars

\* The logger takes the transport from the environment, not from Config.
LogsToStdout(e) == "transport" \in DOMAIN e /\ e.transport = "http"

-----------------------------------------------------------------------------
(* Properties.                                                              *)

TypeOK ==
  /\ prompt \in Prompts \cup {"off", "done", "failed"}
  /\ DOMAIN answers \subseteq Field
  /\ DOMAIN files = Places
  /\ DOMAIN dotenv \subseteq Field /\ DOMAIN printed \subseteq Field
  /\ credentials \in {"none", "login", "client"}
  /\ place \in {"nowhere", "local", "home", "dotenv", "printed"}
  /\ env \in Environments
  /\ pc \in {"none", "load", "running", "failed", "ended"}
  /\ command \in Commands
  /\ DOMAIN penv \subseteq Field
  /\ DOMAIN config = IF pc = "running" THEN Field ELSE {}
  /\ \A f \in DOMAIN config : Holds(FieldType[f], config[f])

\* The cascade as the document of load_config orders it (config_manager.rs:79-84), apart from
\* the layers that the code builds: the environment, then the files by rank.
Rank == [local |-> 1, home |-> 2, system |-> 3, install |-> 4]

\* The files that set f.  One that is no YAML map counts as absent.
Setting(f) == {p \in Places : files[p] \notin {Unset, Garbled} /\ f \in DOMAIN files[p]}

FirstFile(f) == CHOOSE p \in Setting(f) : \A q \in Setting(f) : Rank[p] <= Rank[q]

IsSet(f) == f \in DOMAIN penv \/ Setting(f) # {}
Top(f) == IF f \in DOMAIN penv THEN EnvValue(f, penv[f]) ELSE files[FirstFile(f)][f]

\* "Strict, stop-at-first-match": a process takes every field from the highest place that sets
\* it, and from the default when none does; what such a place sets and the field cannot hold
\* stops the process, whatever a lower place says.
HighestWins ==
  [][ Load =>
        \/ /\ pc' = "running"
           /\ \A f \in Field : config'[f] = IF IsSet(f) THEN Top(f) ELSE Default[f]
        \/ /\ pc' = "failed"
           /\ \/ \E f \in Required : ~IsSet(f)
              \/ \E f \in Field : IsSet(f) /\ ~Holds(FieldType[f], Top(f)) ]_vars

\* A process never runs on an environment that it has partly ignored: READ_ONLY=FALSE does not
\* let a file's `read_only: false` through.
EnvironmentIsTaken ==
  pc = "running" => \A f \in DOMAIN penv : config[f].text = penv[f]

\* A server has the transport and the address of its command line, whatever .env and the files
\* say, and a server that speaks MCP over stdout never logs there.  (Of a port it says nothing
\* yet: no server that is given one gets this far, see PortStarts.)
ServesWhatWasAsked ==
  pc = "running" /\ command # Empty =>
    /\ \A f \in DOMAIN command : config[f].text = command[f]
    /\ (config.transport.text = "stdio") = ~LogsToStdout(penv)

\* What `setup` has saved in a file is what a process loaded afterwards runs with: each answer,
\* no default database for a blank answer, unless another layer has a blank one, and credentials
\* of the kind that its authentication method reads; all but what a higher layer sets, or makes
\* unreadable.
SetupTakesEffect ==
  [][ Load /\ prompt = "done" /\ place \in {"local", "home"} =>
        LET layers == Layers(penv, files)
            rank == IF place = "local" THEN 3 ELSE 4
            Shadowed(f) == \E i \in SetIn(layers, f) : i < rank
        IN /\ pc' = "failed" =>
                \E f \in Field : Shadowed(f) \/ (f \notin DOMAIN answers /\ SetIn(layers, f) # {})
           /\ pc' = "running" =>
                /\ \A f \in DOMAIN answers : Shadowed(f) \/ config'[f] = answers[f]
                /\ \/ Shadowed("auth_method")
                   \/ credentials = CredentialsFor(config'.auth_method.text)
                /\ config'.default_database.text = Blank =>
                     \E i \in SetIn(layers, "default_database") \ {rank} :
                       layers[i].default_database.text = Blank ]_vars

-----------------------------------------------------------------------------
(* What the documents say.                                                  *)

\* README.md:101, `sqlserver-mcp http --host 127.0.0.1 --port 3000`: a port that is a port does
\* not keep a server from starting that starts without it.
PortStarts ==
  pc = "failed" /\ prompt = "off" /\ "port" \in DOMAIN command /\ Number[command.port] < 2 ^ 16 =>
    ~Loads([f \in DOMAIN penv \ {"port"} |-> penv[f]], files)
=============================================================================
