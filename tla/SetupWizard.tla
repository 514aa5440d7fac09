----------------------------- MODULE SetupWizard -----------------------------
(***************************************************************************)
(* cli/setup_wizard.rs: the prompts of `setup`, one after the other, what    *)
(* they save and where.  Any prompt may be cancelled and any write may fail;  *)
(* the wizard then ends where it is.                                         *)
(*                                                                           *)
(* files are those that load_config reads, dotenv is the .env file, which    *)
(* only a shell or a container reads.  credentials tells whose keys the      *)
(* credential storage holds.                                                 *)
(***************************************************************************)
EXTENDS ConfigManager

CONSTANTS
  Urls,         \* answers to the first prompt
  Versions,     \* choices of the API version
  Databases,    \* answers to the database prompt
  Blank         \* an answer of nothing but spaces

VARIABLES
  prompt,       \* where the wizard is
  answers,      \* what it has been told
  files, dotenv, credentials,
  place,        \* history: where it has saved the settings
  printed       \* the environment of the client configuration that it prints

wizardVars == <<prompt, answers, files, dotenv, credentials, place, printed>>

\* What the answers may be, blank ones apart.
AnswersTo ==
  [ url |-> Urls, auth_method |-> AuthMethod, api_version |-> Versions,
    default_database |-> Databases, transport |-> Transport ]

AnswerMaps ==
  LET texts == UNION {AnswersTo[f] : f \in DOMAIN AnswersTo}
  IN  UNION {[D -> {Str(text) : text \in texts}] : D \in SUBSET DOMAIN AnswersTo}

ASSUME AnswersAssumption ==
  /\ {Unset, Garbled} \cap AnswerMaps = {}
  /\ Blank \notin Databases \cup {"null"}

Prompts == {"url", "auth_method", "credentials", "api_version", "default_database", "transport",
            "save", "persistence", "write", "print"}
NoAnswers == Empty

\* The keys that prompt_credentials asks for.
CredentialsFor(method) == IF method = "azure_ad" THEN "client" ELSE "login"

WizardInit ==
  /\ prompt = "off"
  /\ answers = NoAnswers
  /\ place = "nowhere"
  /\ printed = Empty

Answered(f, text) == answers' = Extend(answers, [g \in {f} |-> Str(text)])
Goes(from, to) == prompt = from /\ prompt' = to

RunSetupWizard == Goes("off", "url") /\ UNCHANGED <<answers, files, dotenv, credentials, place, printed>>

PromptBaseUrl ==
  /\ Goes("url", "auth_method")
  /\ \E url \in Urls : Answered("url", url)
  /\ UNCHANGED <<files, dotenv, credentials, place, printed>>

\* The label of the windows choice is longer than the value it stands for.
AuthMethodChoices == {"sql_server", "windows (NTLM)", "azure_ad"}

\* Fault: the label is saved for the value.
SelectionAsShown(selection) == selection

ParseAuthMethodSelection(selection) ==
  IF selection = "windows (NTLM)" THEN "windows" ELSE selection

PromptAuthMethod ==
  /\ Goes("auth_method", "credentials")
  /\ \E selection \in AuthMethodChoices :
       Answered("auth_method", ParseAuthMethodSelection(selection))
  /\ UNCHANGED <<files, dotenv, credentials, place, printed>>

\* The credentials are kept until every question has been answered.
PromptCredentials ==
  /\ Goes("credentials", "api_version")
  /\ UNCHANGED <<answers, files, dotenv, credentials, place, printed>>

PromptApiVersion ==
  /\ Goes("api_version", "default_database")
  /\ \E version \in Versions : Answered("api_version", version)
  /\ UNCHANGED <<files, dotenv, credentials, place, printed>>

PromptDefaultDatabase ==
  /\ Goes("default_database", "transport")
  /\ \E answer \in Databases \cup {Blank} :
       IF answer = Blank THEN UNCHANGED answers ELSE Answered("default_database", answer)
  /\ UNCHANGED <<files, dotenv, credentials, place, printed>>

PromptTransport ==
  /\ Goes("transport", "save")
  /\ \E transport \in Transport : Answered("transport", transport)
  /\ UNCHANGED <<files, dotenv, credentials, place, printed>>

\* From here on the servers log in with the new credentials.
SaveCredential ==
  /\ Goes("save", "persistence")
  /\ credentials' = CredentialsFor(answers.auth_method.text)
  /\ UNCHANGED <<answers, files, dotenv, place, printed>>

\* Files are truncated before they are written.
PromptPersistence ==
  /\ Goes("persistence", "write")
  /\ \E where \in {"local", "home", "dotenv", "printed"} :
       /\ place' = where
       /\ files' = IF where \in {"local", "home"} THEN [files EXCEPT ![where] = Garbled] ELSE files
       /\ dotenv' = IF where = "dotenv" THEN Empty ELSE dotenv
  /\ UNCHANGED <<answers, credentials, printed>>

\* The SQLSERVER_* variables of the answers.
AsEnv == [f \in DOMAIN answers |-> answers[f].text]

\* write_config_yaml and the .env file: the answers and nothing else.
WriteConfigYaml ==
  /\ Goes("write", "print")
  /\ files' = IF place \in {"local", "home"} THEN [files EXCEPT ![place] = answers] ELSE files
  /\ dotenv' = IF place = "dotenv" THEN AsEnv ELSE dotenv
  /\ UNCHANGED <<answers, credentials, place, printed>>

\* A client that starts its server itself gets the answers as the server's environment; one that
\* connects over HTTP gets an address only.
PrintMcpClientConfig ==
  /\ Goes("print", "done")
  /\ printed' = IF answers.transport.text = "stdio" THEN AsEnv ELSE Empty
  /\ UNCHANGED <<answers, files, dotenv, credentials, place>>

\* A prompt is left with Esc, or a file or the keychain cannot be written.
Cancel ==
  /\ prompt \in Prompts \ {"print"}
  /\ prompt' = "failed"
  /\ UNCHANGED <<answers, files, dotenv, credentials, place, printed>>

WizardNext ==
  \/ RunSetupWizard \/ PromptBaseUrl \/ PromptAuthMethod \/ PromptCredentials
  \/ PromptApiVersion \/ PromptDefaultDatabase \/ PromptTransport
  \/ SaveCredential \/ PromptPersistence \/ WriteConfigYaml
  \/ PrintMcpClientConfig \/ Cancel
=============================================================================
