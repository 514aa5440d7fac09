--------------------------- MODULE ConfigManager ---------------------------
(***************************************************************************)
(* core/config_manager.rs and core/config_schema.rs: where a setting comes   *)
(* from.  Six layers of partial maps are merged and read into the typed      *)
(* fields of Config.                                                         *)
(*                                                                           *)
(* A JSON value is its type and its text: the text is all that the           *)
(* environment gives, the type decides whether a field can hold it.          *)
(***************************************************************************)
EXTENDS Naturals

CONSTANTS
  Number,    \* the texts that are natural numbers, each with its value
  Unset,     \* no file at that place
  Garbled    \* a file that is no YAML map

ASSUME NumberAssumption == \A text \in DOMAIN Number : Number[text] \in Nat

Str(text) == [json |-> "string", text |-> text]
Num(text) == [json |-> "number", text |-> text]
Bool(text) == [json |-> "bool", text |-> text]
Null == [json |-> "null", text |-> "null"]

-----------------------------------------------------------------------------
(* Config.                                                                  *)

AuthMethod == {"sql_server", "windows", "azure_ad"}
Transport == {"stdio", "http"}

FieldType ==
  [ url |-> "string", auth_method |-> "auth_method", sql_port |-> "u16",
    pool_max_size |-> "u32", trust_server_cert |-> "bool", api_version |-> "string",
    log_level |-> "string", rate_limit |-> "u32", timeout_ms |-> "u64",
    cache_size |-> "u32", retry_attempts |-> "u32", transport |-> "transport",
    host |-> "string", port |-> "u16", cors_allow |-> "option",
    default_database |-> "option", read_only |-> "bool" ]

Field == DOMAIN FieldType
Required == {"url", "auth_method"}

Default ==
  [ sql_port |-> Num("1433"), pool_max_size |-> Num("10"), trust_server_cert |-> Bool("true"),
    api_version |-> Str("2025"), log_level |-> Str("info"), rate_limit |-> Num("100"),
    timeout_ms |-> Num("30000"), cache_size |-> Num("500"), retry_attempts |-> Num("3"),
    transport |-> Str("stdio"), host |-> Str("127.0.0.1"), port |-> Num("3000"),
    cors_allow |-> Null, default_database |-> Null, read_only |-> Bool("true") ]

\* n < 2 ^ (16 * words), by divisions that stay within TLC's integers.
Fits(n, words) ==
  CASE words = 1 -> n < 2 ^ 16
    [] words = 2 -> n \div 2 ^ 16 < 2 ^ 16
    [] words = 4 -> (n \div 2 ^ 24) \div 2 ^ 24 < 2 ^ 16

Words == [u16 |-> 1, u32 |-> 2, u64 |-> 4]

\* serde's derived readers.  A number that is no natural one, or too wide, is refused.
Holds(type, v) ==
  \/ type = "string" /\ v.json = "string"
  \/ type = "option" /\ v.json \in {"string", "null"}
  \/ type = "bool" /\ v.json = "bool"
  \/ /\ type \in DOMAIN Words /\ v.json = "number"
     /\ v.text \in DOMAIN Number /\ Fits(Number[v.text], Words[type])
  \/ type = "auth_method" /\ v.json = "string" /\ v.text \in AuthMethod
  \/ type = "transport" /\ v.json = "string" /\ v.text \in Transport

-----------------------------------------------------------------------------
(* The layers.                                                              *)

Empty == [f \in {} |-> Null]

\* read_yaml_if_exists: what cannot be read, or is no map, sets nothing.
ReadYaml(file) == IF file \in {Unset, Garbled} THEN Empty ELSE file

\* env_overrides: one field is parsed, the others stay text.
EnvValue(f, text) == IF f = "read_only" /\ text \in {"true", "false"} THEN Bool(text) ELSE Str(text)

\* Fault: a text that does not parse is dropped.
EnvOverridesParsed(env) ==
  [f \in {g \in DOMAIN env : g # "read_only" \/ env[g] \in {"true", "false"}} |-> EnvValue(f, env[f])]

EnvOverrides(env) == [f \in DOMAIN env |-> EnvValue(f, env[f])]

\* Fault: the home file comes before the local one.
LayersHomeFirst(env, files) ==
  << Empty, EnvOverrides(env), ReadYaml(files.home), ReadYaml(files.local),
     ReadYaml(files.system), ReadYaml(files.install) >>

\* The first is cli_flags: every caller gives it empty.
Layers(env, files) ==
  << Empty, EnvOverrides(env), ReadYaml(files.local), ReadYaml(files.home),
     ReadYaml(files.system), ReadYaml(files.install) >>

\* Map::extend: the keys of l win.
Extend(m, l) ==
  [f \in DOMAIN m \cup DOMAIN l |-> IF f \in DOMAIN l THEN l[f] ELSE m[f]]

\* The lowest layer first, each higher one on top.
Merged(ls) ==
  Extend(Extend(Extend(Extend(Extend(ls[6], ls[5]), ls[4]), ls[3]), ls[2]), ls[1])

\* Fault: only what must be there is looked at.
ReadableLoosely(m) == Required \subseteq DOMAIN m

Readable(m) ==
  /\ Required \subseteq DOMAIN m
  /\ \A f \in DOMAIN m \cap Field : Holds(FieldType[f], m[f])

\* from_value: unknown keys are ignored, missing ones take their default.
Typed(m) == [f \in Field |-> IF f \in DOMAIN m THEN m[f] ELSE Default[f]]

\* load_config is Loads, and then Loaded.
Loads(env, files) == Readable(Merged(Layers(env, files)))
Loaded(env, files) == Typed(Merged(Layers(env, files)))

-----------------------------------------------------------------------------
(* The layers by number, the highest first.                                 *)

SetIn(ls, f) == {i \in 1 .. 6 : f \in DOMAIN ls[i]}

FirstMatch(ls, f) == CHOOSE i \in SetIn(ls, f) : \A j \in SetIn(ls, f) : i <= j
=============================================================================
