---------------------------- MODULE MCCallPath ----------------------------
(* Instances of CallPath for TLC.                                          *)
EXTENDS CallPath

\* One configuration per way through the credential cascade, read_only on for
\* the ones whose cascade is exercised by another configuration as well.
MCConfigs ==
  {[auth_method |-> m[1], read_only |-> m[2], env |-> m[3]] :
     m \in { <<"azure_ad", FALSE, "absent">>, <<"azure_ad", TRUE, "good">>,
             <<"sql_server", FALSE, "bad">>, <<"sql_server", TRUE, "absent">>,
             <<"windows", FALSE, "good">> }}

\* Every kind, and one operation that is refused before any I/O.
MCOperations ==
  [kind : Kinds, flaw : {"none"}] \cup {[kind |-> "view", flaw |-> "statement"]}
=============================================================================
