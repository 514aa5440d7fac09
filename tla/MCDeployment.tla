---------------------------- MODULE MCDeployment ----------------------------
(* A small instance of Deployment. *)
EXTENDS Deployment

MCNumber ==
  [ text \in {"3", "10", "100", "500", "1433", "3000", "30000", "70000"} |->
      CASE text = "3" -> 3 [] text = "10" -> 10 [] text = "100" -> 100 [] text = "500" -> 500
        [] text = "1433" -> 1433 [] text = "3000" -> 3000 [] text = "30000" -> 30000
        [] text = "70000" -> 70000 ]

Login == [url |-> "a", auth_method |-> "sql_server"]
MCEnvironments ==
  { Empty, Login, Only("read_only", "FALSE"), Only("read_only", "false"),
    Extend(Login, Only("host", "a")), Only("default_database", "sales"), Only("sql_port", "1433") }

Own == [url |-> Str("b"), auth_method |-> Str("azure_ad"), default_database |-> Str("hr")]
Writable == [read_only |-> Bool("false"), host |-> Str("c"), transport |-> Str("http")]
Wide == [port |-> Num("70000"), log_level |-> Num("3")]
MCInstalled ==
  { [local |-> l, home |-> h, system |-> s, install |-> i] :
      l \in {Unset, Own}, h \in {Unset, Own}, s \in {Unset, Garbled, Writable}, i \in {Unset, Wide} }
=============================================================================
