------------------------------ MODULE Statement ------------------------------
(***************************************************************************)
(* One operation call from its arguments to its answer: tools/call_tool.rs,   *)
(* validation/validator.rs and services/api_client.rs.  CallPath has the      *)
(* credentials and the connections between building and sending; here the    *)
(* statement itself is looked at: what SQL Server gets, where it runs, and   *)
(* which value arrives in which parameter.                                   *)
(*                                                                           *)
(* An operation is                                                           *)
(*   [path, kind, known, compiles, params]: the path's parts, the type_desc,  *)
(*   whether the version has a schema for it, whether that schema compiles,  *)
(*   and the parameters [name, key, ordinal, required, type] that it lists;  *)
(*   key is the place of the name in a JSON map.                             *)
(* Arguments are a body, a function from names to JSON values, or NoBody.    *)
(***************************************************************************)
EXTENDS SqlType, FiniteSets

CONSTANTS
  Calls,        \* [operation, body] to be made
  Plain,        \* the names of [A-Za-z0-9_]
  Databases,    \* values of default_database, with NoDatabase
  Severities,   \* of the errors of SQL Server
  NoDatabase, NoBody, NoKind

VARIABLES
  call,     \* what was asked for
  config,   \* [default_database, read_only]
  stage,    \* "validate", "guard", "path", "schema", "database", "build", "sent",
            \* "answered", "refused", "failed"
  database, \* the resolved database
  sent,     \* [verb, object, names]: names of the EXEC form, one per placeholder
  bound,    \* the values of the placeholders
  answer    \* the row of the answer, or the category of the error

vars == <<call, config, stage, database, sent, bound, answer>>

Nothing == [verb |-> "none", object |-> <<>>, names |-> <<>>]
Unanswered == [rows |-> {}, error |-> "none"]

Init ==
  /\ call \in Calls
  /\ config \in [default_database : Databases, read_only : BOOLEAN]
  /\ stage = "validate"
  /\ database = NoDatabase /\ sent = Nothing /\ bound = <<>> /\ answer = Unanswered

operation == call.operation
Body == IF call.body = NoBody THEN [n \in {} |-> Null] ELSE call.body
Requests == "execution_database"

Goes(from, to) ==
  /\ stage = from /\ stage' = to
  /\ UNCHANGED <<call, config, database, sent, bound, answer>>

-----------------------------------------------------------------------------
(* Validation.                                                              *)

JsonType(base) ==
  CASE base \in IntegerTypes -> "integer" [] base = "bit" -> "bool"
    [] base \in DecimalTypes \cup FloatTypes -> "number" [] OTHER -> "string"

\* The JSON schema of a parameter: an integer may be written 5.0.
Fits(v, base) ==
  CASE JsonType(base) = "integer" -> v.json = "number" /\ \A i \in 1 .. Len(FracPart(v.of)) : FracPart(v.of)[i] = "0"
    [] JsonType(base) = "string" -> v.json \in {"string", "naive", "rfc3339"}
    [] OTHER -> v.json = JsonType(base)

\* An operation without a schema, or with one that does not compile, takes anything; so does an
\* operation whose body is left out, for the body is not required.
Validates ==
  \/ ~operation.known \/ ~operation.compiles \/ call.body = NoBody
  \/ /\ \A p \in operation.params : p.required => p.name \in DOMAIN Body
     /\ \A p \in operation.params : p.name \in DOMAIN Body => Fits(Body[p.name], p.type.base)
     /\ Requests \in DOMAIN Body => Body[Requests].json = "string"

ValidateInput == Goes("validate", IF Validates THEN "guard" ELSE "refused")

-----------------------------------------------------------------------------
(* What the calls are made of.                                              *)

IsFunction(kind) ==
  kind \in {"SQL_SCALAR_FUNCTION", "SQL_INLINE_TABLE_VALUED_FUNCTION", "CLR_TABLE_VALUED_FUNCTION"}

ArgumentOK(v) ==
  /\ v.json \in {"number", "string"} => v.of \in Seq(STRING)
  /\ v.json = "number" => JsonNumber(v.of)
  /\ v.json = "rfc3339" => v.of \in Int \X Int

\* The parameters come from a JSON map, whose keys are their names, and SQL Server numbers those
\* of a function.  A name that is given for the database is a name.
ASSUME CallsAssumption ==
  \A c \in Calls :
    LET params == c.operation.params IN
    /\ c.operation.path \in Seq(STRING)
    /\ IsFiniteSet(params)
    /\ \A p, q \in params : p.name = q.name \/ p.key = q.key => p = q
    /\ \A p \in params : p.key \in Nat /\ p.ordinal \in Nat /\ p.type.size \in Seq(Nat)
    /\ IsFunction(c.operation.kind) => \A p, q \in params : p.ordinal = q.ordinal => p = q
    /\ c.body # NoBody =>
         /\ \A p \in params : p.name \in DOMAIN c.body => ArgumentOK(c.body[p.name])
         /\ Requests \in DOMAIN c.body /\ c.body[Requests].json = "string" =>
              c.body[Requests].of # NoDatabase

-----------------------------------------------------------------------------
(* ApiClient::execute up to the query.                                      *)

IsWritableKind(kind) == kind # "VIEW" /\ ~IsFunction(kind)

RefuseWrites ==
  Goes("guard", IF config.read_only /\ IsWritableKind(operation.kind) THEN "refused" ELSE "path")

ParsePath ==
  Goes("path", IF Len(operation.path) = 2 /\ \A i \in 1 .. 2 : operation.path[i] \in Plain
               THEN "schema" ELSE "refused")

ResolvedSchemasFor == Goes("schema", IF operation.known THEN "database" ELSE "refused")

\* The database of the call, else the configured one, else none.
Wanted ==
  IF Requests \in DOMAIN Body THEN Body[Requests].of ELSE config.default_database

\* Fault: the configured name is trusted.
ResolveTrusting ==
  /\ stage = "database"
  /\ IF Requests \in DOMAIN Body => Body[Requests].json = "string" /\ Wanted \in Plain
     THEN stage' = "build" /\ database' = Wanted
     ELSE stage' = "refused" /\ UNCHANGED database
  /\ UNCHANGED <<call, config, sent, bound, answer>>

\* Only a string can name a database; the configured one is looked at only when it is used.
ResolveExecutionDatabase ==
  /\ stage = "database"
  /\ IF /\ Requests \in DOMAIN Body => Body[Requests].json = "string"
        /\ Wanted \in Plain \cup {NoDatabase}
     THEN stage' = "build" /\ database' = Wanted
     ELSE stage' = "refused" /\ UNCHANGED database
  /\ UNCHANGED <<call, config, sent, bound, answer>>

\* Fault: the order of the JSON map.
MapOrder ==
  [i \in 1 .. Cardinality(operation.params) |->
     CHOOSE p \in operation.params : Cardinality({q \in operation.params : q.key <= p.key}) = i]

\* By ordinal, and by the place in the map where these are equal.
Before(p, q) == p.ordinal < q.ordinal \/ (p.ordinal = q.ordinal /\ p.key <= q.key)

OrderedParams ==
  [i \in 1 .. Cardinality(operation.params) |->
     CHOOSE p \in operation.params : Cardinality({q \in operation.params : Before(q, p)}) = i]

\* An argument that is not given is bound as NULL.
ArgumentOf(p) ==
  JsonToParam(IF p.name \in DOMAIN Body THEN Body[p.name] ELSE Null, p.type)

BuildStatement ==
  /\ stage = "build"
  /\ LET params == OrderedParams
         values == [i \in 1 .. Len(params) |-> ArgumentOf(params[i])]
         verb == CASE operation.kind = "VIEW" -> "SELECT"
                   [] IsFunction(operation.kind) -> "SELECT FROM FUNCTION"
                   [] OTHER -> "EXEC"
         names == IF verb = "EXEC" THEN [i \in 1 .. Len(params) |-> params[i].name] ELSE <<>>
     IN IF \/ \E i \in 1 .. Len(values) : values[i] = Refused
           \/ \E i \in 1 .. Len(names) : names[i] \notin Plain
        THEN stage' = "refused" /\ UNCHANGED <<sent, bound>>
        ELSE /\ stage' = "sent"
             /\ bound' = values
             /\ sent' = [verb |-> verb, names |-> names,
                         object |-> (IF database = NoDatabase THEN <<>> ELSE <<database>>)
                                      \o operation.path]
  /\ UNCHANGED <<call, config, database, answer>>

-----------------------------------------------------------------------------
(* SQL Server.                                                              *)

\* The place of p in the declaration of the object.
Place(p) == Cardinality({q \in operation.params : q.ordinal <= p.ordinal})

\* The value of parameter p: EXEC goes by name, a function by place.
Received(p) ==
  CASE sent.verb = "EXEC" -> bound[CHOOSE i \in 1 .. Len(sent.names) : sent.names[i] = p.name]
    [] OTHER -> bound[Place(p)]

\* The answer shows every parameter in a column of its type.  (A money column is read as float.)
Money == {"money", "smallmoney"}
Columns ==
  IF sent.verb = "SELECT" THEN {} ELSE {p \in operation.params : p.type.base \notin Money}

\* The rows are converted; a row that the output schema does not expect is only logged.
Answer ==
  /\ stage = "sent" /\ stage' = "answered"
  /\ answer' = [answer EXCEPT !.rows = {<<p, ColumnDataToJson(Received(p))>> : p \in Columns}]
  /\ UNCHANGED <<call, config, database, sent, bound>>

SeverityCategory(class) ==
  CASE class >= 17 -> "500" [] class = 14 -> "403" [] OTHER -> "400"

Fail ==
  /\ stage = "sent" /\ stage' = "failed"
  /\ \E class \in Severities : answer' = [answer EXCEPT !.error = SeverityCategory(class)]
  /\ UNCHANGED <<call, config, database, sent, bound>>

Next ==
  \/ ValidateInput \/ RefuseWrites \/ ParsePath \/ ResolvedSchemasFor
  \/ ResolveExecutionDatabase \/ BuildStatement \/ Answer \/ Fail

Spec == Init /\ [][Next]_vars

-----------------------------------------------------------------------------
(* Properties.                                                              *)

TypeOK ==
  /\ call \in Calls
  /\ config \in [default_database : Databases, read_only : BOOLEAN]
  /\ stage \in {"validate", "guard", "path", "schema", "database", "build", "sent", "answered",
                "refused", "failed"}
  /\ database = NoDatabase \/ database \in Plain
  /\ sent # Nothing <=> stage \in {"sent", "answered", "failed"}
  /\ sent.verb = "EXEC" => Len(bound) = Len(sent.names)
  /\ \A i \in 1 .. Len(bound) : Len(bound[i].value) <= 1 /\ bound[i] # Refused

Sent == stage \in {"sent", "answered", "failed"}

\* A statement runs in the database of the call, or else in the configured one, and each of the
\* object's parameters that the call has an argument for gets the argument of its own name,
\* whatever the order of the JSON maps.
ArgumentsReachParameters ==
  Sent =>
    /\ sent.object =
         (IF Requests \in DOMAIN Body THEN <<Body[Requests].of>>
          ELSE IF config.default_database # NoDatabase THEN <<config.default_database>> ELSE <<>>)
         \o operation.path
    /\ sent.verb # "SELECT" =>
         \A p \in operation.params : p.name \in DOMAIN Body => Received(p) = ArgumentOf(p)

\* api_client.rs:17: a procedure's parameters are "named, so param order and optional/defaulted
\* params don't matter", and one that is called without arguments gets "a bare `EXEC name`"
\* (L242).  So an optional parameter that the call leaves out stays out of the EXEC, and the
\* procedure gives it its default.
OmittedStaysOut ==
  Sent /\ sent.verb = "EXEC" =>
    \A p \in operation.params : ~p.required /\ p.name \notin DOMAIN Body =>
      \A i \in 1 .. Len(sent.names) : sent.names[i] # p.name

\* A decimal, numeric or money parameter gets exactly the number that is written in the argument,
\* or the call is refused: nothing is rounded, cut or padded to another value.  (Strings that are
\* no numbers are outside: some are taken for one.)
NumericExact ==
  Sent /\ sent.verb # "SELECT" =>
    \A p \in operation.params :
      p.type.base \in DecimalTypes /\ p.name \in DOMAIN Body =>
        LET v == Body[p.name] IN
        /\ v.json = "number" => IsNumber(v.of)
        /\ v.json \in {"number", "string"} /\ IsNumber(v.of) =>
             /\ Len(FracPart(Unsigned(v.of))) <= Scale(p.type)
             /\ Received(p).value[1] =
                  [value |-> Written(v.of, Scale(p.type)), scale |-> Scale(p.type)]

\* What an answer shows of a value means that value: read as an argument of the same type, it
\* is bound as what SQL Server had (NULL as NULL, a moment with its offset, a decimal with its
\* sign and digits).
AnswersReadBack ==
  stage = "answered" => \A r \in answer.rows : JsonToParam(r[2], r[1].type) = Received(r[1])
=============================================================================
