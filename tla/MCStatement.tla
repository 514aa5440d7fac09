----------------------------- MODULE MCStatement -----------------------------
(* A small instance of Statement. *)
EXTENDS Statement

JNum(text) == [json |-> "number", of |-> text]
JStr(text) == [json |-> "string", of |-> text]
JBool(b) == [json |-> "bool", of |-> b]
Type(base, size) == [base |-> base, size |-> size]
Param(name, key, ordinal, required, type) ==
  [name |-> name, key |-> key, ordinal |-> ordinal, required |-> required, type |-> type]
Op(path, kind, known, compiles, params) ==
  [path |-> path, kind |-> kind, known |-> known, compiles |-> compiles, params |-> params]

MCCanonical ==
  [ uniqueidentifier |-> [t \in {<<"A">>, <<"a">>} |-> <<"a">>],
    real |-> [t \in {<<"5">>, <<"5", ".", "0">>} |-> <<"5", ".", "0">>] ]

(* Shapes: every kind, parameters whose order is not that of their names, databases. *)
Path == <<"dbo", "name">>
Kinds == {"VIEW", "SQL_SCALAR_FUNCTION", "SQL_INLINE_TABLE_VALUED_FUNCTION",
          "SQL_STORED_PROCEDURE", NoKind}
Two == { Param("a", 1, 2, TRUE, Type("int", <<>>)), Param("b", 2, 1, FALSE, Type("nvarchar", <<256>>)) }
Spoilt == {Param("a b", 1, 1, FALSE, Type("int", <<>>))}
Operations ==
  { Op(Path, kind, TRUE, TRUE, params) : kind \in Kinds, params \in {{}, Two} }
  \cup { Op(path, "SQL_STORED_PROCEDURE", known, TRUE, Spoilt) :
           path \in {Path, <<"dbo">>, <<"dbo", "a b">>}, known \in BOOLEAN }

Full == [a |-> JNum(<<"7">>), b |-> JStr(<<"x">>)]
In(body, v) == [n \in DOMAIN body \cup {"execution_database"} |->
                  IF n = "execution_database" THEN v ELSE body[n]]
Bodies == { NoBody, Full, [a |-> JNum(<<"7">>)], [b |-> JStr(<<"x">>)], In(Full, JStr("hr")),
            In(Full, JStr("a b")), In([a |-> JStr(<<"7">>)], JStr("hr")), In(Full, JNum(<<"1">>)) }
Shapes == [operation : Operations, body : Bodies]

(* Values: one parameter of each type, with and without a schema that compiles. *)
Types ==
  { Type("decimal", <<4, 2>>), Type("numeric", <<3, 0>>), Type("money", <<>>), Type("tinyint", <<>>),
    Type("smallint", <<>>), Type("int", <<>>), Type("bit", <<>>), Type("datetime2", <<7>>),
    Type("datetimeoffset", <<>>), Type("real", <<>>), Type("uniqueidentifier", <<>>),
    Type("sql_variant", <<>>) }

Numbers ==
  ({ s \o i \o f :
      s \in {<<>>, <<"-">>}, i \in {<<"0">>, <<"5">>, <<"1", "2">>},
      f \in {<<>>, <<".", "0">>, <<".", "5">>, <<".", "0", "5">>, <<".", "1", "2", "5">>} }
     \ {<<"-", "0">>})
  \cup { <<"2", "5", "5">>, <<"2", "5", "6">>, <<"3", "2", "7", "6", "8">>,
         <<"-", "3", "2", "7", "6", "8">>, <<"1", "e", "2", "1">> }

Texts == UNION { [1 .. n -> {"-", "+", ".", "0", "5"}] : n \in 0 .. 4 }

Moments == { [json |-> "naive", of |-> 90], [json |-> "rfc3339", of |-> <<90, 60>>],
             [json |-> "rfc3339", of |-> <<30, -120>>] }

JsonValues ==
  {JNum(t) : t \in Numbers} \cup {JBool(b) : b \in BOOLEAN} \cup {Null, JStr(<<"A">>)} \cup Moments

Procedure(type, compiles) ==
  Op(Path, "SQL_STORED_PROCEDURE", TRUE, compiles, {Param("x", 1, 1, TRUE, type)})
Values ==
  { [operation |-> Procedure(type, compiles), body |-> [x |-> v]] :
      type \in Types, compiles \in BOOLEAN, v \in JsonValues }
  \cup { [operation |-> Procedure(type, FALSE), body |-> [x |-> JStr(t)]] :
           type \in {Type("decimal", <<4, 2>>), Type("numeric", <<3, 0>>)}, t \in Texts }

MCCalls == Shapes \cup Values
=============================================================================
