------------------------------ MODULE MCHelpers ------------------------------
(***************************************************************************)
(* The pure functions of envoxy, called once with each of a bounded set of *)
(* inputs: the assertions, the date formats and the names of the ORM.  A   *)
(* behaviour is one call and its return.                                   *)
(***************************************************************************)
EXTENDS Asserts, DateFormats, OrmNames, TLC

CONSTANT Pending   \* the call has not returned

VARIABLES
  call,     \* the function and its arguments
  answer    \* what it returned

vars == <<call, answer>>

MCValue(type, truthy, is, starts) ==
  [type |-> type, truthy |-> truthy, is |-> is, starts |-> starts]

\* Texts are named by what they are; every one is a URI or begins with one.
MCText(is, starts) == MCValue("str", TRUE, is \cup {"utf8"}, starts)

MCValues ==
  {MCValue("none", FALSE, {}, {}), MCValue("date", TRUE, {}, {}),
   MCValue("object", TRUE, {}, {}), MCValue("bytes", TRUE, {"json"}, {}),
   MCValue("float", FALSE, {}, {}),
   MCValue("str", FALSE, {"utf8", "ascii", "uri"}, {}),
   MCText({}, {"uri"}), MCText({"uri"}, {}), MCText({"ascii", "uri"}, {}),
   MCValue("str", TRUE, {"uri"}, {}),
   MCText({"ascii", "uri", "json"}, {}),
   MCText({"ascii", "uri", "json"}, {"phone"}),
   MCText({"ascii", "uri", "uuid"}, {}),
   MCText({"ascii", "uri", "timestamp"}, {"phone"}),
   MCText({"ascii", "uri", "hash"}, {}),
   MCText({"ascii", "uri", "token"}, {"hash"}),
   MCText({"ascii", "uri", "url"}, {}), MCText({"ascii", "uri", "email"}, {}),
   MCText({"ascii", "uri"}, {"email"}),
   MCText({"ascii", "uri", "phone", "json"}, {}),
   MCText({"ascii"}, {"uri", "url"})}
  \cup {MCValue(t, b, {}, {}) : t \in {"bool", "int", "list", "dict"}, b \in BOOLEAN}
  \cup {MCValue("float", TRUE, {}, {})}
  \cup {MCValue(t, TRUE, {"location"}, {}) : t \in {"list", "dict"}}

Micros == {0, 1, 4, 5, 499, 500, 501, 1500, 2500, 499999, 500000, 949999,
           950000, 999499, 999500, 999501, 999995, 999999}

DateInputs ==
  [kind: {"none", "date", "loose", "bad", "other"}, sec: {90000}, us: {0, 1500},
   tz: {None}, dot: {TRUE}]
  \cup [kind: {"datetime"}, sec: {-2, 0, 3599, 90001}, us: Micros,
        tz: {None, 0, 3600, -5400}, dot: {TRUE}]
  \cup [kind: {"text"}, sec: {-1, 3600}, us: {0, 999999}, tz: {None, 0, 3600},
        dot: {TRUE}]

Fractionals == {None, -1, 0, 1, 2, 3, 5, 6, 9}

\* The last is Amsterdam's until 1937, +00:19:32.
Zones == {None, 0, 3600, -12600, 1172}

Namespaces == {Unset, <<"foo">>, <<"bar">>, <<"foo", "bar">>, <<"", "foo">>,
               <<"foo", "bar", "x", "y">>, <<"foo", "bar", "x", "z">>,
               <<"", "">>}

Envs == [own: Namespaces, other: {Unset, <<"foo">>}]

LocalNames == {<<"items">>, <<"bar", "items">>, <<"aux", "items">>,
               <<"aux", "foo", "items">>}

Models == [exception: {Unset, <<"aux", "foo", "legacy">>, <<"legacy">>},
           explicit: {Unset} \cup LocalNames, class: {<<"item">>, <<"aux">>}]

MCPlural(word) == IF word = "item" THEN "items" ELSE word \o "s"

MCHash(name) == ToString(name)

AuxPrefixes ==
  {AuxTablePrefix(ns) : ns \in {Unset, <<"foo">>, <<"foo", "bar">>}}

ArgsOfTables ==
  [kind: {"idx", "fk", "ck"},
   table: {Unset, <<"aux", "foo", "items">>, <<"a">>, <<"a", "b">>},
   cols: {Unset, <<"a">>, <<"b">>, <<"b", "c">>, <<"b", "c", "d", "e">>,
          <<"b", "c", "d", "f">>},
   ref: {Unset, <<"items">>}, name: {Unset, <<"foo">>, <<"aux", "foo", "n">>}]

ExtraKinds ==
  [kind: {"uq", "pk", "ex"}, table: {<<"a">>}, cols: {<<"b">>, <<"c">>},
   ref: {Unset}, name: {Unset}]

\* The digest tells the names of the run apart.
ASSUME HashAssumption ==
  \A prefix \in AuxPrefixes :
    LET names == {MadeName(arg, prefix) : arg \in ArgsOfTables \cup ExtraKinds}
    IN  \A made, long \in names : HashTells(made, long)

Specs == [schema: {Unset, <<"public">>}, table: LocalNames]

Calls ==
  ({"assertz"} \X Kinds \X Args)
  \cup ({"date"} \X DateInputs \X (Zones \X {0, 7200}))
  \cup ({"constraint"} \X (ArgsOfTables \cup ExtraKinds) \X AuxPrefixes)
  \cup ({"target"} \X Specs \X AuxPrefixes)
  \cup ({"model"} \X Models \X Envs)

Answer ==
  CASE call[1] = "assertz" ->
         <<Assertz(call[2], call[3], FALSE), AssertzReply(call[2], call[3])>>
    [] call[1] = "date" ->
         [style \in {"iso", "rfc1123", "unix", "strftime"} |->
            ApiFormatStyle(style, call[2], "", call[3][1], 3, FALSE,
                           call[3][2])]
    [] call[1] = "constraint" -> Normalize(call[2], call[3])
    [] call[1] = "target" -> ForeignKey(call[2], call[3])
    [] call[1] = "model" -> TableName(call[2], OrmPrefix(call[3]))

Init == call \in Calls /\ answer = Pending

Return == answer = Pending /\ answer' = Answer /\ UNCHANGED call

Spec == Init /\ [][Return]_vars

-----------------------------------------------------------------------------
(* The properties, for the call that was made.                             *)

\* A check asked to reply answers what the raising form refuses and passes
\* what that passes, except that it raises for a text of which a regular
\* expression matches a proper prefix only, and no value under a key makes it
\* crash (asserts.py: the reply parameter of every function).  The exception
\* is against the docstring of assertz_reply (asserts.py:39).
RepliesButForPrefixes ==
  call[1] = "assertz" =>
    /\ SameVerdict(call[2], call[3])
    /\ answer \in {Pending} \cup Outcomes \X Outcomes

\* A value gets the same verdict by itself and under a key (asserts.py: the
\* key parameter of every function).
KeyMakesNoDifference ==
  call[1] = "assertz" => SameUnderKey(call[2], call[3].value)

\* A text of format_iso reads back as its instant, in every zone of whole
\* minutes and with every number of digits; only a carry into the seconds is
\* lost.  With an offset that has seconds it does not read back
\* (utils/datetime.py: format_iso, coerce_datetime).
IsoTextsReadBack ==
  call[1] = "date" => \A f \in Fractionals :
    IsoReadsBack(call[2], f, call[3][1], call[3][2])

\* The styles of api_format name one second, but for unix before 1970
\* (utils/datetime.py: format_iso, format_rfc1123, format_unix,
\* format_strftime and Format.api_format).
StylesNameOneSecond ==
  call[1] = "date" => StylesAgree(call[2], call[3][1], call[3][2])

\* The API's format can be read again, is stable and keeps the order.
ApiTextsReadBack ==
  call[1] = "date" /\ call[3][1] = None => \A other \in DateInputs :
    ApiRoundTrip(call[2], other, call[3][2])

\* Shortening and prefixing make no two names alike that differ, normalizing
\* again changes nothing, and foreign keys find their tables (db/orm/mixin.py:
\* _normalize_indexes_and_uniques, _normalize_foreign_keys).
NamesNormalized ==
  /\ call[1] = "constraint" =>
       /\ \A spec \in Specs : Idempotent(call[2], spec, call[3])
       /\ \A other \in ArgsOfTables \cup ExtraKinds :
            NamesTell(call[2], other, call[3])
  /\ call[1] = "model" => ForeignKeyFinds(call[2], OrmPrefix(call[3]))

\* Migrations manage the tables of their own service, when its namespace is set
\* where the ORM reads it (tools/alembic/alembic/env.py: include_object).
OwnTablesManaged == call[1] = "model" => OwnManaged(call[2], call[3])

\* Services that share a database leave each other's tables alone.
ServicesKeptApart ==
  call[1] = "model" => \A other \in Envs :
    ForeignUntouched(call[2], call[3], other) /\ VersionsApart(call[3], other)
=============================================================================
