------------------------------- MODULE Asserts -------------------------------
(***************************************************************************)
(* The assertz functions (envoxy/asserts.py) by which a view validates     *)
(* what a client sent it.  Each takes an element and a key; without a key  *)
(* it looks at the element itself, with one at element[key].  A check that *)
(* does not hold raises ValidationException or, with reply=True, returns   *)
(* the answer for the client.                                              *)
(*                                                                         *)
(* A Python value is a record: its type, whether it is true in a Boolean   *)
(* context, and what the parsers and regular expressions the code calls    *)
(* make of it: the grammars it matches as a whole (is), and those of which *)
(* only a proper prefix matches (starts), as re.match allows.              *)
(***************************************************************************)
EXTENDS FiniteSets

CONSTANT
  Values   \* the values to validate

\* How the value is handed over: as the element itself, under the key, under
\* the key "", not at all (the key is missing), in an element that has no
\* keys, such as an int, or not at all because the key is an index past the
\* end of a list, "member" if that index is itself in the list.
Forms == {"direct", "keyed", "emptykey", "absent", "opaque", "beyond", "member"}

Keyed == {"keyed", "emptykey"}

Args == [form: Forms, value: Values]

\* accepted: None is returned; refused: ValidationException; replied: the
\* record for the client; crashed: any other exception.
Outcomes == {"accepted", "refused", "replied", "crashed"}

Regexes == {"hash", "token", "uri", "url", "email", "phone"}

\* What only a string can match.
Texts == Regexes \cup {"uuid", "utf8", "ascii", "timestamp"}

\* None matches nothing, and a text that matches as a whole is not matched in
\* a proper prefix.
Grammatical(v) ==
  /\ v.is \cap Texts # {} \/ v.starts # {} => v.type = "str"
  /\ v.starts \subseteq Regexes /\ v.is \cap v.starts = {}
  /\ v.type = "none" => v.is = {}

ASSUME GrammarAssumption == \A v \in Values : Grammatical(v)

\* bool is a subclass of int, datetime one of date.
IsInstance(v, class) ==
  \/ v.type = class
  \/ v.type = "bool" /\ class = "int"

\* Fault: the expression decides only whether to reply, and reply=True
\* without a failure answers too.
AssertzCallAnswers(expression, reply) ==
  IF reply THEN "replied" ELSE IF expression THEN "accepted" ELSE "refused"

AssertzCall(expression, reply) ==
  IF expression THEN "accepted" ELSE IF reply THEN "replied" ELSE "refused"

\* The frame of most functions: None passes, a missing key (KeyError) is
\* refused, the TypeError of an element without keys and the IndexError of a
\* list are not caught, and the value found is judged by Holds.
Judge(arg, Holds(_), reply) ==
  IF arg.form = "direct" /\ arg.value.type = "none" THEN "accepted"
  ELSE IF arg.form \in {"opaque", "beyond", "member"} THEN "crashed"
  ELSE AssertzCall(arg.form # "absent" /\ Holds(arg.value), reply)

\* The frame of integer, float and boolean: an element that is not of the
\* class is taken for a container, so without a key, or with a missing one,
\* the message f"{_element[key]}" raises.
JudgeClass(arg, class, Holds(_), reply) ==
  IF arg.form = "direct" /\ arg.value.type = "none" THEN "accepted"
  ELSE IF arg.form = "direct" /\ IsInstance(arg.value, class)
    THEN AssertzCall(Holds(arg.value), reply)
  ELSE IF arg.form \in Keyed THEN AssertzCall(IsInstance(arg.value, class), reply)
  ELSE "crashed"

\* Under a key the empty string passes.  A list is asked first whether the
\* index is one of its elements.
AssertzMandatory(arg, reply) ==
  IF arg.form = "direct" THEN AssertzCall(arg.value.truthy, reply)
  ELSE IF arg.form = "member" THEN "crashed"
  ELSE AssertzCall(arg.form = "keyed" /\ arg.value.type # "none", reply)

AssertzString(arg, reply) ==
  Judge(arg, LAMBDA v : IsInstance(v, "str"), reply)

AssertzInteger(arg, reply) ==
  JudgeClass(arg, "int", LAMBDA v : v.truthy, reply)

AssertzFloat(arg, reply) ==
  JudgeClass(arg, "float", LAMBDA v : v.truthy, reply)

\* Fault: a false value is refused like the zero of a number.
AssertzBooleanTruthy(arg, reply) ==
  JudgeClass(arg, "bool", LAMBDA v : v.truthy, reply)

AssertzBoolean(arg, reply) ==
  JudgeClass(arg, "bool", LAMBDA v : TRUE, reply)

\* Now.to_datetime answers None for whatever strptime refuses, a date object
\* included; only an element that is a date passes before it.
AssertzTimestamp(arg, reply) ==
  IF arg.form = "direct" /\ arg.value.type \in {"none", "date"} THEN "accepted"
  ELSE IF arg.form \in {"direct"} \cup Keyed
    THEN AssertzCall("timestamp" \in arg.value.is, reply)
  ELSE "crashed"

AssertzArray(arg, reply) ==
  Judge(arg, LAMBDA v : IsInstance(v, "list") /\ v.truthy, reply)

AssertzArrayEvenEmpty(arg, reply) ==
  Judge(arg, LAMBDA v : IsInstance(v, "list"), reply)

AssertzDict(arg, reply) ==
  Judge(arg, LAMBDA v : IsInstance(v, "dict") /\ v.truthy, reply)

\* "json" is in v.is when v parses to something that is true: what parses to
\* 0, {} or null is refused like what does not parse.
AssertzJson(arg, reply) ==
  Judge(arg, LAMBDA v : "json" \in v.is, reply)

AssertzComplex(arg, reply) ==
  LET parts == {AssertzJson(arg, FALSE), AssertzDict(arg, FALSE),
                AssertzArray(arg, FALSE)}
  IN  IF "crashed" \in parts THEN "crashed"
      ELSE AssertzCall("accepted" \in parts, reply)

AssertzUuid(arg, reply) ==
  Judge(arg, LAMBDA v : "uuid" \in v.is, reply)

\* The encoded bytes are the expression: the empty string is refused.
AssertzUtf8(arg, reply) ==
  Judge(arg, LAMBDA v : "utf8" \in v.is /\ v.truthy, reply)

AssertzAscii(arg, reply) ==
  Judge(arg, LAMBDA v : "ascii" \in v.is /\ v.truthy, reply)

\* A match that ends before the string does is refused by a call that does
\* not pass reply on: it raises for a caller that asked for a reply, although
\* assertz_reply is documented to return a dictionary instead of raising.
MatchesPrefix(regex, arg) ==
  arg.form \in {"direct"} \cup Keyed /\ regex \in arg.value.starts

AssertzRegex(regex, arg, reply) ==
  IF MatchesPrefix(regex, arg) THEN AssertzCall(FALSE, FALSE)
  ELSE Judge(arg, LAMBDA v : regex \in v.is, reply)

AssertzLocation(arg, reply) ==
  Judge(arg, LAMBDA v : v.type \in {"dict", "list"} /\ "location" \in v.is,
        reply)

AssertzIntersects(x, y, reply) == AssertzCall(x \cap y # {}, reply)

\* assertz_unauthorized and assertz_valid_values: the caller's expression.
AssertzExpression(v, reply) == AssertzCall(v.truthy, reply)

Kinds == {"mandatory", "string", "integer", "float", "timestamp", "boolean",
          "array", "array_even_empty", "dict", "json", "complex", "uuid",
          "utf8", "ascii", "location"} \cup Regexes

Assertz(kind, arg, reply) ==
  CASE kind = "mandatory" -> AssertzMandatory(arg, reply)
    [] kind = "string"    -> AssertzString(arg, reply)
    [] kind = "integer"   -> AssertzInteger(arg, reply)
    [] kind = "float"     -> AssertzFloat(arg, reply)
    [] kind = "timestamp" -> AssertzTimestamp(arg, reply)
    [] kind = "boolean"   -> AssertzBoolean(arg, reply)
    [] kind = "array"     -> AssertzArray(arg, reply)
    [] kind = "array_even_empty" -> AssertzArrayEvenEmpty(arg, reply)
    [] kind = "dict"      -> AssertzDict(arg, reply)
    [] kind = "json"      -> AssertzJson(arg, reply)
    [] kind = "complex"   -> AssertzComplex(arg, reply)
    [] kind = "uuid"      -> AssertzUuid(arg, reply)
    [] kind = "utf8"      -> AssertzUtf8(arg, reply)
    [] kind = "ascii"     -> AssertzAscii(arg, reply)
    [] kind = "location"  -> AssertzLocation(arg, reply)
    [] kind \in Regexes   -> AssertzRegex(kind, arg, reply)

\* The functions named assertz_..._reply.
AssertzReply(kind, arg) == Assertz(kind, arg, TRUE)

-----------------------------------------------------------------------------
(* What callers rely on.                                                   *)

\* A handler asks for a reply to keep exceptions away.  Both forms pass the
\* same values, and what one refuses the other answers, except that a prefix
\* match raises in both; and what is found under a key, which is what a client
\* sent, is judged whatever it is: only the caller's own use of the function
\* (no key, no container, an index past the end) ends in another exception.
SameVerdict(kind, arg) ==
  LET raising == Assertz(kind, arg, FALSE)
      reply   == AssertzReply(kind, arg)
  IN  /\ IF kind \in Regexes /\ MatchesPrefix(kind, arg)
         THEN raising = "refused" /\ reply = "refused"
         ELSE \/ raising = reply /\ raising \in {"accepted", "crashed"}
              \/ raising = "refused" /\ reply = "replied"
      /\ arg.form \in Keyed => raising # "crashed"

\* A value passes by itself exactly if it passes under a key, but for the
\* numbers that are false, date objects, None, and mandatory, which without
\* a key asks for a true value.
SameUnderKey(kind, v) ==
  \/ kind = "mandatory" /\ ~ v.truthy
  \/ v.type \in {"none", "date"}
  \/ kind \in {"integer", "float"} /\ ~ v.truthy
  \/ (Assertz(kind, [form |-> "direct", value |-> v], FALSE) = "accepted")
       = (Assertz(kind, [form |-> "keyed", value |-> v], FALSE) = "accepted")
=============================================================================
