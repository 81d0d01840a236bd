--------------------------- MODULE Helpers_proofs ---------------------------
(***************************************************************************)
(* The pure functions of envoxy, for every input: the assertions of any    *)
(* value, the dates of any instant and zone, the names of any words.  The  *)
(* properties of MCHelpers, which speak of the inputs its run enumerates,  *)
(* follow.                                                                 *)
(***************************************************************************)
EXTENDS MCHelpers, SequenceTheorems, WellFoundedInduction, TLAPS

(***************************************************************************)
(* Asserts.                                                                *)
(***************************************************************************)

LEMMA Dispatch ==
  ASSUME NEW arg, NEW reply
  PROVE  /\ Assertz("mandatory", arg, reply) = AssertzMandatory(arg, reply)
         /\ Assertz("string", arg, reply) = AssertzString(arg, reply)
         /\ Assertz("integer", arg, reply) = AssertzInteger(arg, reply)
         /\ Assertz("float", arg, reply) = AssertzFloat(arg, reply)
         /\ Assertz("timestamp", arg, reply) = AssertzTimestamp(arg, reply)
         /\ Assertz("boolean", arg, reply) = AssertzBoolean(arg, reply)
         /\ Assertz("array", arg, reply) = AssertzArray(arg, reply)
         /\ Assertz("array_even_empty", arg, reply)
              = AssertzArrayEvenEmpty(arg, reply)
         /\ Assertz("dict", arg, reply) = AssertzDict(arg, reply)
         /\ Assertz("json", arg, reply) = AssertzJson(arg, reply)
         /\ Assertz("complex", arg, reply) = AssertzComplex(arg, reply)
         /\ Assertz("uuid", arg, reply) = AssertzUuid(arg, reply)
         /\ Assertz("utf8", arg, reply) = AssertzUtf8(arg, reply)
         /\ Assertz("ascii", arg, reply) = AssertzAscii(arg, reply)
         /\ Assertz("location", arg, reply) = AssertzLocation(arg, reply)
         /\ \A regex \in Regexes :
              Assertz(regex, arg, reply) = AssertzRegex(regex, arg, reply)
BY ZenonT(60) DEF Assertz, Regexes

\* The two forms of a call have the same verdict, and one on a value that was
\* found under a key.
Alike(arg, raising, reply) ==
  /\ \/ raising = reply /\ raising \in {"accepted", "crashed"}
     \/ raising = "refused" /\ reply = "replied"
  /\ arg.form \in Keyed => raising # "crashed"

LEMMA CallAlike ==
  ASSUME NEW arg, NEW e
  PROVE  Alike(arg, AssertzCall(e, FALSE), AssertzCall(e, TRUE))
BY DEF Alike, AssertzCall

LEMMA FunctionsAlike ==
  ASSUME NEW arg
  PROVE  /\ Alike(arg, AssertzMandatory(arg, FALSE), AssertzMandatory(arg, TRUE))
         /\ Alike(arg, AssertzString(arg, FALSE), AssertzString(arg, TRUE))
         /\ Alike(arg, AssertzInteger(arg, FALSE), AssertzInteger(arg, TRUE))
         /\ Alike(arg, AssertzFloat(arg, FALSE), AssertzFloat(arg, TRUE))
         /\ Alike(arg, AssertzTimestamp(arg, FALSE), AssertzTimestamp(arg, TRUE))
         /\ Alike(arg, AssertzBoolean(arg, FALSE), AssertzBoolean(arg, TRUE))
         /\ Alike(arg, AssertzArray(arg, FALSE), AssertzArray(arg, TRUE))
         /\ Alike(arg, AssertzArrayEvenEmpty(arg, FALSE), AssertzArrayEvenEmpty(arg, TRUE))
         /\ Alike(arg, AssertzDict(arg, FALSE), AssertzDict(arg, TRUE))
         /\ Alike(arg, AssertzJson(arg, FALSE), AssertzJson(arg, TRUE))
         /\ Alike(arg, AssertzUuid(arg, FALSE), AssertzUuid(arg, TRUE))
         /\ Alike(arg, AssertzUtf8(arg, FALSE), AssertzUtf8(arg, TRUE))
         /\ Alike(arg, AssertzAscii(arg, FALSE), AssertzAscii(arg, TRUE))
         /\ Alike(arg, AssertzLocation(arg, FALSE), AssertzLocation(arg, TRUE))
         /\ Alike(arg, AssertzComplex(arg, FALSE), AssertzComplex(arg, TRUE))
<1>0. /\ Alike(arg, "accepted", "accepted")
      /\ arg.form \notin Keyed => Alike(arg, "crashed", "crashed")
  BY DEF Alike
<1>a. /\ "direct" \notin Keyed /\ "absent" \notin Keyed /\ "opaque" \notin Keyed
      /\ "beyond" \notin Keyed /\ "member" \notin Keyed
  BY DEF Keyed
<1> USE <1>0, <1>a, CallAlike DEF Judge, JudgeClass
<1>1. Alike(arg, AssertzMandatory(arg, FALSE), AssertzMandatory(arg, TRUE))
  BY DEF AssertzMandatory
<1>2. Alike(arg, AssertzString(arg, FALSE), AssertzString(arg, TRUE))
  BY DEF AssertzString
<1>3. Alike(arg, AssertzInteger(arg, FALSE), AssertzInteger(arg, TRUE))
  BY DEF AssertzInteger
<1>4. Alike(arg, AssertzFloat(arg, FALSE), AssertzFloat(arg, TRUE))
  BY DEF AssertzFloat
<1>5. Alike(arg, AssertzTimestamp(arg, FALSE), AssertzTimestamp(arg, TRUE))
  BY DEF AssertzTimestamp
<1>6. Alike(arg, AssertzBoolean(arg, FALSE), AssertzBoolean(arg, TRUE))
  BY DEF AssertzBoolean
<1>7. Alike(arg, AssertzArray(arg, FALSE), AssertzArray(arg, TRUE))
  BY DEF AssertzArray
<1>8. Alike(arg, AssertzArrayEvenEmpty(arg, FALSE), AssertzArrayEvenEmpty(arg, TRUE))
  BY DEF AssertzArrayEvenEmpty
<1>9. Alike(arg, AssertzDict(arg, FALSE), AssertzDict(arg, TRUE))
  BY DEF AssertzDict
<1>10. Alike(arg, AssertzJson(arg, FALSE), AssertzJson(arg, TRUE))
  BY DEF AssertzJson
<1>11. Alike(arg, AssertzUuid(arg, FALSE), AssertzUuid(arg, TRUE))
  BY DEF AssertzUuid
<1>12. Alike(arg, AssertzUtf8(arg, FALSE), AssertzUtf8(arg, TRUE))
  BY DEF AssertzUtf8
<1>13. Alike(arg, AssertzAscii(arg, FALSE), AssertzAscii(arg, TRUE))
  BY DEF AssertzAscii
<1>14. Alike(arg, AssertzLocation(arg, FALSE), AssertzLocation(arg, TRUE))
  BY DEF AssertzLocation
<1>15. Alike(arg, AssertzComplex(arg, FALSE), AssertzComplex(arg, TRUE))
  <2>1. ASSUME arg.form \in Keyed
        PROVE  /\ AssertzJson(arg, FALSE) # "crashed"
               /\ AssertzDict(arg, FALSE) # "crashed"
               /\ AssertzArray(arg, FALSE) # "crashed"
    BY <1>7, <1>9, <1>10, <2>1 DEF Alike
  <2> QED
    BY <2>1 DEF AssertzComplex
<1> QED
  BY <1>1, <1>2, <1>3, <1>4, <1>5, <1>6, <1>7, <1>8, <1>9, <1>10, <1>11, <1>12,
     <1>13, <1>14, <1>15

\* asserts.py: every function takes reply; asked for one it answers what it
\* would have refused and passes what it would have passed, for any value
\* handed over in any form, except that a text of which a regular expression
\* matches a proper prefix is refused by an exception in either form.  No value
\* found under a key ends in another exception.
THEOREM RepliesDifferOnPrefixesOnly ==
  ASSUME NEW kind \in Kinds, NEW arg
  PROVE  SameVerdict(kind, arg)
<1>1. CASE kind \notin Regexes
  <2>1. Alike(arg, Assertz(kind, arg, FALSE), Assertz(kind, arg, TRUE))
    <3>1. CASE kind = "mandatory"
      BY ZenonT(60), <3>1, Dispatch, FunctionsAlike
    <3>2. CASE kind = "string"
      BY ZenonT(60), <3>2, Dispatch, FunctionsAlike
    <3>3. CASE kind = "integer"
      BY ZenonT(60), <3>3, Dispatch, FunctionsAlike
    <3>4. CASE kind = "float"
      BY ZenonT(60), <3>4, Dispatch, FunctionsAlike
    <3>5. CASE kind = "timestamp"
      BY ZenonT(60), <3>5, Dispatch, FunctionsAlike
    <3>6. CASE kind = "boolean"
      BY ZenonT(60), <3>6, Dispatch, FunctionsAlike
    <3>7. CASE kind = "array"
      BY ZenonT(60), <3>7, Dispatch, FunctionsAlike
    <3>8. CASE kind = "array_even_empty"
      BY ZenonT(60), <3>8, Dispatch, FunctionsAlike
    <3>9. CASE kind = "dict"
      BY ZenonT(60), <3>9, Dispatch, FunctionsAlike
    <3>10. CASE kind = "json"
      BY ZenonT(60), <3>10, Dispatch, FunctionsAlike
    <3>11. CASE kind = "uuid"
      BY ZenonT(60), <3>11, Dispatch, FunctionsAlike
    <3>12. CASE kind = "utf8"
      BY ZenonT(60), <3>12, Dispatch, FunctionsAlike
    <3>13. CASE kind = "ascii"
      BY ZenonT(60), <3>13, Dispatch, FunctionsAlike
    <3>14. CASE kind = "location"
      BY ZenonT(60), <3>14, Dispatch, FunctionsAlike
    <3>15. CASE kind = "complex"
      BY ZenonT(60), <3>15, Dispatch, FunctionsAlike
    <3> QED
      BY <1>1, <3>1, <3>2, <3>3, <3>4, <3>5, <3>6, <3>7, <3>8, <3>9,
         <3>10, <3>11, <3>12, <3>13, <3>14, <3>15 DEF Kinds
  <2> QED
    BY <1>1, <2>1 DEF SameVerdict, AssertzReply, Alike
<1>2. CASE kind \in Regexes
  <2>1. \A reply : Assertz(kind, arg, reply) = AssertzRegex(kind, arg, reply)
    BY <1>2, Dispatch
  <2>2. CASE MatchesPrefix(kind, arg)
    <3>1. \A reply : AssertzRegex(kind, arg, reply) = "refused"
      BY <2>2 DEF AssertzRegex, AssertzCall
    <3> QED
      BY <1>2, <2>1, <2>2, <3>1 DEF SameVerdict, AssertzReply
  <2>3. CASE ~ MatchesPrefix(kind, arg)
    <3>1. Alike(arg, AssertzRegex(kind, arg, FALSE), AssertzRegex(kind, arg, TRUE))
      <4>1. /\ Alike(arg, "accepted", "accepted")
            /\ arg.form \notin Keyed => Alike(arg, "crashed", "crashed")
        BY DEF Alike
      <4>2. \A form \in {"opaque", "beyond", "member"} : form \notin Keyed
        BY DEF Keyed
      <4> QED
        BY <2>3, <4>1, <4>2, CallAlike DEF AssertzRegex, Judge
    <3> QED
      BY <2>1, <2>3, <3>1 DEF SameVerdict, AssertzReply, Alike
  <2> QED
    BY <2>2, <2>3
<1> QED
  BY <1>1, <1>2

Direct(v) == [form |-> "direct", value |-> v]
UnderKey(v) == [form |-> "keyed", value |-> v]

\* A value that is judged by itself as under a key.
Same(kind, v) ==
  (Assertz(kind, Direct(v), FALSE) = "accepted")
    = (Assertz(kind, UnderKey(v), FALSE) = "accepted")

LEMMA Forming ==
  ASSUME NEW v
  PROVE  /\ Direct(v).form = "direct" /\ Direct(v).value = v
         /\ UnderKey(v).form = "keyed" /\ UnderKey(v).value = v
BY DEF Direct, UnderKey

\* Most functions judge what they find, wherever they find it.
LEMMA JudgedAlike ==
  ASSUME NEW v, v.type \notin {"none", "date"}
  PROVE  /\ \A regex \in Regexes : Same(regex, v)
         /\ \A kind \in {"string", "timestamp", "array", "array_even_empty",
                         "dict", "json", "uuid", "utf8", "ascii", "location",
                         "complex"} : Same(kind, v)
<1> DEFINE d == Direct(v)
           k == UnderKey(v)
<1>1. /\ d.form = "direct" /\ d.value = v
      /\ k.form = "keyed" /\ k.value = v
  BY Forming
<1>2. \A kind : Assertz(kind, d, FALSE) = Assertz(kind, k, FALSE) => Same(kind, v)
  BY DEF Same
<1> HIDE DEF d, k
<1> USE DEF Judge, Keyed
<1>3. AssertzString(d, FALSE) = AssertzString(k, FALSE)
  BY <1>1 DEF AssertzString
<1>4. AssertzTimestamp(d, FALSE) = AssertzTimestamp(k, FALSE)
  BY <1>1 DEF AssertzTimestamp
<1>5. AssertzArray(d, FALSE) = AssertzArray(k, FALSE)
  BY <1>1 DEF AssertzArray
<1>6. AssertzArrayEvenEmpty(d, FALSE) = AssertzArrayEvenEmpty(k, FALSE)
  BY <1>1 DEF AssertzArrayEvenEmpty
<1>7. AssertzDict(d, FALSE) = AssertzDict(k, FALSE)
  BY <1>1 DEF AssertzDict
<1>8. AssertzJson(d, FALSE) = AssertzJson(k, FALSE)
  BY <1>1 DEF AssertzJson
<1>9. AssertzUuid(d, FALSE) = AssertzUuid(k, FALSE)
  BY <1>1 DEF AssertzUuid
<1>10. AssertzUtf8(d, FALSE) = AssertzUtf8(k, FALSE)
  BY <1>1 DEF AssertzUtf8
<1>11. AssertzAscii(d, FALSE) = AssertzAscii(k, FALSE)
  BY <1>1 DEF AssertzAscii
<1>12. AssertzLocation(d, FALSE) = AssertzLocation(k, FALSE)
  BY <1>1 DEF AssertzLocation
<1>13. AssertzComplex(d, FALSE) = AssertzComplex(k, FALSE)
  BY <1>5, <1>7, <1>8 DEF AssertzComplex
<1>14. ASSUME NEW regex \in Regexes PROVE Same(regex, v)
  <2>1. AssertzRegex(regex, d, FALSE) = AssertzRegex(regex, k, FALSE)
    BY <1>1 DEF AssertzRegex, MatchesPrefix
  <2>2. /\ Assertz(regex, d, FALSE) = AssertzRegex(regex, d, FALSE)
        /\ Assertz(regex, k, FALSE) = AssertzRegex(regex, k, FALSE)
    BY Dispatch
  <2> QED
    BY <1>2, <2>1, <2>2
<1>15. Same("string", v)
  <2>1. /\ Assertz("string", d, FALSE) = AssertzString(d, FALSE)
        /\ Assertz("string", k, FALSE) = AssertzString(k, FALSE)
    BY Dispatch
  <2> QED
    BY <1>2, <1>3, <2>1
<1>16. Same("timestamp", v)
  <2>1. /\ Assertz("timestamp", d, FALSE) = AssertzTimestamp(d, FALSE)
        /\ Assertz("timestamp", k, FALSE) = AssertzTimestamp(k, FALSE)
    BY Dispatch
  <2> QED
    BY <1>2, <1>4, <2>1
<1>17. Same("array", v)
  <2>1. /\ Assertz("array", d, FALSE) = AssertzArray(d, FALSE)
        /\ Assertz("array", k, FALSE) = AssertzArray(k, FALSE)
    BY Dispatch
  <2> QED
    BY <1>2, <1>5, <2>1
<1>18. Same("array_even_empty", v)
  <2>1. /\ Assertz("array_even_empty", d, FALSE) = AssertzArrayEvenEmpty(d, FALSE)
        /\ Assertz("array_even_empty", k, FALSE) = AssertzArrayEvenEmpty(k, FALSE)
    BY Dispatch
  <2> QED
    BY <1>2, <1>6, <2>1
<1>19. Same("dict", v)
  <2>1. /\ Assertz("dict", d, FALSE) = AssertzDict(d, FALSE)
        /\ Assertz("dict", k, FALSE) = AssertzDict(k, FALSE)
    BY Dispatch
  <2> QED
    BY <1>2, <1>7, <2>1
<1>20. Same("json", v)
  <2>1. /\ Assertz("json", d, FALSE) = AssertzJson(d, FALSE)
        /\ Assertz("json", k, FALSE) = AssertzJson(k, FALSE)
    BY Dispatch
  <2> QED
    BY <1>2, <1>8, <2>1
<1>21. Same("uuid", v)
  <2>1. /\ Assertz("uuid", d, FALSE) = AssertzUuid(d, FALSE)
        /\ Assertz("uuid", k, FALSE) = AssertzUuid(k, FALSE)
    BY Dispatch
  <2> QED
    BY <1>2, <1>9, <2>1
<1>22. Same("utf8", v)
  <2>1. /\ Assertz("utf8", d, FALSE) = AssertzUtf8(d, FALSE)
        /\ Assertz("utf8", k, FALSE) = AssertzUtf8(k, FALSE)
    BY Dispatch
  <2> QED
    BY <1>2, <1>10, <2>1
<1>23. Same("ascii", v)
  <2>1. /\ Assertz("ascii", d, FALSE) = AssertzAscii(d, FALSE)
        /\ Assertz("ascii", k, FALSE) = AssertzAscii(k, FALSE)
    BY Dispatch
  <2> QED
    BY <1>2, <1>11, <2>1
<1>24. Same("location", v)
  <2>1. /\ Assertz("location", d, FALSE) = AssertzLocation(d, FALSE)
        /\ Assertz("location", k, FALSE) = AssertzLocation(k, FALSE)
    BY Dispatch
  <2> QED
    BY <1>2, <1>12, <2>1
<1>25. Same("complex", v)
  <2>1. /\ Assertz("complex", d, FALSE) = AssertzComplex(d, FALSE)
        /\ Assertz("complex", k, FALSE) = AssertzComplex(k, FALSE)
    BY Dispatch
  <2> QED
    BY <1>2, <1>13, <2>1
<1> QED
  BY <1>14, <1>15, <1>16, <1>17, <1>18, <1>19, <1>20, <1>21,
     <1>22, <1>23, <1>24, <1>25

\* The three functions that take an element of another class for a container
\* only agree on what they pass.
LEMMA ClassesPassAlike ==
  ASSUME NEW v, v.type # "none"
  PROVE  /\ v.truthy => Same("integer", v) /\ Same("float", v)
         /\ Same("boolean", v)
<1> DEFINE d == Direct(v)
           k == UnderKey(v)
<1>1. /\ d.form = "direct" /\ d.value = v
      /\ k.form = "keyed" /\ k.value = v
  BY Forming
<1>2. \A kind : \/ /\ Assertz(kind, d, FALSE) = "accepted"
                   /\ Assertz(kind, k, FALSE) = "accepted"
                \/ /\ Assertz(kind, d, FALSE) # "accepted"
                   /\ Assertz(kind, k, FALSE) # "accepted"
                => Same(kind, v)
  BY DEF Same
<1> HIDE DEF d, k
<1>3. v.truthy => Same("integer", v)
  <2>1. CASE IsInstance(v, "int")
    <3>1. v.truthy => /\ AssertzInteger(d, FALSE) = "accepted"
                      /\ AssertzInteger(k, FALSE) = "accepted"
      BY <1>1, <2>1 DEF AssertzInteger, JudgeClass, Keyed, AssertzCall
    <3> QED
      BY <1>2, <3>1, Dispatch
  <2>2. CASE ~ IsInstance(v, "int")
    <3>1. /\ AssertzInteger(d, FALSE) # "accepted"
          /\ AssertzInteger(k, FALSE) # "accepted"
      BY <1>1, <2>2 DEF AssertzInteger, JudgeClass, Keyed, AssertzCall
    <3> QED
      BY <1>2, <3>1, Dispatch
  <2> QED
    BY <2>1, <2>2
<1>4. v.truthy => Same("float", v)
  <2>1. CASE IsInstance(v, "float")
    <3>1. v.truthy => /\ AssertzFloat(d, FALSE) = "accepted"
                      /\ AssertzFloat(k, FALSE) = "accepted"
      BY <1>1, <2>1 DEF AssertzFloat, JudgeClass, Keyed, AssertzCall
    <3> QED
      BY <1>2, <3>1, Dispatch
  <2>2. CASE ~ IsInstance(v, "float")
    <3>1. /\ AssertzFloat(d, FALSE) # "accepted"
          /\ AssertzFloat(k, FALSE) # "accepted"
      BY <1>1, <2>2 DEF AssertzFloat, JudgeClass, Keyed, AssertzCall
    <3> QED
      BY <1>2, <3>1, Dispatch
  <2> QED
    BY <2>1, <2>2
<1>5. Same("boolean", v)
  <2>1. CASE IsInstance(v, "bool")
    <3>1. /\ AssertzBoolean(d, FALSE) = "accepted"
          /\ AssertzBoolean(k, FALSE) = "accepted"
      BY <1>1, <2>1 DEF AssertzBoolean, JudgeClass, Keyed, AssertzCall
    <3> QED
      BY <1>2, <3>1, Dispatch
  <2>2. CASE ~ IsInstance(v, "bool")
    <3>1. /\ AssertzBoolean(d, FALSE) # "accepted"
          /\ AssertzBoolean(k, FALSE) # "accepted"
      BY <1>1, <2>2 DEF AssertzBoolean, JudgeClass, Keyed, AssertzCall
    <3> QED
      BY <1>2, <3>1, Dispatch
  <2> QED
    BY <2>1, <2>2
<1> QED
  BY <1>3, <1>4, <1>5

LEMMA TrueMandatory == ASSUME NEW v, v.type # "none", v.truthy PROVE Same("mandatory", v)
<1>1. /\ AssertzMandatory(Direct(v), FALSE) = "accepted"
      /\ AssertzMandatory(UnderKey(v), FALSE) = "accepted"
  BY Forming DEF AssertzMandatory, AssertzCall
<1>2. /\ Assertz("mandatory", Direct(v), FALSE) = "accepted"
      /\ Assertz("mandatory", UnderKey(v), FALSE) = "accepted"
  BY <1>1, Dispatch
<1> QED
  BY <1>2 DEF Same

\* asserts.py: every function takes key; any value gets the same verdict by
\* itself and under a key, but for the exceptions SameUnderKey names.
THEOREM KeysJudgeAlike ==
  ASSUME NEW kind \in Kinds, NEW v
  PROVE  SameUnderKey(kind, v)
<1>1. CASE \/ kind = "mandatory" /\ ~ v.truthy
           \/ v.type \in {"none", "date"}
           \/ kind \in {"integer", "float"} /\ ~ v.truthy
  BY <1>1 DEF SameUnderKey
<1>2. CASE /\ kind = "mandatory" => v.truthy
           /\ v.type \notin {"none", "date"}
           /\ kind \in {"integer", "float"} => v.truthy
  <2>1. Same(kind, v)
    BY <1>2, JudgedAlike, ClassesPassAlike, TrueMandatory DEF Kinds
  <2> QED
    BY <2>1 DEF SameUnderKey, Same, Direct, UnderKey
<1> QED
  BY <1>1, <1>2

(***************************************************************************)
(* DateFormats.                                                            *)
(***************************************************************************)

Micro == {u \in Nat : u < 1000000}

DateInput ==
  [kind: InputKinds, sec: Int, us: Micro, tz: Int \cup {None}, dot: BOOLEAN]

Instants == [sec: Int, us: Micro, off: Int]

LEMMA Tens ==
  /\ Ten[0] = 1 /\ Ten[1] = 10 /\ Ten[2] = 100 /\ Ten[3] = 1000
  /\ Ten[4] = 10000 /\ Ten[5] = 100000 /\ Ten[6] = 1000000
BY SMT DEF Ten

LEMMA MomentTyped ==
  ASSUME NEW input \in DateInput, NEW assume \in Int,
         Moment(input, assume) # Raised
  PROVE  Moment(input, assume) \in Instants
<1> DEFINE read(us, off) == [sec |-> input.sec, us |-> us, off |-> off]
<1>1. /\ input.sec \in Int /\ input.us \in Micro
      /\ input.tz \in Int \cup {None}
      /\ input.kind \in InputKinds
  BY SMT DEF DateInput
<1>2. 0 \in Micro
  BY SMT DEF Micro
<1>3. CASE input.kind = "none"
  BY <1>1, <1>3, SMT DEF Moment, Instants
<1>4. ASSUME input.kind # "none"
      PROVE  Moment(input, assume) = CoerceDatetime(input, assume)
  BY <1>4, SMT DEF Moment
<1>5. CASE input.kind = "date"
  BY <1>1, <1>2, <1>4, <1>5, SMT DEF CoerceDatetime, Instants
<1>6. CASE input.kind \in {"datetime", "text"}
  BY <1>1, <1>4, <1>6, SMT DEF CoerceDatetime, Instants
<1>7. CASE input.kind = "loose"
  <2>1. ToDatetime(input) = read(input.us, None)
    BY <1>7, SMT DEF ToDatetime
  <2>2. CoerceDatetime(input, assume) = [ToDatetime(input) EXCEPT !.off = assume]
    BY <1>7, SMT DEF CoerceDatetime
  <2>3. CoerceDatetime(input, assume) = read(input.us, assume)
    BY <2>1, <2>2, SMT
  <2> QED
    BY <1>1, <1>4, <1>7, <2>3, SMT DEF Instants
<1>8. CASE input.kind \in {"bad", "other"}
  BY <1>4, <1>8, SMT DEF CoerceDatetime
<1> QED
  BY <1>1, <1>3, <1>5, <1>6, <1>7, <1>8, SMT DEF InputKinds

LEMMA InstantFields ==
  ASSUME NEW dt \in Instants
  PROVE  /\ dt.sec \in Int /\ dt.off \in Int /\ dt.us \in Nat /\ dt.us < 1000000
         /\ Utc(dt) \in Int
<1>1. dt.us \in Micro /\ dt.sec \in Int /\ dt.off \in Int
  BY SMT DEF Instants
<1> QED
  BY <1>1, SMT DEF Micro, Utc

LEMMA Zoned ==
  ASSUME NEW dt \in Instants, NEW tz \in Int \cup {None}
  PROVE  /\ InZone(dt, tz).sec \in Int /\ InZone(dt, tz).off \in Int
         /\ InZone(dt, tz).sec - InZone(dt, tz).off = Utc(dt)
BY InstantFields, SMT DEF InZone, AsTimezone, Utc

\* What the functions that read make of a text that was written.
LEMMA ReadingText ==
  ASSUME NEW sec \in Int, NEW zone \in Int, NEW digits, NEW n,
         NEW assume \in Int
  PROVE  LET text == [sec |-> sec, zone |-> zone,
                      frac |-> [digits |-> digits, n |-> n]]
             back == [sec |-> sec, us |-> n * Ten[6 - digits], off |-> zone]
         IN  /\ Parse(Text(text), assume) = back
             /\ Moment(Text(text), assume) = back
BY DatesAssumption, SMT DEF Text, Parse, Moment, CoerceDatetime

\* utils/datetime.py: for any value and zone iso (where its zone can be read),
\* rfc1123, strftime and the API's text name one second, and unix the same from
\* 1970 on; before 1970 it names the next one, unless there is no fraction.
THEOREM StylesNameTheSecond ==
  ASSUME NEW input \in DateInput, NEW tz \in Int \cup {None},
         NEW assume \in Int
  PROVE  StylesAgree(input, tz, assume)
<1> DEFINE dt == Moment(input, assume)
<1> SUFFICES ASSUME dt # Raised PROVE StylesAgree(input, tz, assume)
  BY DEF StylesAgree
<1>1. dt \in Instants
  BY MomentTyped, SMT
<1>2. /\ FormatIso(input, 3, tz, assume).sec = InZone(dt, tz).sec
      /\ FormatIso(input, 3, tz, assume).zone \in {InZone(dt, tz).off, Raised}
  BY DEF FormatIso, OffsetText
<1>3. /\ FormatStrftime(input, tz, assume).sec = InZone(dt, tz).sec
      /\ FormatStrftime(input, tz, assume).zone = InZone(dt, tz).off
  BY DEF FormatStrftime
<1>4. /\ FormatRfc1123(input, assume) = Utc(dt)
      /\ FormatApi(input, assume).sec = Utc(dt)
      /\ FormatApi(input, assume).frac.n = dt.us \div 1000
  BY DEF FormatRfc1123, FormatApi
<1>5. FormatUnix(input, assume)
        = Utc(dt) + (IF Utc(dt) < 0 /\ dt.us > 0 THEN 1 ELSE 0)
  BY <1>1, InstantFields, SMT DEF FormatUnix
<1>6. \A ms \in FormatUnixMs(input, assume) :
        ms - (Utc(dt) * 1000 + dt.us \div 1000) \in {0, 1}
  <2> DEFINE low == Utc(dt) * 1000 + dt.us \div 1000
  <2>1. low \in Int
    BY <1>1, InstantFields, SMT
  <2>2. FormatUnixMs(input, assume) \subseteq {low, low + 1}
    BY DEF FormatUnixMs
  <2> HIDE DEF low
  <2>3. \A ms \in FormatUnixMs(input, assume) : ms - low \in {0, 1}
    BY <2>1, <2>2
  <2> QED
    BY <2>3 DEF low
<1> HIDE DEF dt
<1> DEFINE iso     == FormatIso(input, 3, tz, assume)
           custom  == FormatStrftime(input, tz, assume)
           rfc1123 == FormatRfc1123(input, assume)
<1>7. iso.zone # Raised => rfc1123 = iso.sec - iso.zone
  BY <1>1, <1>2, <1>4, Zoned, SMT
<1>8. rfc1123 = custom.sec - custom.zone
  BY <1>1, <1>3, <1>4, Zoned, SMT
<1> HIDE DEF iso, custom, rfc1123
<1>9. /\ rfc1123 = Utc(dt) /\ rfc1123 = FormatApi(input, assume).sec
      /\ FormatUnix(input, assume)
           = rfc1123 + (IF rfc1123 < 0 /\ dt.us > 0 THEN 1 ELSE 0)
  <2>1. rfc1123 = Utc(dt)
    BY <1>4 DEF rfc1123
  <2>2. FormatApi(input, assume).sec = Utc(dt)
    BY <1>4
  <2> QED
    BY <1>5, <2>1, <2>2
<1> DEFINE api == FormatApi(input, assume)
<1>10. \A ms \in FormatUnixMs(input, assume) :
         ms - (api.sec * 1000 + api.frac.n) \in {0, 1}
  <2>1. api.sec = Utc(dt) /\ api.frac.n = dt.us \div 1000
    BY <1>4
  <2> HIDE DEF api
  <2>2. api.sec * 1000 + api.frac.n = Utc(dt) * 1000 + dt.us \div 1000
    BY <2>1
  <2> QED
    BY <1>6, <2>2, SMT
<1> HIDE DEF api
<1> QED
  BY <1>7, <1>8, <1>9, <1>10, Zenon DEF StylesAgree, iso, custom, rfc1123, api, dt

LEMMA ApiText ==
  ASSUME NEW input \in DateInput, NEW assume \in Int,
         Moment(input, assume) # Raised
  PROVE  LET dt == Moment(input, assume)
         IN  FormatApi(input, assume)
               = [sec |-> Utc(dt), zone |-> 0,
                  frac |-> [digits |-> 3, n |-> dt.us \div 1000]]
BY SMT DEF FormatApi

\* What is left of the microseconds.
Cut(us) == (us \div 1000) * 1000

LEMMA ApiReadsBack ==
  ASSUME NEW input \in DateInput, NEW assume \in Int,
         Moment(input, assume) # Raised
  PROVE  LET dt   == Moment(input, assume)
             text == FormatApi(input, assume)
             back == [sec |-> Utc(dt), us |-> Cut(dt.us), off |-> 0]
         IN  Parse(Text(text), assume) = back /\ Moment(Text(text), assume) = back
<1> DEFINE dt == Moment(input, assume)
<1>1. Utc(dt) \in Int
  BY MomentTyped, InstantFields, SMT
<1>2. Ten[6 - 3] = 1000
  BY Tens, SMT
<1> DEFINE n    == dt.us \div 1000
           text == [sec |-> Utc(dt), zone |-> 0, frac |-> [digits |-> 3, n |-> n]]
           back == [sec |-> Utc(dt), us |-> n * Ten[6 - 3], off |-> 0]
<1>3. FormatApi(input, assume) = text
  BY ApiText, SMT
<1> HIDE DEF dt, n
<1>4. Parse(Text(text), assume) = back /\ Moment(Text(text), assume) = back
  BY <1>1, ReadingText, SMT
<1>5. back = [sec |-> Utc(dt), us |-> Cut(dt.us), off |-> 0]
  BY <1>2, SMT DEF Cut, n
<1> QED
  BY <1>3, <1>4, <1>5, SMT DEF dt

\* utils/datetime.py: a text of the API's format reads back as less than a
\* millisecond before the instant it was written for, is written alike when
\* it is written again, and texts are in the order of their instants.
THEOREM ApiTextsRoundTrip ==
  ASSUME NEW input \in DateInput, NEW other \in DateInput, NEW assume \in Int
  PROVE  ApiRoundTrip(input, other, assume)
<1> DEFINE dt    == Moment(input, assume)
           text  == FormatApi(input, assume)
           back  == Parse(Text(text), assume)
           later == Moment(other, assume)
           next  == FormatApi(other, assume)
<1> SUFFICES ASSUME dt # Raised
             PROVE  /\ Later(dt, back) \in 0 .. 999
                    /\ FormatApi(Text(text), assume) = text
                    /\ ToDatetime(Text(text)) # None
                    /\ later # Raised /\ Later(later, dt) >= 0 =>
                         Later(Parse(Text(next), assume), back) >= 0
  BY SMT DEF ApiRoundTrip
<1>1. dt \in Instants
  BY MomentTyped, SMT
<1>2. /\ dt.us \in Nat /\ dt.us < 1000000 /\ Utc(dt) \in Int
  BY <1>1, InstantFields, SMT
<1>9. /\ Cut(dt.us) \in Nat /\ Cut(dt.us) < 1000000
      /\ 0 <= dt.us - Cut(dt.us) /\ dt.us - Cut(dt.us) <= 999
      /\ Cut(dt.us) \div 1000 = dt.us \div 1000
  <2> DEFINE u == dt.us
  <2>1. u \in Nat /\ u < 1000000
    BY <1>2
  <2> HIDE DEF u
  <2>2. /\ Cut(u) \in Nat /\ Cut(u) < 1000000
        /\ 0 <= u - Cut(u) /\ u - Cut(u) <= 999
        /\ Cut(u) \div 1000 = u \div 1000
    BY <2>1, SMT DEF Cut
  <2> QED
    BY <2>2 DEF u
<1>3. /\ back = [sec |-> Utc(dt), us |-> Cut(dt.us), off |-> 0]
      /\ Moment(Text(text), assume) = back
  BY ApiReadsBack, SMT
<1>4. Utc(back) = Utc(dt) /\ back.us = Cut(dt.us)
  BY <1>2, <1>3, SMT DEF Utc
<1>5. Later(dt, back) \in 0 .. 999
  <2>1. Utc(dt) - Utc(back) = 0
    BY <1>2, <1>4, SMT
  <2>2. Later(dt, back) = dt.us - back.us
    <3> HIDE DEF dt, back
    <3>1. dt.us \in Int /\ back.us \in Int
      BY <1>2, <1>4, <1>9, SMT
    <3> QED
      BY <2>1, <3>1, SMT DEF Later
  <2> QED
    <3> HIDE DEF dt, back
    <3>1. /\ dt.us - back.us \in Int
          /\ 0 <= dt.us - back.us /\ dt.us - back.us <= 999
      BY <1>2, <1>4, <1>9, SMT
    <3> QED
      BY <2>2, <3>1, SMT
<1>6. FormatApi(Text(text), assume) = text
  <2>1. back # Raised
    BY <1>2, <1>3, <1>9, DatesAssumption, SMT
  <2>2. FormatApi(Text(text), assume)
          = [sec |-> Utc(back), zone |-> 0,
             frac |-> [digits |-> 3, n |-> back.us \div 1000]]
    BY <1>3, <2>1, SMT DEF FormatApi
  <2>3. back.us \div 1000 = dt.us \div 1000
    BY <1>2, <1>4, <1>9, SMT
  <2> QED
    BY <1>4, <2>2, <2>3, ApiText, SMT
<1>7. ToDatetime(Text(text)) # None
  <2>1. /\ Text(text).kind = "text" /\ Text(text).tz = 0 /\ Text(text).dot
        /\ Text(text).sec \in Int /\ Text(text).us \in Int
    <3>1. /\ text.zone = 0 /\ text.frac.digits = 3
          /\ text.frac.n \in Int /\ text.sec \in Int
      BY <1>2, ApiText, SMT
    <3>2. Ten[6 - 3] = 1000
      BY Tens, SMT
    <3> HIDE DEF text
    <3>3. /\ Text(text).kind = "text" /\ Text(text).tz = text.zone
          /\ Text(text).dot = (text.frac.digits > 0)
          /\ Text(text).sec = text.sec
          /\ Text(text).us = text.frac.n * Ten[6 - text.frac.digits]
      BY <3>1, DatesAssumption, SMT DEF Text
    <3> QED
      <4>1. Text(text).dot
        <5>1. text.frac.digits > 0
          BY <3>1, SMT
        <5> QED
          BY <5>1, Zenon DEF Text
      <4>2. Text(text).us = text.frac.n * 1000
        BY <3>1, <3>2, <3>3, SMT
      <4>3. Text(text).us \in Int
        BY <3>1, <4>2, SMT
      <4> QED
        BY <3>1, <3>3, <4>1, <4>3, SMT
  <2>2. ToDatetime(Text(text)) \in [sec: Int, us: Int, off: Int \cup {None}]
    BY <2>1, SMT DEF ToDatetime
  <2> QED
    BY <2>2, DatesAssumption, SMT
<1>8. ASSUME later # Raised, Later(later, dt) >= 0
      PROVE  Later(Parse(Text(next), assume), back) >= 0
  <2> DEFINE then == Parse(Text(next), assume)
  <2>1. later.us \in Nat /\ later.us < 1000000 /\ Utc(later) \in Int
    BY <1>8, MomentTyped, InstantFields, SMT
  <2>2. then = [sec |-> Utc(later), us |-> Cut(later.us), off |-> 0]
    BY <1>8, ApiReadsBack, SMT
  <2>3. Utc(then) = Utc(later) /\ then.us = Cut(later.us)
    BY <2>1, <2>2, SMT DEF Utc
  <2> HIDE DEF dt, back, later, then
  <2>4. /\ Cut(later.us) \in Nat /\ Cut(later.us) < 1000000
        /\ dt.us <= later.us => Cut(dt.us) <= Cut(later.us)
    <3> DEFINE u == dt.us
               l == later.us
    <3>1. u \in Nat /\ l \in Nat /\ l < 1000000
      BY <1>2, <2>1
    <3> HIDE DEF u, l
    <3>2. /\ Cut(l) \in Nat /\ Cut(l) < 1000000
          /\ u <= l => Cut(u) <= Cut(l)
      BY <3>1, SMT DEF Cut
    <3> QED
      BY <3>2 DEF u, l
  <2>5. Later(then, back) >= 0
    BY <1>2, <1>4, <1>8, <1>9, <2>1, <2>3, <2>4, SMT DEF Later
  <2> QED
    BY <2>5 DEF back, then
<1> QED
  BY <1>5, <1>6, <1>7, <1>8, SMT

\* The microseconds read from the fraction that is written for us.
Written(us, fractional) ==
  LET frac == FormatFractional(us, fractional)
  IN  frac.n * Ten[6 - frac.digits]

LEMMA Rounding ==
  ASSUME NEW us \in Nat, us < 1000000, NEW f \in 1 .. 6
  PROVE  LET unit == Ten[6 - f]
         IN  /\ unit * Ten[f] = 1000000 /\ unit \in Nat /\ Ten[f] \in Nat
             /\ Round(us, unit) \in Nat
             /\ 2 * (Round(us, unit) * unit - us) <= unit
             /\ - unit <= 2 * (Round(us, unit) * unit - us)
<1>1. CASE f = 1
  BY <1>1, Tens, SMT DEF Round
<1>2. CASE f = 2
  BY <1>2, Tens, SMT DEF Round
<1>3. CASE f = 3
  BY <1>3, Tens, SMT DEF Round
<1>4. CASE f = 4
  BY <1>4, Tens, SMT DEF Round
<1>5. CASE f = 5
  BY <1>5, Tens, SMT DEF Round
<1>6. CASE f = 6
  <2>1. 6 - f = 0 /\ Ten[6 - f] = 1 /\ Ten[f] = 1000000
    BY <1>6, Tens, SMT
  <2>2. us \div 1 = us /\ us % 1 = 0
    BY SMT
  <2>3. Round(us, 1) = us
    BY <2>2, SMT DEF Round
  <2> QED
    BY <2>1, <2>3, SMT
<1> QED
  BY <1>1, <1>2, <1>3, <1>4, <1>5, <1>6, SMT

LEMMA WrittenNear ==
  ASSUME NEW us \in Nat, us < 1000000, NEW f \in Int \cup {None}
  PROVE  /\ Written(us, f) \in Int
         /\ f = None => Written(us, f) = us
         /\ f # None /\ f <= 0 => Written(us, f) = 0
         /\ f # None /\ f > 6 => Written(us, f) = us
         /\ f \in 1 .. 6 =>
              \/ /\ 2 * (Written(us, f) - us) <= Ten[6 - f]
                 /\ - Ten[6 - f] <= 2 * (Written(us, f) - us)
              \/ Written(us, f) = 0 /\ 2 * us >= 2000000 - Ten[6 - f]
<1>1. CASE f = None
  <2>1. FormatFractional(us, f) = [digits |-> IF us = 0 THEN 0 ELSE 6, n |-> us]
    BY <1>1, SMT DEF FormatFractional
  <2>2. Written(us, f) = us
    BY <2>1, Tens, SMT DEF Written
  <2> QED
    BY <1>1, <2>2, DatesAssumption, SMT
<1>2. CASE f \in Int /\ f <= 0
  <2>1. FormatFractional(us, f) = [digits |-> 0, n |-> 0]
    BY <1>2, DatesAssumption, SMT DEF FormatFractional
  <2>2. Written(us, f) = 0
    BY <2>1, Tens, SMT DEF Written
  <2> QED
    BY <1>2, <2>2, DatesAssumption, SMT
<1>3. CASE f \in Int /\ f > 6
  <2>1. us \div 1 = us /\ us % 1 = 0 /\ Ten[6 - 6] = 1 /\ Ten[6] = 1000000
    BY Tens, SMT
  <2>2. Round(us, 1) = us
    BY <2>1, SMT DEF Round
  <2>3. FormatFractional(us, f) = [digits |-> 6, n |-> us]
    BY <1>3, <2>1, <2>2, DatesAssumption, SMT DEF FormatFractional
  <2>4. Written(us, f) = us
    BY <2>1, <2>3, SMT DEF Written
  <2> QED
    BY <1>3, <2>4, DatesAssumption, SMT
<1>4. CASE f \in 1 .. 6
  <2> DEFINE unit    == Ten[6 - f]
             ten     == Ten[f]
             rounded == Round(us, unit)
             n       == IF rounded >= ten THEN 0 ELSE rounded
  <2>1. FormatFractional(us, f) = [digits |-> f, n |-> n]
    BY <1>4, DatesAssumption, SMT DEF FormatFractional
  <2>2. Written(us, f) = n * unit
    BY <2>1, SMT DEF Written
  <2>3. /\ unit * ten = 1000000 /\ unit \in Nat /\ ten \in Nat
        /\ rounded \in Nat
        /\ 2 * (rounded * unit - us) <= unit
        /\ - unit <= 2 * (rounded * unit - us)
    BY <1>4, Rounding, SMT
  <2> HIDE DEF unit, ten, rounded
  <2>4. CASE rounded < ten
    <3>1. n = rounded
      BY <2>3, <2>4, SMT
    <3>2. rounded * unit \in Int
      BY <2>3, SMT
    <3> QED
      BY <1>4, <2>2, <2>3, <3>1, <3>2, DatesAssumption, SMT DEF unit
  <2>5. CASE rounded >= ten
    <3>1. n = 0 /\ 0 * unit = 0
      BY <2>3, <2>5, SMT
    <3>2. 2 * us >= 2000000 - unit
      <4>1. rounded * unit >= ten * unit
        BY <2>3, <2>5, SMT
      <4>2. rounded * unit >= 1000000 /\ rounded * unit \in Int
        BY <2>3, <4>1, SMT
      <4> QED
        BY <2>3, <4>2, SMT
    <3> QED
      BY <1>4, <2>2, <3>1, <3>2, DatesAssumption, SMT DEF unit
  <2> QED
    BY <2>3, <2>4, <2>5, SMT
<1> QED
  BY <1>1, <1>2, <1>3, <1>4, SMT

\* utils/datetime.py: a text of format_iso, with any number of digits and in
\* any zone of whole minutes, reads back as the instant of its value to half a
\* unit of the last digit; only a carry into the seconds is lost.  In a zone
\* whose offset has seconds it does not read back.
THEOREM IsoTextsRoundTrip ==
  ASSUME NEW input \in DateInput, NEW f \in Int \cup {None},
         NEW tz \in Int \cup {None}, NEW assume \in Int
  PROVE  IsoReadsBack(input, f, tz, assume)
<1> DEFINE dt    == Moment(input, assume)
           text  == FormatIso(input, f, tz, assume)
           back  == Parse(Text(text), assume)
           us    == dt.us
           error == Later(back, dt)
<1> SUFFICES ASSUME dt # Raised PROVE IsoReadsBack(input, f, tz, assume)
  BY SMT DEF IsoReadsBack
<1>1. dt \in Instants
  BY MomentTyped, SMT
<1>2. us \in Nat /\ us < 1000000 /\ Utc(dt) \in Int
  BY <1>1, InstantFields, SMT
<1> DEFINE off == InZone(dt, tz).off
<1>8. /\ InZone(dt, tz).sec \in Int /\ off \in Int
      /\ text = [sec |-> InZone(dt, tz).sec, zone |-> OffsetText(off),
                 frac |-> FormatFractional(us, f)]
  BY <1>1, Zoned, SMT DEF FormatIso
<1>9. CASE ~ WholeMinutes(off)
  <2>1. text.zone = Raised
    BY <1>8, <1>9, SMT DEF OffsetText
  <2>2. Text(text).kind = "bad"
    BY <2>1, SMT DEF Text
  <2>3. back = Raised
    BY <2>2, SMT DEF Parse, CoerceDatetime
  <2> QED
    BY <1>9, <2>3, SMT DEF IsoReadsBack
<1> SUFFICES ASSUME WholeMinutes(off) PROVE IsoReadsBack(input, f, tz, assume)
  BY <1>9
<1>3. back = [sec |-> InZone(dt, tz).sec, us |-> Written(us, f),
              off |-> InZone(dt, tz).off]
  <2> DEFINE frac == FormatFractional(us, f)
             wall == InZone(dt, tz)
  <2>1. text = [sec |-> wall.sec, zone |-> wall.off, frac |-> frac]
    BY <1>8, SMT DEF OffsetText
  <2>2. wall.sec \in Int /\ wall.off \in Int /\ wall.off # Raised
    BY <1>8, DatesAssumption, SMT
  <2> HIDE DEF frac, wall, dt
  <2>3. Parse(Text(text), assume)
          = [sec |-> wall.sec, us |-> frac.n * Ten[6 - frac.digits],
             off |-> wall.off]
    <3> DEFINE written == [sec |-> wall.sec, zone |-> wall.off, frac |-> frac]
    <3>1. /\ Text(written).kind = "text" /\ Text(written).sec = wall.sec
          /\ Text(written).tz = wall.off
          /\ Text(written).us = frac.n * Ten[6 - frac.digits]
      BY <2>2, SMT DEF Text
    <3> HIDE DEF written
    <3>2. Parse(Text(written), assume)
            = [sec |-> wall.sec, us |-> frac.n * Ten[6 - frac.digits],
               off |-> wall.off]
      BY <2>2, <3>1, DatesAssumption, SMT DEF Parse, CoerceDatetime
    <3> QED
      BY <2>1, <3>2, SMT DEF written
  <2> QED
    BY <2>3, SMT DEF wall, frac, Written
<1>4. Utc(back) = Utc(dt) /\ back.us = Written(us, f)
  BY <1>1, <1>3, Zoned, SMT DEF Utc
<1>5. Written(us, f) \in Int
  BY <1>2, WrittenNear, SMT
<1>6. error = Written(us, f) - us
  <2> HIDE DEF dt, back
  <2>1. Utc(back) - Utc(dt) = 0 /\ dt.us \in Int
    BY <1>2, <1>4, SMT
  <2>2. Later(back, dt) = back.us - dt.us
    BY <1>4, <1>5, <2>1, SMT DEF Later
  <2> QED
    BY <1>4, <2>2, SMT
<1> DEFINE unit == Ten[6 - f]
<1>7. \/ f = None /\ error = 0
      \/ f > 6 /\ error = 0
      \/ f \in 1 .. 6 /\ 2 * error \in -unit .. unit
      \/ /\ f <= 0 \/ 2 * us >= 2000000 - unit
         /\ error = - us
  <2> DEFINE written == Written(us, f)
  <2>1. /\ written \in Int
        /\ f = None => written = us
        /\ f # None /\ f <= 0 => written = 0
        /\ f # None /\ f > 6 => written = us
        /\ f \in 1 .. 6 =>
             \/ 2 * (written - us) <= unit /\ - unit <= 2 * (written - us)
             \/ written = 0 /\ 2 * us >= 2000000 - unit
    BY <1>2, WrittenNear, SMT
  <2>2. error = written - us /\ us \in Nat
    BY <1>2, <1>6
  <2>3. f \in 1 .. 6 => unit \in Int
    BY Tens, SMT
  <2>4. f = None \/ f \in 1 .. 6 \/ (f \in Int /\ f <= 0) \/ (f \in Int /\ f > 6)
    BY SMT
  <2> HIDE DEF written, error, us, unit
  <2>5. CASE f \in 1 .. 6
    <3>1. 2 * error \in Int /\ 2 * error = 2 * (written - us)
      BY <2>1, <2>2, SMT
    <3> QED
      BY <2>1, <2>2, <2>3, <2>5, <3>1, SMT
  <2> QED
    BY <2>1, <2>2, <2>4, <2>5, DatesAssumption, SMT
<1> QED
  BY <1>7, SMT DEF IsoReadsBack

(***************************************************************************)
(* OrmNames.  A name is any sequence of words.                             *)
(***************************************************************************)

\* The strings.  The literals are named because the provers do not know that
\* they are in STRING.
Word ==
  STRING \cup {"", "aux", "alembic", "version", "foo", "bar", "x", "y", "z",
               "items", "item", "legacy", "a", "b", "c", "d", "e", "f", "n",
               "public"}

\* The words of the names of tables.
Built == Word \cup {Plural(word) : word \in Word}

\* What startswith says of two names, word by word.
LEMMA PrefixMeans ==
  ASSUME NEW S, NEW p \in Seq(S), NEW n \in Seq(S)
  PROVE  StartsWith(n, p)
           <=> Len(p) < Len(n) /\ \A i \in 1 .. Len(p) : p[i] = n[i]
<1>1. Len(p) \in Nat /\ Len(n) \in Nat
  BY LenProperties
<1>2. SubSeq(p, 1, Len(p)) = p
  BY SubSeqFull
<1>3. StartsWith(n, p)
        <=> Len(p) <= Len(n) /\ p = SubSeq(n, 1, Len(p)) /\ p # n
  BY <1>2 DEF StartsWith, IsStrictPrefix, IsPrefix
<1> DEFINE start == SubSeq(n, 1, Len(p))
<1>4. ASSUME Len(p) <= Len(n)
      PROVE  /\ start \in Seq(S) /\ Len(start) = Len(p)
             /\ \A i \in 1 .. Len(p) : start[i] = n[i]
  <2>1. \A i \in 1 .. Len(p) : n[i] \in S
    BY <1>1, <1>4, ElementOfSeq
  <2>2. /\ SubSeq(n, 1, Len(p)) \in Seq(S)
        /\ Len(SubSeq(n, 1, Len(p))) = IF 1 <= Len(p) THEN Len(p) - 1 + 1 ELSE 0
        /\ \A i \in 1 .. Len(p) - 1 + 1 : SubSeq(n, 1, Len(p))[i] = n[1 + i - 1]
    BY <1>1, <2>1, SubSeqProperties
  <2> HIDE DEF start
  <2> QED
    BY <1>1, <2>2 DEF start
<1>5. ASSUME Len(p) <= Len(n)
      PROVE  p = start <=> \A i \in 1 .. Len(p) : p[i] = n[i]
  <2> HIDE DEF start
  <2>1. ASSUME \A i \in 1 .. Len(p) : p[i] = n[i]
        PROVE  p = start
    <3>1. \A i \in 1 .. Len(p) : p[i] = start[i]
      BY <1>4, <1>5, <2>1
    <3> QED
      BY <1>4, <1>5, <3>1, SeqEqual
  <2> QED
    BY <1>4, <1>5, <2>1
<1>6. ASSUME Len(p) = Len(n), \A i \in 1 .. Len(p) : p[i] = n[i]
      PROVE  p = n
  BY <1>6, SeqEqual
<1> HIDE DEF start
<1> QED
  BY <1>1, <1>3, <1>5, <1>6 DEF start

LEMMA Prepending ==
  ASSUME NEW S, NEW p \in Seq(S), NEW n \in Seq(S), n # <<>>
  PROVE  p \o n \in Seq(S) /\ StartsWith(p \o n, p) /\ p \o n # <<>>
<1>1. /\ p \o n \in Seq(S) /\ Len(p \o n) = Len(p) + Len(n)
      /\ \A i \in 1 .. Len(p) + Len(n) :
           (p \o n)[i] = IF i <= Len(p) THEN p[i] ELSE n[i - Len(p)]
  BY ConcatProperties
<1>2. Len(p) \in Nat /\ Len(n) \in Nat \ {0}
  BY LenProperties, EmptySeq
<1>3. Len(p) < Len(p \o n) /\ \A i \in 1 .. Len(p) : p[i] = (p \o n)[i]
  BY <1>1, <1>2
<1>4. p \o n # <<>>
  BY <1>1, <1>2, EmptySeq
<1> QED
  BY <1>1, <1>3, <1>4, PrefixMeans

Model ==
  [exception: Seq(Word), explicit: Seq(Word), class: Seq(Word) \ {<<>>}]

\* Every table has the prefix of the service that maps it.
LEMMA TablesPrefixed ==
  ASSUME NEW model \in Model, NEW prefix \in Seq(Word)
  PROVE  /\ TableName(model, prefix) \in Seq(Built)
         /\ StartsWith(TableName(model, prefix), prefix)
<1> DEFINE base == IF model.explicit # Unset THEN model.explicit ELSE model.class
           ends == ReplaceAt(base, Len(base), Plural(Last(base)))
           name == IF model.exception # Unset THEN model.exception ELSE ends
<1>1. base \in Seq(Word) /\ base # <<>> /\ model.exception \in Seq(Word)
  BY DEF Model, Unset
<1>2. base \in Seq(Built) /\ prefix \in Seq(Built) /\ model.exception \in Seq(Built)
  BY <1>1, SeqMonotonic DEF Built
<1>3. ends \in Seq(Built) /\ ends # <<>>
  <2> HIDE DEF base
  <2>1. Len(base) \in 1 .. Len(base)
    BY <1>1, EmptySeq
  <2>2. Last(base) \in Word
    BY <1>1, <2>1, ElementOfSeq DEF Last
  <2>3. Plural(Last(base)) \in Built
    BY <2>2 DEF Built
  <2>4. /\ [base EXCEPT ![Len(base)] = Plural(Last(base))] \in Seq(Built)
        /\ Len([base EXCEPT ![Len(base)] = Plural(Last(base))]) = Len(base)
    BY <1>2, <2>1, <2>3, ExceptSeq
  <2>5. ends \in Seq(Built) /\ Len(ends) = Len(base)
    BY <2>4 DEF ReplaceAt
  <2> QED
    BY <2>1, <2>5, EmptySeq
<1>4. name \in Seq(Built) /\ name # <<>>
  BY <1>2, <1>3 DEF Unset
<1>5. TableName(model, prefix)
        = IF StartsWith(name, prefix) THEN name ELSE prefix \o name
  BY DEF TableName
<1> HIDE DEF name
<1> QED
  BY <1>2, <1>4, <1>5, Prepending

Environment == [own: Seq(Word), other: Seq(Word)]

LEMMA ShortSequences ==
  ASSUME NEW S, NEW v \in S, NEW w \in S
  PROVE  <<v>> \in Seq(S) /\ <<v, w>> \in Seq(S)
OBVIOUS

LEMMA AuxPrefixFacts ==
  ASSUME NEW ns \in Seq(Word)
  PROVE  /\ AuxTablePrefix(ns) \in Seq(Word)
         /\ AuxTablePrefix(ns)[1] = "aux"
         /\ Len(AuxTablePrefix(ns)) = Len(ns) + 1
         /\ \A i \in 1 .. Len(ns) : AuxTablePrefix(ns)[i + 1] = ns[i]
         /\ ns # Unset => AuxTablePrefix(ns) # <<"aux">>
<1>1. <<"aux">> \in Seq(Word) /\ Len(<<"aux">>) = 1 /\ <<"aux">>[1] = "aux"
  <2>1. <<"aux">> \in Seq(Word)
    <3>1. "aux" \in Word
      BY DEF Word
    <3> QED
      BY <3>1, ShortSequences, Zenon
  <2>2. Len(<<"aux">>) = 1
    OBVIOUS
  <2>3. <<"aux">>[1] = "aux"
    OBVIOUS
  <2> QED
    BY <2>1, <2>2, <2>3
<1> DEFINE aux == <<"aux">>
<1> HIDE DEF aux
<1>2. /\ aux \o ns \in Seq(Word) /\ Len(aux \o ns) = Len(aux) + Len(ns)
      /\ \A i \in 1 .. Len(aux) + Len(ns) :
           (aux \o ns)[i] = IF i <= Len(aux) THEN aux[i] ELSE ns[i - Len(aux)]
  BY <1>1, ConcatProperties DEF aux
<1>3. Len(ns) \in Nat /\ (ns # Unset => Len(ns) # 0)
  BY LenProperties, EmptySeq DEF Unset
<1>4. AuxTablePrefix(ns) = aux \o ns
  BY DEF AuxTablePrefix, aux
<1>5. Len(aux) = 1 /\ aux[1] = "aux"
  BY <1>1 DEF aux
<1>6. (aux \o ns)[1] = "aux"
  BY <1>2, <1>3, <1>5
<1>7. ASSUME NEW i \in 1 .. Len(ns) PROVE (aux \o ns)[i + 1] = ns[i]
  <2>1. /\ i + 1 \in 1 .. Len(aux) + Len(ns) /\ ~ (i + 1 <= Len(aux))
        /\ i + 1 - Len(aux) = i
    BY <1>3, <1>5
  <2> QED
    BY <1>2, <2>1
<1>8. ns # Unset => aux \o ns # aux
  BY <1>2, <1>3, <1>5
<1> QED
  BY <1>2, <1>4, <1>5, <1>6, <1>7, <1>8 DEF aux

\* tools/alembic/alembic/env.py: when ENVOXY_SERVICE_NAMESPACE is set, the
\* migrations of a service manage every table its ORM maps, whatever the model
\* and the namespace are called.
THEOREM OwnTablesIncluded ==
  ASSUME NEW model \in Model, NEW env \in Environment
  PROVE  OwnManaged(model, env)
<1> SUFFICES ASSUME env.own # Unset
             PROVE  Included([type  |-> "table",
                              table |-> TableName(model, OrmPrefix(env))], env)
  BY DEF OwnManaged
<1>1. env.own \in Seq(Word)
  BY DEF Environment
<1>2. ManagedPrefix(env) = OrmPrefix(env) /\ OrmPrefix(env) \in Seq(Word)
  <2>1. OrmPrefix(env) # <<"aux">> /\ OrmPrefix(env) \in Seq(Word)
    BY <1>1, AuxPrefixFacts DEF OrmPrefix
  <2> QED
    BY <2>1, Zenon DEF ManagedPrefix
<1>3. StartsWith(TableName(model, OrmPrefix(env)), OrmPrefix(env))
  BY <1>2, TablesPrefixed
<1> QED
  BY <1>2, <1>3 DEF Included

LEMMA IncludedMeans ==
  ASSUME NEW env \in Environment, env.own # Unset, NEW type \in {"table", "index"},
         NEW table
  PROVE  /\ ManagedPrefix(env) = AuxTablePrefix(env.own)
         /\ Included([type |-> type, table |-> table], env)
              <=> StartsWith(table, AuxTablePrefix(env.own))
<1>1. env.own \in Seq(Word)
  BY DEF Environment
<1>2. ManagedPrefix(env) = AuxTablePrefix(env.own)
  <2>1. OrmPrefix(env) # <<"aux">>
    BY <1>1, AuxPrefixFacts DEF OrmPrefix
  <2> QED
    BY <2>1, Zenon DEF ManagedPrefix, OrmPrefix
<1> QED
  BY <1>2 DEF Included

\* Two namespaces that both begin one name: one begins the other.
LEMMA SharedStart ==
  ASSUME NEW a \in Seq(Word), NEW b \in Seq(Word), NEW table \in Seq(Built),
         StartsWith(table, AuxTablePrefix(a)), StartsWith(table, AuxTablePrefix(b)),
         Len(a) <= Len(b)
  PROVE  IsPrefix(a, b)
<1>1. /\ AuxTablePrefix(a) \in Seq(Built) /\ AuxTablePrefix(b) \in Seq(Built)
      /\ Len(AuxTablePrefix(a)) = Len(a) + 1 /\ Len(AuxTablePrefix(b)) = Len(b) + 1
      /\ \A i \in 1 .. Len(a) : AuxTablePrefix(a)[i + 1] = a[i]
      /\ \A i \in 1 .. Len(b) : AuxTablePrefix(b)[i + 1] = b[i]
  <2>1. Word \subseteq Built
    BY DEF Built
  <2> QED
    <3>1. AuxTablePrefix(a) \in Seq(Built) /\ AuxTablePrefix(b) \in Seq(Built)
      <4>1. AuxTablePrefix(a) \in Seq(Word) /\ AuxTablePrefix(b) \in Seq(Word)
        BY AuxPrefixFacts
      <4> QED
        BY <2>1, <4>1, SeqMonotonic
    <3>2. /\ Len(AuxTablePrefix(a)) = Len(a) + 1
          /\ \A i \in 1 .. Len(a) : AuxTablePrefix(a)[i + 1] = a[i]
      BY AuxPrefixFacts
    <3>3. /\ Len(AuxTablePrefix(b)) = Len(b) + 1
          /\ \A i \in 1 .. Len(b) : AuxTablePrefix(b)[i + 1] = b[i]
      BY AuxPrefixFacts
    <3> QED
      BY <3>1, <3>2, <3>3
<1>2. Len(a) \in Nat /\ Len(b) \in Nat
  BY LenProperties
<1>3. /\ \A i \in 1 .. Len(a) + 1 : AuxTablePrefix(a)[i] = table[i]
      /\ \A i \in 1 .. Len(b) + 1 : AuxTablePrefix(b)[i] = table[i]
  <2>1. \A i \in 1 .. Len(AuxTablePrefix(a)) : AuxTablePrefix(a)[i] = table[i]
    BY <1>1, PrefixMeans
  <2>2. \A i \in 1 .. Len(AuxTablePrefix(b)) : AuxTablePrefix(b)[i] = table[i]
    BY <1>1, PrefixMeans
  <2> QED
    BY <1>1, <2>1, <2>2
<1>4. ASSUME NEW i \in 1 .. Len(a) PROVE a[i] = b[i]
  <2>1. i \in 1 .. Len(b) /\ i + 1 \in 1 .. Len(a) + 1 /\ i + 1 \in 1 .. Len(b) + 1
    BY <1>2
  <2>2. a[i] = AuxTablePrefix(a)[i + 1] /\ b[i] = AuxTablePrefix(b)[i + 1]
    BY <1>1, <2>1
  <2>3. AuxTablePrefix(a)[i + 1] = table[i + 1] /\ AuxTablePrefix(b)[i + 1] = table[i + 1]
    BY <1>3, <2>1
  <2> QED
    BY <2>2, <2>3
<1>5. CASE Len(a) < Len(b)
  <2>1. StartsWith(b, a)
    BY <1>4, <1>5, PrefixMeans
  <2> QED
    BY <2>1 DEF StartsWith, IsStrictPrefix
<1>6. CASE Len(a) = Len(b)
  <2>1. a = b
    BY <1>4, <1>6, SeqEqual
  <2> QED
    BY <1>2, <2>1 DEF IsPrefix
<1> QED
  BY <1>2, <1>5, <1>6

LEMMA Least ==
  ASSUME NEW T, T \subseteq Nat, T # {}
  PROVE  \E x \in T : \A y \in T : x <= y
<1>1. PICK x \in T : \A y \in T : ~ (<<y, x>> \in OpToRel(<, Nat))
  BY NatLessThanWellFounded, WFMin
<1>2. \A y \in T : ~ (y < x)
  BY <1>1 DEF OpToRel
<1> QED
  BY <1>2

LEMMA Greatest ==
  ASSUME NEW n \in Nat, NEW T, T \subseteq 1 .. n, T # {}
  PROVE  \E x \in T : \A y \in T : x >= y
<1> DEFINE M == {n - y : y \in T}
<1>1. M \subseteq Nat /\ M # {}
  <2>1. \A y \in T : n - y \in Nat
    OBVIOUS
  <2> QED
    BY <2>1
<1>2. PICK m \in M : \A k \in M : m <= k
  <2> HIDE DEF M
  <2> QED
    BY <1>1, Least
<1>3. PICK x \in T : m = n - x
  OBVIOUS
<1>4. ASSUME NEW y \in T PROVE x >= y
  <2>1. n - y \in M
    OBVIOUS
  <2>2. n - x <= n - y /\ x \in Int /\ y \in Int
    BY <1>2, <1>3, <2>1
  <2> QED
    BY <2>2
<1> QED
  BY <1>4

\* A namespace without the underscores at its ends is part of it.
LEMMA Stripped ==
  ASSUME NEW ns \in Seq(Word)
  PROVE  StripUnderscores(ns) \in Seq(Word)
<1> DEFINE full  == {i \in DOMAIN ns : ns[i] # ""}
           first == CHOOSE i \in full : \A j \in full : i <= j
           last  == CHOOSE i \in full : \A j \in full : i >= j
<1>1. StripUnderscores(ns)
        = IF full = {} THEN Unset ELSE SubSeq(ns, first, last)
  BY DEF StripUnderscores
<1>2. Len(ns) \in Nat /\ DOMAIN ns = 1 .. Len(ns)
  BY LenProperties
<1>3. full \subseteq 1 .. Len(ns) /\ full \subseteq Nat
  <2>1. full \subseteq DOMAIN ns
    BY Zenon
  <2> HIDE DEF full
  <2>2. full \subseteq 1 .. Len(ns)
    BY <1>2, <2>1
  <2> QED
    BY <1>2, <2>2
<1>4. CASE full = {}
  BY <1>1, <1>4, EmptySeq DEF Unset
<1>5. CASE full # {}
  <2> HIDE DEF full
  <2>1. first \in full
    BY <1>3, <1>5, Least
  <2>2. last \in full
    BY <1>2, <1>3, <1>5, Greatest
  <2> HIDE DEF first, last
  <2>3. \A i \in first .. last : ns[i] \in Word
    BY <1>2, <1>3, <2>1, <2>2, ElementOfSeq
  <2>4. SubSeq(ns, first, last) \in Seq(Word)
    BY <1>3, <2>1, <2>2, <2>3, SubSeqProperties
  <2> QED
    BY <1>1, <1>5, <2>4
<1> QED
  BY <1>4, <1>5

LEMMA NamespaceTyped ==
  ASSUME NEW env \in Environment
  PROVE  ServiceNamespace(env) \in Seq(Word)
<1>1. env.own \in Seq(Word) /\ env.other \in Seq(Word)
  BY SMTT(40) DEF Environment
<1> QED
  BY <1>1, Stripped DEF ServiceNamespace

\* What is kept of a namespace in the name of a version table.
KeptOf(ns) == SubSeq(ns, 1, IF Len(ns) > VersionLimit THEN VersionLimit ELSE Len(ns))

LEMMA Keeping ==
  ASSUME NEW ns \in Seq(Word)
  PROVE  /\ KeptOf(ns) \in Seq(Word)
         /\ Len(KeptOf(ns)) <= VersionLimit /\ Len(KeptOf(ns)) <= Len(ns)
         /\ Len(ns) <= VersionLimit => KeptOf(ns) = ns
         /\ Len(ns) > VersionLimit => Len(KeptOf(ns)) = VersionLimit
<1>1. Len(ns) \in Nat /\ VersionLimit \in Nat
  BY LenProperties, NamesAssumption
<1> DEFINE n == IF Len(ns) > VersionLimit THEN VersionLimit ELSE Len(ns)
<1>2. n \in Nat /\ n <= Len(ns) /\ n <= VersionLimit
  BY <1>1
<1>3. KeptOf(ns) = SubSeq(ns, 1, n)
  BY DEF KeptOf
<1>4. /\ Len(ns) <= VersionLimit => n = Len(ns)
      /\ Len(ns) > VersionLimit => n = VersionLimit
  BY <1>1
<1> HIDE DEF n
<1>5. \A i \in 1 .. n : ns[i] \in Word
  BY <1>1, <1>2, ElementOfSeq
<1>6. /\ SubSeq(ns, 1, n) \in Seq(Word)
      /\ Len(SubSeq(ns, 1, n)) = IF 1 <= n THEN n - 1 + 1 ELSE 0
  BY <1>2, <1>5, SubSeqProperties
<1>7. Len(SubSeq(ns, 1, n)) = n
  BY <1>2, <1>6
<1>8. SubSeq(ns, 1, Len(ns)) = ns
  BY SubSeqFull
<1> QED
  BY Zenon, <1>1, <1>2, <1>3, <1>4, <1>6, <1>7, <1>8

LEMMA VersionTables ==
  ASSUME NEW env \in Environment
  PROVE  /\ VersionTable(env) = <<"alembic", "version">> \o KeptOf(ServiceNamespace(env))
         /\ VersionTable(env) \in Seq(Word)
         /\ VersionTable(env)[1] = "alembic"
<1> DEFINE ns    == ServiceNamespace(env)
           start == <<"alembic", "version">>
<1>1. KeptOf(ns) \in Seq(Word)
  BY NamespaceTyped, Keeping
<1>2. VersionTable(env) = start \o KeptOf(ns)
  BY DEF VersionTable, KeptOf
<1>3. start \in Seq(Word)
  <2>1. "alembic" \in Word /\ "version" \in Word
    BY DEF Word
  <2> QED
    BY <2>1, ShortSequences, Zenon
<1>4. Len(start) = 2
  OBVIOUS
<1>5. start[1] = "alembic"
  OBVIOUS
<1>6. Len(KeptOf(ns)) \in Nat
  BY <1>1, LenProperties
<1> HIDE DEF start, ns
<1>7. /\ start \o KeptOf(ns) \in Seq(Word)
      /\ \A i \in 1 .. Len(start) + Len(KeptOf(ns)) : (start \o KeptOf(ns))[i] =
           IF i <= Len(start) THEN start[i] ELSE KeptOf(ns)[i - Len(start)]
  BY <1>1, <1>3, ConcatProperties
<1>8. (start \o KeptOf(ns))[1] = "alembic"
  BY <1>4, <1>5, <1>6, <1>7
<1> QED
  BY <1>2, <1>7, <1>8 DEF start, ns

\* tools/alembic/alembic/env.py: two services keep their versions in tables
\* of their own unless what is kept of their namespaces agrees.
THEOREM VersionsKeptApart ==
  ASSUME NEW env \in Environment, NEW other \in Environment
  PROVE  VersionsApart(env, other)
<1> DEFINE a     == ServiceNamespace(env)
           b     == ServiceNamespace(other)
           start == <<"alembic", "version">>
<1> SUFFICES ASSUME VersionTable(env) = VersionTable(other), Len(a) < VersionLimit
             PROVE  a = b
  <2>1. Len(a) \in Nat /\ VersionLimit \in Nat
    BY NamespaceTyped, LenProperties, NamesAssumption
  <2> QED
    BY <2>1 DEF VersionsApart
<1>1. a \in Seq(Word) /\ b \in Seq(Word)
  BY NamespaceTyped
<1>2. KeptOf(a) \in Seq(Word) /\ KeptOf(b) \in Seq(Word)
  BY <1>1, Keeping
<1>3. start \o KeptOf(a) = start \o KeptOf(b)
  BY VersionTables
<1>4. start \in Seq(Word)
  <2>1. "alembic" \in Word /\ "version" \in Word
    BY DEF Word
  <2> QED
    BY <2>1, ShortSequences, Zenon
<1> HIDE DEF start, a, b
<1>5. KeptOf(a) = KeptOf(b)
  <2>1. \A s, t, v \in Seq(Word) : s \o t = s \o v => t = v
    BY ConcatSimplifications
  <2> QED
    BY <1>2, <1>3, <1>4, <2>1
<1>6. Len(a) \in Nat /\ Len(b) \in Nat /\ VersionLimit \in Nat
  BY <1>1, LenProperties, NamesAssumption
<1>7. KeptOf(a) = a
  BY <1>1, <1>6, Keeping
<1>8. Len(b) <= VersionLimit
  <2>1. Len(b) > VersionLimit => Len(KeptOf(b)) = VersionLimit
    BY <1>1, Keeping
  <2> QED
    BY <1>5, <1>6, <1>7, <2>1
<1>9. KeptOf(b) = b
  BY <1>1, <1>8, Keeping
<1> QED
  BY <1>5, <1>7, <1>9

\* tools/alembic/alembic/env.py: migrations touch a table of another service
\* only if one namespace begins the other, and never a table of versions.
THEOREM ForeignTablesUntouched ==
  ASSUME NEW model \in Model, NEW env \in Environment, NEW other \in Environment
  PROVE  ForeignUntouched(model, env, other)
<1> SUFFICES ASSUME env.own # Unset
             PROVE  /\ Included([type |-> "table",
                          table |-> TableName(model, OrmPrefix(other))], env) =>
                         IsPrefix(env.own, other.own) \/ IsPrefix(other.own, env.own)
                    /\ ~ Included([type |-> "index", table |-> VersionTable(other)], env)
  BY DEF ForeignUntouched
<1>1. /\ env.own \in Seq(Word) /\ other.own \in Seq(Word)
      /\ Len(env.own) \in Nat /\ Len(other.own) \in Nat
  BY LenProperties DEF Environment
<1>2. ASSUME Included([type |-> "table",
                       table |-> TableName(model, OrmPrefix(other))], env)
      PROVE  IsPrefix(env.own, other.own) \/ IsPrefix(other.own, env.own)
  <2> DEFINE table == TableName(model, OrmPrefix(other))
  <2>1. StartsWith(table, AuxTablePrefix(env.own))
    BY <1>2, IncludedMeans
  <2>2. table \in Seq(Built) /\ StartsWith(table, AuxTablePrefix(other.own))
    <3>1. AuxTablePrefix(other.own) \in Seq(Word)
      BY <1>1, AuxPrefixFacts
    <3> QED
      BY <3>1, TablesPrefixed DEF OrmPrefix
  <2> HIDE DEF table
  <2>3. CASE Len(env.own) <= Len(other.own)
    BY <1>1, <2>1, <2>2, <2>3, SharedStart
  <2>4. CASE Len(other.own) <= Len(env.own)
    BY <1>1, <2>1, <2>2, <2>4, SharedStart
  <2> QED
    BY <1>1, <2>3, <2>4
<1>3. ASSUME Included([type |-> "index", table |-> VersionTable(other)], env)
      PROVE  FALSE
  <2> DEFINE aux == AuxTablePrefix(env.own)
  <2>1. StartsWith(VersionTable(other), aux)
    BY <1>3, IncludedMeans
  <2>2. aux \in Seq(Word) /\ aux[1] = "aux" /\ Len(aux) = Len(env.own) + 1
    BY <1>1, AuxPrefixFacts
  <2>3. VersionTable(other) \in Seq(Word) /\ VersionTable(other)[1] = "alembic"
    BY VersionTables
  <2> HIDE DEF aux
  <2>4. \A i \in 1 .. Len(aux) : aux[i] = VersionTable(other)[i]
    BY <2>1, <2>2, <2>3, PrefixMeans
  <2>5. aux[1] = VersionTable(other)[1]
    BY <1>1, <2>2, <2>4
  <2> QED
    BY <2>2, <2>3, <2>5
<1> QED
  BY <1>2, <1>3

LEMMA Deprefixing ==
  ASSUME NEW S, NEW name \in Seq(S), NEW prefix \in Seq(S)
  PROVE  /\ Deprefixed(name, prefix) \in Seq(S)
         /\ StartsWith(name, prefix) =>
              /\ Deprefixed(name, prefix) # <<>>
              /\ prefix \o Deprefixed(name, prefix) = name
<1>1. CASE ~ StartsWith(name, prefix)
  BY <1>1 DEF Deprefixed
<1>2. CASE StartsWith(name, prefix)
  <2> DEFINE rest == SubSeq(name, Len(prefix) + 1, Len(name))
  <2>1. Deprefixed(name, prefix) = rest
    BY <1>2 DEF Deprefixed
  <2>2. /\ Len(prefix) \in Nat /\ Len(name) \in Nat /\ Len(prefix) < Len(name)
        /\ \A i \in 1 .. Len(prefix) : prefix[i] = name[i]
    BY <1>2, LenProperties, PrefixMeans
  <2>3. \A i \in Len(prefix) + 1 .. Len(name) : name[i] \in S
    BY <2>2, ElementOfSeq
  <2>4. /\ SubSeq(name, Len(prefix) + 1, Len(name)) \in Seq(S)
        /\ Len(SubSeq(name, Len(prefix) + 1, Len(name)))
             = IF Len(prefix) + 1 <= Len(name)
               THEN Len(name) - (Len(prefix) + 1) + 1 ELSE 0
        /\ \A i \in 1 .. Len(name) - (Len(prefix) + 1) + 1 :
             SubSeq(name, Len(prefix) + 1, Len(name))[i] = name[Len(prefix) + 1 + i - 1]
    <3>1. Len(prefix) + 1 \in Int /\ Len(name) \in Int
      BY <2>2
    <3> QED
      BY <2>3, <3>1, SubSeqProperties
  <2>5. rest \in Seq(S) /\ Len(rest) = Len(name) - Len(prefix)
    BY <2>2, <2>4
  <2>6. \A i \in 1 .. Len(name) - Len(prefix) : rest[i] = name[Len(prefix) + i]
    BY <2>2, <2>4
  <2> HIDE DEF rest
  <2>7. rest # <<>>
    BY <2>2, <2>5, EmptySeq
  <2>8. /\ prefix \o rest \in Seq(S) /\ Len(prefix \o rest) = Len(name)
        /\ \A i \in 1 .. Len(name) : (prefix \o rest)[i] =
             IF i <= Len(prefix) THEN prefix[i] ELSE rest[i - Len(prefix)]
    <3>1. /\ prefix \o rest \in Seq(S) /\ Len(prefix \o rest) = Len(prefix) + Len(rest)
          /\ \A i \in 1 .. Len(prefix) + Len(rest) : (prefix \o rest)[i] =
               IF i <= Len(prefix) THEN prefix[i] ELSE rest[i - Len(prefix)]
      BY <2>5, ConcatProperties
    <3>2. Len(prefix) + Len(rest) = Len(name)
      BY <2>2, <2>5
    <3> QED
      BY <3>1, <3>2
  <2>9. ASSUME NEW i \in 1 .. Len(name) PROVE (prefix \o rest)[i] = name[i]
    <3>1. CASE i <= Len(prefix)
      BY SMTT(30), <2>2, <2>8, <3>1
    <3>2. CASE ~ (i <= Len(prefix))
      <4>1. i - Len(prefix) \in 1 .. Len(name) - Len(prefix)
            /\ Len(prefix) + (i - Len(prefix)) = i
        BY <2>2, <3>2
      <4>2. rest[i - Len(prefix)] = name[i]
        BY <2>6, <4>1
      <4> QED
        BY <2>8, <3>2, <4>2
    <3> QED
      BY <3>1, <3>2
  <2>10. prefix \o rest = name
    BY <2>8, <2>9, SeqEqual
  <2> QED
    BY <2>1, <2>5, <2>7, <2>10
<1> QED
  BY <1>1, <1>2

LEMMA ShortenedTyped ==
  ASSUME NEW S, NEW name \in Seq(S), name # <<>>
  PROVE  /\ Shorten(name) \in Seq(S \cup {Hash(name)})
         /\ Shorten(name) # <<>>
<1> DEFINE T == S \cup {Hash(name)}
<1>1. S \subseteq T /\ Hash(name) \in T
  OBVIOUS
<1>2. Len(name) \in Nat /\ Limit \in Nat /\ Kept \in Nat /\ Kept + 1 <= Limit
  BY LenProperties, NamesAssumption
<1> HIDE DEF T
<1>3. name \in Seq(T)
  BY <1>1, SeqMonotonic
<1>4. CASE Len(name) <= Limit
  BY <1>3, <1>4 DEF Shorten, T
<1>5. CASE ~ (Len(name) <= Limit)
  <2>1. \A i \in 1 .. Kept : name[i] \in T
    BY <1>2, <1>3, <1>5, ElementOfSeq
  <2>2. SubSeq(name, 1, Kept) \in Seq(T)
    BY <1>2, <2>1, SubSeqProperties
  <2> DEFINE start == SubSeq(name, 1, Kept)
  <2>3. Shorten(name) = Append(start, Hash(name))
    BY <1>5 DEF Shorten
  <2>4. start \in Seq(T)
    BY <2>2
  <2> HIDE DEF start
  <2>5. Append(start, Hash(name)) \in Seq(T) /\ Append(start, Hash(name)) # <<>>
    BY <1>1, <2>4, AppendProperties
  <2> QED
    BY <2>3, <2>5 DEF T
<1> QED
  BY <1>4, <1>5

ArgKinds == {"idx", "uq", "fk", "ck", "pk", "ex"}

Argument ==
  [kind: ArgKinds, table: Seq(Word), cols: Seq(Word), ref: Seq(Word),
   name: Seq(Word)]

\* The words of which the name of an argument is made, and how it begins.
Letters(arg) ==
  Word \cup ArgKinds
    \cup {"table", "ref", "to", "col", "cols", "expr",
          Hash(IF arg.cols = Unset THEN <<"ck">> ELSE arg.cols)}

Beginning(arg, prefix) ==
  <<arg.kind>>
    \o (IF arg.table = Unset THEN <<"table">> ELSE Deprefixed(arg.table, prefix))

LEMMA MadeNameParts ==
  ASSUME NEW arg \in Argument, NEW prefix \in Seq(Word)
  PROVE  /\ Beginning(arg, prefix) \in Seq(Letters(arg))
         /\ Beginning(arg, prefix) # <<>>
         /\ Beginning(arg, prefix)[1] = arg.kind
         /\ About(arg, prefix) \in Seq(Letters(arg))
         /\ MadeName(arg, prefix) = Beginning(arg, prefix) \o About(arg, prefix)
<1> DEFINE S     == Letters(arg)
           text  == IF arg.cols = Unset THEN <<"ck">> ELSE arg.cols
           table == IF arg.table = Unset THEN <<"table">>
                    ELSE Deprefixed(arg.table, prefix)
           ref   == IF arg.ref = Unset THEN <<"ref">>
                    ELSE Deprefixed(arg.ref, prefix)
<1>1. /\ arg.kind \in ArgKinds /\ arg.cols \in Seq(Word)
      /\ arg.table \in Seq(Word) /\ arg.ref \in Seq(Word)
  BY DEF Argument
<1>2. /\ Word \subseteq S /\ ArgKinds \subseteq S /\ Hash(text) \in S
      /\ "table" \in S /\ "ref" \in S /\ "to" \in S
      /\ "col" \in S /\ "cols" \in S /\ "expr" \in S
  BY Zenon DEF Letters
<1> HIDE DEF S
<1>3. \A n \in Seq(Word) : n \in Seq(S)
  BY <1>2, SeqMonotonic
<1>4. \A w \in S : <<w>> \in Seq(S)
  BY ShortSequences
<1>5. table \in Seq(S) /\ ref \in Seq(S)
  BY <1>1, <1>2, <1>3, <1>4, Deprefixing
<1>6. Beginning(arg, prefix) = <<arg.kind>> \o table
  BY Zenon DEF Beginning
<1>7. MadeName(arg, prefix) = Beginning(arg, prefix) \o About(arg, prefix)
  BY Zenon DEF MadeName, Beginning
<1>8. About(arg, prefix) \in Seq(S)
  <2>1. CASE arg.kind = "idx"
    <3>1. About(arg, prefix) = IF arg.cols = Unset THEN <<"expr">> ELSE arg.cols
      BY <2>1, Zenon DEF About
    <3> QED
      BY <1>1, <1>2, <1>3, <1>4, <3>1
  <2>2. CASE arg.kind = "ck"
    <3>1. About(arg, prefix) = <<Hash(text)>>
      BY <2>2, Zenon DEF About
    <3> HIDE DEF text
    <3> QED
      BY <1>2, <1>4, <3>1
  <2>3. CASE arg.kind = "uq"
    <3>1. About(arg, prefix) = <<"cols">>
      BY <2>3, Zenon DEF About
    <3> QED
      BY <1>2, <1>4, <3>1
  <2>4. CASE arg.kind = "ex"
    <3>1. About(arg, prefix) = <<"expr">>
      BY <2>4, Zenon DEF About
    <3> QED
      BY <1>2, <1>4, <3>1
  <2>5. CASE arg.kind = "fk"
    <3>1. About(arg, prefix) = <<"col", "to">> \o ref
      BY <2>5, Zenon DEF About
    <3>2. <<"col", "to">> \in Seq(S)
      BY <1>2, ShortSequences
    <3> HIDE DEF ref
    <3> QED
      BY <1>5, <3>1, <3>2, ConcatProperties
  <2>6. CASE arg.kind = "pk"
    <3>1. About(arg, prefix) = <<>>
      BY <2>6, Zenon DEF About
    <3> QED
      BY <3>1, EmptySeq
  <2> QED
    BY <1>1, <2>1, <2>2, <2>3, <2>4, <2>5, <2>6 DEF ArgKinds
<1> HIDE DEF table, ref, text
<1> DEFINE kind == <<arg.kind>>
<1>9. kind \in Seq(S) /\ kind # <<>> /\ Len(kind) = 1 /\ kind[1] = arg.kind
  BY <1>1, <1>2, <1>4
<1>10. Len(table) \in Nat
  BY <1>5, LenProperties
<1> HIDE DEF kind
<1>11. kind \o table \in Seq(S) /\ kind \o table # <<>>
  BY <1>5, <1>9, ConcatProperties, ConcatEqualIffEmpty
<1>12. \A i \in 1 .. Len(kind) + Len(table) :
         (kind \o table)[i] = IF i <= Len(kind) THEN kind[i] ELSE table[i - Len(kind)]
  BY <1>5, <1>9, ConcatProperties
<1>13. (kind \o table)[1] = arg.kind
  BY <1>9, <1>10, <1>12
<1> QED
  BY <1>6, <1>7, <1>8, <1>11, <1>13 DEF kind, S

LEMMA MadeNameTyped ==
  ASSUME NEW arg \in Argument, NEW prefix \in Seq(Word)
  PROVE  /\ MadeName(arg, prefix) \in Seq(Letters(arg))
         /\ MadeName(arg, prefix) # <<>>
<1> DEFINE S     == Letters(arg)
           start == Beginning(arg, prefix)
           about == About(arg, prefix)
<1>1. /\ start \in Seq(S) /\ start # <<>> /\ about \in Seq(S)
      /\ MadeName(arg, prefix) = start \o about
  BY MadeNameParts
<1> HIDE DEF S, start, about
<1>2. start \o about \in Seq(S) /\ start \o about # <<>>
  BY <1>1, ConcatProperties, ConcatEqualIffEmpty
<1> QED
  BY <1>1, <1>2 DEF S

\* A normalized name has the prefix.
LEMMA NormalizedPrefixed ==
  ASSUME NEW arg \in Argument, NEW prefix \in Seq(Word)
  PROVE  LET name == Normalize(arg, prefix).name
         IN  /\ Normalize(arg, prefix) = [arg EXCEPT !.name = name]
             /\ name # Unset /\ StartsWith(name, prefix)
<1> DEFINE made == MadeName(arg, prefix)
           name == IF arg.name = Unset THEN prefix \o Shorten(made)
                   ELSE IF StartsWith(arg.name, prefix) THEN arg.name
                   ELSE prefix \o arg.name
<1>1. Normalize(arg, prefix) = [arg EXCEPT !.name = name]
  BY DEF Normalize
<1>2. Normalize(arg, prefix).name = name
  <2> HIDE DEF name
  <2> QED
    BY <1>1 DEF Argument
<1>3. name # <<>> /\ StartsWith(name, prefix)
  <2>1. arg.name \in Seq(Word)
    BY DEF Argument
  <2>2. CASE arg.name = Unset
    <3> DEFINE S == Letters(arg)
               T == S \cup {Hash(made)}
    <3>1. Word \subseteq S /\ made \in Seq(S) /\ made # <<>>
      BY MadeNameTyped DEF Letters
    <3> HIDE DEF S
    <3>2. Shorten(made) \in Seq(T) /\ Shorten(made) # <<>>
      BY <3>1, ShortenedTyped
    <3>3. prefix \in Seq(T)
      <4>1. Word \subseteq T
        BY <3>1
      <4> QED
        BY <4>1, SeqMonotonic
    <3> HIDE DEF made, T
    <3>4. /\ StartsWith(prefix \o Shorten(made), prefix)
          /\ prefix \o Shorten(made) # <<>>
      BY <3>2, <3>3, Prepending
    <3> QED
      BY <2>2, <3>4
  <2>3. CASE arg.name # Unset /\ StartsWith(arg.name, prefix)
    BY <2>3 DEF Unset
  <2>4. CASE arg.name # Unset /\ ~ StartsWith(arg.name, prefix)
    <3>1. StartsWith(prefix \o arg.name, prefix) /\ prefix \o arg.name # <<>>
      BY <2>1, <2>4, Prepending DEF Unset
    <3> QED
      BY <2>4, <3>1
  <2> QED
    BY <2>2, <2>3, <2>4
<1> HIDE DEF name
<1> QED
  BY <1>1, <1>2, <1>3 DEF Unset

\* What is left of a shortened name tells it from another.
LEMMA ShorteningTells ==
  ASSUME NEW S, NEW made \in Seq(S), NEW other \in Seq(S),
         HashTells(made, other), HashTells(other, made),
         Shorten(made) = Shorten(other)
  PROVE  made = other
<1>1. Len(made) \in Nat /\ Len(other) \in Nat /\ Limit \in Nat
  BY LenProperties, NamesAssumption
<1>2. ASSUME NEW long \in Seq(S), ~ (Len(long) <= Limit)
      PROVE  Last(Shorten(long)) = Hash(long)
  <2> DEFINE T     == S \cup {Hash(long)}
             start == SubSeq(long, 1, Kept)
  <2>1. Kept \in Nat /\ Kept <= Len(long)
    BY <1>2, LenProperties, NamesAssumption
  <2>2. long \in Seq(T) /\ Hash(long) \in T
    BY SeqMonotonic
  <2> HIDE DEF T
  <2>3. \A i \in 1 .. Kept : long[i] \in T
    BY <2>1, <2>2, LenProperties, ElementOfSeq
  <2>4. start \in Seq(T)
    BY <2>1, <2>3, SubSeqProperties
  <2>5. Shorten(long) = Append(start, Hash(long))
    BY <1>2 DEF Shorten
  <2> HIDE DEF start
  <2>6. /\ Len(Append(start, Hash(long))) = Len(start) + 1
        /\ Append(start, Hash(long))[Len(start) + 1] = Hash(long)
    BY <2>2, <2>4, AppendProperties
  <2> QED
    BY <2>5, <2>6 DEF Last
<1>3. CASE Len(made) <= Limit /\ Len(other) <= Limit
  BY <1>3 DEF Shorten
<1>4. CASE ~ (Len(made) <= Limit) /\ ~ (Len(other) <= Limit)
  BY <1>1, <1>2, <1>4 DEF HashTells
<1>5. CASE ~ (Len(made) <= Limit) /\ Len(other) <= Limit
  <2>1. Last(other) = Hash(made)
    BY <1>2, <1>5 DEF Shorten
  <2> QED
    BY <1>1, <1>5, <2>1 DEF HashTells
<1>6. CASE Len(made) <= Limit /\ ~ (Len(other) <= Limit)
  <2>1. Last(made) = Hash(other)
    BY <1>2, <1>6 DEF Shorten
  <2> QED
    BY <1>1, <1>6, <2>1 DEF HashTells
<1> QED
  BY <1>3, <1>4, <1>5, <1>6

\* db/orm/mixin.py, db/orm/constants.py: two constraints of a table that are
\* not named get one name exactly if they are of one kind and agree in what the
\* mixin sees of them (the columns of an index, the text of a check, the table
\* a foreign key refers to), as long as the digest tells what it replaces.
THEOREM NamesTellWhatIsSeen ==
  ASSUME NEW a \in Argument, NEW b \in Argument, NEW prefix \in Seq(Word),
         HashTells(MadeName(a, prefix), MadeName(b, prefix)),
         HashTells(MadeName(b, prefix), MadeName(a, prefix))
  PROVE  NamesTell(a, b, prefix)
<1> SUFFICES ASSUME a.name = Unset, b.name = Unset, a.table = b.table
             PROVE  Normalize(a, prefix).name = Normalize(b, prefix).name
                      <=> a.kind = b.kind /\ About(a, prefix) = About(b, prefix)
  BY DEF NamesTell
<1> DEFINE made  == MadeName(a, prefix)
           other == MadeName(b, prefix)
<1>1. ASSUME NEW arg \in Argument, arg.name = Unset
      PROVE  Normalize(arg, prefix).name = prefix \o Shorten(MadeName(arg, prefix))
  <2> DEFINE name == prefix \o Shorten(MadeName(arg, prefix))
  <2>1. Normalize(arg, prefix) = [arg EXCEPT !.name = name]
    BY <1>1 DEF Normalize
  <2> HIDE DEF name
  <2>2. Normalize(arg, prefix).name = name
    BY <2>1 DEF Argument
  <2> QED
    BY <2>2 DEF name
<1>2. ASSUME a.kind = b.kind, About(a, prefix) = About(b, prefix)
      PROVE  Normalize(a, prefix).name = Normalize(b, prefix).name
  <2>1. made = other
    BY <1>2 DEF MadeName
  <2> QED
    BY <1>1, <2>1
<1>3. ASSUME Normalize(a, prefix).name = Normalize(b, prefix).name
      PROVE  a.kind = b.kind /\ About(a, prefix) = About(b, prefix)
  <2> DEFINE S == Letters(a) \cup Letters(b)
             T == S \cup {Hash(made), Hash(other)}
  <2>1. /\ Letters(a) \subseteq S /\ Letters(b) \subseteq S
        /\ Word \subseteq T
    BY DEF Letters
  <2>2. /\ made \in Seq(S) /\ made # <<>>
        /\ other \in Seq(S) /\ other # <<>>
    <3> HIDE DEF S
    <3> QED
      BY <2>1, MadeNameTyped, SeqMonotonic
  <2>3. prefix \o Shorten(made) = prefix \o Shorten(other)
    BY <1>1, <1>3
  <2>4. HashTells(made, other) /\ HashTells(other, made)
    OBVIOUS
  <2> HIDE DEF made, other
  <2>5. Shorten(made) \in Seq(T) /\ Shorten(other) \in Seq(T) /\ prefix \in Seq(T)
    <3>1. /\ S \cup {Hash(made)} \subseteq T /\ S \cup {Hash(other)} \subseteq T
      OBVIOUS
    <3>2. /\ Shorten(made) \in Seq(S \cup {Hash(made)})
          /\ Shorten(other) \in Seq(S \cup {Hash(other)})
      <4> HIDE DEF S
      <4> QED
        BY <2>2, ShortenedTyped
    <3> HIDE DEF T
    <3> QED
      BY <2>1, <3>1, <3>2, SeqMonotonic
  <2> HIDE DEF S, T
  <2>6. Shorten(made) = Shorten(other)
    BY <2>3, <2>5, ConcatSimplifications
  <2>7. made = other
    BY <2>2, <2>4, <2>6, ShorteningTells
  <2> DEFINE s == Beginning(a, prefix)
             t == Beginning(b, prefix)
             x == About(a, prefix)
             y == About(b, prefix)
  <2>8. /\ s \in Seq(S) /\ s # <<>> /\ s[1] = a.kind /\ x \in Seq(S)
        /\ made = s \o x
    BY <2>1, MadeNameParts, SeqMonotonic DEF made
  <2>9. /\ t \in Seq(S) /\ t # <<>> /\ t[1] = b.kind /\ y \in Seq(S)
        /\ other = t \o y
    BY <2>1, MadeNameParts, SeqMonotonic DEF other
  <2>10. a.kind = b.kind => s = t
    BY DEF Beginning
  <2> HIDE DEF s, t, x, y
  <2>11. \A u, v \in Seq(S) : u # <<>> => (u \o v)[1] = u[1]
    <3> SUFFICES ASSUME NEW u \in Seq(S), NEW v \in Seq(S), u # <<>>
                 PROVE  (u \o v)[1] = u[1]
      OBVIOUS
    <3>1. Len(u) \in Nat \ {0} /\ Len(v) \in Nat
      BY EmptySeq, LenProperties
    <3>2. \A i \in 1 .. Len(u) + Len(v) :
            (u \o v)[i] = IF i <= Len(u) THEN u[i] ELSE v[i - Len(u)]
      BY ConcatProperties
    <3> QED
      BY <3>1, <3>2
  <2>12. a.kind = b.kind
    <3>1. (s \o x)[1] = a.kind
      BY <2>8, <2>11
    <3>2. (t \o y)[1] = b.kind
      BY <2>9, <2>11
    <3> QED
      BY <2>7, <2>8, <2>9, <3>1, <3>2
  <2>13. s = t /\ s \o x = s \o y
    BY <2>7, <2>8, <2>9, <2>10, <2>12
  <2>14. x = y
    BY <2>8, <2>9, <2>13, ConcatSimplifications
  <2> QED
    BY <2>12, <2>14 DEF x, y
<1> QED
  BY <1>2, <1>3

Target == [schema: Seq(Word), table: Seq(Word) \ {<<>>}]

\* db/orm/mixin.py, db/orm/schema.py: arguments are normalized again for each
\* subclass, and a foreign key twice; the second time changes nothing.
THEOREM NormalizedOnce ==
  ASSUME NEW arg \in Argument, NEW spec \in Target, NEW prefix \in Seq(Word)
  PROVE  Idempotent(arg, spec, prefix)
<1>1. Normalize(Normalize(arg, prefix), prefix) = Normalize(arg, prefix)
  <2> DEFINE once == Normalize(arg, prefix)
             name == once.name
  <2>1. /\ once = [arg EXCEPT !.name = name]
        /\ name # Unset /\ StartsWith(name, prefix)
    BY NormalizedPrefixed
  <2>2. once \in [kind: ArgKinds, table: Seq(Word), cols: Seq(Word),
                  ref: Seq(Word), name: {name}]
    <3> HIDE DEF once, name
    <3> QED
      BY <2>1 DEF Argument
  <2> HIDE DEF once
  <2>3. Normalize(once, prefix) = [once EXCEPT !.name = name]
    BY <2>1, Zenon DEF Normalize
  <2>4. [once EXCEPT !.name = name] = once
    <3> HIDE DEF name
    <3> QED
      BY <2>2
  <2> QED
    BY <2>3, <2>4 DEF once
<1>2. ForeignKey(ForeignKey(spec, prefix), prefix) = ForeignKey(spec, prefix)
  <2>1. CASE spec.schema # Unset
    BY <2>1, Zenon DEF ForeignKey
  <2>2. CASE spec.schema = Unset
    <3> DEFINE name  == spec.table
               full  == Prefixed(name, prefix)
               there == ForeignKey(spec, prefix)
    <3>1. name \in Seq(Word) /\ name # <<>>
      BY DEF Target
    <3>2. Prefixed(full, prefix) = full
      <4>1. StartsWith(full, prefix) \/ StartsWith(full, <<"aux">>)
        BY <3>1, Prepending DEF Prefixed
      <4> HIDE DEF full
      <4> QED
        BY <4>1 DEF Prefixed
    <3>3. there = [spec EXCEPT !.table = full]
      BY <2>2 DEF ForeignKey
    <3> HIDE DEF full, there
    <3>4. there = [schema |-> spec.schema, table |-> full]
      BY <3>3 DEF Target
    <3>5. ForeignKey(there, prefix) = [there EXCEPT !.table = Prefixed(full, prefix)]
      BY <2>2, <3>4 DEF ForeignKey
    <3>6. ForeignKey(there, prefix) = there
      BY <3>2, <3>4, <3>5
    <3> QED
      BY <3>6 DEF there
  <2> QED
    BY <2>1, <2>2
<1> QED
  BY <1>1, <1>2 DEF Idempotent

\* db/orm/schema.py: a foreign key finds the table of a model by its full
\* name, and by its name without the service's prefix unless that begins
\* with aux_ itself.
THEOREM ForeignKeysFindTables ==
  ASSUME NEW model \in Model, NEW ns \in Seq(Word)
  PROVE  ForeignKeyFinds(model, AuxTablePrefix(ns))
<1> DEFINE prefix == AuxTablePrefix(ns)
           table  == TableName(model, prefix)
           short  == Deprefixed(table, prefix)
           to(t)  == ForeignKey([schema |-> Unset, table |-> t], prefix).table
<1>1. /\ prefix \in Seq(Word) /\ prefix[1] = "aux" /\ Len(prefix) = Len(ns) + 1
      /\ Len(ns) \in Nat
  BY AuxPrefixFacts, LenProperties
<1>2. table \in Seq(Built) /\ StartsWith(table, prefix)
  BY <1>1, TablesPrefixed
<1> HIDE DEF prefix, table
<1>3. prefix \in Seq(Built)
  BY <1>1, SeqMonotonic DEF Built
<1>4. /\ short \in Seq(Built) /\ short # <<>>
      /\ prefix \o short = table
  BY <1>2, <1>3, Deprefixing
<1> HIDE DEF short
<1>5. \A t : to(t) = Prefixed(t, prefix)
  BY DEF ForeignKey, Unset
<1> HIDE DEF to
<1>6. to(table) = table
  BY <1>2, <1>5 DEF Prefixed
<1>7. ASSUME ~ StartsWith(short, <<"aux">>) PROVE to(short) = table
  <2>1. ~ StartsWith(short, prefix)
    <3> SUFFICES ASSUME StartsWith(short, prefix) PROVE FALSE
      OBVIOUS
    <3>1. /\ Len(prefix) < Len(short)
          /\ \A i \in 1 .. Len(prefix) : prefix[i] = short[i]
      BY <1>3, <1>4, PrefixMeans
    <3>2. short[1] = "aux" /\ Len(short) > 1
      <4>1. prefix[1] = short[1] /\ Len(short) \in Nat
        BY <1>1, <1>4, <3>1, LenProperties
      <4> QED
        BY <1>1, <3>1, <4>1
    <3> DEFINE aux == <<"aux">>
    <3>3. aux \in Seq(Built)
      <4>1. "aux" \in Word
        BY Zenon DEF Word
      <4>2. "aux" \in Built
        BY <4>1 DEF Built
      <4> QED
        BY <4>2, ShortSequences, Zenon
    <3>4. Len(aux) = 1
      OBVIOUS
    <3>5. aux[1] = "aux"
      OBVIOUS
    <3>6. ~ StartsWith(short, aux)
      BY <1>7
    <3> HIDE DEF aux
    <3>7. Len(aux) < Len(short) /\ \A i \in 1 .. Len(aux) : aux[i] = short[i]
      BY <3>2, <3>4, <3>5
    <3> QED
      BY <1>4, <3>3, <3>6, <3>7, PrefixMeans
  <2>2. Prefixed(short, prefix) = prefix \o short
    BY <1>7, <2>1, Zenon DEF Prefixed
  <2> QED
    BY <1>4, <1>5, <2>2
<1> QED
  BY <1>6, <1>7, Zenon DEF ForeignKeyFinds, to, short, table, prefix

(***************************************************************************)
(* The calls that MCHelpers enumerates.                                    *)
(***************************************************************************)

CallMade == call \in Calls /\ answer \in {Pending, Answer}

LEMMA CallsMade == Spec => []CallMade
<1>1. Init => CallMade
  BY DEF Init, CallMade
<1>2. CallMade /\ [Return]_vars => CallMade'
  <2> SUFFICES ASSUME CallMade, [Return]_vars PROVE CallMade'
    OBVIOUS
  <2>1. call' = call
    BY DEF Return, vars
  <2>2. Answer' = Answer
    BY <2>1, Zenon DEF Answer
  <2>3. answer' \in {Pending, Answer}
    BY DEF CallMade, Return, vars
  <2> QED
    BY <2>1, <2>2, <2>3 DEF CallMade
<1> QED
  BY <1>1, <1>2, PTL DEF Spec

LEMMA AssertzCalls ==
  ASSUME CallMade, call[1] = "assertz"
  PROVE  /\ call[2] \in Kinds /\ call[3] \in Args
         /\ answer \in {Pending, <<Assertz(call[2], call[3], FALSE),
                                   AssertzReply(call[2], call[3])>>}
<1>1. call \in {"assertz"} \X Kinds \X Args
  BY DEF CallMade, Calls
<1>2. Answer = <<Assertz(call[2], call[3], FALSE), AssertzReply(call[2], call[3])>>
  BY Zenon DEF Answer
<1> QED
  BY <1>1, <1>2 DEF CallMade

\* RepliesDifferOnPrefixesOnly for the calls of the run, with what they
\* returned.
THEOREM CallsDifferOnPrefixesOnly == Spec => []RepliesButForPrefixes
<1>1. CallMade => RepliesButForPrefixes
  <2> SUFFICES ASSUME CallMade, call[1] = "assertz"
               PROVE  /\ SameVerdict(call[2], call[3])
                      /\ answer \in {Pending} \cup Outcomes \X Outcomes
    BY DEF RepliesButForPrefixes
  <2>1. SameVerdict(call[2], call[3])
    BY AssertzCalls, RepliesDifferOnPrefixesOnly
  <2>2. /\ Assertz(call[2], call[3], FALSE) \in Outcomes
        /\ AssertzReply(call[2], call[3]) \in Outcomes
    <3>1. {"accepted", "refused", "replied", "crashed"} = Outcomes
      BY DEF Outcomes
    <3> QED
      BY <2>1, <3>1 DEF SameVerdict
  <2> DEFINE raising == Assertz(call[2], call[3], FALSE)
             reply   == AssertzReply(call[2], call[3])
  <2>3. answer = Pending \/ answer = <<raising, reply>>
    BY AssertzCalls
  <2> HIDE DEF raising, reply
  <2>4. <<raising, reply>> \in Outcomes \X Outcomes
    BY <2>2 DEF raising, reply
  <2> QED
    BY <2>1, <2>3, <2>4
<1> QED
  BY <1>1, CallsMade, PTL

\* KeysJudgeAlike for the calls of the run.
THEOREM CallsJudgeKeysAlike == Spec => []KeyMakesNoDifference
<1>1. CallMade => KeyMakesNoDifference
  BY AssertzCalls, KeysJudgeAlike DEF KeyMakesNoDifference
<1> QED
  BY <1>1, CallsMade, PTL

LEMMA EnumeratedDates == DateInputs \subseteq DateInput
<1> DEFINE K1 == {"none", "date", "loose", "bad", "other"}
           S1 == {90000}
           U1 == {0, 1500}
           T1 == {None}
           K2 == {"datetime"}
           S2 == {-2, 0, 3599, 90001}
           T2 == {None, 0, 3600, -5400}
           K3 == {"text"}
           S3 == {-1, 3600}
           U3 == {0, 999999}
           T3 == {None, 0, 3600}
           some   == [kind: K1, sec: S1, us: U1, tz: T1, dot: {TRUE}]
           moment == [kind: K2, sec: S2, us: Micros, tz: T2, dot: {TRUE}]
           text   == [kind: K3, sec: S3, us: U3, tz: T3, dot: {TRUE}]
<1>1. K1 \subseteq InputKinds /\ K2 \subseteq InputKinds /\ K3 \subseteq InputKinds
  BY Zenon DEF InputKinds
<1>2. S1 \subseteq Int /\ S2 \subseteq Int /\ S3 \subseteq Int
  BY SMT
<1>3. U1 \subseteq Micro /\ Micros \subseteq Micro /\ U3 \subseteq Micro
  BY SMT DEF Micros, Micro
<1>4. /\ T1 \subseteq Int \cup {None} /\ T2 \subseteq Int \cup {None}
      /\ T3 \subseteq Int \cup {None}
  BY SMT
<1>5. DateInputs = some \cup moment \cup text
  BY SMT DEF DateInputs
<1> HIDE DEF K1, S1, U1, T1, K2, S2, T2, K3, S3, U3, T3
<1>6. some \subseteq DateInput
  BY <1>1, <1>2, <1>3, <1>4, Zenon DEF DateInput
<1>7. moment \subseteq DateInput
  BY <1>1, <1>2, <1>3, <1>4, Zenon DEF DateInput
<1>8. text \subseteq DateInput
  BY <1>1, <1>2, <1>3, <1>4, Zenon DEF DateInput
<1> HIDE DEF some, moment, text
<1> QED
  BY <1>5, <1>6, <1>7, <1>8, Zenon

LEMMA DateCalls ==
  ASSUME CallMade, call[1] = "date"
  PROVE  /\ call[2] \in DateInput
         /\ call[3][1] \in Int \cup {None} /\ call[3][2] \in Int
<1>1. call \in {"date"} \X DateInputs \X (Zones \X {0, 7200})
  BY DEF CallMade, Calls
<1>2. call[2] \in DateInputs /\ call[3] \in Zones \X {0, 7200}
  BY <1>1
<1>3. call[3][1] \in Zones /\ call[3][2] \in {0, 7200}
  BY <1>2
<1> QED
  BY <1>2, <1>3, EnumeratedDates, SMT DEF Zones

\* StylesNameTheSecond for the calls of the run.
THEOREM CallsNameOneSecond == Spec => []StylesNameOneSecond
<1>1. CallMade => StylesNameOneSecond
  BY DateCalls, StylesNameTheSecond DEF StylesNameOneSecond
<1> QED
  BY <1>1, CallsMade, PTL

\* IsoTextsRoundTrip for the calls of the run.
THEOREM CallsIsoReadsBack == Spec => []IsoTextsReadBack
<1>1. Fractionals \subseteq Int \cup {None}
  BY SMT DEF Fractionals
<1>2. CallMade => IsoTextsReadBack
  BY <1>1, DateCalls, IsoTextsRoundTrip DEF IsoTextsReadBack
<1> QED
  BY <1>2, CallsMade, PTL

\* ApiTextsRoundTrip for the calls of the run.
THEOREM CallsApiReadsBack == Spec => []ApiTextsReadBack
<1>1. CallMade => ApiTextsReadBack
  BY DateCalls, EnumeratedDates, ApiTextsRoundTrip DEF ApiTextsReadBack
<1> QED
  BY <1>1, CallsMade, PTL

LEMMA LongerSequences ==
  ASSUME NEW S, NEW v \in S, NEW w \in S, NEW x \in S, NEW y \in S
  PROVE  <<v, w, x>> \in Seq(S) /\ <<v, w, x, y>> \in Seq(S)
OBVIOUS

LEMMA EnumeratedNames == Models \subseteq Model /\ Envs \subseteq Environment
<1>1. /\ "" \in Word /\ "aux" \in Word /\ "foo" \in Word /\ "bar" \in Word
      /\ "x" \in Word /\ "y" \in Word /\ "z" \in Word
      /\ "items" \in Word /\ "item" \in Word /\ "legacy" \in Word
  BY Zenon DEF Word
<1>2. <<>> \in Seq(Word) /\ Unset \in Seq(Word)
  BY EmptySeq DEF Unset
<1>3. \A v \in Word : <<v>> \in Seq(Word)
  BY ShortSequences
<1>4. \A v, w \in Word : <<v, w>> \in Seq(Word)
  BY ShortSequences
<1>5. \A v, w, x \in Word : <<v, w, x>> \in Seq(Word)
  BY LongerSequences
<1>6. \A v, w, x, y \in Word : <<v, w, x, y>> \in Seq(Word)
  BY LongerSequences
<1>7. Namespaces \subseteq Seq(Word)
  <2>1. <<"foo">> \in Seq(Word) /\ <<"bar">> \in Seq(Word)
    BY <1>1, <1>3, Zenon
  <2>2. /\ <<"foo", "bar">> \in Seq(Word) /\ <<"", "foo">> \in Seq(Word)
        /\ <<"", "">> \in Seq(Word)
    BY <1>1, <1>4, Zenon
  <2>3. <<"foo", "bar", "x", "y">> \in Seq(Word)
    BY <1>1, <1>6, Zenon
  <2>4. <<"foo", "bar", "x", "z">> \in Seq(Word)
    BY <1>1, <1>6, Zenon
  <2> QED
    BY <1>2, <2>1, <2>2, <2>3, <2>4, Zenon DEF Namespaces
<1>8. LocalNames \subseteq Seq(Word)
  BY <1>1, <1>3, <1>4, <1>5, Zenon DEF LocalNames
<1>9. {Unset, <<"aux", "foo", "legacy">>, <<"legacy">>} \subseteq Seq(Word)
  BY <1>1, <1>2, <1>3, <1>5, Zenon
<1>10. {<<"item">>, <<"aux">>} \subseteq Seq(Word) \ {<<>>}
  <2>1. \A v \in Word : <<v>> # <<>>
    OBVIOUS
  <2> QED
    BY <1>1, <1>3, <2>1, Zenon
<1>11. Envs \subseteq Environment
  <2>1. {Unset, <<"foo">>} \subseteq Seq(Word)
    BY <1>1, <1>2, <1>3, Zenon
  <2> QED
    BY <1>7, <2>1, Zenon DEF Envs, Environment
<1>12. Models \subseteq Model
  <2>1. {Unset} \cup LocalNames \subseteq Seq(Word)
    BY <1>2, <1>8, Zenon
  <2> QED
    BY <1>9, <1>10, <2>1, Zenon DEF Models, Model
<1> QED
  BY <1>11, <1>12

LEMMA ModelCalls ==
  ASSUME CallMade, call[1] = "model"
  PROVE  call[2] \in Model /\ call[3] \in Environment
<1>1. call \in {"model"} \X Models \X Envs
  BY DEF CallMade, Calls
<1> QED
  BY <1>1, EnumeratedNames

\* OwnTablesIncluded for the calls of the run.
THEOREM CallsManageOwnTables == Spec => []OwnTablesManaged
<1>1. CallMade => OwnTablesManaged
  BY ModelCalls, OwnTablesIncluded DEF OwnTablesManaged
<1> QED
  BY <1>1, CallsMade, PTL

\* ForeignTablesUntouched and VersionsKeptApart for the calls of the run.
THEOREM CallsKeepServicesApart == Spec => []ServicesKeptApart
<1>1. CallMade => ServicesKeptApart
  BY ModelCalls, EnumeratedNames, ForeignTablesUntouched, VersionsKeptApart
    DEF ServicesKeptApart
<1> QED
  BY <1>1, CallsMade, PTL

LEMMA EnumeratedArguments ==
  /\ ArgsOfTables \cup ExtraKinds \subseteq Argument
  /\ Specs \subseteq Target /\ AuxPrefixes \subseteq Seq(Word)
<1>1. /\ "aux" \in Word /\ "foo" \in Word /\ "bar" \in Word
      /\ "items" \in Word /\ "public" \in Word /\ "n" \in Word
      /\ "a" \in Word /\ "b" \in Word /\ "c" \in Word
      /\ "d" \in Word /\ "e" \in Word /\ "f" \in Word
  BY Zenon DEF Word
<1>2. <<>> \in Seq(Word) /\ Unset \in Seq(Word)
  BY EmptySeq DEF Unset
<1>3. \A v \in Word : <<v>> \in Seq(Word)
  BY ShortSequences
<1>4. \A v, w \in Word : <<v, w>> \in Seq(Word)
  BY ShortSequences
<1>5. \A v, w, x \in Word : <<v, w, x>> \in Seq(Word)
  BY LongerSequences
<1>6. \A v, w, x, y \in Word : <<v, w, x, y>> \in Seq(Word)
  BY LongerSequences
<1>7. {Unset, <<"aux", "foo", "items">>, <<"a">>, <<"a", "b">>} \subseteq Seq(Word)
  <2>1. <<"a">> \in Seq(Word)
    BY <1>1, <1>3, Zenon
  <2>2. <<"a", "b">> \in Seq(Word)
    BY <1>1, <1>4, Zenon
  <2>3. <<"aux", "foo", "items">> \in Seq(Word)
    BY <1>1, <1>5, Zenon
  <2> QED
    BY <1>2, <2>1, <2>2, <2>3, Zenon
<1>8. {Unset, <<"a">>, <<"b">>, <<"b", "c">>, <<"b", "c", "d", "e">>,
       <<"b", "c", "d", "f">>} \subseteq Seq(Word)
  <2>1. <<"a">> \in Seq(Word) /\ <<"b">> \in Seq(Word)
    BY <1>1, <1>3, Zenon
  <2>2. <<"b", "c">> \in Seq(Word)
    BY <1>1, <1>4, Zenon
  <2>3. <<"b", "c", "d", "e">> \in Seq(Word)
    BY <1>1, <1>6, Zenon
  <2>4. <<"b", "c", "d", "f">> \in Seq(Word)
    BY <1>1, <1>6, Zenon
  <2> QED
    BY <1>2, <2>1, <2>2, <2>3, <2>4, Zenon
<1>9. {Unset, <<"items">>} \subseteq Seq(Word)
  BY <1>1, <1>2, <1>3, Zenon
<1>10. {Unset, <<"foo">>, <<"aux", "foo", "n">>} \subseteq Seq(Word)
  <2>1. <<"foo">> \in Seq(Word)
    BY <1>1, <1>3, Zenon
  <2>2. <<"aux", "foo", "n">> \in Seq(Word)
    BY <1>1, <1>5, Zenon
  <2> QED
    BY <1>2, <2>1, <2>2, Zenon
<1>11. ArgsOfTables \subseteq Argument
  <2>1. {"idx", "fk", "ck"} \subseteq ArgKinds
    BY Zenon DEF ArgKinds
  <2> QED
    BY <1>7, <1>8, <1>9, <1>10, <2>1, Zenon DEF ArgsOfTables, Argument
<1>12. ExtraKinds \subseteq Argument
  <2>1. {"uq", "pk", "ex"} \subseteq ArgKinds
    BY Zenon DEF ArgKinds
  <2>2. /\ {<<"a">>} \subseteq Seq(Word) /\ {<<"b">>, <<"c">>} \subseteq Seq(Word)
        /\ {Unset} \subseteq Seq(Word)
    BY <1>1, <1>2, <1>3, Zenon
  <2> QED
    BY <2>1, <2>2, Zenon DEF ExtraKinds, Argument
<1>13. Specs \subseteq Target
  <2>1. {Unset, <<"public">>} \subseteq Seq(Word)
    BY <1>1, <1>2, <1>3, Zenon
  <2>2. LocalNames \subseteq Seq(Word)
    BY <1>1, <1>3, <1>4, <1>5, ZenonT(40) DEF LocalNames
  <2>3. \A name \in LocalNames : name # <<>>
    <3>1. \A v, w, x \in Word :
            <<v>> # <<>> /\ <<v, w>> # <<>> /\ <<v, w, x>> # <<>>
      OBVIOUS
    <3> QED
      BY <1>1, <3>1, Zenon DEF LocalNames
  <2>4. LocalNames \subseteq Seq(Word) \ {<<>>}
    BY <2>2, <2>3, Zenon
  <2> QED
    BY <2>1, <2>4, Zenon DEF Specs, Target
<1>14. AuxPrefixes \subseteq Seq(Word)
  <2>1. {Unset, <<"foo">>, <<"foo", "bar">>} \subseteq Seq(Word)
    BY <1>1, <1>2, <1>3, <1>4, Zenon
  <2> QED
    BY <2>1, AuxPrefixFacts, Zenon DEF AuxPrefixes
<1> QED
  BY <1>11, <1>12, <1>13, <1>14, Zenon

LEMMA ConstraintCalls ==
  ASSUME CallMade, call[1] = "constraint"
  PROVE  call[2] \in ArgsOfTables \cup ExtraKinds /\ call[3] \in AuxPrefixes
<1>1. call \in {"constraint"} \X (ArgsOfTables \cup ExtraKinds) \X AuxPrefixes
  BY DEF CallMade, Calls
<1> QED
  BY <1>1

\* NormalizedOnce, NamesTellWhatIsSeen and ForeignKeysFindTables for the calls
\* of the run.
THEOREM CallsNormalizeNames == Spec => []NamesNormalized
<1>1. CallMade => NamesNormalized
  <2> SUFFICES ASSUME CallMade PROVE NamesNormalized
    OBVIOUS
  <2>1. ASSUME call[1] = "constraint"
        PROVE  /\ \A spec \in Specs : Idempotent(call[2], spec, call[3])
               /\ \A other \in ArgsOfTables \cup ExtraKinds :
                    NamesTell(call[2], other, call[3])
    <3>1. /\ call[2] \in ArgsOfTables \cup ExtraKinds
          /\ call[3] \in AuxPrefixes
      BY <2>1, ConstraintCalls
    <3>2. call[2] \in Argument /\ call[3] \in Seq(Word)
      BY <3>1, EnumeratedArguments
    <3>3. ASSUME NEW spec \in Specs PROVE Idempotent(call[2], spec, call[3])
      BY <3>2, EnumeratedArguments, NormalizedOnce
    <3>4. ASSUME NEW other \in ArgsOfTables \cup ExtraKinds
          PROVE  NamesTell(call[2], other, call[3])
      <4> DEFINE names == {MadeName(arg, call[3]) :
                             arg \in ArgsOfTables \cup ExtraKinds}
      <4>1. MadeName(call[2], call[3]) \in names /\ MadeName(other, call[3]) \in names
        BY <3>1
      <4>2. \A made, long \in names : HashTells(made, long)
        BY <3>1, HashAssumption
      <4> HIDE DEF names
      <4>3. /\ HashTells(MadeName(call[2], call[3]), MadeName(other, call[3]))
            /\ HashTells(MadeName(other, call[3]), MadeName(call[2], call[3]))
        BY <4>1, <4>2
      <4>4. other \in Argument
        BY EnumeratedArguments
      <4> QED
        BY <3>2, <4>3, <4>4, NamesTellWhatIsSeen
    <3> QED
      BY <3>3, <3>4
  <2>2. ASSUME call[1] = "model"
        PROVE  ForeignKeyFinds(call[2], OrmPrefix(call[3]))
    <3>1. call[2] \in Model /\ call[3].own \in Seq(Word)
      BY <2>2, ModelCalls DEF Environment
    <3>2. OrmPrefix(call[3]) = AuxTablePrefix(call[3].own)
      BY DEF OrmPrefix
    <3> QED
      BY <3>1, <3>2, ForeignKeysFindTables
  <2> QED
    BY <2>1, <2>2 DEF NamesNormalized
<1> QED
  BY <1>1, CallsMade, PTL
=============================================================================
