----------------------------- MODULE DateFormats -----------------------------
(***************************************************************************)
(* The date helpers (envoxy/utils/datetime.py): reading dates, datetimes   *)
(* and strings into aware datetimes, and writing them in the styles of the *)
(* API.                                                                    *)
(*                                                                         *)
(* A datetime is a record of the wall clock in seconds, the microseconds   *)
(* of that second, and the offset of its zone in seconds; the calendar is  *)
(* left out.  A text keeps what can be read from it: seconds, the digits   *)
(* of the fraction and their number, and the offset.                       *)
(***************************************************************************)
EXTENDS Integers

CONSTANTS
  None,      \* Python's None; also the offset of a naive datetime
  Raised     \* an exception

ASSUME DatesAssumption ==
  /\ None \notin Int /\ Raised \notin Int
  /\ {None, Raised} \cap [sec: Int, us: Int, off: Int \cup {None}] = {}

\* What callers hand in: None, for which the current time in sec and us is
\* taken; a date; a datetime, aware or naive; a string that fromisoformat
\* reads; "loose", one that only strptime's "...%S.%f+0000" reads (such as
\* 2025-1-2T3:4:5.6+0000); "bad", one that neither reads; and other types.
InputKinds == {"none", "date", "datetime", "text", "loose", "bad", "other"}

Ten == [n \in 0 .. 6 |-> <<1, 10, 100, 1000, 10000, 100000, 1000000>>[n + 1]]

\* Python's round: to the nearest, a half to the even neighbour.
Round(n, d) ==
  LET q == n \div d  r == 2 * (n % d)
  IN  IF r > d \/ (r = d /\ q % 2 = 1) THEN q + 1 ELSE q

Utc(dt) == dt.sec - dt.off

AsTimezone(dt, off) == [sec |-> Utc(dt) + off, us |-> dt.us, off |-> off]

\* Now.to_datetime with the default format: +0000 is a literal there, and
\* the result is naive.
ToDatetime(input) ==
  IF input.kind = "loose" \/ (input.kind = "text" /\ input.tz = 0 /\ input.dot)
  THEN [sec |-> input.sec, us |-> input.us, off |-> None]
  ELSE None

\* Whatever is naive is given assume_tz: a loose string too, although it ends
\* in +0000.  A final Z is read as +00:00.
CoerceDatetime(input, assume) ==
  LET aware(off) == [sec |-> input.sec, us |-> input.us, off |-> off]
  IN  IF input.kind = "none" THEN None
      ELSE IF input.kind = "date"
        THEN [sec |-> input.sec - (input.sec % 86400), us |-> 0, off |-> assume]
      ELSE IF input.kind \in {"datetime", "text"}
        THEN aware(IF input.tz = None THEN assume ELSE input.tz)
      ELSE IF input.kind = "loose" THEN [ToDatetime(input) EXCEPT !.off = assume]
      ELSE Raised

Parse(input, assume) ==
  IF input.kind = "none" THEN Raised ELSE CoerceDatetime(input, assume)

\* The first lines of every formatter: no value means now, in UTC.
Moment(input, assume) ==
  IF input.kind = "none" THEN [sec |-> input.sec, us |-> input.us, off |-> 0]
  ELSE CoerceDatetime(input, assume)

\* Fault: the fraction is cut off instead of rounded (_format_fractional
\* without its round).
FormatFractionalCut(us, fractional) ==
  LET f == IF fractional > 6 THEN 6 ELSE fractional
  IN  IF fractional = None THEN [digits |-> IF us = 0 THEN 0 ELSE 6, n |-> us]
      ELSE IF fractional <= 0 THEN [digits |-> 0, n |-> 0]
      ELSE [digits |-> f, n |-> us \div Ten[6 - f]]

\* The carry into the seconds is dropped: .9996 with three digits is .000 of
\* the same second.
FormatFractional(us, fractional) ==
  LET f       == IF fractional > 6 THEN 6 ELSE fractional
      rounded == Round(us, Ten[6 - f])
  IN  IF fractional = None THEN [digits |-> IF us = 0 THEN 0 ELSE 6, n |-> us]
      ELSE IF fractional <= 0 THEN [digits |-> 0, n |-> 0]
      ELSE [digits |-> f, n |-> IF rounded >= Ten[f] THEN 0 ELSE rounded]

InZone(dt, tz) == IF tz = None THEN dt ELSE AsTimezone(dt, tz)

WholeMinutes(off) == off % 60 = 0

\* %z is +HHMM or, for an offset with seconds, +HHMMSS.  A colon after the
\* hours makes +HH:MM of the one and +HH:MMSS of the other, in which nothing
\* can be read: Raised stands for it.
OffsetText(off) == IF WholeMinutes(off) THEN off ELSE Raised

FormatIso(input, fractional, tz, assume) ==
  LET dt == Moment(input, assume)
  IN  IF dt = Raised THEN Raised
      ELSE [sec |-> InZone(dt, tz).sec, zone |-> OffsetText(InZone(dt, tz).off),
            frac |-> FormatFractional(dt.us, fractional)]

\* gmtime rounds towards minus infinity.
FormatRfc1123(input, assume) ==
  LET dt == Moment(input, assume)
  IN  IF dt = Raised THEN Raised ELSE Utc(dt)

\* int() rounds towards zero, also before 1970.
FormatUnix(input, assume) ==
  LET dt == Moment(input, assume)
  IN  IF dt = Raised THEN Raised
      ELSE IF Utc(dt) < 0 /\ dt.us > 0 THEN Utc(dt) + 1 ELSE Utc(dt)

\* With ms=True the float is rounded: the set of both neighbours when the
\* microseconds are halfway, for the float may lie on either side.
FormatUnixMs(input, assume) ==
  LET dt == Moment(input, assume)
      ms == Utc(dt) * 1000 + dt.us \div 1000
  IN  IF dt = Raised THEN {Raised}
      ELSE {m \in {ms, ms + 1} : IF m = ms THEN dt.us % 1000 <= 500
                                 ELSE dt.us % 1000 >= 500}

\* format_strftime with a pattern that writes the wall clock to the second.
FormatStrftime(input, tz, assume) ==
  LET dt == Moment(input, assume)
  IN  IF dt = Raised THEN Raised
      ELSE [sec |-> InZone(dt, tz).sec, zone |-> InZone(dt, tz).off]

\* The module's api_format, which selects a style.  With as_object the value
\* itself is read, None included.
ApiFormatStyle(style, input, fmt, tz, fractional, asObject, assume) ==
  CASE style \notin {"iso", "rfc1123", "unix", "strftime"} -> Raised
    [] style = "strftime" /\ fmt = None -> Raised
    [] style = "iso" /\ asObject -> CoerceDatetime(input, assume)
    [] style = "strftime" /\ fmt # None /\ asObject ->
         CoerceDatetime(input, assume)
    [] style = "strftime" /\ fmt # None /\ ~ asObject ->
         FormatStrftime(input, tz, assume)
    [] style = "iso" /\ ~ asObject -> FormatIso(input, fractional, tz, assume)
    [] style = "rfc1123" -> FormatRfc1123(input, assume)
    [] style = "unix" -> FormatUnix(input, assume)

\* Fault: the wall clock is written with +0000 without going to UTC first.
FormatApiLocal(input, assume) ==
  LET dt == Moment(input, assume)
  IN  IF dt = Raised THEN Raised
      ELSE [sec |-> dt.sec, zone |-> 0,
            frac |-> [digits |-> 3, n |-> dt.us \div 1000]]

\* Format.api_format cuts the microseconds off after three digits; without
\* an argument it is Now.api_format.
FormatApi(input, assume) ==
  LET dt == Moment(input, assume)
  IN  IF dt = Raised THEN Raised
      ELSE [sec |-> Utc(dt), zone |-> 0,
            frac |-> [digits |-> 3, n |-> dt.us \div 1000]]

\* Now.log_format and Now.timestamp: the clock's second.
LogFormat(input) == input.sec

-----------------------------------------------------------------------------
(* What a reader of the texts relies on.                                   *)

\* The string a text is, as an input of the functions that read.
Text(t) ==
  [kind |-> IF t.zone = Raised THEN "bad" ELSE "text", sec |-> t.sec,
   tz |-> t.zone, dot |-> t.frac.digits > 0,
   us |-> t.frac.n * Ten[6 - t.frac.digits]]

\* How much later than instant b the instant a is, in microseconds; two
\* seconds stand for everything above.
Later(a, b) ==
  LET seconds == Utc(a) - Utc(b)
  IN  IF seconds < -1 THEN -2000000 ELSE IF seconds > 1 THEN 2000000
      ELSE seconds * 1000000 + a.us - b.us

\* An ISO text reads back as the instant it was written for, in a zone of
\* whole minutes: exactly with six digits, to half a unit of the last digit
\* with less, to the second below without digits, and to the start of the
\* second when rounding reaches the next one.  In another zone (the local mean
\* time of old dates) it does not read back at all.
IsoReadsBack(input, fractional, tz, assume) ==
  LET dt    == Moment(input, assume)
      text  == FormatIso(input, fractional, tz, assume)
      back  == Parse(Text(text), assume)
      error == Later(back, dt)
      unit  == Ten[6 - fractional]
  IN  \/ dt = Raised
      \/ ~ WholeMinutes(InZone(dt, tz).off) /\ back = Raised
      \/ /\ WholeMinutes(InZone(dt, tz).off)
         /\ \/ fractional = None /\ error = 0
            \/ fractional > 6 /\ error = 0
            \/ fractional \in 1 .. 6 /\ 2 * error \in -unit .. unit
            \/ /\ fractional <= 0 \/ 2 * dt.us >= 2000000 - unit
               /\ error = - dt.us

\* The texts of all styles name the same second of the same value (of ISO
\* where its zone can be read, and with the carry dropped within the second).
\* unix names it too from 1970 on, cutting the fraction off although the
\* docstring of Format.unix says that as_int rounds; before 1970 cutting is
\* towards zero and names the next second, unless there is no fraction.  Its
\* milliseconds are rounded: at most one above those of the API's text.
StylesAgree(input, tz, assume) ==
  LET dt      == Moment(input, assume)
      iso     == FormatIso(input, 3, tz, assume)
      api     == FormatApi(input, assume)
      rfc1123 == FormatRfc1123(input, assume)
      unix    == FormatUnix(input, assume)
      custom  == FormatStrftime(input, tz, assume)
  IN  \/ dt = Raised
      \/ /\ iso.zone # Raised => rfc1123 = iso.sec - iso.zone
         /\ rfc1123 = api.sec
         /\ rfc1123 = custom.sec - custom.zone
         /\ unix = rfc1123 + (IF rfc1123 < 0 /\ dt.us > 0 THEN 1 ELSE 0)
         /\ \A ms \in FormatUnixMs(input, assume) :
              ms - (api.sec * 1000 + api.frac.n) \in {0, 1}

\* The API's own format survives reading and writing again, keeps the order
\* of instants, and is never later than the instant.
ApiRoundTrip(input, other, assume) ==
  LET dt    == Moment(input, assume)
      text  == FormatApi(input, assume)
      back  == Parse(Text(text), assume)
      later == Moment(other, assume)
      next  == FormatApi(other, assume)
  IN  \/ dt = Raised
      \/ /\ Later(dt, back) \in 0 .. 999
         /\ FormatApi(Text(text), assume) = text
         /\ ToDatetime(Text(text)) # None
         /\ later # Raised /\ Later(later, dt) >= 0 =>
              Later(Parse(Text(next), assume), back) >= 0
=============================================================================
