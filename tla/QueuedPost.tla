------------------------------- MODULE QueuedPost -------------------------------
(***************************************************************************)
(* From a line of RDELAY.TXT or QUEn.TXT to a post and its answer:         *)
(* deszLine and deszqNextCh, which cut the line into fields where it lies  *)
(* in the buffer deszq_line, and EnviroDIYPublisher, which announces the   *)
(* length of the JSON before it prints it.                                 *)
(*                                                                         *)
(* A line is status, time and one value per variable the logger had when   *)
(* it took the reading; the file may be older than the firmware, so their  *)
(* number may differ.  The buffer keeps what a longer line left behind the *)
(* end of a shorter one.  Characters are cells that name the field they    *)
(* belong to; the tags that both lengths have in common are left out.      *)
(*                                                                         *)
(* External: fgets of SdFat (it drops the CR) and the server, which stores *)
(* a post only if it is complete JSON of the announced length.             *)
(***************************************************************************)
EXTENDS Integers, Sequences, SequencesExt, FiniteSetsExt

CONSTANTS
  NumVars,        \* getArrayVarCount()
  Records,        \* how many values a line on the card may have
  Widths,         \* how many characters a value may have
  LineMax,        \* QUEFILE_MAX_LINE
  LoggerTimeZone  \* _loggerTimeZone, an int8_t: hours from UTC

ASSUME PostAssumption ==
  /\ NumVars \in Nat \ {0} /\ LineMax \in Nat \ {0, 1}
  /\ Records \subseteq Nat \ {0} /\ Widths \subseteq Nat \ {0}
  /\ LoggerTimeZone \in -128..127

VARIABLES
  pc,
  deszq_line,     \* the line buffer
  rest,           \* of a line that is longer than the buffer: what is still to be read
  widths,         \* history: the values of the line being read, by their widths
  parsed,         \* history: deszLine has come to the end of the file or succeeded
  rspCode,
  stored          \* history: what the server has of this line

vars == <<pc, deszq_line, rest, widths, parsed, rspCode, stored>>

Comma == <<"comma">>
LF == <<"LF">>
NUL == <<"NUL">>
Status == -1
Time == 0

Field(f, w) == [j \in 1..w |-> <<"line", f, j>>]

\* serzRdel_Line
Line(ws) ==
  Field(Status, 1) \o <<Comma>> \o Field(Time, 1)
    \o FlattenSeq([f \in DOMAIN ws |-> <<Comma>> \o Field(f, ws[f])]) \o <<LF>>

Lines == UNION {[1..k -> Widths] : k \in Records}

\* The buffer holds every line and the NUL behind it.
LinesFit == \A ws \in Lines : Len(Line(ws)) < LineMax

Nothing == <<>>

Init ==
  /\ pc = "between"
  /\ deszq_line = [i \in 1..LineMax |-> NUL]
  /\ rest = <<>> /\ widths = <<>> /\ parsed = TRUE
  /\ rspCode = 0 /\ stored = Nothing

--------------------------------------------------------------------------------
(* The string functions, on the buffer and the zeros that follow it.       *)

At(i) == IF i <= LineMax THEN deszq_line[i] ELSE NUL

Beyond == LineMax + NumVars + 3

First(at, set) ==
  CHOOSE i \in at..Beyond : At(i) \in set /\ \A j \in at..(i - 1) : At(j) \notin set

strlen(at) == First(at, {NUL}) - at

\* Where the field at ends: at a comma or at the end of the string.
deszFind(at) == First(at, {Comma, NUL})

HasComma(at) == At(deszFind(at)) = Comma

IsDigit(cell) == Len(cell) = 3

--------------------------------------------------------------------------------
(* deszLine.                                                               *)

\* Mutant of FgetsSize: one cell fewer.
FgetsSizeLess(text) == Min({Len(text), LineMax - 2})

\* A line ends with its LF; there is room for the NUL.
FgetsSize(text) == Min({Len(text), LineMax - 1})

Stale(cell) == IF IsDigit(cell) THEN <<"old", cell[2], cell[3]>> ELSE cell

Fgets(text) ==
  LET size == FgetsSize(text)
  IN /\ deszq_line' = [i \in 1..LineMax |-> IF i <= size THEN text[i]
                                            ELSE IF i = size + 1 THEN NUL
                                            ELSE Stale(deszq_line[i])]
     /\ rest' = SubSeq(text, size + 1, Len(text))

ReadLine(ws) ==
  /\ pc = "between"
  /\ IF rest = <<>> THEN Fgets(Line(ws)) /\ widths' = ws
                    ELSE Fgets(rest) /\ UNCHANGED widths
  /\ parsed' = IsDigit(deszq_line'[1])
  /\ pc' = IF parsed' THEN "read" ELSE "ended"
  /\ rspCode' = 0 /\ stored' = Nothing

EndOfFile ==
  /\ pc = "between" /\ rest = <<>>
  /\ pc' = "ended" /\ widths' = <<>> /\ stored' = Nothing
  /\ UNCHANGED <<deszq_line, rest, parsed, rspCode>>

\* The end of the loop over the lines: the file is removed.
RemoveFile ==
  /\ pc = "ended"
  /\ rest' = <<>> /\ parsed' = TRUE /\ rspCode' = 0
  /\ pc' = "between"
  /\ UNCHANGED <<deszq_line, widths, stored>>

\* Behind status and time.
Values == 1 + deszFind(1 + deszFind(1))

deszq_timeVariant_sz == strlen(Values) - 1

--------------------------------------------------------------------------------
(* mmwPostDataQued: one value per variable of the array.                   *)

\* Mutant of deszqNextCh: the LF is taken for a part of the value.
deszqNextChWithLF(at) ==
  LET next == 1 + deszFind(at)
  IN [at |-> next, size |-> deszFind(next) - next,
      found |-> strlen(next) # 0 /\ deszFind(next) # next]

deszqNextCh(at) ==
  LET next == 1 + deszFind(at)
      size == IF HasComma(next) THEN deszFind(next) - next
              ELSE IF strlen(next) = 0 THEN 0 ELSE strlen(next) - 1
  IN [at |-> next, size |-> size,
      found |-> strlen(next) # 0 /\ (HasComma(next) => size # 0)]

\* deszq_nextChar, deszq_nextCharSz for each variable; the first are deszLine's.
Cursor[i \in 1..NumVars] ==
  IF i = 1 THEN [at |-> Values, size |-> deszFind(Values) - Values, found |-> TRUE]
           ELSE deszqNextCh(Cursor[i - 1].at)

Posted == {i \in 1..NumVars : \A j \in 1..i : Cursor[j].found}

Value(i) == [j \in 1..Cursor[i].size |-> At(Cursor[i].at + j - 1)]

\* The characters that formatDateTime_ISO8601 puts behind date and time: Z, +hh:00 or,
\* for a number that is no time zone, the number.
ZoneSize ==
  CASE LoggerTimeZone = 0 -> 1
    [] LoggerTimeZone \in (-24..24) \ {0} -> 6
    [] LoggerTimeZone \in 25..99 -> 2
    [] LoggerTimeZone \in (-99..-25) \cup (100..127) -> 3
    [] LoggerTimeZone < -99 -> 4

StampPrinted == 19 + ZoneSize

\* markedISO8601Time
StampAnnounced == 25

\* A time zone whose stamp has the announced length: UTC itself, printed as Z, has not.
StampAsAnnounced == StampPrinted = StampAnnounced

\* A quoted UUID and a colon; each value is followed by a comma or the last brace.
KeySize == 39

\* What has been printed up to variable i.
Body[i \in 0..NumVars] ==
  IF i = 0 THEN 0
           ELSE Body[i - 1] + (IF i \in Posted THEN KeySize + Cursor[i].size + 1 ELSE 0)

BodySize == StampPrinted + Body[NumVars]

\* Mutant of calculateJsonSize: the length of what is going to be printed.
calculateJsonSizeOfBody == BodySize

calculateJsonSize == StampAnnounced + NumVars * KeySize + deszq_timeVariant_sz + 1

--------------------------------------------------------------------------------
(* publishData and publishRspCodeAccepted.                                 *)

Understood ==
  /\ calculateJsonSize = BodySize
  /\ Posted = 1..NumVars /\ \A i \in Posted : Cursor[i].size > 0

Content == [i \in 1..NumVars |-> Value(i)]

HTTPSTATUS_GT_504 == 504
HTTPSTATUS_NC_901 == 901

Answered(code) ==
  /\ rspCode' = code
  /\ pc' = "answered"
  /\ UNCHANGED <<deszq_line, rest, widths, parsed>>

NoConnection ==
  /\ pc = "read"
  /\ stored' = Nothing
  /\ Answered(HTTPSTATUS_NC_901)

\* The post or its answer is lost, or the server waits for the rest of the body.
Timeout ==
  /\ pc = "read"
  /\ stored' \in {Nothing} \cup (IF Understood THEN {Content} ELSE {})
  /\ Answered(HTTPSTATUS_GT_504)

\* responseCode_char has no terminator: atoi goes on with whatever the fourth byte is.
Fourth == {"no digit", "digit"}

atoi(code, fourth) == IF fourth = "digit" THEN 10 * code ELSE code

Answer(code, fourth) ==
  /\ pc = "read"
  /\ code = 201 => Understood
  /\ stored' = IF code = 201 THEN Content ELSE Nothing
  /\ Answered(atoi(code, fourth))

\* Mutant of publishRspCodeAccepted: a time-out is final.
publishRspCodeAcceptedOrLate(code) == code \in 200..299 \/ code = HTTPSTATUS_GT_504

publishRspCodeAccepted(code) == code \in 200..299

\* Mutant of NextLine: the code of the last line is left for the next.
NextLineKeepsCode ==
  /\ pc = "answered"
  /\ pc' = "between" /\ stored' = Nothing
  /\ UNCHANGED <<deszq_line, rest, widths, parsed, rspCode>>

\* Kept or not, the loop goes on with the next line.
NextLine ==
  /\ pc = "answered"
  /\ pc' = "between" /\ rspCode' = 0 /\ stored' = Nothing
  /\ UNCHANGED <<deszq_line, rest, widths, parsed>>

Next ==
  \/ \E ws \in Lines : ReadLine(ws)
  \/ EndOfFile \/ RemoveFile
  \/ NoConnection \/ Timeout
  \/ \E code \in {201, 400, 500}, fourth \in Fourth : Answer(code, fourth)
  \/ NextLine

Spec == Init /\ [][Next]_vars

--------------------------------------------------------------------------------
TypeOK ==
  /\ pc \in {"between", "read", "answered", "ended"}
  /\ DOMAIN deszq_line = 1..LineMax /\ At(LineMax) = NUL
  /\ widths \in Lines \cup {<<>>} /\ parsed \in BOOLEAN
  /\ Len(rest) < Len(Line(widths))
  /\ pc = "answered" <=> rspCode # 0
  /\ pc # "answered" => stored = Nothing

\* The announced length is that of the body for every reading of the array as it is
\* now, whatever longer lines were in the buffer before: the last value ends before the
\* line feed in both, and the time stamp takes the characters that are set aside for it.
LengthsAgree ==
  pc = "read" /\ Len(widths) = NumVars => calculateJsonSize = BodySize

\* What the server stores are the values of the line, all of them and whole.  A line
\* with more or fewer values than the array, for which the cursor goes on into what an
\* older line left in the buffer, is never stored: its lengths give it away, if the
\* time stamp has the length announced for it.
StoredIsTheReading ==
  stored # Nothing => /\ Len(widths) = NumVars
                      /\ stored = [i \in 1..NumVars |-> Field(i, widths[i])]

\* A line is forgotten only if the server has it.
AcceptedIsStored ==
  pc = "answered" /\ publishRspCodeAccepted(rspCode) => stored # Nothing

\* The loop that removes the file has come to its end: no line stops it half-way.
EveryLineIsRead == pc = "ended" => parsed
================================================================================
