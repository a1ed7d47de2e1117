------------------------------ MODULE ConfFile ------------------------------
(***************************************************************************)
(* conf_file.c.  conf_file_read reads a file one byte at a time into a     *)
(* line buffer that doubles up to a limit.  At each '\n', and at end of    *)
(* file or the first '\0', it hands the line to conf_file_parse_line,      *)
(* which appends a ConfFileLine to conf_file->lines: a name/value pair, or *)
(* the raw text of an empty, comment or malformed line.  Longer lines are  *)
(* skipped with a warning; empty lines at the end are removed.  One byte   *)
(* read is one step.  Bytes are one-character strings; warnings are        *)
(* <<kind, line number>> pairs, their text left out.                       *)
(***************************************************************************)
EXTENDS Integers, Sequences, SequencesExt

CONSTANTS
    Files,              \* the file contents conf_file_read may meet
    InitialAllocated,   \* the first buffer size (256)
    MaxAllocated,       \* the buffer size that is no longer doubled (32768)
    NULL,               \* a NULL char pointer
    Failures            \* whether malloc, fopen, fread, realloc, strdup and
                        \* array_append may fail

NUL == "NUL"                      \* the byte '\0'
LF == "\n"
CR == "\r"
Whitespace == {" ", "\t", "\r"}   \* strspn's " \t\r"

VARIABLES
    file,        \* the bytes of the file
    pos,         \* the index of the next byte robust_fread returns
    buffer,      \* the line read so far: buffer[0 .. length - 1]
    allocated,   \* the buffer's size
    skip,        \* the current line is too long and is being skipped
    number,      \* the current line's number
    lines,       \* conf_file->lines
    warnings,    \* the warning callbacks made, in order
    pc           \* where conf_file_create and conf_file_read are

vars == <<file, pos, buffer, allocated, skip, number, lines, warnings, pc>>

(***************************************************************************)
(* conf_file_parse_line's split of a line, before the strdup calls.        *)
(***************************************************************************)
RECURSIVE TrimLeft(_)
TrimLeft(s) == IF s # <<>> /\ Head(s) \in Whitespace THEN TrimLeft(Tail(s)) ELSE s

RECURSIVE TrimRight(_)
TrimRight(s) == IF s # <<>> /\ Last(s) \in Whitespace THEN TrimRight(Front(s)) ELSE s

Split(line) ==
    LET n == TrimLeft(line)
        eq == SelectInSeq(n, LAMBDA ch : ch = "=")
        name == TrimRight(SubSeq(n, 1, eq - 1))
    IN  CASE n = <<>> \/ Head(n) = "#" -> [kind |-> "blank"]
          [] eq = 0                    -> [kind |-> "noEqual"]
          [] name = <<>>               -> [kind |-> "noName"]
          [] OTHER -> [kind |-> "pair", name |-> name,
                       value |-> TrimRight(TrimLeft(SubSeq(n, eq + 1, Len(n))))]

Entry(raw, name, value) == [raw |-> raw, name |-> name, value |-> value]

WarningOffByOne(kind) == <<kind, number + 1>>

Warning(kind) == <<kind, number>>

(***************************************************************************)
(* conf_file_parse_line(line): the <<rc, lines, warnings>> it can leave.   *)
(* strdup(raw) fails first; a pair's strdup of name and value or the       *)
(* array_append can fail next.  A line "=v" warns NAME_MISSING and then    *)
(* calls strdup(NULL): undefined behaviour, which crashes (glibc, musl) or *)
(* returns NULL and so fails with ENOMEM (MSVC's _strdup).                *)
(***************************************************************************)
ParseLine(line) ==
    LET s == Split(line)
        w == CASE s.kind = "noEqual" -> Append(warnings, Warning("EQUAL_SIGN_MISSING"))
               [] s.kind = "noName"  -> Append(warnings, Warning("NAME_MISSING"))
               [] OTHER              -> warnings
        Out(rc, ls, ws) == [rc |-> rc, lines |-> ls, warnings |-> ws]
        Failed == IF Failures THEN {Out("failed", lines, w)} ELSE {}
        Added(e) == {Out("ok", Append(lines, e), w)} \cup Failed
    IN  (IF Failures THEN {Out("failed", lines, warnings)} ELSE {})
        \cup CASE s.kind \in {"blank", "noEqual"} -> Added(Entry(line, NULL, NULL))
               [] s.kind = "pair" -> Added(Entry(NULL, s.name, s.value))
               [] s.kind = "noName" -> {Out("crashed", lines, w), Out("failed", lines, w)}

Chomp(line, c) == IF line # <<>> /\ Last(line) = CR /\ c = LF THEN Front(line) ELSE line

\* "length + 2 > allocated": no room for the byte and the terminator.
RoomOffByOne == Len(buffer) + 1 <= allocated

Room == Len(buffer) + 2 <= allocated

MayGrowAlways == TRUE

MayGrow == allocated < MaxAllocated

\* What robust_fread gives: the next byte, or '\0' at end of file.
Byte == IF pos <= Len(file) THEN file[pos] ELSE NUL

Init == /\ file \in Files
        /\ pos = 1
        /\ buffer = <<>>
        /\ allocated = InitialAllocated
        /\ skip = FALSE
        /\ number = 1
        /\ lines = <<>>
        /\ warnings = <<>>
        /\ pc = "create"

\* conf_file_create: array_create of the lines array.
Create == /\ pc = "create"
          /\ \/ pc' = "open"
             \/ Failures /\ pc' = "createFailed"
          /\ UNCHANGED <<file, pos, buffer, allocated, skip, number, lines, warnings>>

\* conf_file_read: malloc the buffer and fopen the file.
Open == /\ pc = "open"
        /\ \/ pc' = "read"
           \/ Failures /\ pc' = "failed"
        /\ UNCHANGED <<file, pos, buffer, allocated, skip, number, lines, warnings>>

ReadFails == /\ pc = "read"
             /\ Failures
             /\ pc' = "failed"
             /\ UNCHANGED <<file, pos, buffer, allocated, skip, number, lines, warnings>>

\* '\n' or end of file: parse the line unless it is skipped; at end of file
\* go on to remove the trailing empty lines, else start the next line.
EndOfLine ==
    /\ pc = "read"
    /\ Byte \in {NUL, LF}
    /\ pos' = pos + 1
    /\ \E o \in IF skip THEN {[rc |-> "ok", lines |-> lines, warnings |-> warnings]}
                ELSE ParseLine(Chomp(buffer, Byte)) :
          /\ lines' = o.lines
          /\ warnings' = o.warnings
          /\ \/ /\ o.rc = "ok" /\ Byte = NUL
                /\ pc' = "trim"
                /\ UNCHANGED <<buffer, skip, number>>
             \/ /\ o.rc = "ok" /\ Byte = LF
                /\ buffer' = <<>> /\ skip' = FALSE /\ number' = number + 1
                /\ UNCHANGED pc
             \/ /\ o.rc # "ok"
                /\ pc' = o.rc
                /\ UNCHANGED <<buffer, skip, number>>
    /\ UNCHANGED <<file, allocated>>

\* Any other byte of a line that is not skipped: store it, doubling the
\* buffer first if it is full and below the limit; at the limit, skip the line.
StoreByte == /\ pc = "read"
             /\ Byte \notin {NUL, LF}
             /\ ~skip
             /\ Room
             /\ buffer' = Append(buffer, Byte)
             /\ pos' = pos + 1
             /\ UNCHANGED <<file, allocated, skip, number, lines, warnings, pc>>

GrowBuffer == /\ pc = "read"
              /\ Byte \notin {NUL, LF}
              /\ ~skip
              /\ ~Room
              /\ MayGrow
              /\ \/ /\ allocated' = allocated * 2
                    /\ buffer' = Append(buffer, Byte)
                    /\ pos' = pos + 1
                    /\ UNCHANGED pc
                 \/ /\ Failures
                    /\ pc' = "failed"
                    /\ UNCHANGED <<allocated, buffer, pos>>
              /\ UNCHANGED <<file, skip, number, lines, warnings>>

LineTooLong == /\ pc = "read"
               /\ Byte \notin {NUL, LF}
               /\ ~skip
               /\ ~Room
               /\ ~MayGrow
               /\ skip' = TRUE
               /\ warnings' = Append(warnings, Warning("LINE_TOO_LONG"))
               /\ pos' = pos + 1
               /\ UNCHANGED <<file, buffer, allocated, number, lines, pc>>

SkipByte == /\ pc = "read"
            /\ Byte \notin {NUL, LF}
            /\ skip
            /\ pos' = pos + 1
            /\ UNCHANGED <<file, buffer, allocated, skip, number, lines, warnings, pc>>

\* Remove trailing lines whose raw text is "", then return 0.
RemoveTrailingEmpty ==
    /\ pc = "trim"
    /\ LET keep == SelectLastInSeq(lines, LAMBDA e : e.raw = NULL \/ e.raw # <<>>)
       IN  lines' = SubSeq(lines, 1, keep)
    /\ pc' = "done"
    /\ UNCHANGED <<file, pos, buffer, allocated, skip, number, warnings>>

\* conf_file_destroy, after conf_file_read returned.
Destroy == /\ pc \in {"done", "failed"}
           /\ lines' = <<>>
           /\ pc' = "destroyed"
           /\ UNCHANGED <<file, pos, buffer, allocated, skip, number, warnings>>

\* The read stops for good after conf_file_destroy, a crash or a failed create.
Next == Create \/ Open \/ ReadFails \/ EndOfLine \/ StoreByte \/ GrowBuffer
        \/ LineTooLong \/ SkipByte \/ RemoveTrailingEmpty \/ Destroy

Spec == Init /\ [][Next]_vars

(***************************************************************************)
(* conf_file_get_option_value: the value of the last line whose name      *)
(* equals name under strcasecmp, or NULL.                                  *)
(***************************************************************************)
Lower(ch) == CASE ch = "A" -> "a" [] ch = "B" -> "b" [] OTHER -> ch

CaseEqual(s, t) == Len(s) = Len(t) /\ \A k \in 1..Len(s) : Lower(s[k]) = Lower(t[k])

Named(e, name) == e.name # NULL /\ CaseEqual(e.name, name)

GetOptionValue(name) ==
    LET i == SelectLastInSeq(lines, LAMBDA e : Named(e, name))
    IN  IF i = 0 THEN NULL ELSE lines[i].value

(***************************************************************************)
(* Reference: the file's text up to its first NUL, split at every LF, each *)
(* line parsed on its own; a line of MaxAllocated bytes or more is dropped *)
(* with a warning; then the empty lines at the end are dropped.  A line    *)
(* without a name is meant to be kept like one without '=' (the warning    *)
(* path sets name and value to NULL).                                      *)
(***************************************************************************)
Text(f) == LET i == SelectInSeq(f, LAMBDA ch : ch = NUL)
           IN  IF i = 0 THEN f ELSE SubSeq(f, 1, i - 1)

RECURSIVE SplitLines(_)
SplitLines(t) == LET i == SelectInSeq(t, LAMBDA ch : ch = LF)
                 IN  IF i = 0 THEN <<t>>
                     ELSE <<SubSeq(t, 1, i - 1)>> \o SplitLines(SubSeq(t, i + 1, Len(t)))

RECURSIVE RefFrom(_, _, _)
RefFrom(ls, k, acc) ==
    IF ls = <<>> THEN acc
    ELSE LET crlf == Len(ls) > 1 /\ Head(ls) # <<>> /\ Last(Head(ls)) = CR
             l == IF crlf THEN Front(Head(ls)) ELSE Head(ls)
             s == Split(l)
             Warn(kind) == Append(acc.warnings, <<kind, k>>)
             next == CASE Len(Head(ls)) >= MaxAllocated ->
                            [acc EXCEPT !.warnings = Warn("LINE_TOO_LONG")]
                       [] s.kind = "pair" ->
                            [acc EXCEPT !.lines = Append(@, Entry(NULL, s.name, s.value))]
                       [] s.kind = "blank" ->
                            [acc EXCEPT !.lines = Append(@, Entry(l, NULL, NULL))]
                       [] s.kind = "noEqual" ->
                            [lines |-> Append(acc.lines, Entry(l, NULL, NULL)),
                             warnings |-> Warn("EQUAL_SIGN_MISSING")]
                       [] s.kind = "noName" ->
                            [lines |-> Append(acc.lines, Entry(l, NULL, NULL)),
                             warnings |-> Warn("NAME_MISSING")]
         IN  RefFrom(Tail(ls), k + 1, next)

Parsed(f) == RefFrom(SplitLines(Text(f)), 1, [lines |-> <<>>, warnings |-> <<>>])

RECURSIVE DropEmptyTail(_)
DropEmptyTail(ls) == IF ls # <<>> /\ Last(ls).raw # NULL /\ Last(ls).raw = <<>>
                     THEN DropEmptyTail(Front(ls)) ELSE ls

(***************************************************************************)
(* Properties                                                              *)
(***************************************************************************)

Bytes == UNION {{f[k] : k \in DOMAIN f} : f \in Files} \cup {NUL}
Line == Seq(Bytes)

TypeOK == /\ file \in Files
          /\ pos \in 1..Len(file) + 2
          /\ buffer \in Line
          /\ allocated \in InitialAllocated..MaxAllocated
          /\ skip \in BOOLEAN
          /\ number \in 1..Len(file) + 1
          /\ \A k \in 1..Len(lines) :
                \/ lines[k].raw \in Line /\ lines[k].name = NULL /\ lines[k].value = NULL
                \/ lines[k].raw = NULL /\ lines[k].name \in Line /\ lines[k].value \in Line
          /\ pc \in {"create", "open", "read", "trim", "done", "failed", "crashed",
                     "createFailed", "destroyed"}

\* buffer[length] = '\0' after every stored byte stays inside the buffer:
\* the "length + 2 > allocated" check leaves room for the terminator at
\* every size the doubling reaches.
NoBufferOverflow == Len(buffer) < allocated

FailedReadKeepsPrefix ==
    pc \in {"read", "failed", "crashed"} =>
        /\ IsPrefix(lines, Parsed(file).lines)
        /\ IsPrefix(warnings, Parsed(file).warnings)

\* With every allocation, open and read succeeding, conf_file_read returns
\* 0 on any file: a line without a name is only warned about (the
\* NAME_MISSING path sets name and value to NULL, like EQUAL_SIGN_MISSING).
ReadSucceeds == pc \notin {"failed", "crashed"}
====
