----------------------------- MODULE ProgramLog -----------------------------
(***************************************************************************)
(* The output of a supervised program: setLog of process.go puts a         *)
(* LogCaptureLogger (logger/log.go) over the FileLogger, and what it is    *)
(* given goes first down a pipe to a ProcCommEventCapture                  *)
(* (events/events.go), which cuts messages between a BEGIN and an END mark *)
(* out of the stream and emits them as events, and then to the file.       *)
(*                                                                         *)
(* The program's output is a sequence of tokens: a mark is two of them, so *)
(* that it may be cut by a read. A token stands for a byte of the log.     *)
(***************************************************************************)
EXTENDS FileLogger, FiniteSetsExt

CONSTANTS
  Outputs,    \* the outputs a program may write
  MaxChunk,   \* the most tokens in one Write
  ReadBuffer, \* the most tokens one Read of the pipe takes
  CaptureMax  \* captureMaxBytes

ASSUME ProgramLogAssumption ==
  /\ MaxChunk \in Nat \ {0} /\ ReadBuffer \in Nat \ {0}
  /\ CaptureMax \in Nat
  /\ \A o \in Outputs : o \in Seq({"B1", "B2", "E1", "E2", "d"})

BEGIN_STR == <<"B1", "B2">>
END_STR == <<"E1", "E2">>

VARIABLES
  output,    \* the output of this program
  written,   \* how much of it was handed to Write
  chunk,     \* the tokens of the Write in progress
  pipe,      \* those the capture has not read yet
  gpc,       \* the capture goroutine: "read" or "scan"
  buffer,    \* eventBuffer, as places in the output
  begin,     \* eventBeginPos
  emitted,   \* the messages emitted: first and last place of each
  discarded, \* a full buffer was thrown away (history)
  panicked   \* a slice out of range has ended edge-guard

captureVars == <<output, written, chunk, pipe, gpc, buffer, begin, emitted, discarded, panicked>>
vars == <<logVars, captureVars>>

TypeOK ==
  /\ LogTypeOK
  /\ output \in Outputs
  /\ written \in 0 .. Len(output)
  /\ chunk \in 0 .. MaxChunk
  /\ pipe \in Seq(1 .. Len(output)) /\ buffer \in Seq(1 .. Len(output))
  /\ gpc \in {"read", "scan"}
  /\ begin \in -1 .. Len(output)
  /\ emitted \in Seq((1 .. Len(output) + 1) \X (0 .. Len(output)))
  /\ discarded \in BOOLEAN /\ panicked \in BOOLEAN

Init ==
  /\ LogInit
  /\ output \in Outputs
  /\ written = 0 /\ chunk = 0
  /\ pipe = <<>> /\ buffer = <<>> /\ emitted = <<>>
  /\ gpc = "read" /\ begin = -1
  /\ discarded = FALSE /\ panicked = FALSE

\* LogCaptureLogger.Write: the pipe takes the chunk, and Write of the pipe
\* returns when the capture has read all of it. The supervisor's own log (the one
\* with a mutex) has no capture.
ProgramWrites ==
  /\ wpc = "idle" /\ chunk = 0
  /\ \E n \in 1 .. MaxChunk :
       /\ written + n <= Len(output)
       /\ chunk' = n
       /\ written' = written + n
       /\ pipe' = IF mutex THEN <<>> ELSE [k \in 1 .. n |-> written + k]
  /\ UNCHANGED <<logVars, output, gpc, buffer, begin, emitted, discarded, panicked>>

\* Then the underlying FileLogger's Write.
UnderlineWrite ==
  /\ chunk > 0 /\ pipe = <<>>
  /\ Write(chunk)
  /\ UNCHANGED captureVars

UnderlineAccount ==
  /\ Account(chunk)
  /\ chunk' = 0
  /\ UNCHANGED <<output, written, pipe, gpc, buffer, begin, emitted, discarded, panicked>>

\* The program ends and is started again: setLog makes a new FileLogger and a
\* new capture, and what the old capture still had in its buffer is lost.
Restart ==
  /\ NewFileLogger
  /\ pipe = <<>> /\ gpc = "read"
  /\ chunk' = 0
  /\ buffer' = <<>> /\ begin' = -1
  /\ discarded' = (discarded \/ buffer # <<>>)
  /\ UNCHANGED <<output, written, pipe, gpc, emitted, panicked>>

-----------------------------------------------------------------------------
\* strings.Index: the offset of the first occurrence, or -1.
StrIndex(s, mark) ==
  LET at == {i \in 0 .. Len(s) - Len(mark) :
               \A k \in 1 .. Len(mark) : output[s[i + k]] = mark[k]}
  IN  IF at = {} THEN -1 ELSE Min(at)

\* startCapture: a read is appended to the buffer.
CaptureRead ==
  /\ gpc = "read" /\ pipe # <<>>
  /\ LET n == IF Len(pipe) < ReadBuffer THEN Len(pipe) ELSE ReadBuffer
     IN  /\ buffer' = buffer \o SubSeq(pipe, 1, n)
         /\ pipe' = SubSeq(pipe, n + 1, Len(pipe))
  /\ gpc' = "scan"
  /\ UNCHANGED <<logVars, output, written, chunk, begin, emitted, discarded, panicked>>

\* findBeginStr: without a BEGIN only the end of the buffer, which may hold the
\* start of one, is kept.
findBeginStr == IF begin = -1 THEN StrIndex(buffer, BEGIN_STR) ELSE begin

\* Mutant: nothing is kept.
KeptNothing(b) == IF begin = -1 /\ b = -1 /\ Len(buffer) > Len(BEGIN_STR) THEN <<>> ELSE buffer

Kept(b) ==
  IF begin = -1 /\ b = -1 /\ Len(buffer) > Len(BEGIN_STR)
  THEN SubSeq(buffer, Len(buffer) - Len(BEGIN_STR) + 1, Len(buffer))
  ELSE buffer

\* captureEvent finds no END: findEndStr throws a buffer away that is too long.
NoMessage ==
  LET b == findBeginStr
      over == b # -1 /\ Len(buffer) > CaptureMax
  IN
  /\ gpc = "scan"
  /\ b = -1 \/ StrIndex(buffer, END_STR) = -1
  /\ begin' = IF over THEN -1 ELSE b
  /\ buffer' = IF over THEN <<>> ELSE Kept(b)
  /\ discarded' = (discarded \/ over)
  /\ gpc' = "read"
  /\ UNCHANGED <<logVars, output, written, chunk, pipe, emitted, panicked>>

\* captureEvent finds an END: the text between the marks is emitted. When the
\* END comes before the BEGIN the slice is out of range.
Message ==
  LET b == findBeginStr
      e == StrIndex(buffer, END_STR)
      from == b + Len(BEGIN_STR)
  IN
  /\ gpc = "scan"
  /\ b # -1 /\ e # -1
  /\ IF e < from
     THEN panicked' = TRUE /\ UNCHANGED <<buffer, begin, emitted>>
     ELSE /\ emitted' = Append(emitted, <<buffer[from] + 1, buffer[e + 1] - 1>>)
          /\ buffer' = SubSeq(buffer, e + Len(END_STR) + 1, Len(buffer))
          /\ begin' = -1
          /\ UNCHANGED panicked
  /\ UNCHANGED <<logVars, output, written, chunk, pipe, gpc, discarded>>

-----------------------------------------------------------------------------
\* The requests of supervisor.go: clearLog, clearProcessLogs and clearAllProcessLogs,
\* and tailProcessStdoutLog and tailProcessStderrLog.
LogRequests == Clear \/ ReadTailLog

LogStep == \/ Rotate \/ RotateClose \/ RotateCreate
           \/ ClearRemove \/ ClearFirst \/ ClearClose \/ ClearCreate

Next ==
  /\ ~panicked
  /\ \/ ProgramWrites \/ UnderlineWrite \/ UnderlineAccount \/ Restart
     \/ CaptureRead \/ NoMessage \/ Message
     \/ (LogRequests \/ LogStep) /\ UNCHANGED captureVars

Spec == Init /\ [][Next]_vars

-----------------------------------------------------------------------------
\* The places in the output where a mark begins.
MarkAt(mark) == {i \in 1 .. Len(output) - Len(mark) + 1 :
                   \A k \in 1 .. Len(mark) : output[i + k - 1] = mark[k]}

\* An END begins between places b and e.
EndBetween(b, e) == \E f \in MarkAt(END_STR) : b < f /\ f < e

\* Every END closes a BEGIN of its own.
WellFormed ==
  \A e \in MarkAt(END_STR) : \E b \in MarkAt(BEGIN_STR) : b < e /\ ~EndBetween(b, e)

\* A message: b is the first BEGIN since the END before, e the next END. A BEGIN
\* between them is part of the text.
IsMessage(b, e) ==
  /\ b < e /\ ~EndBetween(b, e)
  /\ \A c \in MarkAt(BEGIN_STR) : c < b => EndBetween(c, b)

\* The messages that are complete within the first n tokens.
Messages(n) ==
  {<<m[1] + 2, m[2] - 1>> :
     m \in {x \in MarkAt(BEGIN_STR) \X MarkAt(END_STR) : IsMessage(x[1], x[2]) /\ x[2] + 1 <= n}}

\* As long as no message outgrows the buffer, the capture emits each message of a
\* well-formed output once, whole and in order, however the output is cut into
\* writes and reads, and it does not panic (captureEvent, findBeginStr, findEndStr).
CaptureExact ==
  ~mutex /\ WellFormed /\ ~discarded =>
    /\ ~panicked
    /\ \A i, j \in DOMAIN emitted : i < j => emitted[i][2] < emitted[j][1]
    /\ gpc = "read" =>
         {emitted[i] : i \in DOMAIN emitted} = Messages(written - Len(pipe))

=============================================================================
