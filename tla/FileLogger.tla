----------------------------- MODULE FileLogger -----------------------------
(***************************************************************************)
(* A rotating log file: FileLogger of subprocess/logger/log.go, and the    *)
(* requests of subprocess/supervisor.go that read and clear it.            *)
(*                                                                         *)
(* The log of a program is written by the goroutine that copies its output *)
(* and is read and cleared by request handlers. Only the supervisor's own  *)
(* log has a mutex; a program's log has a NullLocker, which locks nothing. *)
(*                                                                         *)
(* What is written is numbered: byte n is the n-th ever written. A file is *)
(* the sequence of the bytes it holds. Reads change nothing and are atomic.*)
(***************************************************************************)
EXTENDS Integers, Sequences

CONSTANTS
  Backups,    \* the number of files
  MaxSize,    \* the size at which the next file is taken
  TailLength, \* the lengths a tail request asks for
  MaxClears,  \* the number of clear requests
  nil

ASSUME FileLoggerAssumption ==
  /\ Backups \in Nat \ {0}
  /\ MaxSize \in Nat \ {0}
  /\ TailLength \subseteq Nat
  /\ MaxClears \in Nat
  /\ nil \notin 0 .. Backups - 1 /\ nil \notin {"writer", "clearer"} /\ nil \notin Seq(Nat)

Index == 0 .. Backups - 1
Closed == -1
Gone == -2

VARIABLES
  mutex,   \* the locker is a mutex, not a NullLocker
  locker,  \* who holds it: "writer", "clearer" or nil
  disk,    \* disk[i]: the bytes of file name.i, or nil when it is missing
  recent,  \* the existing files, the last modified one last
  cur,     \* curRotate
  size,    \* fileSize
  file,    \* the file l.file writes to, Gone once that is removed, or Closed
  wpc,     \* the writer's place in Write
  cpc, ci, \* the clearer's place in ClearAllLogFile, and its loop variable
  tail,    \* the offset the client of ReadTailLog asks for next
  logged,  \* the bytes for which Write was called (history)
  got,     \* the newest byte the tail client was given (history)
  wiped,   \* the bytes logged when the last clear ended (history)
  clears   \* the clears that have begun

logVars == <<mutex, locker, disk, recent, cur, size, file, wpc, cpc, ci, tail,
             logged, got, wiped, clears>>

LogTypeOK ==
  /\ mutex \in BOOLEAN /\ clears \in 0 .. MaxClears
  /\ locker \in {nil, "writer", "clearer"}
  /\ disk \in [Index -> Seq(Nat) \cup {nil}]
  /\ recent \in Seq(Index)
  /\ cur \in Index /\ ci \in 0 .. Backups
  /\ size \in Nat /\ tail \in Nat /\ logged \in Nat /\ got \in Nat /\ wiped \in Nat
  /\ file \in Index \cup {Closed, Gone}
  /\ wpc \in {"idle", "account", "next", "close", "create", "broken"}
  /\ cpc \in {"idle", "remove", "close", "create"}

\* recent without file i, which it names at most once.
Without(i) ==
  IF \E k \in DOMAIN recent : recent[k] = i
  THEN LET k == CHOOSE k \in DOMAIN recent : recent[k] = i
       IN  SubSeq(recent, 1, k - 1) \o SubSeq(recent, k + 1, Len(recent))
  ELSE recent
Touched(i) == Append(Without(i), i)

\* nextLogFile: the file after i.
After(i) == IF i + 1 >= Backups THEN 0 ELSE i + 1

\* openFile(true) closes the old file and then creates or truncates the current one.
CloseFile == file' = Closed /\ UNCHANGED <<disk, recent>>

CreateFile(i) ==
  /\ disk' = [disk EXCEPT ![i] = <<>>]
  /\ recent' = Touched(i)
  /\ file' = i

\* A NullLocker lets everyone in.
Lock(who) == IF mutex THEN locker = nil /\ locker' = who ELSE UNCHANGED locker
Unlock == locker' = nil

-----------------------------------------------------------------------------
\* A new FileLogger goes on with file latest, unless that is full.
ContinueWith(latest) ==
  LET next == After(latest) IN
  /\ size' = Len(disk[latest])
  /\ IF Len(disk[latest]) >= MaxSize
     THEN cur' = next /\ CreateFile(next)
     ELSE cur' = latest /\ file' = latest /\ UNCHANGED <<disk, recent>>

\* Mutant: the file modified first.
updateOldestLog ==
  IF recent = <<>>
  THEN CreateFile(0) /\ cur' = 0 /\ size' = 0
  ELSE ContinueWith(recent[1])

\* updateLatestLog goes on with the file modified last.
updateLatestLog ==
  IF recent = <<>>
  THEN CreateFile(0) /\ cur' = 0 /\ size' = 0
  ELSE ContinueWith(recent[Len(recent)])

LogInit ==
  /\ mutex \in BOOLEAN
  /\ locker = nil
  /\ disk = [i \in Index |-> IF i = 0 THEN <<>> ELSE nil]
  /\ recent = <<0>>
  /\ cur = 0 /\ size = 0 /\ file = 0
  /\ wpc = "idle" /\ cpc = "idle" /\ ci = 0
  /\ tail = 0 /\ logged = 0 /\ got = 0 /\ wiped = 0
  /\ clears = 0

\* The program starts again: setLog makes a new FileLogger over the same files.
\* Abstraction: no request holds the old one.
NewFileLogger ==
  /\ wpc \in {"idle", "broken"} /\ cpc = "idle"
  /\ updateLatestLog
  /\ wpc' = "idle"
  /\ UNCHANGED <<mutex, locker, cpc, ci, tail, logged, got, wiped, clears>>

-----------------------------------------------------------------------------
\* Write of n bytes. An error ends the goroutine that copies the program's output.
Write(n) ==
  /\ wpc = "idle"
  /\ Lock("writer")
  /\ IF file = Closed
     THEN wpc' = "broken" /\ UNCHANGED <<disk, recent, logged>>
     ELSE /\ wpc' = "account"
          /\ logged' = logged + n
          /\ IF file = Gone
             THEN UNCHANGED <<disk, recent>>
             ELSE /\ disk' = [disk EXCEPT ![file] = @ \o [k \in 1 .. n |-> logged + k]]
                  /\ recent' = Touched(file)
  /\ UNCHANGED <<mutex, cur, size, file, cpc, ci, tail, got, wiped, clears>>

\* The size is counted, and looked up once it seems to reach the limit.
Account(n) ==
  LET full == size + n >= MaxSize
      stat == IF full /\ disk[cur] # nil THEN Len(disk[cur]) ELSE size + n
  IN
  /\ wpc = "account"
  /\ size' = stat
  /\ wpc' = CASE full /\ disk[cur] = nil -> "broken"
              [] stat >= MaxSize /\ disk[cur] # nil -> "next"
              [] OTHER -> "idle"
  /\ IF wpc' = "next" THEN UNCHANGED locker ELSE Unlock
  /\ UNCHANGED <<mutex, disk, recent, cur, file, cpc, ci, tail, logged, got, wiped, clears>>

Rotate ==
  /\ wpc = "next"
  /\ cur' = After(cur)
  /\ wpc' = "close"
  /\ UNCHANGED <<mutex, locker, disk, recent, size, file, cpc, ci, tail, logged, got, wiped,
                 clears>>

RotateClose ==
  /\ wpc = "close"
  /\ CloseFile
  /\ wpc' = "create"
  /\ UNCHANGED <<mutex, locker, cur, size, cpc, ci, tail, logged, got, wiped, clears>>

RotateCreate ==
  /\ wpc = "create"
  /\ CreateFile(cur)
  /\ wpc' = "idle" /\ Unlock
  /\ UNCHANGED <<mutex, cur, size, cpc, ci, tail, logged, got, wiped, clears>>

-----------------------------------------------------------------------------
\* ClearAllLogFile, for clearLog, clearProcessLogs and clearAllProcessLogs.
Clear ==
  /\ cpc = "idle" /\ clears < MaxClears
  /\ Lock("clearer")
  /\ cpc' = "remove" /\ ci' = 0 /\ clears' = clears + 1
  /\ UNCHANGED <<mutex, disk, recent, cur, size, file, wpc, tail, logged, got, wiped>>

\* The files up to the current one are removed, the first error ends the clear.
ClearRemove ==
  /\ cpc = "remove"
  /\ ci < Backups /\ ci <= cur
  /\ IF disk[ci] = nil
     THEN cpc' = "idle" /\ Unlock /\ UNCHANGED <<disk, recent, file, ci>>
     ELSE /\ disk' = [disk EXCEPT ![ci] = nil]
          /\ recent' = Without(ci)
          /\ file' = IF file = ci THEN Gone ELSE file
          /\ ci' = ci + 1
          /\ UNCHANGED <<cpc, locker>>
  /\ UNCHANGED <<mutex, cur, size, wpc, tail, logged, got, wiped, clears>>

ClearFirst ==
  /\ cpc = "remove"
  /\ ~(ci < Backups /\ ci <= cur)
  /\ cur' = 0
  /\ cpc' = "close"
  /\ UNCHANGED <<mutex, locker, disk, recent, size, file, wpc, ci, tail, logged, got, wiped,
                 clears>>

ClearClose ==
  /\ cpc = "close"
  /\ CloseFile
  /\ cpc' = "create"
  /\ UNCHANGED <<mutex, locker, cur, size, wpc, ci, tail, logged, got, wiped, clears>>

ClearCreate ==
  /\ cpc = "create"
  /\ CreateFile(cur)
  /\ cpc' = "idle" /\ Unlock /\ ci' = 0
  /\ wiped' = logged
  /\ UNCHANGED <<mutex, cur, size, wpc, tail, logged, got, clears>>

-----------------------------------------------------------------------------
\* Mutant: the length is not cut at the end of the file.
ReadLogBeyond(n, offset, length) ==
  CASE (offset < 0 /\ length # 0) \/ (offset >= 0 /\ length < 0) -> "bad"
    [] offset < 0 /\ length = 0 ->
         LET from == IF n + offset < 0 THEN 0 ELSE n + offset IN <<from, n - from>>
    [] offset >= 0 /\ length = 0 -> IF offset > n THEN <<0, 0>> ELSE <<offset, n - offset>>
    [] OTHER -> IF offset >= n THEN <<0, 0>> ELSE <<offset, length>>

\* ReadLog of a file of n bytes: the first byte and the number of bytes, or "bad".
ReadLog(n, offset, length) ==
  CASE (offset < 0 /\ length # 0) \/ (offset >= 0 /\ length < 0) -> "bad"
    [] offset < 0 /\ length = 0 ->
         LET from == IF n + offset < 0 THEN 0 ELSE n + offset IN <<from, n - from>>
    [] offset >= 0 /\ length = 0 -> IF offset > n THEN <<0, 0>> ELSE <<offset, n - offset>>
    [] OTHER -> IF offset >= n THEN <<0, 0>>
                ELSE <<offset, IF offset + length > n THEN n - offset ELSE length>>

\* Mutant: the offset returned is that of the last byte read.
TailOverlaps ==
  /\ ~mutex
  /\ disk[cur] # nil
  /\ \E length \in TailLength :
       LET n == Len(disk[cur])
           to == IF tail + length > n THEN n ELSE tail + length
       IN  /\ tail' = IF tail + 1 < to THEN to - 1 ELSE to
           /\ got' = IF tail < to /\ disk[cur][to] > got THEN disk[cur][to] ELSE got
  /\ UNCHANGED <<mutex, locker, disk, recent, cur, size, file, wpc, cpc, ci, logged, wiped,
                 clears>>

\* ReadTailLog by a client that follows the log: it asks from the offset it was
\* given, and an offset beyond the file is answered with the file's end. Only a
\* program's log can be followed, and it has a NullLocker. (An error, also of a read
\* that is overtaken by a truncation, leaves the client where it was.)
ReadTailLog ==
  /\ ~mutex
  /\ disk[cur] # nil
  /\ \E length \in TailLength :
       LET n == Len(disk[cur])
           to == IF tail + length > n THEN n ELSE tail + length
       IN  /\ tail' = to
           /\ got' = IF tail < to /\ disk[cur][to] > got THEN disk[cur][to] ELSE got
  /\ UNCHANGED <<mutex, locker, disk, recent, cur, size, file, wpc, cpc, ci, logged, wiped,
                 clears>>

-----------------------------------------------------------------------------
\* The bytes on disk that were written after the last clear.
Retained ==
  {b \in UNION {{disk[i][k] : k \in DOMAIN disk[i]} : i \in {j \in Index : disk[j] # nil}} :
     b > wiped}

\* Rotation and restarts drop the oldest bytes only: what is kept of the bytes
\* written since the last clear runs without a gap up to the last one. With a
\* NullLocker this is so as long as nobody clears the log; with the mutex it is
\* so always, except while a clear is removing files.
NoGap ==
  (IF mutex THEN cpc = "idle" ELSE clears = 0) =>
    \A b \in Retained : \A k \in b .. logged : k \in Retained

\* ReadLog gives the part of the current file that was asked for: from an offset,
\* or the last bytes, and never beyond either end.
ReadLogExact ==
  disk[cur] # nil =>
    LET n == Len(disk[cur])
    IN  \A offset \in -(n + 1) .. n + 1, length \in -1 .. n + 1 :
          ReadLog(n, offset, length) # "bad" =>
            LET r == ReadLog(n, offset, length)
                want == {k \in 1 .. n : IF offset < 0 THEN k > n + offset
                                        ELSE k > offset /\ (length > 0 => k <= offset + length)}
            IN  r[1] + 1 .. r[1] + r[2] = want

\* A client that follows a program's log is never given a byte it was given before,
\* or an older one, while the log is written, rotated and reopened by new launches,
\* as long as nobody clears it: an offset into one file is never applied to an older
\* file. The one exception is a request answered between nextLogFile and openFile of a
\* rotation, which the NullLocker lets in: it reads the oldest file before that is
\* truncated (ReadTailLog, Write).
TailAdvances ==
  [][~mutex /\ clears = 0 /\ wpc \notin {"close", "create"} /\ tail' > tail =>
       disk[cur][tail + 1] > got]_logVars

=============================================================================
