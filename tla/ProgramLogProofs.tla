-------------------------- MODULE ProgramLogProofs --------------------------
(***************************************************************************)
(* Theorems about the log files of a program: for every number and size of *)
(* the files, every number of clears, and every output.                    *)
(***************************************************************************)
EXTENDS ProgramLog, SequenceTheorems, WellFoundedInduction, TLAPS

-----------------------------------------------------------------------------
(* Type correctness *)

\* A list of files that exist, each once.
Listed(list, d) ==
  /\ list \in Seq(Index)
  /\ \A k \in DOMAIN list : d[list[k]] # nil
  /\ \A j, k \in DOMAIN list : list[j] = list[k] => j = k

\* The files on disk; the one l.file writes to exists.
DiskOK ==
  /\ disk \in [Index -> Seq(Nat) \cup {nil}]
  /\ Listed(recent, disk)
  /\ file \in Index \cup {Closed, Gone} /\ (file \in Index => disk[file] # nil)

FilesInv == LogTypeOK /\ DiskOK /\ chunk \in Nat

\* Without(i) keeps the other files, each once.
LEMMA WithoutList ==
  ASSUME NEW i \in Index, Listed(recent, disk)
  PROVE  Listed(Without(i), disk) /\ \A k \in DOMAIN Without(i) : Without(i)[k] # i
<1>1. CASE ~ \E k \in DOMAIN recent : recent[k] = i
  BY <1>1 DEF Without
<1>2. CASE \E k \in DOMAIN recent : recent[k] = i
  <2> DEFINE at == CHOOSE k \in DOMAIN recent : recent[k] = i
             s == SubSeq(recent, 1, at - 1)
             t == SubSeq(recent, at + 1, Len(recent))
             n == Len(recent)
             w == s \o t
  <2>1. at \in DOMAIN recent /\ recent[at] = i
    BY <1>2
  <2>2. recent \in Seq(Index) /\ n \in Nat /\ DOMAIN recent = 1 .. n /\ at \in 1 .. n
    BY <2>1 DEF Listed
  <2>3. Without(i) = w
    BY <1>2 DEF Without
  <2> HIDE DEF at
  <2>4. /\ s \in Seq(Index) /\ Len(s) = at - 1 /\ \A k \in 1 .. at - 1 : s[k] = recent[k]
    <3>1. 1 \in 1 .. n + 1 /\ at - 1 \in 0 .. n /\ \A k \in 1 .. at - 1 : 1 + k - 1 = k
      BY <2>2
    <3> QED BY <2>2, <3>1, SubSeqProperties
  <2>5. /\ t \in Seq(Index) /\ Len(t) = n - at /\ \A k \in 1 .. n - at : t[k] = recent[at + k]
    BY <2>2, SubSeqProperties
  <2> HIDE DEF s, t, n
  <2>6. /\ w \in Seq(Index) /\ DOMAIN w = 1 .. n - 1
        /\ \A k \in 1 .. n - 1 : w[k] = IF k < at THEN recent[k] ELSE recent[k + 1]
    <3>1. w \in Seq(Index) /\ Len(w) = (at - 1) + (n - at)
      <4>1. w \in Seq(Index) /\ Len(w) = Len(s) + Len(t)
        BY <2>4, <2>5, ConcatProperties
      <4> QED BY <2>4, <2>5, <4>1
    <3>2. \A k \in 1 .. (at - 1) + (n - at) : w[k] = IF k <= at - 1 THEN s[k] ELSE t[k - (at - 1)]
      BY <2>4, <2>5, ConcatProperties
    <3>3. DOMAIN w = 1 .. n - 1 /\ (at - 1) + (n - at) = n - 1
      BY <2>2, <3>1
    <3>4. ASSUME NEW k \in 1 .. n - 1 PROVE w[k] = IF k < at THEN recent[k] ELSE recent[k + 1]
      <4>1. CASE k < at
        BY <2>2, <2>4, <3>2, <3>3, <4>1
      <4>2. CASE ~(k < at)
        <5>1. k - (at - 1) \in 1 .. n - at /\ at + (k - (at - 1)) = k + 1
          BY <2>2, <4>2
        <5>2. w[k] = t[k - (at - 1)]
          BY <2>2, <3>2, <3>3, <4>2
        <5> QED BY <2>5, <4>2, <5>1, <5>2
      <4> QED BY <4>1, <4>2
    <3> QED BY <3>1, <3>3, <3>4
  <2> HIDE DEF w
  <2>7. /\ \A k \in DOMAIN recent : disk[recent[k]] # nil
        /\ \A j, k \in DOMAIN recent : recent[j] = recent[k] => j = k
    BY DEF Listed
  <2>8. \A k \in 1 .. n - 1 : disk[w[k]] # nil /\ w[k] # i
    <3> SUFFICES ASSUME NEW k \in 1 .. n - 1 PROVE disk[w[k]] # nil /\ w[k] # i
      OBVIOUS
    <3>1. k \in DOMAIN recent /\ k + 1 \in DOMAIN recent
      BY <2>2
    <3>2. CASE k < at
      BY <2>1, <2>2, <2>6, <2>7, <3>1, <3>2
    <3>3. CASE ~(k < at)
      <4>1. k + 1 # at
        BY <2>2, <3>3
      <4> QED BY <2>1, <2>6, <2>7, <3>1, <3>3, <4>1
    <3> QED BY <3>2, <3>3
  <2>9. \A j, k \in 1 .. n - 1 : w[j] = w[k] => j = k
    <3> SUFFICES ASSUME NEW j \in 1 .. n - 1, NEW k \in 1 .. n - 1, w[j] = w[k] PROVE j = k
      OBVIOUS
    <3> DEFINE p(x) == IF x < at THEN x ELSE x + 1
    <3>1. p(j) \in DOMAIN recent /\ p(k) \in DOMAIN recent /\ (p(j) = p(k) => j = k)
      BY <2>2
    <3>2. w[j] = recent[p(j)] /\ w[k] = recent[p(k)]
      BY <2>6
    <3> HIDE DEF p
    <3> QED BY <2>7, <3>1, <3>2
  <2> QED BY <2>3, <2>6, <2>8, <2>9 DEF Listed
<1> QED BY <1>1, <1>2

\* Touched(i) puts file i last.
LEMMA TouchedList ==
  ASSUME NEW i \in Index, Listed(recent, disk), NEW d, d[i] # nil,
         \A j \in Index : j # i => d[j] = disk[j]
  PROVE  /\ Listed(Touched(i), d)
         /\ Touched(i) # <<>> /\ Touched(i)[Len(Touched(i))] = i
<1> DEFINE w == Without(i)
           t == Touched(i)
           n == Len(w)
<1>1. /\ w \in Seq(Index) /\ \A k \in DOMAIN w : disk[w[k]] # nil /\ w[k] # i
      /\ \A j, k \in DOMAIN w : w[j] = w[k] => j = k
  BY WithoutList DEF Listed
<1>2. t = Append(w, i)
  BY DEF Touched
<1> HIDE DEF w, t
<1>3. /\ t \in Seq(Index) /\ t # <<>> /\ Len(t) = n + 1 /\ n \in Nat
      /\ \A k \in 1 .. n : t[k] = w[k]
      /\ t[n + 1] = i /\ DOMAIN t = 1 .. n + 1 /\ DOMAIN w = 1 .. n
  BY <1>1, <1>2, AppendProperties, LenProperties
<1> HIDE DEF n
<1>4. \A k \in 1 .. n + 1 : d[t[k]] # nil
  <2> SUFFICES ASSUME NEW k \in 1 .. n + 1 PROVE d[t[k]] # nil
    OBVIOUS
  <2>1. CASE k = n + 1
    BY <1>3, <2>1
  <2>2. CASE k \in 1 .. n
    <3>1. w[k] \in Index
      BY <1>1, <1>3, <2>2, ElementOfSeq
    <3> QED BY <1>1, <1>3, <2>2, <3>1
  <2> QED BY <1>3, <2>1, <2>2
<1>5. \A j, k \in 1 .. n + 1 : t[j] = t[k] => j = k
  <2> SUFFICES ASSUME NEW j \in 1 .. n + 1, NEW k \in 1 .. n + 1, t[j] = t[k] PROVE j = k
    OBVIOUS
  <2>1. CASE j \in 1 .. n /\ k \in 1 .. n
    BY <1>1, <1>3, <2>1
  <2>2. CASE j = n + 1 \/ k = n + 1
    BY <1>1, <1>3, <2>2
  <2> QED BY <1>3, <2>1, <2>2
<1> QED BY <1>3, <1>4, <1>5 DEF Listed, t

\* The bytes a Write adds to a file.
LEMMA Added ==
  ASSUME NEW s \in Seq(Nat), NEW n \in Nat, NEW m \in Nat
  PROVE  LET t == s \o [k \in 1 .. n |-> m + k]
         IN  /\ t \in Seq(Nat) /\ Len(s) \in Nat
             /\ DOMAIN s = 1 .. Len(s) /\ DOMAIN t = 1 .. Len(s) + n
             /\ \A k \in 1 .. Len(s) : t[k] = s[k]
             /\ \A k \in 1 .. n : t[Len(s) + k] = m + k
<1> DEFINE r == [k \in 1 .. n |-> m + k]
           t == s \o r
<1>1. r \in Seq(Nat) /\ Len(r) = n /\ \A k \in 1 .. n : r[k] = m + k
  <2>1. r \in [1 .. n -> Nat]
    OBVIOUS
  <2>2. r \in Seq(Nat)
    BY <2>1, SeqDef
  <2>3. DOMAIN r = 1 .. n /\ \A k \in 1 .. n : r[k] = m + k
    OBVIOUS
  <2> HIDE DEF r
  <2>4. Len(r) = n
    BY <2>2, <2>3, LenProperties
  <2> QED BY <2>2, <2>3, <2>4
<1> HIDE DEF r
<1>2. /\ t \in Seq(Nat) /\ Len(t) = Len(s) + n /\ Len(s) \in Nat
      /\ \A i \in 1 .. Len(s) + n : t[i] = IF i <= Len(s) THEN s[i] ELSE r[i - Len(s)]
  BY <1>1, ConcatProperties, LenProperties
<1> HIDE DEF t
<1>3. DOMAIN t = 1 .. Len(s) + n /\ DOMAIN s = 1 .. Len(s)
  BY <1>2, LenProperties
<1>4. \A k \in 1 .. Len(s) : t[k] = s[k]
  BY <1>2
<1>5. ASSUME NEW k \in 1 .. n PROVE t[Len(s) + k] = m + k
  <2>1. Len(s) + k \in 1 .. Len(s) + n /\ ~(Len(s) + k <= Len(s)) /\ (Len(s) + k) - Len(s) = k
    BY <1>2
  <2> QED BY <1>1, <1>2, <2>1
<1> QED BY <1>2, <1>3, <1>4, <1>5 DEF t, r

\* What the model's numbers are.
LEMMA Numbers ==
  /\ Backups \in Nat \ {0} /\ Index = 0 .. Backups - 1 /\ 0 \in Index
  /\ Closed \notin Index /\ Gone \notin Index /\ Closed # Gone
  /\ nil \notin Seq(Nat) /\ <<>> # nil /\ <<>> \in Seq(Nat)
  /\ \A i \in Index : After(i) \in Index /\ After(i) = IF i = Backups - 1 THEN 0 ELSE i + 1
<1>1. Backups \in Nat \ {0} /\ nil \notin Seq(Nat)
  BY FileLoggerAssumption
<1>2. <<>> \in Seq(Nat)
  BY EmptySeq
<1>3. \A i \in 0 .. Backups - 1 : After(i) \in 0 .. Backups - 1 /\ After(i) = IF i = Backups - 1 THEN 0 ELSE i + 1
  BY <1>1 DEF After
<1>4. -1 \notin 0 .. Backups - 1 /\ -2 \notin 0 .. Backups - 1 /\ -1 # -2 /\ 0 \in 0 .. Backups - 1
  BY <1>1
<1>5. <<>> # nil
  BY <1>1, <1>2, Zenon
<1> QED BY <1>1, <1>2, <1>3, <1>4, <1>5, Zenon DEF Index, Closed, Gone

\* A new file is empty, and the last one modified.
LEMMA CreateEffect ==
  ASSUME FilesInv, NEW i \in Index, CreateFile(i)
  PROVE  /\ DiskOK' /\ disk'[i] = <<>> /\ \A j \in Index : j # i => disk'[j] = disk[j]
         /\ recent' # <<>> /\ recent'[Len(recent')] = i /\ file' = i
<1>1. disk \in [Index -> Seq(Nat) \cup {nil}] /\ Listed(recent, disk)
  BY DEF FilesInv, DiskOK
<1>2. disk' = [disk EXCEPT ![i] = <<>>] /\ recent' = Touched(i) /\ file' = i
  BY DEF CreateFile
<1>3. /\ disk' \in [Index -> Seq(Nat) \cup {nil}] /\ disk'[i] = <<>>
      /\ \A j \in Index : j # i => disk'[j] = disk[j]
  BY <1>1, <1>2, EmptySeq
<1>4. disk'[i] # nil
  BY <1>3, Numbers
<1>5. Listed(recent', disk') /\ recent' # <<>> /\ recent'[Len(recent')] = i
  BY <1>1, <1>2, <1>3, <1>4, TouchedList
<1> QED BY <1>2, <1>3, <1>4, <1>5 DEF DiskOK

\* A Write to a file that exists adds the next bytes to it; one to a removed file is lost.
LEMMA WriteEffect ==
  ASSUME FilesInv, NEW n \in Nat, Write(n)
  PROVE  /\ DiskOK' /\ UNCHANGED <<cur, file>>
         /\ file \notin Index => UNCHANGED <<disk, recent>>
         /\ file \in Index =>
              /\ logged' = logged + n /\ wpc' = "account"
              /\ \A j \in Index : j # file => disk'[j] = disk[j]
              /\ recent' # <<>> /\ recent'[Len(recent')] = file /\ disk'[file] # nil
              /\ Len(disk[file]) \in Nat
              /\ DOMAIN disk[file] = 1 .. Len(disk[file])
              /\ DOMAIN disk'[file] = 1 .. Len(disk[file]) + n
              /\ \A k \in 1 .. Len(disk[file]) : disk'[file][k] = disk[file][k]
              /\ \A k \in 1 .. n : disk'[file][Len(disk[file]) + k] = logged + k
<1>1. /\ disk \in [Index -> Seq(Nat) \cup {nil}] /\ Listed(recent, disk)
      /\ file \in Index \cup {Closed, Gone} /\ (file \in Index => disk[file] # nil) /\ logged \in Nat
  BY DEF FilesInv, DiskOK, LogTypeOK
<1>2. UNCHANGED <<cur, file>>
  BY DEF Write
<1>3. CASE file \in Index
  <2> DEFINE t == disk[file] \o [k \in 1 .. n |-> logged + k]
  <2>1. file # Closed /\ file # Gone
    BY <1>3, Numbers
  <2>2. disk' = [disk EXCEPT ![file] = t] /\ recent' = Touched(file) /\ logged' = logged + n /\ wpc' = "account"
    BY <2>1 DEF Write
  <2>3. disk[file] \in Seq(Nat)
    BY <1>1, <1>3
  <2>4. /\ t \in Seq(Nat) /\ Len(disk[file]) \in Nat
        /\ DOMAIN disk[file] = 1 .. Len(disk[file]) /\ DOMAIN t = 1 .. Len(disk[file]) + n
        /\ \A k \in 1 .. Len(disk[file]) : t[k] = disk[file][k]
        /\ \A k \in 1 .. n : t[Len(disk[file]) + k] = logged + k
    BY <1>1, <2>3, Added
  <2> HIDE DEF t
  <2>5. /\ disk' \in [Index -> Seq(Nat) \cup {nil}] /\ disk'[file] = t
        /\ \A j \in Index : j # file => disk'[j] = disk[j]
    BY <1>1, <1>3, <2>2, <2>4
  <2>6. disk'[file] # nil
    BY <2>4, <2>5, Numbers
  <2>7. Listed(recent', disk') /\ recent' # <<>> /\ recent'[Len(recent')] = file
    BY <1>1, <1>3, <2>2, <2>5, <2>6, TouchedList
  <2>8. DiskOK'
    BY <1>2, <1>3, <2>5, <2>6, <2>7 DEF DiskOK
  <2> QED BY <1>2, <1>3, <2>2, <2>4, <2>5, <2>6, <2>7, <2>8
<1>4. CASE file \notin Index
  <2>1. UNCHANGED <<disk, recent>>
    BY <1>1, <1>4 DEF Write
  <2> QED BY <1>1, <1>2, <1>4, <2>1 DEF DiskOK
<1> QED BY <1>3, <1>4

\* A new FileLogger goes on with the file modified last, or with the one after it.
LEMMA ContinueEffect ==
  ASSUME FilesInv, NewFileLogger, recent # <<>>
  PROVE  LET latest == recent[Len(recent)]
         IN  /\ latest \in Index /\ disk[latest] \in Seq(Nat) /\ size' = Len(disk[latest])
             /\ \/ cur' = After(latest) /\ CreateFile(After(latest))
                \/ cur' = latest /\ file' = latest /\ UNCHANGED <<disk, recent>>
<1> DEFINE latest == recent[Len(recent)]
<1>1. recent \in Seq(Index) /\ \A k \in DOMAIN recent : disk[recent[k]] # nil
  BY DEF FilesInv, DiskOK, Listed
<1>2. Len(recent) \in 1 .. Len(recent) /\ DOMAIN recent = 1 .. Len(recent)
  BY <1>1, EmptySeq, LenProperties
<1>3. latest \in Index /\ disk[latest] # nil
  BY <1>1, <1>2, ElementOfSeq
<1>4. disk[latest] \in Seq(Nat)
  BY <1>3 DEF FilesInv, DiskOK
<1> QED BY <1>3, <1>4 DEF NewFileLogger, updateLatestLog, ContinueWith

\* A clear takes one file away, or ends.
LEMMA RemoveEffect ==
  ASSUME FilesInv, ClearRemove
  PROVE  /\ DiskOK' /\ ci \in Index /\ ci' \in 0 .. Backups
         /\ disk[ci] # nil =>
              /\ disk'[ci] = nil /\ \A j \in Index : j # ci => disk'[j] = disk[j]
              /\ ci' = ci + 1 /\ UNCHANGED <<cpc, locker>>
         /\ disk[ci] = nil => UNCHANGED <<disk, recent, file, ci>> /\ cpc' = "idle"
<1>1. /\ disk \in [Index -> Seq(Nat) \cup {nil}] /\ Listed(recent, disk)
      /\ file \in Index \cup {Closed, Gone} /\ (file \in Index => disk[file] # nil)
      /\ ci \in 0 .. Backups
  BY DEF FilesInv, DiskOK, LogTypeOK
<1>2. ci \in Index /\ ci + 1 \in 0 .. Backups
  BY <1>1, Numbers DEF ClearRemove
<1>3. CASE disk[ci] = nil
  BY <1>1, <1>2, <1>3 DEF ClearRemove, DiskOK
<1>4. CASE disk[ci] # nil
  <2>1. /\ disk' = [disk EXCEPT ![ci] = nil] /\ recent' = Without(ci) /\ ci' = ci + 1
        /\ file' = (IF file = ci THEN Gone ELSE file) /\ UNCHANGED <<cpc, locker>>
    BY <1>4 DEF ClearRemove
  <2>2. /\ disk' \in [Index -> Seq(Nat) \cup {nil}] /\ disk'[ci] = nil
        /\ \A j \in Index : j # ci => disk'[j] = disk[j]
    BY <1>1, <1>2, <2>1
  <2>3. Listed(recent', disk) /\ \A k \in DOMAIN recent' : recent'[k] # ci
    BY <1>1, <1>2, <2>1, WithoutList
  <2>4. \A k \in DOMAIN recent' : recent'[k] \in Index
    BY <2>3, ElementOfSeq, LenProperties DEF Listed
  <2>5. Listed(recent', disk')
    BY <2>2, <2>3, <2>4 DEF Listed
  <2>6. file' \in Index \cup {Closed, Gone} /\ (file' \in Index => disk'[file'] # nil)
    BY <1>1, <2>1, <2>2, Numbers
  <2> QED BY <1>2, <1>4, <2>1, <2>2, <2>5, <2>6 DEF DiskOK
<1> QED BY <1>3, <1>4

\* Every step keeps the files as DiskOK says.
LEMMA DiskStep ==
  ASSUME FilesInv, [Next]_vars
  PROVE  DiskOK'
<1>0. DiskOK /\ cur \in Index /\ chunk \in Nat
  BY DEF FilesInv, LogTypeOK
<1>1. CASE UnderlineWrite
  BY <1>0, <1>1, WriteEffect DEF UnderlineWrite
<1>2. CASE Restart
  <2>1. NewFileLogger
    BY <1>2 DEF Restart
  <2>2. CASE recent = <<>>
    BY <2>1, <2>2, CreateEffect, Numbers DEF NewFileLogger, updateLatestLog
  <2>3. CASE recent # <<>>
    <3> DEFINE latest == recent[Len(recent)]
    <3>1. /\ latest \in Index /\ disk[latest] \in Seq(Nat)
          /\ \/ cur' = After(latest) /\ CreateFile(After(latest))
             \/ cur' = latest /\ file' = latest /\ UNCHANGED <<disk, recent>>
      BY <2>1, <2>3, ContinueEffect
    <3> HIDE DEF latest
    <3>2. CASE CreateFile(After(latest))
      BY <3>1, <3>2, CreateEffect, Numbers
    <3>3. CASE file' = latest /\ UNCHANGED <<disk, recent>>
      BY <1>0, <3>1, <3>3, Numbers DEF DiskOK
    <3> QED BY <3>1, <3>2, <3>3
  <2> QED BY <2>2, <2>3
<1>3. CASE RotateClose \/ ClearClose
  BY <1>0, <1>3, Numbers DEF RotateClose, ClearClose, CloseFile, DiskOK
<1>4. CASE RotateCreate \/ ClearCreate
  BY <1>0, <1>4, CreateEffect DEF RotateCreate, ClearCreate
<1>5. CASE ClearRemove
  BY <1>5, RemoveEffect
<1>6. CASE UNCHANGED <<disk, recent, file>>
  BY <1>0, <1>6 DEF DiskOK
<1> QED BY <1>1, <1>2, <1>3, <1>4, <1>5, <1>6
        DEF Next, vars, logVars, ProgramWrites, UnderlineAccount, Account, CaptureRead, NoMessage, Message,
            LogRequests, LogStep, Clear, ReadTailLog, Rotate, ClearFirst

\* Every step keeps FilesInv.
LEMMA FilesStep ==
  ASSUME FilesInv, [Next]_vars
  PROVE  FilesInv'
<1> DEFINE Scalars ==
             /\ mutex \in BOOLEAN /\ clears \in 0 .. MaxClears
             /\ locker \in {nil, "writer", "clearer"}
             /\ cur \in Index /\ ci \in 0 .. Backups
             /\ size \in Nat /\ tail \in Nat /\ logged \in Nat /\ got \in Nat /\ wiped \in Nat
             /\ wpc \in {"idle", "account", "next", "close", "create", "broken"}
             /\ cpc \in {"idle", "remove", "close", "create"}
             /\ chunk \in Nat
<1>0. Scalars /\ DiskOK
  BY DEF FilesInv, LogTypeOK
<1>n. Backups \in Nat \ {0} /\ 0 \in Index /\ MaxChunk \in Nat /\ MaxClears \in Nat
  BY Numbers, FileLoggerAssumption, ProgramLogAssumption
<1>l. ASSUME NEW i \in Index, disk[i] # nil PROVE disk[i] \in Seq(Nat) /\ Len(disk[i]) \in Nat
  <2>1. disk[i] \in Seq(Nat)
    BY <1>l, <1>0 DEF DiskOK
  <2> QED BY <2>1, LenProperties
<1>s. SUFFICES Scalars'
  BY DiskStep DEF FilesInv, LogTypeOK, DiskOK, Listed
<1>1. CASE ProgramWrites
  BY <1>0, <1>1, <1>n DEF ProgramWrites, logVars
<1>2. CASE UnderlineWrite
  BY <1>0, <1>2 DEF UnderlineWrite, Write, Lock, captureVars
<1>3. CASE UnderlineAccount
  <2> DEFINE full == size + chunk >= MaxSize
             stat == IF full /\ disk[cur] # nil THEN Len(disk[cur]) ELSE size + chunk
  <2>1. stat \in Nat
    BY <1>0, <1>l
  <2>2. size' = stat /\ chunk' = 0 /\ locker' \in {locker, nil} /\ wpc' \in {"broken", "next", "idle"}
    BY <1>3 DEF UnderlineAccount, Account, Unlock
  <2> HIDE DEF stat
  <2> QED BY <1>0, <1>3, <2>1, <2>2 DEF UnderlineAccount, Account
<1>4. CASE Restart
  <2>1. NewFileLogger /\ chunk' = 0
    BY <1>4 DEF Restart
  <2>2. cur' \in Index /\ size' \in Nat
    <3>1. CASE recent = <<>>
      BY <2>1, <3>1, <1>n DEF NewFileLogger, updateLatestLog
    <3>2. CASE recent # <<>>
      <4> DEFINE latest == recent[Len(recent)]
      <4>1. /\ latest \in Index /\ disk[latest] \in Seq(Nat) /\ size' = Len(disk[latest])
            /\ cur' \in {latest, After(latest)}
        BY <2>1, <3>2, ContinueEffect
      <4> HIDE DEF latest
      <4> QED BY <4>1, LenProperties, Numbers
    <3> QED BY <3>1, <3>2
  <2> QED BY <1>0, <2>1, <2>2 DEF NewFileLogger
<1>5. CASE CaptureRead \/ NoMessage \/ Message
  BY <1>0, <1>5 DEF CaptureRead, NoMessage, Message, logVars
<1>6. CASE LogRequests /\ UNCHANGED captureVars
  <2>1. CASE Clear
    BY <1>0, <1>6, <1>n, <2>1 DEF Clear, Lock, captureVars
  <2>2. CASE ReadTailLog
    <3> DEFINE n == Len(disk[cur])
    <3>1. disk[cur] \in Seq(Nat) /\ n \in Nat /\ TailLength \subseteq Nat
      BY <1>0, <1>l, <2>2, FileLoggerAssumption DEF ReadTailLog
    <3>2. PICK length \in TailLength :
            LET to == IF tail + length > n THEN n ELSE tail + length
            IN  tail' = to /\ got' = IF tail < to /\ disk[cur][to] > got THEN disk[cur][to] ELSE got
      BY <2>2 DEF ReadTailLog
    <3> DEFINE to == IF tail + length > n THEN n ELSE tail + length
    <3>3. to \in Nat /\ to <= n
      BY <1>0, <3>1
    <3>4. tail < to => to \in 1 .. n
      BY <1>0, <3>1, <3>3
    <3>5. tail < to => disk[cur][to] \in Nat
      BY <3>1, <3>4, ElementOfSeq
    <3>6. tail' \in Nat /\ got' \in Nat
      BY <1>0, <3>2, <3>3, <3>5
    <3> QED BY <1>0, <1>6, <2>2, <3>6 DEF ReadTailLog, captureVars
  <2> QED BY <1>6, <2>1, <2>2 DEF LogRequests
<1>7. CASE LogStep /\ UNCHANGED captureVars
  <2>1. CASE ClearRemove
    <3>1. ci' \in 0 .. Backups
      BY <2>1, RemoveEffect
    <3> QED BY <1>0, <1>7, <2>1, <3>1 DEF ClearRemove, Unlock, captureVars
  <2>2. CASE Rotate
    BY <1>0, <1>7, <2>2, Numbers DEF Rotate, captureVars
  <2>3. CASE RotateClose \/ RotateCreate
    BY <1>0, <1>7, <2>3 DEF RotateClose, RotateCreate, Unlock, captureVars
  <2>4. CASE ClearFirst \/ ClearClose \/ ClearCreate
    BY <1>0, <1>7, <1>n, <2>4 DEF ClearFirst, ClearClose, ClearCreate, Unlock, captureVars
  <2> QED BY <1>7, <2>1, <2>2, <2>3, <2>4 DEF LogStep
<1>8. CASE UNCHANGED vars
  BY <1>0, <1>8 DEF vars, logVars, captureVars
<1> QED BY <1>1, <1>2, <1>3, <1>4, <1>5, <1>6, <1>7, <1>8 DEF Next

\* FilesInv holds at the start.
LEMMA FilesInit == Init => FilesInv
<1> SUFFICES ASSUME Init PROVE FilesInv
  OBVIOUS
<1>n. MaxClears \in Nat /\ Backups \in Nat \ {0} /\ 0 \in Index /\ <<>> \in Seq(Nat) /\ <<>> # nil
  BY Numbers, FileLoggerAssumption
<1>1. disk \in [Index -> Seq(Nat) \cup {nil}] /\ disk[0] = <<>>
  BY <1>n DEF Init, LogInit
<1>2. recent = <<0>> /\ recent \in Seq(Index) /\ DOMAIN recent = {1} /\ recent[1] = 0
  BY <1>n DEF Init, LogInit
<1>3. DiskOK
  BY <1>n, <1>1, <1>2 DEF DiskOK, Listed, Init, LogInit
<1>4. /\ mutex \in BOOLEAN /\ clears \in 0 .. MaxClears /\ locker \in {nil, "writer", "clearer"}
      /\ cur \in Index /\ ci \in 0 .. Backups
      /\ size \in Nat /\ tail \in Nat /\ logged \in Nat /\ got \in Nat /\ wiped \in Nat
      /\ wpc \in {"idle", "account", "next", "close", "create", "broken"}
      /\ cpc \in {"idle", "remove", "close", "create"} /\ chunk \in Nat
  BY <1>n DEF Init, LogInit
<1> QED BY <1>2, <1>3, <1>4 DEF FilesInv, LogTypeOK, DiskOK

\* The state of the log files stays in its type.
THEOREM LogTypeCorrect == Spec => []LogTypeOK
<1>1. FilesInv => LogTypeOK
  BY DEF FilesInv
<1>2. FilesInv /\ [Next]_vars => FilesInv'
  BY FilesStep
<1> QED BY <1>1, <1>2, FilesInit, PTL DEF Spec

\* ReadLog gives the part of the current file that was asked for, for a file of any size
\* (ReadLog, ReadTailLog).
THEOREM ReadLogExactAlways == Spec => []ReadLogExact
<1>1. ASSUME FilesInv PROVE ReadLogExact
  <2> DEFINE n == Len(disk[cur])
  <2> SUFFICES ASSUME disk[cur] # nil,
                      NEW offset \in -(n + 1) .. n + 1, NEW length \in -1 .. n + 1,
                      ReadLog(n, offset, length) # "bad"
               PROVE  LET r == ReadLog(n, offset, length)
                          want == {k \in 1 .. n : IF offset < 0 THEN k > n + offset
                                                  ELSE k > offset /\ (length > 0 => k <= offset + length)}
                      IN  r[1] + 1 .. r[1] + r[2] = want
    BY DEF ReadLogExact
  <2>1. n \in Nat
    BY <1>1, LenProperties DEF FilesInv, DiskOK, LogTypeOK
  <2> HIDE DEF n
  <2>2. offset \in Int /\ length \in Int /\ length >= -1 /\ offset <= n + 1
    BY <2>1
  <2>3. ~((offset < 0 /\ length # 0) \/ (offset >= 0 /\ length < 0))
    BY <2>2 DEF ReadLog
  <2>4. CASE offset < 0 /\ length = 0
    <3>1. ReadLog(n, offset, length) =
            LET from == IF n + offset < 0 THEN 0 ELSE n + offset IN <<from, n - from>>
      BY <2>2, <2>4 DEF ReadLog
    <3> QED BY <2>1, <2>2, <2>4, <3>1
  <2>5. CASE offset >= 0 /\ length = 0
    <3>1. ReadLog(n, offset, length) = IF offset > n THEN <<0, 0>> ELSE <<offset, n - offset>>
      BY <2>2, <2>5 DEF ReadLog
    <3> QED BY <2>1, <2>2, <2>5, <3>1
  <2>6. CASE offset >= 0 /\ length > 0
    <3>1. ReadLog(n, offset, length) =
            IF offset >= n THEN <<0, 0>>
            ELSE <<offset, IF offset + length > n THEN n - offset ELSE length>>
      BY <2>2, <2>6 DEF ReadLog
    <3>2. CASE offset >= n
      BY <2>1, <2>2, <2>6, <3>1, <3>2
    <3>3. CASE offset < n
      BY <2>1, <2>2, <2>6, <3>1, <3>3
    <3> QED BY <2>1, <2>2, <3>2, <3>3
  <2> QED BY <2>2, <2>3, <2>4, <2>5, <2>6
<1>2. FilesInv /\ [Next]_vars => FilesInv'
  BY FilesStep
<1> QED BY <1>1, <1>2, FilesInit, PTL DEF Spec

-----------------------------------------------------------------------------
(* What the files of a protected log hold *)

\* The bytes of file i.
Bytes(i) == IF disk[i] = nil THEN {} ELSE {disk[i][k] : k \in DOMAIN disk[i]}

\* The file written last, also while the next one is being made: nextLogFile has then
\* moved on already.
Top == IF wpc \in {"close", "create"} THEN IF cur = 0 THEN Backups - 1 ELSE cur - 1 ELSE cur

\* How many rotations ago file i was the current one.
Age(i, top) == IF i <= top THEN top - i ELSE top - i + Backups

\* The older file has the older bytes.
Ordered(top) ==
  \A i, j \in Index : Age(j, top) < Age(i, top) => \A b \in Bytes(i), c \in Bytes(j) : b < c

\* What NoGap says, of the files.
NoHole ==
  \A i \in Index : \A b \in Bytes(i) : b > wiped =>
    \A k \in b .. logged : \E j \in Index : k \in Bytes(j)

\* NullLocker protects the log as long as nobody clears it, the mutex always.
Safe == mutex \/ clears = 0

\* The writer is at a place where the current file is open.
Writing == cpc = "idle" /\ wpc \in {"idle", "account", "next"}

\* One of the two, writer and clearer, at a time.
PhaseInv ==
  /\ ~mutex => cpc = "idle"
  /\ mutex /\ wpc \in {"account", "next", "close", "create"} => locker = "writer"
  /\ mutex /\ cpc # "idle" => locker = "clearer"
  /\ wpc # "broken"

\* The current file is the one modified last, and the files up to it exist, so that
\* ClearAllLogFile does not stop half way.
CurrentInv ==
  /\ Writing => file = cur /\ recent # <<>> /\ recent[Len(recent)] = cur
  /\ cpc = "idle" => \A i \in Index : i < cur => disk[i] # nil
  /\ cpc = "remove" => \A i \in Index : /\ i < ci => disk[i] = nil
                                        /\ ci <= i /\ i <= cur => disk[i] # nil
  /\ cpc \in {"close", "create"} => cur = 0 /\ disk[0] = nil

ContentInv ==
  /\ \A i \in Index : Bytes(i) \subseteq 1 .. logged
  /\ \A i \in Index : disk[i] # nil =>
       \A j, k \in DOMAIN disk[i] : j < k => disk[i][j] < disk[i][k]
  /\ Ordered(Top)
  /\ cpc = "idle" => NoHole

\* What the client of ReadTailLog has not been given is newer than what it was given.
TailInv ==
  ~mutex => /\ got <= logged
            /\ Writing => \A k \in DOMAIN disk[cur] : k > tail => disk[cur][k] > got

LogInv == FilesInv /\ (Safe => PhaseInv /\ CurrentInv /\ ContentInv /\ TailInv)

\* A clear and a write exclude each other, where it is safe.
LEMMA Excluded ==
  ASSUME FilesInv, PhaseInv, cpc # "idle"
  PROVE  mutex /\ wpc = "idle" /\ locker # nil
<1>1. mutex /\ locker = "clearer"
  BY DEF PhaseInv
<1>2. nil \notin {"writer", "clearer"}
  BY FileLoggerAssumption
<1> QED BY <1>1, <1>2 DEF PhaseInv, FilesInv, LogTypeOK

\* A write finds the current file open, and no clear under way.
LEMMA WriteFinds ==
  ASSUME FilesInv, PhaseInv, CurrentInv, UnderlineWrite
  PROVE  /\ cpc = "idle" /\ wpc = "idle" /\ file = cur /\ cur \in Index /\ Write(chunk) /\ chunk \in Nat
         /\ mutex => locker' = "writer"
<1>1. wpc = "idle" /\ Write(chunk) /\ (mutex => locker = nil /\ locker' = "writer")
  BY DEF UnderlineWrite, Write, Lock
<1>2. cpc = "idle"
  BY <1>1, Excluded DEF PhaseInv
<1> QED BY <1>1, <1>2 DEF CurrentInv, Writing, FilesInv, LogTypeOK

\* So does a restart.
LEMMA RestartFinds ==
  ASSUME FilesInv, PhaseInv, CurrentInv, Restart
  PROVE  /\ cpc = "idle" /\ wpc = "idle" /\ wpc' = "idle" /\ cpc' = "idle" /\ cur \in Index
         /\ recent # <<>> /\ recent[Len(recent)] = cur
         /\ \/ cur' = After(cur) /\ CreateFile(After(cur))
            \/ cur' = cur /\ file' = cur /\ UNCHANGED <<disk, recent>>
         /\ UNCHANGED <<mutex, locker, ci, tail, logged, got, wiped, clears>>
<1>1. /\ NewFileLogger /\ wpc \in {"idle", "broken"} /\ cpc = "idle" /\ wpc' = "idle"
      /\ UNCHANGED <<mutex, locker, cpc, ci, tail, logged, got, wiped, clears>>
  BY DEF Restart, NewFileLogger
<1>2. wpc = "idle"
  BY <1>1 DEF PhaseInv
<1>3. recent # <<>> /\ recent[Len(recent)] = cur
  BY <1>1, <1>2 DEF CurrentInv, Writing
<1>4. \/ cur' = After(cur) /\ CreateFile(After(cur))
      \/ cur' = cur /\ file' = cur /\ UNCHANGED <<disk, recent>>
  BY <1>1, <1>3, ContinueEffect
<1> QED BY <1>1, <1>2, <1>3, <1>4 DEF FilesInv, LogTypeOK

\* Every step of a log that is protected keeps the order of its writer and clearer.
LEMMA ControlStep ==
  ASSUME FilesInv, PhaseInv, CurrentInv, [Next]_vars, Safe'
  PROVE  PhaseInv' /\ CurrentInv'
<1>0. /\ cur \in Index /\ ci \in 0 .. Backups /\ clears \in Nat
      /\ \A i \in Index : i \in Nat /\ 0 <= i /\ i < Backups
      /\ Backups \in Nat \ {0} /\ 0 \in Index
  BY Numbers, FileLoggerAssumption DEF FilesInv, LogTypeOK
<1>1. CASE UNCHANGED <<mutex, locker, disk, recent, cur, file, wpc, cpc, ci>>
  BY <1>1 DEF PhaseInv, CurrentInv, Writing
<1>2. CASE UnderlineWrite
  <2>1. /\ cpc = "idle" /\ wpc = "idle" /\ file = cur /\ Write(chunk) /\ chunk \in Nat
        /\ mutex => locker' = "writer"
    BY <1>2, WriteFinds
  <2>2. /\ cur' = cur /\ file' = file /\ wpc' = "account" /\ disk'[cur] # nil
        /\ \A j \in Index : j # cur => disk'[j] = disk[j]
        /\ recent' # <<>> /\ recent'[Len(recent')] = cur
    BY <1>0, <2>1, WriteEffect
  <2>3. UNCHANGED <<mutex, cpc>>
    BY <2>1 DEF Write
  <2>4. PhaseInv'
    BY <2>1, <2>2, <2>3 DEF PhaseInv
  <2>5. CurrentInv'
    BY <2>1, <2>2, <2>3 DEF CurrentInv, Writing
  <2> QED BY <2>4, <2>5
<1>3. CASE UnderlineAccount
  <2>1. wpc = "account" /\ UNCHANGED <<mutex, disk, recent, cur, file, cpc, ci>>
    BY <1>3 DEF UnderlineAccount, Account
  <2>2. cpc = "idle"
    BY <2>1, Excluded
  <2>3. file = cur /\ disk[cur] # nil
    BY <1>0, <2>1, <2>2 DEF CurrentInv, Writing, FilesInv, DiskOK
  <2>4. wpc' \in {"next", "idle"} /\ (wpc' = "next" => locker' = locker)
    BY <1>3, <2>3 DEF UnderlineAccount, Account
  <2> QED BY <2>1, <2>2, <2>4 DEF PhaseInv, CurrentInv, Writing
<1>4. CASE Restart
  <2>1. /\ cpc = "idle" /\ wpc = "idle" /\ wpc' = "idle" /\ cpc' = "idle"
        /\ recent # <<>> /\ recent[Len(recent)] = cur
        /\ \/ cur' = After(cur) /\ CreateFile(After(cur))
           \/ cur' = cur /\ file' = cur /\ UNCHANGED <<disk, recent>>
        /\ UNCHANGED <<mutex, locker>>
    BY <1>4, RestartFinds
  <2>2. PhaseInv'
    BY <2>1 DEF PhaseInv
  <2>3. CASE cur' = cur /\ file' = cur /\ UNCHANGED <<disk, recent>>
    BY <2>1, <2>2, <2>3 DEF CurrentInv, Writing
  <2>4. CASE cur' = After(cur) /\ CreateFile(After(cur))
    <3>1. After(cur) \in Index /\ After(cur) = IF cur = Backups - 1 THEN 0 ELSE cur + 1
      BY <1>0, Numbers
    <3>2. /\ \A j \in Index : j # After(cur) => disk'[j] = disk[j]
          /\ recent' # <<>> /\ recent'[Len(recent')] = cur' /\ file' = cur'
      BY <2>4, <3>1, CreateEffect
    <3>3. disk[cur] # nil
      BY <1>0, <2>1 DEF CurrentInv, Writing, FilesInv, DiskOK
    <3>4. \A i \in Index : i < cur' => disk'[i] # nil
      BY <1>0, <2>1, <2>4, <3>1, <3>2, <3>3 DEF CurrentInv
    <3> QED BY <2>1, <2>2, <3>2, <3>4 DEF CurrentInv, Writing
  <2> QED BY <2>1, <2>3, <2>4
<1>5. CASE Clear
  <2>1. /\ cpc = "idle" /\ cpc' = "remove" /\ ci' = 0 /\ clears' = clears + 1
        /\ UNCHANGED <<mutex, disk, recent, cur, size, file, wpc>>
        /\ (mutex => locker = nil /\ locker' = "clearer")
    BY <1>5 DEF Clear, Lock
  <2>2. mutex
    BY <1>0, <2>1 DEF Safe
  <2>3. wpc = "idle"
    <3>1. nil \notin {"writer", "clearer"}
      BY FileLoggerAssumption
    <3> QED BY <2>1, <2>2, <3>1 DEF PhaseInv, FilesInv, LogTypeOK
  <2>4. PhaseInv'
    BY <2>1, <2>2, <2>3 DEF PhaseInv
  <2>5. \A i \in Index : i <= cur => disk[i] # nil
    BY <1>0, <2>1, <2>3 DEF CurrentInv, Writing, FilesInv, DiskOK
  <2>6. CurrentInv'
    BY <1>0, <2>1, <2>5 DEF CurrentInv, Writing
  <2> QED BY <2>4, <2>6
<1>6. CASE ClearRemove
  <2>1. cpc = "remove" /\ ci <= cur /\ ci \in Index /\ UNCHANGED <<mutex, cur, wpc>>
    BY <1>6, RemoveEffect DEF ClearRemove
  <2>2. disk[ci] # nil
    BY <1>0, <2>1 DEF CurrentInv
  <2>3. /\ disk'[ci] = nil /\ \A j \in Index : j # ci => disk'[j] = disk[j]
        /\ ci' = ci + 1 /\ UNCHANGED <<cpc, locker>>
    BY <1>6, <2>2, RemoveEffect
  <2>4. PhaseInv'
    BY <2>1, <2>3 DEF PhaseInv
  <2>5. \A i \in Index : /\ i < ci' => disk'[i] = nil
                         /\ ci' <= i /\ i <= cur => disk'[i] # nil
    BY <1>0, <2>1, <2>3 DEF CurrentInv
  <2> QED BY <2>1, <2>3, <2>4, <2>5 DEF CurrentInv, Writing
<1>7. CASE ClearFirst
  <2>1. /\ cpc = "remove" /\ cpc' = "close" /\ cur' = 0 /\ ~(ci < Backups /\ ci <= cur)
        /\ UNCHANGED <<mutex, locker, disk, recent, file, wpc, ci>>
    BY <1>7 DEF ClearFirst
  <2>2. 0 < ci
    BY <1>0, <2>1
  <2>3. disk[0] = nil
    BY <1>0, <2>1, <2>2 DEF CurrentInv
  <2> QED BY <2>1, <2>3 DEF PhaseInv, CurrentInv, Writing
<1>8. CASE ClearClose
  <2>1. /\ cpc = "close" /\ cpc' = "create"
        /\ UNCHANGED <<mutex, locker, disk, recent, cur, wpc, ci>>
    BY <1>8 DEF ClearClose, CloseFile
  <2> QED BY <2>1 DEF PhaseInv, CurrentInv, Writing
<1>9. CASE ClearCreate
  <2>1. cpc = "create" /\ cpc' = "idle" /\ CreateFile(cur) /\ UNCHANGED <<mutex, cur, wpc>>
    BY <1>9 DEF ClearCreate
  <2>2. cur = 0 /\ wpc = "idle"
    BY <2>1, Excluded DEF CurrentInv
  <2>3. recent' # <<>> /\ recent'[Len(recent')] = cur' /\ file' = cur'
    BY <1>0, <2>1, CreateEffect
  <2>4. \A i \in Index : ~(i < cur')
    BY <1>0, <2>1, <2>2
  <2> QED BY <2>1, <2>2, <2>3, <2>4 DEF PhaseInv, CurrentInv, Writing
<1>10. CASE Rotate
  <2>1. /\ wpc = "next" /\ wpc' = "close" /\ cur' = After(cur)
        /\ UNCHANGED <<mutex, locker, disk, recent, file, cpc, ci>>
    BY <1>10 DEF Rotate
  <2>2. cpc = "idle"
    BY <2>1, Excluded
  <2>3. After(cur) = IF cur = Backups - 1 THEN 0 ELSE cur + 1
    BY <1>0, Numbers
  <2>4. disk[cur] # nil
    BY <1>0, <2>1, <2>2 DEF CurrentInv, Writing, FilesInv, DiskOK
  <2>5. \A i \in Index : i < cur' => disk[i] # nil
    BY <1>0, <2>1, <2>2, <2>3, <2>4 DEF CurrentInv
  <2> QED BY <2>1, <2>2, <2>5 DEF PhaseInv, CurrentInv, Writing
<1>11. CASE RotateClose
  <2>1. /\ wpc = "close" /\ wpc' = "create"
        /\ UNCHANGED <<mutex, locker, disk, recent, cur, cpc, ci>>
    BY <1>11 DEF RotateClose, CloseFile
  <2>2. cpc = "idle"
    BY <2>1, Excluded
  <2> QED BY <2>1, <2>2 DEF PhaseInv, CurrentInv, Writing
<1>12. CASE RotateCreate
  <2>1. wpc = "create" /\ wpc' = "idle" /\ CreateFile(cur) /\ UNCHANGED <<mutex, cur, cpc>>
    BY <1>12 DEF RotateCreate
  <2>2. cpc = "idle"
    BY <2>1, Excluded
  <2>3. /\ \A j \in Index : j # cur => disk'[j] = disk[j]
        /\ recent' # <<>> /\ recent'[Len(recent')] = cur' /\ file' = cur'
    BY <1>0, <2>1, CreateEffect
  <2>4. \A i \in Index : i < cur' => disk'[i] # nil
    BY <1>0, <2>1, <2>2, <2>3 DEF CurrentInv
  <2> QED BY <2>1, <2>2, <2>3, <2>4 DEF PhaseInv, CurrentInv, Writing
<1> QED BY <1>1, <1>2, <1>3, <1>4, <1>5, <1>6, <1>7, <1>8, <1>9, <1>10, <1>11, <1>12
        DEF Next, vars, logVars, ProgramWrites, CaptureRead, NoMessage, Message,
            LogRequests, LogStep, ReadTailLog

\* The file after the one written last is the oldest: when it is made anew, the order is
\* kept and nothing is missing.
LEMMA DropOldest ==
  ASSUME FilesInv, NEW top \in Index, Ordered(top), Bytes(After(top))' = {},
         \A j \in Index : j # After(top) => Bytes(j)' = Bytes(j),
         UNCHANGED <<logged, wiped>>
  PROVE  Ordered(After(top))' /\ (NoHole => NoHole')
<1> DEFINE d == After(top)
<1>0. /\ d \in Index /\ d = (IF top = Backups - 1 THEN 0 ELSE top + 1) /\ Backups \in Nat \ {0}
      /\ \A i \in Index : i \in Nat /\ 0 <= i /\ i < Backups
  BY Numbers
<1> HIDE DEF d
<1>1. \A i \in Index : i # d => /\ Age(i, d) = Age(i, top) + 1 /\ Age(i, top) < Age(d, top)
                                /\ Age(i, top) \in Nat
  BY <1>0 DEF Age
<1>2. Ordered(d)'
  <2> SUFFICES ASSUME NEW i \in Index, NEW j \in Index, Age(j, d) < Age(i, d),
                      NEW b \in Bytes(i)', NEW c \in Bytes(j)'
               PROVE  b < c
    BY DEF Ordered
  <2>1. i # d /\ j # d
    BY DEF d
  <2>2. b \in Bytes(i) /\ c \in Bytes(j) /\ Age(j, top) < Age(i, top)
    BY <1>1, <2>1 DEF d
  <2> QED BY <2>2 DEF Ordered
<1>3. ASSUME NoHole PROVE NoHole'
  <2> SUFFICES ASSUME NEW i \in Index, NEW b \in Bytes(i)', b > wiped, NEW k \in b .. logged
               PROVE  \E j \in Index : k \in Bytes(j)'
    BY DEF NoHole
  <2>1. i # d /\ b \in Bytes(i)
    BY DEF d
  <2>2. PICK j \in Index : k \in Bytes(j)
    BY <1>3, <2>1 DEF NoHole
  <2>3. b \in Nat
    BY <2>1 DEF Bytes, FilesInv, LogTypeOK
  <2>4. j # d
    <3>1. SUFFICES ASSUME j = d PROVE FALSE
      OBVIOUS
    <3>2. k < b
      BY <1>1, <2>1, <2>2, <3>1 DEF Ordered
    <3> QED BY <2>3, <3>2 DEF FilesInv, LogTypeOK
  <2> QED BY <2>2, <2>4 DEF d
<1> QED BY <1>2, <1>3 DEF d

\* The bytes of the files a step does not touch.
LEMMA SameBytes ==
  /\ \A i \in Index : disk'[i] = disk[i] => Bytes(i)' = Bytes(i)
  /\ \A i \in Index : disk'[i] = nil \/ disk'[i] = <<>> => Bytes(i)' = {}
<1>1. DOMAIN <<>> = {}
  OBVIOUS
<1> QED BY <1>1 DEF Bytes

\* A step that touches no file.
LEMMA ContentSame ==
  ASSUME ContentInv, UNCHANGED <<disk, logged, wiped>>, Top' = Top, cpc' = "idle" => cpc = "idle"
  PROVE  ContentInv'
<1>1. \A i \in Index : Bytes(i)' = Bytes(i)
  BY SameBytes
<1>2. Ordered(Top)'
  BY <1>1 DEF ContentInv, Ordered
<1>3. cpc' = "idle" => NoHole'
  BY <1>1 DEF ContentInv, NoHole
<1>4. \A i \in Index : Bytes(i)' \subseteq 1 .. logged'
  BY <1>1 DEF ContentInv
<1> QED BY <1>2, <1>3, <1>4 DEF ContentInv

\* A file made anew is sorted, and the others stay so.
LEMMA SortedCreate ==
  ASSUME ContentInv, NEW d \in Index, disk'[d] = <<>> \/ disk'[d] = nil,
         \A j \in Index : j # d => disk'[j] = disk[j], logged' = logged
  PROVE  /\ \A i \in Index : disk'[i] # nil =>
              \A j, k \in DOMAIN disk'[i] : j < k => disk'[i][j] < disk'[i][k]
         /\ \A i \in Index : Bytes(i)' \subseteq 1 .. logged'
         /\ Bytes(d)' = {} /\ \A j \in Index : j # d => Bytes(j)' = Bytes(j)
<1>1. Bytes(d)' = {} /\ \A j \in Index : j # d => Bytes(j)' = Bytes(j)
  BY SameBytes
<1>2. \A i \in Index : Bytes(i)' \subseteq 1 .. logged'
  BY <1>1 DEF ContentInv
<1>3. DOMAIN <<>> = {}
  OBVIOUS
<1>4. \A i \in Index : disk'[i] # nil =>
        \A j, k \in DOMAIN disk'[i] : j < k => disk'[i][j] < disk'[i][k]
  BY <1>3 DEF ContentInv
<1> QED BY <1>1, <1>2, <1>4

\* A write adds the newest bytes to the newest file.
LEMMA ContentWrite ==
  ASSUME FilesInv, PhaseInv, CurrentInv, ContentInv, UnderlineWrite
  PROVE  ContentInv'
<1> DEFINE n == chunk
           L == Len(disk[cur])
<1>1. cpc = "idle" /\ wpc = "idle" /\ file = cur /\ cur \in Index /\ Write(chunk) /\ n \in Nat
  BY WriteFinds
<1>2. /\ logged' = logged + n /\ wpc' = "account" /\ cur' = cur /\ disk'[cur] # nil
      /\ \A j \in Index : j # cur => disk'[j] = disk[j]
      /\ L \in Nat /\ DOMAIN disk[cur] = 1 .. L /\ DOMAIN disk'[cur] = 1 .. L + n
      /\ \A k \in 1 .. L : disk'[cur][k] = disk[cur][k]
      /\ \A k \in 1 .. n : disk'[cur][L + k] = logged + k
  BY <1>1, WriteEffect
<1>3. UNCHANGED <<wiped, cpc>> /\ logged \in Nat
  BY <1>1 DEF Write, FilesInv, LogTypeOK
<1>4. disk[cur] # nil
  BY <1>1 DEF FilesInv, DiskOK
<1>5. Top = cur /\ Top' = cur
  BY <1>1, <1>2 DEF Top
<1> HIDE DEF n, L
<1>s. \A k \in 1 .. L + n : k \in 1 .. L \/ (k - L \in 1 .. n /\ L + (k - L) = k)
  BY <1>1, <1>2
<1>a. \A k \in 1 .. L + n : disk'[cur][k] = IF k \in 1 .. L THEN disk[cur][k] ELSE logged + (k - L)
  <2> SUFFICES ASSUME NEW k \in 1 .. L + n
               PROVE  disk'[cur][k] = IF k \in 1 .. L THEN disk[cur][k] ELSE logged + (k - L)
    OBVIOUS
  <2>1. CASE k \in 1 .. L
    BY <1>2, <2>1
  <2>2. CASE k \notin 1 .. L
    <3>1. k - L \in 1 .. n /\ L + (k - L) = k
      BY <1>s, <2>2
    <3>2. disk'[cur][L + (k - L)] = logged + (k - L)
      BY <1>2, <3>1
    <3> QED BY <2>2, <3>1, <3>2
  <2> QED BY <2>1, <2>2
<1>6. \A j \in Index : j # cur => Bytes(j)' = Bytes(j)
  BY <1>2, SameBytes
<1>o. Bytes(cur) \subseteq 1 .. logged /\ \A k \in 1 .. L : disk[cur][k] \in Bytes(cur)
  BY <1>1, <1>2, <1>4 DEF Bytes, ContentInv
<1>7. ASSUME NEW f \in Index, f = cur PROVE Bytes(f)' = Bytes(f) \cup (logged + 1 .. logged + n)
  <2>1. Bytes(f)' = {disk'[cur][k] : k \in 1 .. L + n} /\ Bytes(f) = {disk[cur][k] : k \in 1 .. L}
    BY <1>2, <1>4, <1>7 DEF Bytes
  <2>2. ASSUME NEW b \in Bytes(f)' PROVE b \in Bytes(f) \cup (logged + 1 .. logged + n)
    <3>1. PICK k \in 1 .. L + n : b = disk'[cur][k]
      BY <2>1
    <3>2. CASE k \in 1 .. L
      BY <1>7, <1>a, <1>o, <3>1, <3>2
    <3>3. CASE k \notin 1 .. L
      <4>1. b = logged + (k - L) /\ k - L \in 1 .. n
        BY <1>a, <1>s, <3>1, <3>3
      <4> QED BY <1>1, <1>2, <1>3, <4>1
    <3> QED BY <3>2, <3>3
  <2>3. ASSUME NEW b \in Bytes(f) PROVE b \in Bytes(f)'
    <3>1. PICK k \in 1 .. L : b = disk[cur][k]
      BY <2>1
    <3>2. k \in 1 .. L + n
      BY <1>1, <1>2
    <3> QED BY <1>2, <2>1, <3>1, <3>2
  <2>4. ASSUME NEW b \in logged + 1 .. logged + n PROVE b \in Bytes(f)'
    <3>1. b - logged \in 1 .. n /\ logged + (b - logged) = b
      BY <1>1, <1>3
    <3>2. disk'[cur][L + (b - logged)] = b /\ L + (b - logged) \in 1 .. L + n
      BY <1>1, <1>2, <3>1
    <3> QED BY <2>1, <3>2
  <2> QED BY <2>2, <2>3, <2>4
<1>8. \A i \in Index : Bytes(i)' \subseteq 1 .. logged'
  <2> SUFFICES ASSUME NEW i \in Index PROVE Bytes(i)' \subseteq 1 .. logged'
    OBVIOUS
  <2>1. Bytes(i) \subseteq 1 .. logged
    BY DEF ContentInv
  <2>2. 1 .. logged \subseteq 1 .. logged' /\ logged + 1 .. logged + n \subseteq 1 .. logged'
    BY <1>1, <1>2, <1>3
  <2> QED BY <1>1, <1>6, <1>7, <2>1, <2>2
<1>9. \A i \in Index : disk'[i] # nil =>
        \A j, k \in DOMAIN disk'[i] : j < k => disk'[i][j] < disk'[i][k]
  <2> SUFFICES ASSUME NEW i \in Index, disk'[i] # nil, NEW j \in DOMAIN disk'[i],
                      NEW k \in DOMAIN disk'[i], j < k
               PROVE  disk'[i][j] < disk'[i][k]
    OBVIOUS
  <2>1. CASE i # cur
    BY <1>2, <2>1 DEF ContentInv
  <2>2. CASE i = cur
    <3>1. j \in 1 .. L + n /\ k \in 1 .. L + n
      BY <1>2, <2>2
    <3>2. CASE k \in 1 .. L
      <4>1. j \in 1 .. L
        BY <1>1, <1>2, <3>1, <3>2
      <4>2. disk[cur][j] < disk[cur][k]
        BY <1>1, <1>2, <1>4, <3>2, <4>1 DEF ContentInv
      <4> QED BY <1>2, <2>2, <3>2, <4>1, <4>2
    <3>3. CASE k \notin 1 .. L
      <4>1. disk'[cur][k] = logged + (k - L) /\ k - L \in 1 .. n
        BY <1>a, <1>s, <3>1, <3>3
      <4>2. CASE j \in 1 .. L
        <5>1. disk'[cur][j] \in 1 .. logged
          BY <1>2, <1>o, <4>2
        <5> QED BY <1>1, <1>3, <2>2, <4>1, <5>1
      <4>3. CASE j \notin 1 .. L
        <5>1. disk'[cur][j] = logged + (j - L)
          BY <1>a, <3>1, <4>3
        <5> QED BY <1>1, <1>2, <1>3, <2>2, <3>1, <4>1, <5>1
      <4> QED BY <4>2, <4>3
    <3> QED BY <3>2, <3>3
  <2> QED BY <2>1, <2>2
<1>10. Ordered(Top)'
  <2> SUFFICES ASSUME NEW i \in Index, NEW j \in Index, Age(j, cur) < Age(i, cur),
                      NEW b \in Bytes(i)', NEW c \in Bytes(j)'
               PROVE  b < c
    BY <1>5 DEF Ordered
  <2>1. i # cur
    BY <1>1, Numbers DEF Age
  <2>2. b \in Bytes(i) /\ b \in 1 .. logged
    BY <1>6, <2>1 DEF ContentInv
  <2>3. CASE c \in Bytes(j)
    BY <1>5, <2>2, <2>3 DEF ContentInv, Ordered
  <2>4. CASE c \notin Bytes(j)
    <3>1. c \in logged + 1 .. logged + n
      BY <1>1, <1>6, <1>7, <2>4
    <3> QED BY <1>1, <1>3, <2>2, <3>1
  <2> QED BY <2>3, <2>4
<1>11. NoHole'
  <2> SUFFICES ASSUME NEW i \in Index, NEW b \in Bytes(i)', b > wiped, NEW k \in b .. logged'
               PROVE  \E j \in Index : k \in Bytes(j)'
    BY <1>3 DEF NoHole
  <2>0. b \in Nat
    BY <1>2, <1>3, <1>8
  <2>1. CASE k > logged
    <3>1. k \in logged + 1 .. logged + n
      BY <1>1, <1>2, <1>3, <2>0, <2>1
    <3> QED BY <1>1, <1>7, <3>1
  <2>2. CASE ~(k > logged)
    <3>1. k \in b .. logged /\ b <= logged
      BY <1>2, <1>3, <2>0, <2>2
    <3>2. b \in Bytes(i)
      BY <1>1, <1>3, <1>6, <1>7, <3>1
    <3>3. PICK j \in Index : k \in Bytes(j)
      BY <1>1, <3>1, <3>2 DEF ContentInv, NoHole
    <3> QED BY <1>6, <1>7, <3>3
  <2> QED BY <2>1, <2>2
<1> QED BY <1>8, <1>9, <1>10, <1>11 DEF ContentInv

\* Every step of a protected log keeps the order of the bytes.
LEMMA ContentStep ==
  ASSUME FilesInv, PhaseInv, CurrentInv, ContentInv, [Next]_vars, Safe'
  PROVE  ContentInv'
<1>0. /\ cur \in Index /\ ci \in 0 .. Backups /\ logged \in Nat
      /\ \A i \in Index : i \in Nat /\ 0 <= i /\ i < Backups
      /\ Backups \in Nat \ {0} /\ 0 \in Index
  BY Numbers DEF FilesInv, LogTypeOK
<1>1. CASE UNCHANGED <<disk, logged, wiped, cur, wpc, cpc>>
  BY <1>1, ContentSame DEF Top
<1>2. CASE UnderlineWrite
  BY <1>2, ContentWrite
<1>3. CASE UnderlineAccount
  <2>1. UNCHANGED <<disk, logged, wiped, cur, cpc>> /\ wpc = "account" /\ wpc' \in {"broken", "next", "idle"}
    BY <1>3 DEF UnderlineAccount, Account
  <2> QED BY <2>1, ContentSame DEF Top
<1>4. CASE Restart
  <2>1. /\ cpc = "idle" /\ wpc = "idle" /\ wpc' = "idle" /\ cpc' = "idle"
        /\ \/ cur' = After(cur) /\ CreateFile(After(cur))
           \/ cur' = cur /\ file' = cur /\ UNCHANGED <<disk, recent>>
        /\ UNCHANGED <<logged, wiped>>
    BY <1>4, RestartFinds
  <2>2. CASE cur' = cur /\ UNCHANGED disk
    BY <2>1, <2>2, ContentSame DEF Top
  <2>3. CASE cur' = After(cur) /\ CreateFile(After(cur))
    <3> DEFINE d == After(cur)
    <3>1. d \in Index
      BY <1>0, Numbers
    <3>2. disk'[d] = <<>> /\ \A j \in Index : j # d => disk'[j] = disk[j]
      BY <2>3, <3>1, CreateEffect
    <3>3. /\ \A i \in Index : disk'[i] # nil =>
               \A j, k \in DOMAIN disk'[i] : j < k => disk'[i][j] < disk'[i][k]
          /\ \A i \in Index : Bytes(i)' \subseteq 1 .. logged'
      BY <2>1, <3>1, <3>2, SortedCreate
    <3>4. ASSUME NEW top \in Index, top = cur PROVE Ordered(After(top))' /\ NoHole'
      <4>1. Bytes(After(top))' = {} /\ \A j \in Index : j # After(top) => Bytes(j)' = Bytes(j)
        BY <2>1, <3>1, <3>2, <3>4, SortedCreate
      <4>2. Ordered(top) /\ NoHole
        BY <2>1, <3>4 DEF ContentInv, Top
      <4> QED BY <2>1, <4>1, <4>2, DropOldest
    <3>5. Top' = After(cur)
      BY <2>1, <2>3 DEF Top
    <3>6. Ordered(Top)' /\ NoHole'
      BY <1>0, <3>4, <3>5 DEF Ordered
    <3> QED BY <3>3, <3>6 DEF ContentInv
  <2> QED BY <2>1, <2>2, <2>3
<1>5. CASE Clear
  <2>1. UNCHANGED <<disk, logged, wiped, cur, wpc>> /\ cpc' = "remove"
    BY <1>5 DEF Clear
  <2> QED BY <2>1, ContentSame DEF Top
<1>6. CASE ClearRemove
  <2>1. cpc = "remove" /\ ci <= cur /\ ci \in Index /\ UNCHANGED <<cur, wpc, logged, wiped>>
    BY <1>6, RemoveEffect DEF ClearRemove
  <2>2. disk[ci] # nil
    BY <1>0, <2>1 DEF CurrentInv
  <2>3. disk'[ci] = nil /\ (\A j \in Index : j # ci => disk'[j] = disk[j]) /\ UNCHANGED cpc
    BY <1>6, <2>2, RemoveEffect
  <2>4. /\ \A i \in Index : disk'[i] # nil =>
             \A j, k \in DOMAIN disk'[i] : j < k => disk'[i][j] < disk'[i][k]
        /\ \A i \in Index : Bytes(i)' \subseteq 1 .. logged'
    BY <2>1, <2>3, SortedCreate
  <2>5. \A i \in Index : Bytes(i)' \subseteq Bytes(i)
    BY <2>1, <2>3, SameBytes
  <2>6. Top' = Top
    BY <2>1 DEF Top
  <2>7. Ordered(Top)'
    BY <2>5, <2>6 DEF ContentInv, Ordered
  <2> QED BY <2>1, <2>3, <2>4, <2>7 DEF ContentInv
<1>7. CASE ClearFirst
  <2>1. /\ cpc = "remove" /\ cpc' = "close" /\ cur' = 0 /\ ~(ci < Backups /\ ci <= cur)
        /\ UNCHANGED <<disk, logged, wiped, wpc>>
    BY <1>7 DEF ClearFirst
  <2>2. cur < ci /\ wpc = "idle"
    BY <1>0, <2>1, Excluded
  <2>3. Top = cur /\ Top' = 0
    BY <2>1, <2>2 DEF Top
  <2>4. \A i \in Index : i < ci => Bytes(i) = {}
    BY <2>1 DEF CurrentInv, Bytes
  <2>5. \A i \in Index : Bytes(i)' = Bytes(i)
    BY <2>1, SameBytes
  <2>6. Ordered(Top)'
    <3> SUFFICES ASSUME NEW i \in Index, NEW j \in Index, Age(j, 0) < Age(i, 0),
                        NEW b \in Bytes(i)', NEW c \in Bytes(j)'
                 PROVE  b < c
      BY <2>3 DEF Ordered
    <3>1. ~(i < ci) /\ ~(j < ci)
      BY <2>4, <2>5
    <3>2. Age(j, cur) < Age(i, cur)
      BY <1>0, <2>2, <3>1 DEF Age
    <3> QED BY <2>3, <2>5, <3>2 DEF ContentInv, Ordered
  <2>7. \A i \in Index : Bytes(i)' \subseteq 1 .. logged'
    BY <2>1, <2>5 DEF ContentInv
  <2> QED BY <2>1, <2>6, <2>7 DEF ContentInv
<1>8. CASE ClearClose
  <2>1. UNCHANGED <<disk, logged, wiped, cur, wpc>> /\ cpc' = "create"
    BY <1>8 DEF ClearClose, CloseFile
  <2> QED BY <2>1, ContentSame DEF Top
<1>9. CASE ClearCreate
  <2>1. /\ cpc = "create" /\ CreateFile(cur) /\ UNCHANGED <<cur, wpc, logged>> /\ wiped' = logged
    BY <1>9 DEF ClearCreate
  <2>2. disk'[cur] = <<>> /\ \A j \in Index : j # cur => disk'[j] = disk[j]
    BY <1>0, <2>1, CreateEffect
  <2>3. /\ \A i \in Index : disk'[i] # nil =>
             \A j, k \in DOMAIN disk'[i] : j < k => disk'[i][j] < disk'[i][k]
        /\ \A i \in Index : Bytes(i)' \subseteq 1 .. logged'
    BY <1>0, <2>1, <2>2, SortedCreate
  <2>4. \A i \in Index : Bytes(i)' \subseteq Bytes(i)
    BY <2>2, SameBytes
  <2>5. Top' = Top
    BY <2>1 DEF Top
  <2>6. Ordered(Top)'
    BY <2>4, <2>5 DEF ContentInv, Ordered
  <2>7. \A i \in Index : \A b \in Bytes(i)' : ~(b > wiped')
    BY <1>0, <2>1, <2>3
  <2>8. NoHole'
    BY <2>7 DEF NoHole
  <2> QED BY <2>3, <2>6, <2>8 DEF ContentInv
<1>10. CASE Rotate
  <2>1. UNCHANGED <<disk, logged, wiped, cpc>> /\ cur' = After(cur) /\ wpc = "next" /\ wpc' = "close"
    BY <1>10 DEF Rotate
  <2>2. After(cur) = IF cur = Backups - 1 THEN 0 ELSE cur + 1
    BY <1>0, Numbers
  <2>3. Top' = Top
    BY <1>0, <2>1, <2>2 DEF Top
  <2> QED BY <2>1, <2>3, ContentSame
<1>11. CASE RotateClose
  <2>1. UNCHANGED <<disk, logged, wiped, cur, cpc>> /\ wpc = "close" /\ wpc' = "create"
    BY <1>11 DEF RotateClose, CloseFile
  <2> QED BY <2>1, ContentSame DEF Top
<1>12. CASE RotateCreate
  <2>1. wpc = "create" /\ wpc' = "idle" /\ CreateFile(cur) /\ UNCHANGED <<cur, cpc, logged, wiped>>
    BY <1>12 DEF RotateCreate
  <2>2. disk'[cur] = <<>> /\ \A j \in Index : j # cur => disk'[j] = disk[j]
    BY <1>0, <2>1, CreateEffect
  <2>3. /\ \A i \in Index : disk'[i] # nil =>
             \A j, k \in DOMAIN disk'[i] : j < k => disk'[i][j] < disk'[i][k]
        /\ \A i \in Index : Bytes(i)' \subseteq 1 .. logged'
    BY <1>0, <2>1, <2>2, SortedCreate
  <2>4. cpc = "idle"
    BY <2>1, Excluded
  <2>5. ASSUME NEW top \in Index, top = Top, After(top) = cur PROVE Ordered(After(top))' /\ NoHole'
    <3>1. Bytes(After(top))' = {} /\ \A j \in Index : j # After(top) => Bytes(j)' = Bytes(j)
      BY <1>0, <2>1, <2>2, <2>5, SortedCreate
    <3>2. Ordered(top) /\ NoHole
      BY <2>4, <2>5 DEF ContentInv
    <3> QED BY <2>1, <3>1, <3>2, DropOldest
  <2>6. Top \in Index /\ After(Top) = cur
    <3>1. Top = IF cur = 0 THEN Backups - 1 ELSE cur - 1
      BY <2>1 DEF Top
    <3>2. Top \in 0 .. Backups - 1
      BY <1>0, <3>1
    <3> QED BY <1>0, <3>1, <3>2, Numbers
  <2>7. Top' = cur
    BY <2>1 DEF Top
  <2>8. Ordered(Top)' /\ NoHole'
    BY <2>5, <2>6, <2>7 DEF Ordered
  <2> QED BY <2>3, <2>8 DEF ContentInv
<1> QED BY <1>1, <1>2, <1>3, <1>4, <1>5, <1>6, <1>7, <1>8, <1>9, <1>10, <1>11, <1>12
        DEF Next, vars, logVars, ProgramWrites, CaptureRead, NoMessage, Message,
            LogRequests, LogStep, ReadTailLog

\* Every step of a log that can be followed keeps what is still to be read newer than what was read.
LEMMA TailStep ==
  ASSUME FilesInv, PhaseInv, CurrentInv, ContentInv, TailInv, [Next]_vars, Safe'
  PROVE  TailInv'
<1>0. /\ cur \in Index /\ logged \in Nat /\ got \in Nat /\ tail \in Nat
      /\ disk \in [Index -> Seq(Nat) \cup {nil}]
  BY DEF FilesInv, LogTypeOK
<1>e. DOMAIN <<>> = {}
  OBVIOUS
<1>1. CASE UNCHANGED <<mutex, disk, cur, tail, logged, got, wpc, cpc>>
  BY <1>1 DEF TailInv, Writing
<1>2. CASE UnderlineWrite
  <2> DEFINE n == chunk
             L == Len(disk[cur])
  <2>1. cpc = "idle" /\ wpc = "idle" /\ file = cur /\ Write(chunk) /\ n \in Nat
    BY <1>2, WriteFinds
  <2>2. /\ logged' = logged + n /\ cur' = cur
        /\ L \in Nat /\ DOMAIN disk[cur] = 1 .. L /\ DOMAIN disk'[cur] = 1 .. L + n
        /\ \A k \in 1 .. L : disk'[cur][k] = disk[cur][k]
        /\ \A k \in 1 .. n : disk'[cur][L + k] = logged + k
    BY <1>0, <2>1, WriteEffect
  <2>3. UNCHANGED <<mutex, got, tail>>
    BY <2>1 DEF Write
  <2> HIDE DEF n, L
  <2> SUFFICES ASSUME ~mutex
               PROVE  /\ got <= logged'
                      /\ \A k \in DOMAIN disk'[cur] : k > tail => disk'[cur][k] > got
    BY <2>2, <2>3 DEF TailInv
  <2>4. got <= logged /\ \A k \in 1 .. L : k > tail => disk[cur][k] > got
    BY <2>1, <2>2 DEF TailInv, Writing
  <2>5. got <= logged'
    BY <1>0, <2>1, <2>2, <2>4
  <2>6. ASSUME NEW k \in 1 .. L + n, k > tail PROVE disk'[cur][k] > got
    <3>1. CASE k \in 1 .. L
      BY <2>2, <2>4, <2>6, <3>1
    <3>2. CASE k \notin 1 .. L
      <4>1. k - L \in 1 .. n /\ L + (k - L) = k
        BY <2>1, <2>2, <3>2
      <4>2. disk'[cur][L + (k - L)] = logged + (k - L)
        BY <2>2, <4>1
      <4>3. disk'[cur][k] = logged + (k - L)
        BY <4>1, <4>2
      <4> QED BY <1>0, <2>4, <4>1, <4>3
    <3> QED BY <3>1, <3>2
  <2> QED BY <2>2, <2>5, <2>6
<1>3. CASE UnderlineAccount
  <2>1. UNCHANGED <<mutex, disk, cur, tail, logged, got, cpc>> /\ wpc = "account"
    BY <1>3 DEF UnderlineAccount, Account
  <2> QED BY <2>1 DEF TailInv, Writing
<1>4. CASE Restart
  <2>1. /\ cpc = "idle" /\ wpc = "idle"
        /\ \/ cur' = After(cur) /\ CreateFile(After(cur))
           \/ cur' = cur /\ file' = cur /\ UNCHANGED <<disk, recent>>
        /\ UNCHANGED <<mutex, tail, logged, got>>
    BY <1>4, RestartFinds
  <2>2. CASE cur' = cur /\ UNCHANGED disk
    BY <2>1, <2>2 DEF TailInv, Writing
  <2>3. CASE cur' = After(cur) /\ CreateFile(After(cur))
    <3>1. disk'[cur'] = <<>>
      BY <1>0, <2>3, CreateEffect, Numbers
    <3> QED BY <1>e, <2>1, <3>1 DEF TailInv
  <2> QED BY <2>1, <2>2, <2>3
<1>5. CASE RotateCreate \/ ClearCreate
  <2>1. CreateFile(cur) /\ UNCHANGED <<mutex, cur, tail, logged, got>>
    BY <1>5 DEF RotateCreate, ClearCreate
  <2>2. disk'[cur'] = <<>>
    BY <1>0, <2>1, CreateEffect
  <2> QED BY <1>e, <2>1, <2>2 DEF TailInv
<1>6. CASE ReadTailLog
  <2> DEFINE n == Len(disk[cur])
  <2>1. ~mutex /\ disk[cur] # nil /\ UNCHANGED <<mutex, disk, cur, logged, wpc, cpc>>
    BY <1>6 DEF ReadTailLog
  <2>2. disk[cur] \in Seq(Nat) /\ n \in Nat /\ DOMAIN disk[cur] = 1 .. n /\ TailLength \subseteq Nat
    BY <1>0, <2>1, LenProperties, FileLoggerAssumption
  <2>3. PICK length \in TailLength :
          LET to == IF tail + length > n THEN n ELSE tail + length
          IN  tail' = to /\ got' = IF tail < to /\ disk[cur][to] > got THEN disk[cur][to] ELSE got
    BY <1>6 DEF ReadTailLog
  <2> DEFINE to == IF tail + length > n THEN n ELSE tail + length
  <2> HIDE DEF n
  <2>4. to \in Nat /\ to <= n /\ length \in Nat
    BY <1>0, <2>2
  <2>5. CASE tail < to
    <3>1. to \in 1 .. n /\ tail' = to
      BY <1>0, <2>2, <2>3, <2>4, <2>5
    <3>2. disk[cur][to] \in 1 .. logged
      BY <1>0, <2>1, <2>2, <3>1 DEF ContentInv, Bytes
    <3>3. got' \in {got, disk[cur][to]} /\ got' <= logged /\ got' \in Nat
      BY <1>0, <2>1, <2>3, <3>2 DEF TailInv
    <3>4. ASSUME Writing PROVE \A k \in 1 .. n : k > tail' => disk[cur][k] > got'
      <4>1. \A k \in 1 .. n : k > to => disk[cur][to] < disk[cur][k] /\ disk[cur][k] \in Nat
        BY <1>0, <2>1, <2>2, <3>1, ElementOfSeq DEF ContentInv
      <4>2. disk[cur][to] > got
        BY <2>1, <2>2, <2>5, <3>1, <3>4 DEF TailInv
      <4> QED BY <1>0, <3>1, <3>2, <3>3, <4>1, <4>2
    <3> QED BY <2>1, <2>2, <3>3, <3>4 DEF TailInv, Writing
  <2>6. CASE ~(tail < to)
    <3>1. tail' = to /\ got' = got
      BY <2>3, <2>6
    <3>2. to = tail \/ to = n
      BY <1>0, <2>2, <2>4, <2>6
    <3>3. CASE to = tail
      BY <2>1, <3>1, <3>3 DEF TailInv, Writing
    <3>4. CASE to = n
      <4>1. \A k \in DOMAIN disk[cur] : ~(k > tail')
        BY <2>2, <3>1, <3>4
      <4> QED BY <2>1, <3>1, <4>1 DEF TailInv
    <3> QED BY <3>2, <3>3, <3>4
  <2> QED BY <2>5, <2>6
<1>7. CASE Clear \/ ClearFirst \/ ClearClose \/ Rotate \/ RotateClose
  <2>1. UNCHANGED <<mutex, logged, got>> /\ ~Writing'
    BY <1>7, Excluded DEF Clear, ClearFirst, ClearClose, Rotate, RotateClose, Writing
  <2> QED BY <2>1 DEF TailInv
<1>8. CASE ClearRemove
  <2>1. cpc = "remove" /\ ci <= cur /\ ci \in Index /\ UNCHANGED <<mutex, logged, got>>
    BY <1>8, RemoveEffect DEF ClearRemove
  <2>2. disk[ci] # nil
    BY <2>1, Numbers DEF CurrentInv
  <2>3. cpc' = "remove"
    BY <1>8, <2>1, <2>2, RemoveEffect
  <2> QED BY <2>1, <2>3 DEF TailInv, Writing
<1> QED BY <1>1, <1>2, <1>3, <1>4, <1>5, <1>6, <1>7, <1>8
        DEF Next, vars, logVars, ProgramWrites, CaptureRead, NoMessage, Message, LogRequests, LogStep

\* Every step keeps LogInv. A NullLocker that has let a clear in protects no more.
LEMMA LogStepInv ==
  ASSUME LogInv, [Next]_vars
  PROVE  LogInv'
<1>1. ASSUME Safe' PROVE Safe
  <2>1. mutex' = mutex
    BY DEF Next, vars, logVars, ProgramWrites, UnderlineWrite, Write, UnderlineAccount, Account, Restart,
           NewFileLogger, CaptureRead, NoMessage, Message, LogRequests, Clear, ReadTailLog, LogStep,
           Rotate, RotateClose, RotateCreate, ClearRemove, ClearFirst, ClearClose, ClearCreate
  <2>2. clears' = clears \/ clears' = clears + 1
    BY DEF Next, vars, logVars, ProgramWrites, UnderlineWrite, Write, UnderlineAccount, Account, Restart,
           NewFileLogger, CaptureRead, NoMessage, Message, LogRequests, Clear, ReadTailLog, LogStep,
           Rotate, RotateClose, RotateCreate, ClearRemove, ClearFirst, ClearClose, ClearCreate
  <2>3. clears \in Nat
    BY FileLoggerAssumption DEF LogInv, FilesInv, LogTypeOK
  <2> QED BY <1>1, <2>1, <2>2, <2>3 DEF Safe
<1> QED BY <1>1, FilesStep, ControlStep, ContentStep, TailStep DEF LogInv

\* LogInv holds at the start.
LEMMA LogInitInv == Init => LogInv
<1> SUFFICES ASSUME Init PROVE LogInv
  OBVIOUS
<1>1. /\ locker = nil /\ cur = 0 /\ file = 0 /\ wpc = "idle" /\ cpc = "idle"
      /\ recent = <<0>> /\ logged = 0 /\ got = 0 /\ wiped = 0
      /\ disk = [i \in Index |-> IF i = 0 THEN <<>> ELSE nil]
  BY DEF Init, LogInit
<1>2. recent # <<>> /\ recent[Len(recent)] = 0
  BY <1>1
<1>3. PhaseInv /\ CurrentInv
  <2>1. \A i \in Index : ~(i < 0)
    BY Numbers
  <2> QED BY <1>1, <1>2, <2>1 DEF PhaseInv, CurrentInv, Writing
<1>4. DOMAIN <<>> = {}
  OBVIOUS
<1>5. \A i \in Index : Bytes(i) = {} /\ (disk[i] # nil => DOMAIN disk[i] = {})
  BY <1>1, <1>4 DEF Bytes
<1>6. ContentInv
  BY <1>5 DEF ContentInv, Ordered, NoHole
<1>7. TailInv
  BY <1>1, <1>4, Numbers DEF TailInv
<1> QED BY <1>3, <1>6, <1>7, FilesInit DEF LogInv

\* LogInv implies NoGap.
LEMMA NoGapFollows ==
  ASSUME LogInv
  PROVE  NoGap
<1> SUFFICES ASSUME IF mutex THEN cpc = "idle" ELSE clears = 0,
                    NEW b \in Retained, NEW k \in b .. logged
             PROVE  k \in Retained
  BY DEF NoGap
<1>1. /\ FilesInv /\ PhaseInv /\ ContentInv
  BY DEF LogInv, Safe
<1>2. cpc = "idle"
  BY <1>1 DEF PhaseInv
<1>3. ASSUME NEW x PROVE x \in Retained <=> (x > wiped /\ \E i \in Index : x \in Bytes(i))
  BY DEF Retained, Bytes
<1>4. PICK i \in Index : b \in Bytes(i) /\ b > wiped
  BY <1>3
<1>5. b \in 1 .. logged /\ logged \in Nat /\ wiped \in Nat
  BY <1>1, <1>4 DEF ContentInv, FilesInv, LogTypeOK
<1>6. \E j \in Index : k \in Bytes(j)
  BY <1>1, <1>2, <1>4 DEF ContentInv, NoHole
<1>7. k > wiped
  BY <1>4, <1>5
<1> QED BY <1>3, <1>6, <1>7

\* Rotation and restarts drop the oldest bytes only, for every number and size of the files:
\* nothing is missing between the first byte kept and the last one written (nextLogFile,
\* openFile, updateLatestLog, ClearAllLogFile).
THEOREM NoGapAlways == Spec => []NoGap
<1>1. LogInv => NoGap
  BY NoGapFollows
<1>2. LogInv /\ [Next]_vars => LogInv'
  BY LogStepInv
<1> QED BY <1>1, <1>2, LogInitInv, PTL DEF Spec

\* A client that follows a program's log is never given a byte again while the log is
\* rotated and reopened, for every number and size of the files, as long as nobody
\* clears it and it is not answered in the middle of a rotation (ReadTailLog).
THEOREM TailAdvancesAlways == Spec => TailAdvances
<1>1. LogInv /\ [Next]_vars =>
        [~mutex /\ clears = 0 /\ wpc \notin {"close", "create"} /\ tail' > tail =>
           disk[cur][tail + 1] > got]_logVars
  <2> SUFFICES ASSUME LogInv, [Next]_vars, ~mutex, clears = 0, wpc \notin {"close", "create"},
                      tail' > tail
               PROVE  disk[cur][tail + 1] > got
    OBVIOUS
  <2>0. /\ FilesInv /\ PhaseInv /\ TailInv /\ cur \in Index /\ tail \in Nat
        /\ disk \in [Index -> Seq(Nat) \cup {nil}]
    BY DEF LogInv, Safe, FilesInv, LogTypeOK
  <2>1. ReadTailLog
    <3>1. tail' = tail \/ ReadTailLog
      BY DEF Next, vars, logVars, ProgramWrites, UnderlineWrite, Write, UnderlineAccount, Account,
             Restart, NewFileLogger, CaptureRead, NoMessage, Message, LogRequests, Clear, LogStep,
             Rotate, RotateClose, RotateCreate, ClearRemove, ClearFirst, ClearClose, ClearCreate
    <3> QED BY <2>0, <3>1
  <2>2. disk[cur] # nil
    BY <2>1 DEF ReadTailLog
  <2>3. Writing
    BY <2>0 DEF PhaseInv, Writing, FilesInv, LogTypeOK
  <2>4. disk[cur] \in Seq(Nat) /\ Len(disk[cur]) \in Nat /\ DOMAIN disk[cur] = 1 .. Len(disk[cur])
    BY <2>0, <2>2, LenProperties
  <2>5. tail' <= Len(disk[cur]) /\ tail' \in Nat
    <3>1. PICK length \in TailLength :
            tail' = IF tail + length > Len(disk[cur]) THEN Len(disk[cur]) ELSE tail + length
      BY <2>1 DEF ReadTailLog
    <3>2. length \in Nat
      BY FileLoggerAssumption
    <3> QED BY <2>0, <2>4, <3>1, <3>2
  <2>6. tail + 1 \in DOMAIN disk[cur] /\ tail + 1 > tail
    BY <2>0, <2>4, <2>5
  <2> QED BY <2>0, <2>3, <2>6 DEF TailInv
<1>2. LogInv /\ [Next]_vars => LogInv'
  BY LogStepInv
<1> QED BY <1>1, <1>2, LogInitInv, PTL DEF Spec, TailAdvances

-----------------------------------------------------------------------------
(* The capture *)

\* A set of natural numbers has a least one, which is its Min.
LEMMA MinIsLeast ==
  ASSUME NEW S \in SUBSET Nat, S # {}
  PROVE  Min(S) \in S /\ \A y \in S : Min(S) <= y
<1> DEFINE R == {ss \in Nat \X Nat : ss[1] < ss[2]}
<1>1. IsWellFoundedOn(R, Nat)
  BY NatLessThanWellFounded DEF OpToRel
<1>2. \A x, y \in Nat : <<y, x>> \in R <=> y < x
  OBVIOUS
<1> HIDE DEF R
<1>3. PICK x \in S : \A y \in S : ~(<<y, x>> \in R)
  BY <1>1, WFMin
<1>4. ASSUME NEW y \in S PROVE x <= y
  <2>1. x \in Nat /\ y \in Nat
    OBVIOUS
  <2>2. ~(y < x)
    BY <1>2, <1>3, <2>1
  <2> QED BY <2>1, <2>2
<1> QED BY <1>4 DEF Min

Begins == MarkAt(BEGIN_STR)
Ends == MarkAt(END_STR)

\* Marks do not overlap: a BEGIN and an END have no token in common.
LEMMA MarksApart ==
  ASSUME output \in Seq({"B1", "B2", "E1", "E2", "d"})
  PROVE  /\ Begins \subseteq Nat /\ Ends \subseteq Nat
         /\ \A b \in Begins, e \in Ends : b + 1 < e \/ e + 1 < b
         /\ \A e \in Begins \cup Ends : e + 1 <= Len(output)
<1>1. \A b \in Begins : /\ b \in Nat /\ b + 1 \in Nat /\ b + 1 <= Len(output)
                        /\ output[b] = "B1" /\ output[b + 1] = "B2"
  BY DEF Begins, MarkAt, BEGIN_STR
<1>2. \A e \in Ends : /\ e \in Nat /\ e + 1 \in Nat /\ e + 1 <= Len(output)
                      /\ output[e] = "E1" /\ output[e + 1] = "E2"
  BY DEF Ends, MarkAt, END_STR
<1> QED BY <1>1, <1>2

\* What StrIndex finds in the part of the output that comes after place base.
LEMMA StrIndexFinds ==
  ASSUME output \in Seq({"B1", "B2", "E1", "E2", "d"}),
         NEW s \in Seq(Nat), NEW base \in Nat, NEW mark \in {BEGIN_STR, END_STR},
         \A k \in DOMAIN s : s[k] = base + k, base + Len(s) <= Len(output)
  PROVE  LET x == StrIndex(s, mark)
         IN  \/ x = -1 /\ \A c \in MarkAt(mark) : ~(base < c /\ c + 1 <= base + Len(s))
             \/ /\ x \in Nat /\ x + 2 <= Len(s) /\ base + x + 1 \in MarkAt(mark)
                /\ \A c \in MarkAt(mark) : base < c => base + x + 1 <= c
<1> DEFINE at == {i \in 0 .. Len(s) - Len(mark) :
                    \A k \in 1 .. Len(mark) : output[s[i + k]] = mark[k]}
<1>1. Len(mark) = 2
  BY DEF BEGIN_STR, END_STR
<1>2. \A i \in 0 .. Len(s) - 2 : i \in at <=> base + i + 1 \in MarkAt(mark)
  <2> SUFFICES ASSUME NEW i \in 0 .. Len(s) - 2
               PROVE  i \in at <=> base + i + 1 \in MarkAt(mark)
    OBVIOUS
  <2>1. s[i + 1] = base + i + 1 /\ s[i + 2] = base + i + 2
    <3>1. i + 1 \in DOMAIN s /\ i + 2 \in DOMAIN s
      OBVIOUS
    <3>2. base + (i + 1) = base + i + 1 /\ base + (i + 2) = base + i + 2
      OBVIOUS
    <3> QED BY <3>1, <3>2
  <2>k. 1 .. Len(mark) = {1, 2}
    BY <1>1
  <2>2. i \in at <=> output[base + i + 1] = mark[1] /\ output[base + i + 2] = mark[2]
    <3>1. i \in at <=> \A k \in {1, 2} : output[s[i + k]] = mark[k]
      BY <1>1, <2>k
    <3> QED BY <2>1, <3>1
  <2>3. base + i + 1 \in MarkAt(mark)
          <=> output[base + i + 1] = mark[1] /\ output[base + i + 2] = mark[2]
    <3> DEFINE p == base + i + 1
    <3>1. p \in 1 .. Len(output) - Len(mark) + 1 /\ p + 1 - 1 = p /\ p + 2 - 1 = base + i + 2
      BY <1>1
    <3>2. p \in MarkAt(mark) <=> \A k \in {1, 2} : output[p + k - 1] = mark[k]
      BY <2>k, <3>1 DEF MarkAt
    <3> QED BY <3>1, <3>2
  <2> QED BY <2>2, <2>3
<1>3. \A c \in MarkAt(mark) : c \in Nat /\ (base < c /\ c + 1 <= base + Len(s) => c - base - 1 \in at)
  <2> SUFFICES ASSUME NEW c \in MarkAt(mark)
               PROVE  c \in Nat /\ (base < c /\ c + 1 <= base + Len(s) => c - base - 1 \in at)
    OBVIOUS
  <2>1. c \in Nat
    BY DEF MarkAt
  <2>2. CASE base < c /\ c + 1 <= base + Len(s)
    <3>1. c - base - 1 \in 0 .. Len(s) - 2 /\ base + (c - base - 1) + 1 = c
      BY <2>1, <2>2
    <3> QED BY <1>2, <2>1, <3>1
  <2> QED BY <2>1, <2>2
<1>4. at \in SUBSET Nat /\ at \subseteq 0 .. Len(s) - 2
  BY <1>1
<1>5. StrIndex(s, mark) = IF at = {} THEN -1 ELSE Min(at)
  BY DEF StrIndex
<1> HIDE DEF at
<1>6. CASE at = {}
  BY <1>3, <1>5, <1>6
<1>7. CASE at # {}
  <2> DEFINE x == Min(at)
  <2>1. x \in at /\ \A y \in at : x <= y
    BY <1>4, <1>7, MinIsLeast
  <2> HIDE DEF x
  <2>2. x \in Nat /\ x + 2 <= Len(s) /\ base + x + 1 \in MarkAt(mark)
    BY <1>2, <1>4, <2>1
  <2>3. \A c \in MarkAt(mark) : base < c => base + x + 1 <= c
    <3> SUFFICES ASSUME NEW c \in MarkAt(mark), base < c PROVE base + x + 1 <= c
      OBVIOUS
    <3>1. CASE c + 1 <= base + Len(s)
      <4>1. c \in Nat /\ x <= c - base - 1
        BY <1>3, <2>1, <3>1
      <4> QED BY <2>2, <4>1
    <3>2. CASE ~(c + 1 <= base + Len(s))
      BY <1>3, <2>2, <3>2
    <3> QED BY <3>1, <3>2
  <2>4. StrIndex(s, mark) = x
    BY <1>5, <1>7 DEF x
  <2> QED BY <2>2, <2>3, <2>4
<1> QED BY <1>6, <1>7

\* Up to place n every BEGIN has its END.
ClosedBefore(n) == \A c \in Begins : c <= n => EndBetween(c, n)

\* Without an END there is no further message.
LEMMA NoneNew ==
  ASSUME output \in Seq({"B1", "B2", "E1", "E2", "d"}), WellFormed,
         NEW base \in Nat, NEW n \in Nat, base <= n, ClosedBefore(base),
         \A f \in Ends : ~(base < f /\ f + 1 <= n)
  PROVE  Messages(n) = Messages(base)
<1>1. \A e \in Ends : e + 1 <= n <=> e + 1 <= base
  <2> SUFFICES ASSUME NEW e \in Ends, e + 1 <= n, ~(e + 1 <= base) PROVE FALSE
    BY MarksApart
  <2>1. e = base
    BY MarksApart
  <2>2. PICK b \in Begins : b < e /\ ~EndBetween(b, e)
    BY DEF WellFormed, Begins, Ends
  <2>3. b <= base
    BY <2>1, <2>2, MarksApart
  <2> QED BY <2>1, <2>2, <2>3 DEF ClosedBefore
<1> QED BY <1>1 DEF Messages, Ends

\* The first BEGIN and the first END after base are the marks of the next message.
LEMMA MessageFound ==
  ASSUME output \in Seq({"B1", "B2", "E1", "E2", "d"}), WellFormed,
         NEW base \in Nat, ClosedBefore(base), NEW b \in Begins, NEW e \in Ends,
         base < b, base < e,
         \A c \in Begins : base < c => b <= c, \A f \in Ends : base < f => e <= f
  PROVE  /\ b + 1 < e /\ ClosedBefore(e + 1)
         /\ Messages(e + 1) = Messages(base) \cup {<<b + 2, e - 1>>}
<1>0. Begins \subseteq Nat /\ Ends \subseteq Nat /\ b \in Nat /\ e \in Nat
  BY MarksApart
<1>1. PICK c \in Begins : c < e /\ ~EndBetween(c, e)
  BY DEF WellFormed, Begins, Ends
<1>2. base < c
  <2> SUFFICES ASSUME c <= base PROVE FALSE
    BY <1>0
  <2>1. PICK f \in Ends : c < f /\ f < base
    BY DEF ClosedBefore, EndBetween, Ends
  <2> QED BY <1>0, <1>1, <2>1 DEF EndBetween, Ends
<1>3. b + 1 < e
  <2>1. b < e
    BY <1>0, <1>1, <1>2
  <2> QED BY <1>0, <2>1, MarksApart
<1>4. ClosedBefore(e + 1)
  <2> SUFFICES ASSUME NEW d \in Begins, d <= e + 1 PROVE EndBetween(d, e + 1)
    BY DEF ClosedBefore
  <2>1. d < e
    BY <1>0, MarksApart
  <2> QED BY <1>0, <2>1 DEF EndBetween, Ends
<1>5. IsMessage(b, e)
  <2>1. ~EndBetween(b, e)
    <3> SUFFICES ASSUME NEW f \in Ends, b < f, f < e PROVE FALSE
      BY DEF EndBetween, Ends
    <3> QED BY <1>0
  <2>2. ASSUME NEW d \in Begins, d < b PROVE EndBetween(d, b)
    <3>1. d <= base
      BY <1>0, <2>2
    <3>2. PICK f \in Ends : d < f /\ f < base
      BY <3>1 DEF ClosedBefore, EndBetween, Ends
    <3> QED BY <1>0, <3>2 DEF EndBetween, Ends
  <2> QED BY <1>0, <1>3, <2>1, <2>2 DEF IsMessage, Begins
<1>6. ASSUME NEW d \in Begins, NEW f \in Ends, IsMessage(d, f), f + 1 <= e + 1, ~(f + 1 <= base)
      PROVE  d = b /\ f = e
  <2>1. d < f /\ ~EndBetween(d, f) /\ d \in Nat /\ f \in Nat
    BY <1>0, <1>6 DEF IsMessage
  <2>2. base < d
    <3> SUFFICES ASSUME d <= base PROVE FALSE
      BY <1>0, <2>1
    <3>1. PICK g \in Ends : d < g /\ g < base
      BY DEF ClosedBefore, EndBetween, Ends
    <3> QED BY <1>0, <1>6, <2>1, <3>1 DEF EndBetween, Ends
  <2>3. f = e
    BY <1>0, <1>6, <2>1, <2>2
  <2>4. ~(b < d)
    <3> SUFFICES ASSUME b < d PROVE FALSE
      OBVIOUS
    <3>1. PICK g \in Ends : b < g /\ g < d
      BY <1>6 DEF IsMessage, EndBetween, Begins, Ends
    <3> QED BY <1>0, <2>1, <2>3, <3>1
  <2> QED BY <1>0, <2>1, <2>2, <2>3, <2>4
<1>7. \A x \in Begins \X Ends :
        IsMessage(x[1], x[2]) /\ x[2] + 1 <= e + 1
          <=> (IsMessage(x[1], x[2]) /\ x[2] + 1 <= base) \/ x = <<b, e>>
  <2> SUFFICES ASSUME NEW d \in Begins, NEW f \in Ends
               PROVE  IsMessage(d, f) /\ f + 1 <= e + 1
                        <=> (IsMessage(d, f) /\ f + 1 <= base) \/ (d = b /\ f = e)
    OBVIOUS
  <2> QED BY <1>0, <1>5, <1>6
<1>8. {x \in Begins \X Ends : IsMessage(x[1], x[2]) /\ x[2] + 1 <= e + 1}
        = {x \in Begins \X Ends : IsMessage(x[1], x[2]) /\ x[2] + 1 <= base} \cup {<<b, e>>}
  BY <1>7
<1>9. Messages(e + 1) = Messages(base) \cup {<<b + 2, e - 1>>}
  <2> DEFINE Upto(n) == {x \in Begins \X Ends : IsMessage(x[1], x[2]) /\ x[2] + 1 <= n}
  <2>1. \A n : Messages(n) = {<<m[1] + 2, m[2] - 1>> : m \in Upto(n)}
    BY DEF Messages, Begins, Ends
  <2>2. Upto(e + 1) = Upto(base) \cup {<<b, e>>}
    BY <1>8
  <2> HIDE DEF Upto
  <2>3. <<b, e>>[1] = b /\ <<b, e>>[2] = e
    OBVIOUS
  <2>4. {<<m[1] + 2, m[2] - 1>> : m \in Upto(base) \cup {<<b, e>>}}
          = {<<m[1] + 2, m[2] - 1>> : m \in Upto(base)} \cup {<<b + 2, e - 1>>}
    BY <2>3, Zenon
  <2> QED BY <2>1, <2>2, <2>4
<1> QED BY <1>3, <1>4, <1>9

\* The tokens the capture has read, and those of them that left its buffer.
Read == written - Len(pipe)
Base == Read - Len(buffer)

CaptureType ==
  /\ output \in Seq({"B1", "B2", "E1", "E2", "d"})
  /\ written \in Nat /\ written <= Len(output)
  /\ pipe \in Seq(Nat) /\ buffer \in Seq(Nat) /\ emitted \in Seq(Nat \X Int)
  /\ gpc \in {"read", "scan"} /\ discarded \in BOOLEAN
  /\ wpc # "idle" \/ chunk = 0 => pipe = <<>>
  /\ mutex => pipe = <<>> /\ buffer = <<>> /\ gpc = "read"

\* b is the offset of the first BEGIN in the buffer.
FirstBegin(b) ==
  /\ b \in Nat /\ b + 2 <= Len(buffer) /\ Base + b + 1 \in Begins
  /\ \A c \in Begins : Base < c => Base + b + 1 <= c

\* The buffer and the pipe hold the tokens before and after place Read.
Places ==
  /\ Base \in Nat
  /\ \A k \in DOMAIN buffer : buffer[k] = Base + k
  /\ \A k \in DOMAIN pipe : pipe[k] = Read + k
  /\ begin # -1 => FirstBegin(begin)

\* None of the marks lies within the buffer.
NoneIn(marks) == \A c \in marks : ~(Base < c /\ c + 1 <= Read)

\* What has left the buffer are whole messages and text between them; nothing is left
\* to be found in it when the capture reads.
ScanInv ==
  /\ ~panicked
  /\ ClosedBefore(Base)
  /\ gpc = "read" => IF begin = -1 THEN NoneIn(Begins) ELSE NoneIn(Ends)
  /\ {emitted[i] : i \in DOMAIN emitted} = Messages(Base)
  /\ \A i \in DOMAIN emitted : emitted[i][2] + 2 <= Base
  /\ \A i, j \in DOMAIN emitted : i < j => emitted[i][2] < emitted[j][1]

CaptureInv == CaptureType /\ Places /\ (~mutex /\ WellFormed /\ ~discarded => ScanInv)

\* The output of a program does not change.
LEMMA OutputKept ==
  ASSUME output' = output
  PROVE  /\ Begins' = Begins /\ Ends' = Ends /\ WellFormed' = WellFormed
         /\ ClosedBefore(Base)' <=> ClosedBefore(Base')
         /\ Messages(Base)' = Messages(Base')
<1>1. MarkAt(BEGIN_STR)' = MarkAt(BEGIN_STR) /\ MarkAt(END_STR)' = MarkAt(END_STR)
  BY DEF MarkAt
<1>2. Begins' = Begins /\ Ends' = Ends
  BY <1>1 DEF Begins, Ends
<1>3. WellFormed' = WellFormed
  BY <1>1 DEF WellFormed, EndBetween
<1>4. ClosedBefore(Base)' <=> ClosedBefore(Base')
  BY <1>1, <1>2 DEF ClosedBefore, EndBetween
<1>5. Messages(Base)' = Messages(Base')
  BY <1>1 DEF Messages, IsMessage, EndBetween
<1> QED BY <1>2, <1>3, <1>4, <1>5

\* A step that leaves the capture alone.
LEMMA CaptureAlone ==
  ASSUME CaptureInv, pipe' = <<>> \/ (chunk' = chunk /\ (wpc' = wpc \/ wpc' = "idle")),
         UNCHANGED <<mutex, output, written, pipe, gpc, buffer, begin, emitted, discarded, panicked>>
  PROVE  CaptureInv'
<1>1. Read' = Read /\ Base' = Base
  BY DEF Read, Base
<1>2. CaptureType'
  BY DEF CaptureInv, CaptureType
<1>3. Places'
  BY <1>1, OutputKept DEF CaptureInv, Places, FirstBegin
<1>4. ~mutex' /\ WellFormed' /\ ~discarded' => ScanInv'
  BY <1>1, OutputKept DEF CaptureInv, ScanInv, NoneIn
<1> QED BY <1>2, <1>3, <1>4 DEF CaptureInv

\* A sequence without its first n elements.
LEMMA Suffix ==
  ASSUME NEW q \in Seq(Nat), NEW n \in 0 .. Len(q), NEW t, t = SubSeq(q, n + 1, Len(q))
  PROVE  /\ t \in Seq(Nat) /\ Len(t) = Len(q) - n /\ DOMAIN t = 1 .. Len(q) - n
         /\ \A k \in 1 .. Len(q) - n : t[k] = q[n + k]
<1> DEFINE m == n + 1
           l == Len(q)
<1>1. /\ m \in Int /\ l \in Int /\ l - m + 1 = l - n
      /\ (IF m <= l THEN l - m + 1 ELSE 0) = l - n
      /\ \A k \in 1 .. l - n : m + k - 1 = n + k
  OBVIOUS
<1>2. \A i \in m .. l : q[i] \in Nat
  OBVIOUS
<1>3. t = SubSeq(q, m, l)
  OBVIOUS
<1> HIDE DEF m, l
<1>4. /\ SubSeq(q, m, l) \in Seq(Nat)
      /\ Len(SubSeq(q, m, l)) = IF m <= l THEN l - m + 1 ELSE 0
      /\ \A i \in 1 .. l - m + 1 : SubSeq(q, m, l)[i] = q[m + i - 1]
  BY <1>1, <1>2, SubSeqProperties, SMTT(40)
<1>5. t \in Seq(Nat) /\ Len(t) = l - n /\ \A k \in 1 .. l - n : t[k] = q[n + k]
  BY <1>1, <1>3, <1>4
<1> QED BY <1>5 DEF l

\* The program writes: what the capture has read stays.
LEMMA CaptureProgramWrites ==
  ASSUME CaptureInv, ProgramLogAssumption, ProgramWrites PROVE CaptureInv'
<1>1. PICK n \in 1 .. MaxChunk :
        /\ written + n <= Len(output) /\ written' = written + n /\ chunk' = n
        /\ pipe' = IF mutex THEN <<>> ELSE [k \in 1 .. n |-> written + k]
  BY DEF ProgramWrites
<1>2. /\ n \in Nat /\ n > 0 /\ written \in Nat /\ pipe = <<>> /\ wpc = "idle"
      /\ UNCHANGED <<mutex, wpc, output, gpc, buffer, begin, emitted, discarded, panicked>>
  BY DEF ProgramLogAssumption, CaptureInv, CaptureType, ProgramWrites, logVars
<1>3. pipe' \in Seq(Nat) /\ (~mutex => Len(pipe') = n /\ \A k \in 1 .. n : pipe'[k] = written + k)
  <2>1. CASE mutex
    BY <1>1, <2>1
  <2>2. CASE ~mutex
    <3>1. pipe' = [k \in 1 .. n |-> written + k]
      BY <1>1, <2>2
    <3>2. pipe' \in [1 .. n -> Nat]
      BY <1>2, <3>1
    <3>3. pipe' \in Seq(Nat) /\ Len(pipe') = n
      BY <1>2, <3>2
    <3> QED BY <3>1, <3>3
  <2> QED BY <2>1, <2>2
<1>4. CaptureType'
  BY <1>1, <1>2, <1>3 DEF CaptureInv, CaptureType
<1>5. CASE ~mutex
  <2>1. Read = written /\ Read' = written /\ Base' = Base
    <3>1. Len(pipe) = 0
      BY <1>2
    <3> QED BY <1>1, <1>2, <1>3, <1>5, <3>1 DEF Read, Base
  <2>2. Places'
    <3>1. \A k \in DOMAIN pipe' : pipe'[k] = Read' + k
      <4>1. DOMAIN pipe' = 1 .. n
        BY <1>3, <1>5
      <4> QED BY <1>3, <1>5, <2>1, <4>1
    <3> QED BY <1>2, <2>1, <3>1, OutputKept DEF CaptureInv, Places, FirstBegin
  <2>3. ~mutex' /\ WellFormed' /\ ~discarded' => ScanInv'
    BY <1>2, <2>1, OutputKept DEF CaptureInv, ScanInv, NoneIn
  <2> QED BY <1>4, <2>2, <2>3 DEF CaptureInv
<1>6. CASE mutex
  <2>1. pipe' = <<>> /\ buffer' = <<>> /\ begin' = -1
    BY <1>1, <1>2, <1>6 DEF CaptureInv, CaptureType, Places, FirstBegin
  <2>2. Read' = written' /\ Base' = written'
    <3>1. Len(pipe') = 0 /\ Len(buffer') = 0
      BY <2>1
    <3> QED BY <1>1, <1>2, <3>1 DEF Read, Base
  <2>3. Places'
    BY <1>1, <1>2, <2>1, <2>2 DEF Places
  <2> QED BY <1>2, <1>4, <1>6, <2>3 DEF CaptureInv
<1> QED BY <1>5, <1>6

\* A restart loses what is in the buffer, which discarded says, or nothing.
LEMMA CaptureRestart ==
  ASSUME CaptureInv, Restart PROVE CaptureInv'
<1>1. /\ pipe = <<>> /\ chunk' = 0 /\ buffer' = <<>> /\ begin' = -1
      /\ discarded' = (discarded \/ buffer # <<>>)
      /\ UNCHANGED <<mutex, output, written, pipe, gpc, emitted, panicked>>
  BY DEF Restart, NewFileLogger
<1>2. CaptureType'
  BY <1>1 DEF CaptureInv, CaptureType
<1>3. written \in Nat /\ Read = written /\ Read' = written /\ Base' = written
  <2>1. Len(pipe) = 0 /\ Len(buffer') = 0 /\ written \in Nat
    BY <1>1 DEF CaptureInv, CaptureType
  <2> QED BY <1>1, <2>1 DEF Read, Base
<1>4. Places'
  BY <1>1, <1>3 DEF Places
<1>5. ASSUME ~mutex', WellFormed', ~discarded' PROVE ScanInv'
  <2>1. buffer = <<>> /\ ~discarded /\ ~mutex /\ WellFormed
    BY <1>1, <1>5, OutputKept
  <2>2. Base = written /\ begin = -1
    <3>1. Len(buffer) = 0
      BY <2>1
    <3> QED BY <1>3, <3>1 DEF Base, CaptureInv, Places, FirstBegin
  <2> QED BY <1>1, <1>3, <2>1, <2>2, OutputKept DEF CaptureInv, ScanInv, NoneIn
<1> QED BY <1>2, <1>4, <1>5 DEF CaptureInv

\* A read moves tokens from the pipe to the buffer.
LEMMA CaptureReadStep ==
  ASSUME CaptureInv, ProgramLogAssumption, CaptureRead PROVE CaptureInv'
<1> DEFINE n == IF Len(pipe) < ReadBuffer THEN Len(pipe) ELSE ReadBuffer
           s == SubSeq(pipe, 1, n)
           t == SubSeq(pipe, n + 1, Len(pipe))
<1>0. /\ CaptureType /\ Places /\ pipe \in Seq(Nat) /\ buffer \in Seq(Nat) /\ pipe # <<>>
      /\ ReadBuffer \in Nat \ {0} /\ written \in Nat
  BY DEF CaptureInv, CaptureType, CaptureRead, ProgramLogAssumption
<1>1. n \in 1 .. Len(pipe) /\ Len(pipe) \in Nat /\ Len(buffer) \in Nat
  BY <1>0
<1>2. /\ buffer' = buffer \o s /\ pipe' = t /\ gpc' = "scan"
      /\ UNCHANGED <<mutex, wpc, output, written, chunk, begin, emitted, discarded, panicked>>
  BY DEF CaptureRead, logVars
<1> HIDE DEF n
<1>3. s \in Seq(Nat) /\ Len(s) = n /\ \A k \in 1 .. n : s[k] = pipe[k]
  <2>1. 1 \in 1 .. Len(pipe) + 1 /\ n \in 0 .. Len(pipe) /\ \A k \in 1 .. n : 1 + k - 1 = k
    BY <1>1
  <2> QED BY <1>0, <1>1, <2>1, SubSeqProperties
<1>4. t \in Seq(Nat) /\ Len(t) = Len(pipe) - n /\ \A k \in 1 .. Len(pipe) - n : t[k] = pipe[n + k]
  <2>1. t = SubSeq(pipe, n + 1, Len(pipe)) /\ n \in 0 .. Len(pipe)
    BY <1>1
  <2> HIDE DEF t
  <2> QED BY <1>0, <2>1, Suffix, SMTT(40)
<1> HIDE DEF s, t
<1>5. /\ buffer' \in Seq(Nat) /\ Len(buffer') = Len(buffer) + n
      /\ \A k \in 1 .. Len(buffer) + n :
           buffer'[k] = IF k <= Len(buffer) THEN buffer[k] ELSE s[k - Len(buffer)]
  BY <1>0, <1>1, <1>2, <1>3, ConcatProperties
<1>6. Base' = Base /\ Read' = Read + n /\ Read = Base + Len(buffer) /\ Base \in Nat /\ Read \in Nat
  <2>1. Base \in Nat
    BY <1>0 DEF Places
  <2> QED BY <1>0, <1>1, <1>2, <1>4, <1>5, <2>1 DEF Base, Read
<1>7. CaptureType'
  <2>1. ~mutex /\ wpc = "idle" /\ chunk # 0
    BY <1>0 DEF CaptureType
  <2> QED BY <1>0, <1>2, <1>4, <1>5, <2>1 DEF CaptureType
<1>8. Places'
  <2>1. \A k \in DOMAIN buffer' : buffer'[k] = Base' + k
    <3> SUFFICES ASSUME NEW k \in 1 .. Len(buffer) + n PROVE buffer'[k] = Base + k
      BY <1>5, <1>6
    <3>1. CASE k <= Len(buffer)
      <4>1. k \in DOMAIN buffer
        BY <1>0, <1>1, <3>1
      <4> QED BY <1>0, <1>5, <3>1, <4>1 DEF Places
    <3>2. CASE ~(k <= Len(buffer))
      <4>1. /\ k - Len(buffer) \in 1 .. n /\ k - Len(buffer) \in DOMAIN pipe
            /\ Read + (k - Len(buffer)) = Base + k
        BY <1>0, <1>1, <1>6, <3>2
      <4>2. pipe[k - Len(buffer)] = Read + (k - Len(buffer))
        BY <1>0, <4>1 DEF Places
      <4> QED BY <1>3, <1>5, <3>2, <4>1, <4>2
    <3> QED BY <3>1, <3>2
  <2>2. \A k \in DOMAIN pipe' : pipe'[k] = Read' + k
    <3> SUFFICES ASSUME NEW k \in 1 .. Len(pipe) - n PROVE pipe'[k] = Read + n + k
      BY <1>2, <1>4, <1>6
    <3>1. n + k \in DOMAIN pipe /\ Read + (n + k) = Read + n + k
      BY <1>0, <1>1, <1>6
    <3>2. pipe[n + k] = Read + (n + k)
      BY <1>0, <3>1 DEF Places
    <3> QED BY <1>2, <1>4, <3>1, <3>2
  <2>3. begin' # -1 => FirstBegin(begin)'
    <3> SUFFICES ASSUME begin # -1 PROVE FirstBegin(begin)'
      BY <1>2
    <3>1. FirstBegin(begin)
      BY <1>0 DEF Places
    <3>2. begin + 2 <= Len(buffer')
      BY <1>1, <1>5, <3>1 DEF FirstBegin
    <3> QED BY <1>2, <1>6, <3>1, <3>2, OutputKept DEF FirstBegin
  <2> QED BY <1>6, <2>1, <2>2, <2>3 DEF Places
<1>9. ~mutex' /\ WellFormed' /\ ~discarded' => ScanInv'
  BY <1>2, <1>6, OutputKept DEF CaptureInv, ScanInv
<1> QED BY <1>7, <1>8, <1>9 DEF CaptureInv

\* The arithmetic of the places.
LEMMA PlaceNumbers ==
  ASSUME CaptureType, Places
  PROVE  /\ Base \in Nat /\ Read \in Nat /\ Len(buffer) \in Nat /\ Read = Base + Len(buffer)
         /\ Read <= Len(output) /\ Begins \subseteq Nat /\ Ends \subseteq Nat
<1>1. Base \in Nat /\ Len(buffer) \in Nat /\ Len(pipe) \in Nat /\ written \in Nat
  BY DEF CaptureType, Places
<1>2. Read \in Nat /\ Read = Base + Len(buffer) /\ Read <= written
  BY <1>1 DEF Base, Read
<1> QED BY <1>1, <1>2, MarksApart DEF CaptureType

\* What findBeginStr and findEndStr find.
LEMMA FindMarks ==
  ASSUME CaptureType, Places
  PROVE  /\ \/ findBeginStr = -1 /\ begin = -1 /\ NoneIn(Begins)
            \/ FirstBegin(findBeginStr)
         /\ LET e == StrIndex(buffer, END_STR)
            IN  \/ e = -1 /\ NoneIn(Ends)
                \/ /\ e \in Nat /\ e + 2 <= Len(buffer) /\ Base + e + 1 \in Ends
                   /\ \A f \in Ends : Base < f => Base + e + 1 <= f
<1>1. /\ buffer \in Seq(Nat) /\ Base \in Nat /\ Base + Len(buffer) <= Len(output)
      /\ Read = Base + Len(buffer) /\ \A k \in DOMAIN buffer : buffer[k] = Base + k
      /\ output \in Seq({"B1", "B2", "E1", "E2", "d"})
  BY PlaceNumbers DEF CaptureType, Places
<1>2. \A mark \in {BEGIN_STR, END_STR} :
        LET x == StrIndex(buffer, mark)
        IN  \/ x = -1 /\ \A c \in MarkAt(mark) : ~(Base < c /\ c + 1 <= Base + Len(buffer))
            \/ /\ x \in Nat /\ x + 2 <= Len(buffer) /\ Base + x + 1 \in MarkAt(mark)
               /\ \A c \in MarkAt(mark) : Base < c => Base + x + 1 <= c
  BY <1>1, StrIndexFinds
<1>3. CASE begin = -1
  BY <1>1, <1>2, <1>3 DEF findBeginStr, FirstBegin, NoneIn, Begins, Ends
<1>4. CASE begin # -1
  BY <1>1, <1>2, <1>4 DEF findBeginStr, Places, NoneIn, Ends
<1> QED BY <1>3, <1>4

\* An END needs a BEGIN before it.
LEMMA NoEnds ==
  ASSUME CaptureType, Places, WellFormed, ClosedBefore(Base), NoneIn(Begins)
  PROVE  NoneIn(Ends)
<1> SUFFICES ASSUME NEW f \in Ends, Base < f, f + 1 <= Read PROVE FALSE
  BY DEF NoneIn
<1>0. Base \in Nat /\ Read \in Nat /\ Begins \subseteq Nat /\ Ends \subseteq Nat
  BY PlaceNumbers
<1>1. PICK b \in Begins : b < f /\ ~EndBetween(b, f)
  BY DEF WellFormed, Begins, Ends
<1>2. b <= Base
  BY <1>0, <1>1 DEF NoneIn
<1>3. PICK g \in Ends : b < g /\ g < Base
  BY <1>2 DEF ClosedBefore, EndBetween, Ends
<1> QED BY <1>0, <1>1, <1>3 DEF EndBetween, Ends

\* Tokens leave the buffer that hold no mark, but perhaps the start of one.
LEMMA TextLeaves ==
  ASSUME CaptureType, Places, WellFormed, ClosedBefore(Base), NoneIn(Begins),
         NEW n \in Nat, n + 2 <= Len(buffer)
  PROVE  ClosedBefore(Base + n) /\ Messages(Base + n) = Messages(Base)
<1>0. /\ Base \in Nat /\ Read \in Nat /\ Len(buffer) \in Nat /\ Read = Base + Len(buffer)
      /\ Begins \subseteq Nat /\ Ends \subseteq Nat
  BY PlaceNumbers
<1>1. ClosedBefore(Base + n)
  <2> SUFFICES ASSUME NEW c \in Begins, c <= Base + n PROVE EndBetween(c, Base + n)
    BY DEF ClosedBefore
  <2>1. c <= Base
    BY <1>0 DEF NoneIn
  <2>2. PICK f \in Ends : c < f /\ f < Base
    BY <2>1 DEF ClosedBefore, EndBetween, Ends
  <2> QED BY <1>0, <2>2 DEF EndBetween, Ends
<1>2. \A f \in Ends : ~(Base < f /\ f + 1 <= Base + n)
  BY <1>0, NoEnds DEF NoneIn
<1>3. Base + n \in Nat /\ Base <= Base + n
  BY <1>0
<1> QED BY <1>0, <1>1, <1>2, <1>3, NoneNew DEF CaptureType

\* Without an END the capture keeps what may still become a message, or throws a
\* buffer away that is too long.
LEMMA CaptureNoMessage ==
  ASSUME CaptureInv, NoMessage PROVE CaptureInv'
<1> DEFINE b == findBeginStr
           over == b # -1 /\ Len(buffer) > CaptureMax
           n == Len(buffer) - 2
<1>0. /\ CaptureType /\ Places /\ gpc = "scan"
      /\ Base \in Nat /\ Read \in Nat /\ Len(buffer) \in Nat /\ Read = Base + Len(buffer)
      /\ Begins \subseteq Nat /\ Ends \subseteq Nat /\ written \in Nat /\ Len(pipe) \in Nat
  BY PlaceNumbers DEF CaptureInv, CaptureType, NoMessage
<1>1. /\ b = -1 \/ StrIndex(buffer, END_STR) = -1
      /\ begin' = (IF over THEN -1 ELSE b)
      /\ buffer' = (IF over THEN <<>> ELSE Kept(b))
      /\ discarded' = (discarded \/ over) /\ gpc' = "read"
      /\ UNCHANGED <<mutex, wpc, output, written, chunk, pipe, emitted, panicked>>
  BY DEF NoMessage, logVars
<1>2. ~mutex /\ Read' = Read
  BY <1>0, <1>1 DEF CaptureType, Read
<1>d. discarded \in BOOLEAN
  BY <1>0 DEF CaptureType
<1>3. \/ b = -1 /\ begin = -1 /\ NoneIn(Begins)
      \/ FirstBegin(b)
  BY <1>0, FindMarks
<1> HIDE DEF b
<1>4. CASE over
  <2>1. buffer' = <<>> /\ Len(buffer') = 0 /\ begin' = -1 /\ discarded'
    BY <1>1, <1>4
  <2>2. Base' = Read
    BY <1>0, <1>2, <2>1 DEF Base
  <2>3. CaptureType'
    <3>1. discarded' = TRUE /\ buffer' \in Seq(Nat)
      BY <1>1, <1>4, <2>1
    <3> QED BY <1>0, <1>1, <1>2, <3>1 DEF CaptureType
  <2>4. Places'
    <3>1. DOMAIN buffer' = {} /\ pipe' = pipe /\ begin' = -1 /\ Base' \in Nat
      BY <1>0, <1>1, <2>1, <2>2
    <3> QED BY <1>0, <1>2, <3>1 DEF Places
  <2> QED BY <2>1, <2>3, <2>4 DEF CaptureInv
<1>5. CASE ~over /\ b # -1
  <2>1. buffer' = buffer /\ begin' = b /\ discarded' = discarded /\ FirstBegin(b) /\ Base' = Base
    <3>1. Kept(b) = buffer
      BY <1>5 DEF Kept
    <3>2. b # -1 /\ buffer' = buffer
      BY <1>1, <1>5, <3>1
    <3>3. Base' = Base
      BY <1>2, <3>2 DEF Base
    <3>4. begin' = b /\ discarded' = discarded
      BY <1>1, <1>5, <1>d
    <3> QED BY <1>3, <3>2, <3>3, <3>4
  <2>2. CaptureType'
    BY <1>0, <1>1, <1>2, <2>1 DEF CaptureType
  <2>3. FirstBegin(begin)'
    BY <1>1, <2>1, OutputKept DEF FirstBegin
  <2>4. Places'
    BY <1>0, <1>1, <1>2, <2>1, <2>3 DEF Places
  <2>5. NoneIn(Ends)
    <3>1. StrIndex(buffer, END_STR) = -1
      BY <1>1, <1>5
    <3> QED BY <1>0, <3>1, FindMarks
  <2>6. ASSUME ~mutex', WellFormed', ~discarded' PROVE ScanInv'
    <3>1. ScanInv
      BY <1>1, <2>1, <2>6, OutputKept DEF CaptureInv
    <3> QED BY <1>1, <1>2, <1>5, <2>1, <2>5, <3>1, OutputKept DEF ScanInv, NoneIn
  <2> QED BY <2>2, <2>4, <2>6 DEF CaptureInv
<1>6. CASE ~over /\ b = -1
  <2>1. begin' = -1 /\ discarded' = discarded /\ buffer' = Kept(b) /\ begin = -1 /\ NoneIn(Begins)
    <3>1. ~FirstBegin(b)
      BY <1>6 DEF FirstBegin
    <3> QED BY <1>1, <1>3, <1>6, <1>d, <3>1
  <2>2. CASE ~(Len(buffer) > 2)
    <3>1. buffer' = buffer
      BY <2>1, <2>2 DEF Kept, BEGIN_STR
    <3>2. Base' = Base
      BY <1>2, <3>1 DEF Base
    <3>3. CaptureType'
      BY <1>0, <1>1, <1>2, <3>1 DEF CaptureType
    <3>4. Places'
      BY <1>0, <1>1, <1>2, <2>1, <3>1, <3>2 DEF Places
    <3>5. ASSUME ~mutex', WellFormed', ~discarded' PROVE ScanInv'
      <4>1. ScanInv
        BY <1>1, <2>1, <3>5, OutputKept DEF CaptureInv
      <4> QED BY <1>1, <1>2, <2>1, <3>2, <4>1, OutputKept DEF ScanInv, NoneIn
    <3> QED BY <3>3, <3>4, <3>5 DEF CaptureInv
  <2>3. CASE Len(buffer) > 2
    <3>1. buffer' = SubSeq(buffer, n + 1, Len(buffer)) /\ n \in 0 .. Len(buffer) /\ n \in Nat
      BY <1>0, <1>6, <2>1, <2>3 DEF Kept, BEGIN_STR
    <3> HIDE DEF n
    <3>2. /\ buffer' \in Seq(Nat) /\ Len(buffer') = Len(buffer) - n
          /\ DOMAIN buffer' = 1 .. Len(buffer) - n
          /\ \A k \in 1 .. Len(buffer) - n : buffer'[k] = buffer[n + k]
      <4>1. buffer \in Seq(Nat)
        BY <1>0 DEF CaptureType
      <4> QED BY <3>1, <4>1, Suffix
    <3>3. Base' = Base + n
      <4>1. Base' = Read - (Len(buffer) - n)
        BY <1>2, <3>2 DEF Base
      <4> QED BY <1>0, <3>1, <4>1
    <3>4. CaptureType'
      BY <1>0, <1>1, <1>2, <3>2 DEF CaptureType
    <3>5. Places'
      <4>1. ASSUME NEW k \in DOMAIN buffer' PROVE buffer'[k] = Base' + k
        <5>1. n + k \in DOMAIN buffer /\ Base + (n + k) = Base + n + k /\ k \in 1 .. Len(buffer) - n
          <6>1. k \in 1 .. Len(buffer) - n /\ buffer \in Seq(Nat)
            BY <1>0, <3>2, <4>1 DEF CaptureType
          <6> QED BY <1>0, <3>1, <6>1
        <5> QED BY <1>0, <3>2, <3>3, <5>1 DEF Places
      <4> QED BY <1>0, <1>1, <1>2, <2>1, <3>1, <3>3, <4>1 DEF Places
    <3>6. ASSUME ~mutex', WellFormed', ~discarded' PROVE ScanInv'
      <4>1. ScanInv /\ WellFormed
        BY <1>1, <2>1, <3>6, OutputKept DEF CaptureInv
      <4>2. ClosedBefore(Base + n) /\ Messages(Base + n) = Messages(Base)
        <5>1. n + 2 <= Len(buffer)
          BY <1>0 DEF n
        <5> QED BY <1>0, <2>1, <3>1, <4>1, <5>1, TextLeaves DEF ScanInv
      <4>3. NoneIn(Begins)'
        <5> SUFFICES ASSUME NEW c \in Begins, Base + n < c, c + 1 <= Read PROVE FALSE
          BY <1>1, <1>2, <3>3, OutputKept DEF NoneIn
        <5>1. Base < c
          BY <1>0, <3>1
        <5> QED BY <2>1, <5>1 DEF NoneIn
      <4>4. \A i \in DOMAIN emitted : emitted[i][2] + 2 <= Base + n
        <5> SUFFICES ASSUME NEW i \in DOMAIN emitted PROVE emitted[i][2] + 2 <= Base + n
          OBVIOUS
        <5>1. emitted[i][2] \in Int /\ emitted[i][2] + 2 <= Base
          BY <1>0, <4>1 DEF CaptureType, ScanInv
        <5> QED BY <1>0, <3>1, <5>1
      <4> QED BY <1>1, <2>1, <3>3, <4>1, <4>2, <4>3, <4>4, OutputKept DEF ScanInv
    <3> QED BY <3>4, <3>5, <3>6 DEF CaptureInv
  <2> QED BY <2>2, <2>3
<1> QED BY <1>4, <1>5, <1>6

\* A message is emitted, and leaves the buffer with what came before it.
LEMMA CaptureMessage ==
  ASSUME CaptureInv, Message PROVE CaptureInv'
<1> DEFINE b == findBeginStr
           e == StrIndex(buffer, END_STR)
           from == b + 2
           n == e + 2
           m == <<buffer[from] + 1, buffer[e + 1] - 1>>
<1>0. /\ CaptureType /\ Places /\ gpc = "scan" /\ buffer \in Seq(Nat) /\ discarded \in BOOLEAN
      /\ Base \in Nat /\ Read \in Nat /\ Len(buffer) \in Nat /\ Read = Base + Len(buffer)
      /\ Begins \subseteq Nat /\ Ends \subseteq Nat /\ emitted \in Seq(Nat \X Int)
      /\ output \in Seq({"B1", "B2", "E1", "E2", "d"})
  BY PlaceNumbers DEF CaptureInv, CaptureType, Message
<1>1. /\ b # -1 /\ e # -1
      /\ IF e < from
         THEN panicked' = TRUE /\ UNCHANGED <<buffer, begin, emitted>>
         ELSE /\ emitted' = Append(emitted, m)
              /\ buffer' = SubSeq(buffer, n + 1, Len(buffer))
              /\ begin' = -1 /\ panicked' = panicked
      /\ UNCHANGED <<mutex, wpc, output, written, chunk, pipe, gpc, discarded>>
  BY DEF Message, logVars, BEGIN_STR, END_STR
<1>2. FirstBegin(b)
  BY <1>0, <1>1, FindMarks
<1>3. /\ e \in Nat /\ e + 2 <= Len(buffer) /\ Base + e + 1 \in Ends
      /\ \A f \in Ends : Base < f => Base + e + 1 <= f
  BY <1>0, <1>1, FindMarks
<1> HIDE DEF b, e
<1>4. b \in Nat /\ from \in 1 .. Len(buffer) /\ e + 1 \in 1 .. Len(buffer) /\ n \in 0 .. Len(buffer)
  BY <1>0, <1>2, <1>3 DEF FirstBegin
<1>5. m = <<(Base + b + 1) + 2, (Base + e + 1) - 1>>
  <2> HIDE DEF from
  <2>0. from \in DOMAIN buffer /\ e + 1 \in DOMAIN buffer
    BY <1>0, <1>4
  <2>1. buffer[from] = Base + from /\ buffer[e + 1] = Base + (e + 1)
    BY <1>0, <2>0 DEF Places
  <2>2. buffer[from] + 1 = (Base + b + 1) + 2 /\ buffer[e + 1] - 1 = (Base + e + 1) - 1
    <3>1. \A x, y : x = Base + from /\ y = Base + (e + 1) =>
                   x + 1 = (Base + b + 1) + 2 /\ y - 1 = (Base + e + 1) - 1
      BY <1>0, <1>3, <1>4 DEF from
    <3> QED BY <2>1, <3>1
  <2> QED BY <2>2
<1>6. ~mutex /\ Read' = Read
  BY <1>0, <1>1 DEF CaptureType, Read
<1>m. ASSUME WellFormed, ClosedBefore(Base)
      PROVE  /\ (Base + b + 1) + 1 < Base + e + 1 /\ ClosedBefore((Base + e + 1) + 1)
             /\ Messages((Base + e + 1) + 1) =
                  Messages(Base) \cup {<<(Base + b + 1) + 2, (Base + e + 1) - 1>>}
  <2> DEFINE p == Base + b + 1
             q == Base + e + 1
  <2>1. /\ p \in Begins /\ q \in Ends /\ Base < p /\ Base < q
        /\ \A c \in Begins : Base < c => p <= c
        /\ \A f \in Ends : Base < f => q <= f
    BY <1>0, <1>2, <1>3, <1>4 DEF FirstBegin
  <2> HIDE DEF p, q
  <2>2. p + 1 < q /\ ClosedBefore(q + 1) /\ Messages(q + 1) = Messages(Base) \cup {<<p + 2, q - 1>>}
    BY <1>0, <1>m, <2>1, MessageFound
  <2> QED BY <2>2 DEF p, q
<1> HIDE DEF m, from, n
<1>7. CASE e < from
  <2>1. Base' = Base /\ UNCHANGED <<buffer, begin, emitted>>
    BY <1>1, <1>6, <1>7 DEF Base
  <2>2. CaptureType'
    BY <1>0, <1>1, <2>1 DEF CaptureType
  <2>3. Places'
    BY <1>0, <1>1, <1>6, <2>1, OutputKept DEF Places, FirstBegin
  <2>4. ~(~mutex' /\ WellFormed' /\ ~discarded')
    <3> SUFFICES ASSUME WellFormed, ~discarded PROVE FALSE
      BY <1>1, OutputKept
    <3>1. ClosedBefore(Base)
      BY <1>6 DEF CaptureInv, ScanInv
    <3>2. (Base + b + 1) + 1 < Base + e + 1
      BY <1>m, <3>1
    <3> QED BY <1>0, <1>3, <1>4, <1>7, <3>2 DEF from
  <2> QED BY <2>2, <2>3, <2>4 DEF CaptureInv
<1>8. CASE ~(e < from)
  <2>1. /\ emitted' = Append(emitted, m) /\ buffer' = SubSeq(buffer, n + 1, Len(buffer))
        /\ begin' = -1 /\ panicked' = panicked
    BY <1>1, <1>8
  <2>2. /\ buffer' \in Seq(Nat) /\ Len(buffer') = Len(buffer) - n
        /\ DOMAIN buffer' = 1 .. Len(buffer) - n
        /\ \A k \in 1 .. Len(buffer) - n : buffer'[k] = buffer[n + k]
    BY <1>0, <1>4, <2>1, Suffix
  <2>3. Base' = Base + n
    <3>1. Base' = Read - (Len(buffer) - n)
      BY <1>6, <2>2 DEF Base
    <3> QED BY <1>0, <1>4, <3>1
  <2>4. m \in Nat \X Int
    BY <1>0, <1>3, <1>4, <1>5, SMTT(40)
  <2>5. /\ emitted' \in Seq(Nat \X Int) /\ DOMAIN emitted' = 1 .. Len(emitted) + 1
        /\ Len(emitted) \in Nat /\ DOMAIN emitted = 1 .. Len(emitted)
        /\ \A i \in DOMAIN emitted : emitted'[i] = emitted[i]
        /\ emitted'[Len(emitted) + 1] = m
    BY <1>0, <2>1, <2>4, SMTT(40)
  <2>6. CaptureType'
    BY <1>0, <1>1, <1>6, <2>2, <2>5 DEF CaptureType
  <2>7. Places'
    <3>1. ASSUME NEW k \in DOMAIN buffer' PROVE buffer'[k] = Base' + k
      <4>1. k \in 1 .. Len(buffer) - n
        BY <2>2, <3>1
      <4>2. n + k \in DOMAIN buffer /\ Base + (n + k) = Base + n + k
        BY <1>0, <1>4, <4>1, SMTT(40)
      <4> QED BY <1>0, <2>2, <2>3, <4>1, <4>2 DEF Places
    <3>2. Base + n \in Nat
      BY <1>0, <1>4
    <3> QED BY <1>0, <1>1, <1>6, <2>1, <2>3, <3>1, <3>2 DEF Places
  <2>8. ASSUME ~mutex', WellFormed', ~discarded' PROVE ScanInv'
    <3>1. ScanInv /\ WellFormed
      BY <1>1, <2>8, OutputKept DEF CaptureInv
    <3>2. /\ ClosedBefore((Base + e + 1) + 1)
          /\ Messages((Base + e + 1) + 1) =
               Messages(Base) \cup {<<(Base + b + 1) + 2, (Base + e + 1) - 1>>}
      BY <1>m, <3>1 DEF ScanInv
    <3>3. (Base + e + 1) + 1 = Base + n
      BY <1>0, <1>3 DEF n
    <3>4. ClosedBefore(Base + n) /\ Messages(Base + n) = Messages(Base) \cup {m}
      BY <1>5, <3>2, <3>3
    <3>5. {emitted'[i] : i \in DOMAIN emitted'} = {emitted[i] : i \in DOMAIN emitted} \cup {m}
      <4>1. DOMAIN emitted' = DOMAIN emitted \cup {Len(emitted) + 1}
        BY <2>5
      <4> SUFFICES ASSUME NEW y
                   PROVE  y \in {emitted'[i] : i \in DOMAIN emitted'}
                            <=> (\E i \in DOMAIN emitted : y = emitted[i]) \/ y = m
        OBVIOUS
      <4>2. y \in {emitted'[i] : i \in DOMAIN emitted'} <=> \E i \in DOMAIN emitted' : y = emitted'[i]
        OBVIOUS
      <4>3. (\E i \in DOMAIN emitted' : y = emitted'[i])
              <=> (\E i \in DOMAIN emitted : y = emitted'[i]) \/ y = emitted'[Len(emitted) + 1]
        BY <4>1
      <4> QED BY <2>5, <4>2, <4>3
    <3>6. \A i \in DOMAIN emitted : emitted[i][2] \in Int /\ emitted[i][2] + 2 <= Base
      BY <1>0, <3>1 DEF ScanInv
    <3>7. m[1] = (Base + b + 1) + 2 /\ m[2] = (Base + e + 1) - 1
      BY <1>5
    <3>8. \A i \in DOMAIN emitted' : emitted'[i][2] + 2 <= Base + n
      <4> SUFFICES ASSUME NEW i \in DOMAIN emitted' PROVE emitted'[i][2] + 2 <= Base + n
        OBVIOUS
      <4>1. CASE i \in DOMAIN emitted
        <5>1. emitted'[i] = emitted[i]
          BY <2>5, <4>1
        <5>2. emitted[i][2] \in Int /\ emitted[i][2] + 2 <= Base
          BY <3>6, <4>1
        <5>3. \A x \in Int : x + 2 <= Base => x + 2 <= Base + n
          BY <1>0, <1>4
        <5> QED BY <5>1, <5>2, <5>3
      <4>2. CASE i = Len(emitted) + 1
        <5>1. emitted'[i] = m
          BY <2>5, <4>2
        <5>2. m[2] + 2 <= Base + n
          BY <1>0, <1>3, <3>7 DEF n
        <5> QED BY <5>1, <5>2
      <4> QED BY <2>5, <4>1, <4>2
    <3>9. \A i, j \in DOMAIN emitted' : i < j => emitted'[i][2] < emitted'[j][1]
      <4> SUFFICES ASSUME NEW i \in DOMAIN emitted', NEW j \in DOMAIN emitted', i < j
                   PROVE  emitted'[i][2] < emitted'[j][1]
        OBVIOUS
      <4>0. i \in DOMAIN emitted
        BY <2>5
      <4>1. CASE j \in DOMAIN emitted
        BY <2>5, <3>1, <4>0, <4>1 DEF ScanInv
      <4>2. CASE j = Len(emitted) + 1
        <5>1. emitted'[i] = emitted[i] /\ emitted'[j] = m
          BY <2>5, <4>0, <4>2
        <5>2. emitted[i][2] \in Int /\ emitted[i][2] + 2 <= Base
          BY <3>6, <4>0
        <5>3. \A x \in Int : x + 2 <= Base => x < (Base + b + 1) + 2
          BY <1>0, <1>4
        <5> QED BY <3>7, <5>1, <5>2, <5>3
      <4> QED BY <2>5, <4>1, <4>2
    <3>10. ~panicked' /\ gpc' = "scan" /\ {emitted[i] : i \in DOMAIN emitted} = Messages(Base)
      BY <1>0, <1>1, <2>1, <3>1 DEF ScanInv
    <3> QED BY <1>1, <2>3, <3>4, <3>5, <3>8, <3>9, <3>10, OutputKept DEF ScanInv
  <2> QED BY <2>6, <2>7, <2>8 DEF CaptureInv
<1> QED BY <1>7, <1>8

\* Every step keeps CaptureInv.
LEMMA CaptureStep ==
  ASSUME CaptureInv, [Next]_vars PROVE CaptureInv'
<1>1. CASE UnderlineWrite
  BY <1>1, CaptureAlone DEF UnderlineWrite, Write, captureVars
<1>2. CASE UnderlineAccount
  <2>1. wpc = "account"
    BY <1>2 DEF UnderlineAccount, Account
  <2>2. pipe = <<>>
    BY <2>1 DEF CaptureInv, CaptureType
  <2> QED BY <1>2, <2>2, CaptureAlone DEF UnderlineAccount, Account
<1>3. CASE (LogRequests \/ LogStep) /\ UNCHANGED captureVars
  <2>1. mutex' = mutex /\ (wpc' = wpc \/ wpc # "idle")
    BY <1>3 DEF LogRequests, LogStep, Clear, ReadTailLog, Rotate, RotateClose, RotateCreate,
                ClearRemove, ClearFirst, ClearClose, ClearCreate
  <2>2. pipe' = <<>> \/ (chunk' = chunk /\ wpc' = wpc)
    BY <1>3, <2>1 DEF captureVars, CaptureInv, CaptureType
  <2> QED BY <1>3, <2>1, <2>2, CaptureAlone DEF captureVars
<1>4. CASE UNCHANGED vars
  BY <1>4, CaptureAlone DEF vars, logVars, captureVars
<1>5. ProgramLogAssumption
  BY ProgramLogAssumption
<1> QED BY <1>1, <1>2, <1>3, <1>4, <1>5, CaptureProgramWrites, CaptureRestart, CaptureReadStep,
           CaptureNoMessage, CaptureMessage DEF Next

\* CaptureInv holds at the start.
LEMMA CaptureInit == Init => CaptureInv
<1> SUFFICES ASSUME Init PROVE CaptureInv
  OBVIOUS
<1>1. output \in Seq({"B1", "B2", "E1", "E2", "d"})
  BY ProgramLogAssumption DEF Init
<1>e. /\ written = 0 /\ pipe = <<>> /\ buffer = <<>> /\ emitted = <<>> /\ chunk = 0
      /\ gpc = "read" /\ begin = -1
  BY DEF Init
<1>f. discarded = FALSE
  BY DEF Init
<1>2. CaptureType
  <2>1. Len(output) \in Nat
    BY <1>1
  <2>2. <<>> \in Seq(Nat) /\ <<>> \in Seq(Nat \X Int)
    OBVIOUS
  <2>3. discarded \in BOOLEAN
    BY <1>f
  <2> QED BY <1>1, <1>e, <2>1, <2>2, <2>3 DEF CaptureType
<1>3. Read = 0 /\ Base = 0
  <2>1. Len(pipe) = 0 /\ Len(buffer) = 0 /\ written = 0
    BY <1>e
  <2>2. \A w, p, q : w = 0 /\ p = 0 /\ q = 0 => w - p = 0 /\ w - p - q = 0
    OBVIOUS
  <2> QED BY <2>1, <2>2 DEF Read, Base
<1>4. Places
  BY <1>3 DEF Init, Places
<1>5. ClosedBefore(0) /\ NoneIn(Begins)
  <2>1. \A c \in Begins : c \in Nat /\ c > 0
    BY <1>1 DEF Begins, MarkAt
  <2> QED BY <1>3, <2>1 DEF ClosedBefore, NoneIn
<1>6. Messages(0) = {}
  <2>1. \A c \in Ends : c \in Nat
    BY <1>1, MarksApart
  <2> QED BY <2>1 DEF Messages, Ends
<1>7. {emitted[i] : i \in DOMAIN emitted} = {} /\ DOMAIN emitted = {}
  BY DEF Init
<1> QED BY <1>2, <1>3, <1>4, <1>5, <1>6, <1>7 DEF CaptureInv, ScanInv, Init

\* The capture emits each message of a well-formed output once, whole and in order, however
\* the output is cut into writes and reads, and does not panic, unless a restart or a full
\* buffer has thrown text away: for every output and every size of the buffers
\* (captureEvent, findBeginStr, findEndStr).
THEOREM CaptureExactAlways == Spec => []CaptureExact
<1>1. ASSUME CaptureInv PROVE CaptureExact
  <2> SUFFICES ASSUME ~mutex, WellFormed, ~discarded
               PROVE  /\ ~panicked
                      /\ \A i, j \in DOMAIN emitted : i < j => emitted[i][2] < emitted[j][1]
                      /\ gpc = "read" =>
                           {emitted[i] : i \in DOMAIN emitted} = Messages(written - Len(pipe))
    BY DEF CaptureExact
  <2>1. ScanInv /\ CaptureType /\ Places
    BY <1>1 DEF CaptureInv
  <2>2. ASSUME gpc = "read" PROVE Messages(Read) = Messages(Base)
    <3>1. NoneIn(Ends)
      BY <2>1, <2>2, NoEnds DEF ScanInv
    <3>2. Base \in Nat /\ Read \in Nat /\ Base <= Read
      BY <2>1, PlaceNumbers
    <3> QED BY <2>1, <3>1, <3>2, NoneNew DEF NoneIn, ScanInv, CaptureType
  <2> QED BY <2>1, <2>2 DEF ScanInv, Read
<1>2. CaptureInv /\ [Next]_vars => CaptureInv'
  BY CaptureStep
<1> QED BY <1>1, <1>2, CaptureInit, PTL DEF Spec

=============================================================================
