------------------------ MODULE FileTreeFrozenProofs ------------------------
(***************************************************************************)
(* Proof that files of the past no longer change as long as the receiver's *)
(* clock has not gone back: the only file ever written to is the latest    *)
(* one there is.                                                           *)
(***************************************************************************)
EXTENDS FileTreeSavedProofs

-----------------------------------------------------------------------------
(* Slots are in the order of the times in them.                            *)

LEMMA TimesMonotone ==
  ASSUME NEW d \in Nat \ {0}, NEW a \in Int, NEW b \in Int, a <= b
  PROVE  d * a <= d * b
OBVIOUS

LEMMA QuotientBounds ==
  ASSUME NEW d \in Nat \ {0}, NEW m \in Nat
  PROVE  m \div d \in Nat /\ d * (m \div d) <= m /\ m < d * (m \div d) + d
OBVIOUS

LEMMA TimesSucc ==
  ASSUME NEW d \in Nat \ {0}, NEW a \in Int
  PROVE  d * (a + 1) = d * a + d
OBVIOUS

\* The number of a later minute is not smaller, and numbers are integers.
LEMMA NumberMonotone ==
  ASSUME NEW m \in Nat, NEW n \in Nat
  PROVE  FileNumber(m) \in Nat /\ (m <= n => FileNumber(m) <= FileNumber(n))
<1>d. Denominator \in Nat \ {0}
  BY ConstantsAssumption
<1>1. /\ m \div Denominator \in Nat /\ n \div Denominator \in Nat
      /\ Denominator * (m \div Denominator) <= m
      /\ n < Denominator * (n \div Denominator) + Denominator
  BY <1>d, QuotientBounds
<1>2. ASSUME m <= n PROVE m \div Denominator <= n \div Denominator
  <2> SUFFICES ASSUME (n \div Denominator) + 1 <= m \div Denominator PROVE FALSE
    BY <1>1
  <2>1. Denominator * ((n \div Denominator) + 1) <= Denominator * (m \div Denominator)
    BY <1>d, <1>1, TimesMonotone
  <2>2. Denominator * ((n \div Denominator) + 1) = Denominator * (n \div Denominator) + Denominator
    BY <1>d, <1>1, TimesSucc
  <2>3. Denominator * (m \div Denominator) \in Int /\ Denominator * (n \div Denominator) \in Int
    BY <1>d, <1>1
  <2> QED
    BY <1>d, <1>1, <1>2, <2>1, <2>2, <2>3
<1>3. FileNumber(m) \in Nat
  BY <1>d, <1>1 DEF FileNumber
<1>4. ASSUME m <= n PROVE FileNumber(m) <= FileNumber(n)
  BY <1>d, <1>1, <1>2, <1>4, TimesMonotone DEF FileNumber
<1> QED
  BY <1>3, <1>4

LEMMA TimesTyped ==
  ASSUME NEW t \in Instant
  PROVE  t.day \in Nat /\ t.minute \in Nat
BY ConstantsAssumption

LEMMA FilesTyped ==
  ASSUME NEW p \in Path
  PROVE  p.day \in Nat /\ p.number \in Nat
<1>1. PICK t \in Instant : p = PathOf(t)
  BY DEF Path
<1> QED
  BY <1>1, TimesTyped, NumberMonotone DEF PathOf

\* A file that is not later than one time's is not later than a later time's.
LEMMA LaterFile ==
  ASSUME NEW t \in Instant, NEW u \in Instant, NEW q \in Path,
         ~EarlierTime(u, t), ~EarlierFile(PathOf(t), q)
  PROVE  ~EarlierFile(PathOf(u), q)
<1>1. /\ t.day \in Nat /\ t.minute \in Nat /\ u.day \in Nat /\ u.minute \in Nat
      /\ q.day \in Nat /\ q.number \in Nat
  BY TimesTyped, FilesTyped
<1>2. t # Invalid /\ u # Invalid
  BY Files
<1>3. ~(u.day < t.day) /\ ~(u.day = t.day /\ u.minute < t.minute)
  BY <1>2 DEF EarlierTime
<1>4. ~(t.day < q.day) /\ ~(t.day = q.day /\ FileNumber(t.minute) < q.number)
  BY DEF EarlierFile, PathOf
<1>5. /\ FileNumber(t.minute) \in Nat /\ FileNumber(u.minute) \in Nat
      /\ (t.minute <= u.minute => FileNumber(t.minute) <= FileNumber(u.minute))
  BY <1>1, NumberMonotone
<1>6. ~(u.day < q.day) /\ ~(u.day = q.day /\ FileNumber(u.minute) < q.number)
  BY <1>1, <1>3, <1>4, <1>5
<1> QED
  BY <1>6 DEF EarlierFile, PathOf

LEMMA NotBeforeItself ==
  ASSUME NEW p \in Path
  PROVE  ~EarlierFile(p, p)
BY FilesTyped DEF EarlierFile

-----------------------------------------------------------------------------
(* The latest file.                                                        *)

\* No file is later than the time last shown, nor than the file that is open.
Latest ==
  /\ clock # Invalid => lastTime = clock
  /\ \A q \in created : lastTime # Invalid /\ ~EarlierFile(PathOf(lastTime), q)
  /\ handle.st = "open" => \A q \in created : ~EarlierFile(handle.path, q)

LatestFile == ~wentBack => Latest

\* Opening the current file, whether it is new or not, keeps it so.
LEMMA LatestOpened ==
  ASSUME TypeOK, Latest, clock # Invalid, NEW ok \in BOOLEAN, NEW cells,
         OpenAndWrite(PathOf(clock), ok, cells), clock' = clock, lastTime' = lastTime
  PROVE  Latest'
<1>1. lastTime = clock /\ clock \in Instant /\ PathOf(clock) \in Path
  BY Files DEF Latest, TypeOK
<1>2. created' \subseteq created \cup {PathOf(clock)}
  BY DEF OpenAndWrite
<1>3. handle'.st = "open" => handle'.path = PathOf(clock)
  BY DEF OpenAndWrite
<1>4. \A q \in created' : ~EarlierFile(PathOf(clock), q)
  BY <1>1, <1>2, NotBeforeItself DEF Latest
<1>5. PathOf(lastTime)' = PathOf(clock)
  BY <1>1 DEF PathOf
<1> QED
  BY <1>1, <1>3, <1>4, <1>5 DEF Latest

LEMMA LatestNext == Basics /\ LatestFile /\ [Next]_vars => LatestFile'
<1> SUFFICES ASSUME Basics, LatestFile, [Next]_vars PROVE LatestFile'
  OBVIOUS
<1> USE DEF process, store, history
<1>typ. TypeOK
  BY DEF Basics
<1>same. ASSUME wentBack' = wentBack, clock' \in {clock, Invalid}, lastTime' = lastTime,
                created' = created,
                handle'.st = "open" => handle.st = "open" /\ handle'.path = handle.path
         PROVE  LatestFile'
  BY <1>same DEF LatestFile, Latest, PathOf
<1>1. CASE Start
  BY <1>1, <1>same DEF Start
<1>2. ASSUME Exit PROVE LatestFile'
  BY <1>2, <1>same DEF Exit, NoFile
<1>3. ASSUME NEW kind \in MessageKind, Receive(kind) PROVE LatestFile'
  <2>0. /\ created' = created /\ handle' = handle
        /\ lastTime' = IF clock' = Invalid THEN lastTime ELSE clock'
        /\ wentBack' = (wentBack \/ EarlierTime(lastTime', lastTime))
    BY <1>3 DEF Receive
  <2> SUFFICES ASSUME ~wentBack' PROVE Latest'
    BY DEF LatestFile
  <2>1. Latest /\ ~EarlierTime(lastTime', lastTime)
    BY <2>0 DEF LatestFile
  <2>2. clock' \in Instant \cup {Invalid} /\ clock \in Instant \cup {Invalid}
        /\ lastTime \in Instant \cup {Invalid}
    BY <1>3, <1>typ DEF Receive, TypeOK
  <2>3. lastTime' \in Instant \cup {Invalid} /\ (lastTime # Invalid => lastTime' # Invalid)
    BY <2>0, <2>2, Files
  <2>4. ASSUME NEW q \in created
        PROVE  lastTime' # Invalid /\ ~EarlierFile(PathOf(lastTime'), q)
    <3>1. lastTime # Invalid /\ ~EarlierFile(PathOf(lastTime), q) /\ q \in Path
      BY <2>1, <1>typ DEF Latest, TypeOK
    <3>2. lastTime \in Instant /\ lastTime' \in Instant
      BY <2>2, <2>3, <3>1
    <3> QED
      BY <2>1, <2>3, <3>1, <3>2, LaterFile
  <2>5. PathOf(lastTime)' = PathOf(lastTime')
    BY DEF PathOf
  <2> QED
    BY <2>0, <2>1, <2>4, <2>5 DEF Latest
<1>4. CASE Defer \/ MakePath \/ NothingDeferred \/ KeepFile
  BY <1>4, <1>same DEF Defer, MakePath, NothingDeferred, KeepFile
<1>5. ASSUME NEW ok \in BOOLEAN, WriteDeferred(ok) \/ OpenFile(ok) PROVE LatestFile'
  <2>1. PICK cells : /\ OpenAndWrite(PathOf(clock), ok, cells)
                     /\ clock' = clock /\ lastTime' = lastTime /\ wentBack' = wentBack
    BY <1>5 DEF WriteDeferred, OpenFile
  <2>2. clock # Invalid
    BY <1>5 DEF WriteDeferred, OpenFile, Basics, ClockKnown
  <2> QED
    BY <1>typ, <2>1, <2>2, LatestOpened DEF LatestFile
<1>6. CASE CloseFile
  <2>1. handle'.st # "open"
    BY <1>6, <1>typ DEF CloseFile, TypeOK, Handle
  <2> QED
    BY <1>6, <1>same, <2>1 DEF CloseFile
<1>7. CASE WriteMessage \/ FlushBuffer
  <2>1. handle'.st = handle.st /\ handle'.path = handle.path
    BY <1>7, <1>typ DEF WriteMessage, FlushBuffer, TypeOK, Handle
  <2> QED
    BY <1>7, <1>same, <2>1 DEF WriteMessage, FlushBuffer
<1>8. CASE UNCHANGED vars
  BY <1>8, <1>same DEF vars
<1> QED
  BY <1>1, <1>2, <1>3, <1>4, <1>5, <1>6, <1>7, <1>8
     DEF Next, Stop, MakePathFails, StrayPointer

\* As long as the clock has not gone back, no file changes once a later one
\* exists: what btcaster hashes is final.
THEOREM PastIsFrozen == Spec => PastFrozen
<1>1. Init => LatestFile
  BY DEF Init, NoFile, LatestFile, Latest
<1>2. ASSUME Basics, LatestFile, [Next]_vars, ~wentBack, NEW p \in Path, NEW q \in created,
             EarlierFile(p, q)
      PROVE  disk'[p] = disk[p]
  <2>1. disk \in [Path -> Seq(Cell)]
    BY <1>2 DEF Basics, TypeOK
  <2>2. handle.st = "open" => handle.path # p
    BY <1>2 DEF LatestFile, Latest
  <2>3. Flushed[p] = disk[p]
    BY <2>1, <2>2 DEF Flushed
  <2>4. disk' = disk \/ disk' = Flushed
    BY <1>2 DEF Next, vars, process, store, history, Start, Stop, Exit, Receive, Defer, MakePath,
                MakePathFails, WriteDeferred, NothingDeferred, KeepFile, CloseFile,
                StrayPointer, OpenFile, WriteMessage, FlushBuffer
  <2> QED
    BY <2>3, <2>4
<1>3. Basics /\ LatestFile /\ [Next]_vars
        => [~wentBack =>
              \A p \in Path, q \in created : EarlierFile(p, q) => disk'[p] = disk[p]]_vars
  BY <1>2
<1>4. Spec => []LatestFile
  BY <1>1, LatestNext, BasicsAlways, PTL DEF Spec
<1> QED
  BY <1>3, <1>4, BasicsAlways, PTL DEF Spec, PastFrozen

-----------------------------------------------------------------------------
(* The archive.                                                            *)

\* The files there are are those that were opened, and the open one is among them.
OpenedFiles ==
  /\ \A p \in Path : p \in created <=> opens[p] > 0
  /\ handle.st = "open" => handle.path \in created

LEMMA OpenedFilesNext == Basics /\ OpenedFiles /\ [Next]_vars => OpenedFiles'
<1> SUFFICES ASSUME Basics, OpenedFiles, [Next]_vars PROVE OpenedFiles'
  OBVIOUS
<1> USE DEF process, store, history
<1>same. ASSUME UNCHANGED <<created, opens>>,
                handle'.st = "open" => handle.st = "open" /\ handle'.path = handle.path
         PROVE  OpenedFiles'
  BY <1>same DEF OpenedFiles
<1>1. ASSUME NEW ok \in BOOLEAN, WriteDeferred(ok) \/ OpenFile(ok) PROVE OpenedFiles'
  <2>1. PICK cells : OpenAndWrite(PathOf(clock), ok, cells)
    BY <1>1 DEF WriteDeferred, OpenFile
  <2>2. PathOf(clock) \in Path
    BY <1>1, Files DEF WriteDeferred, OpenFile, Basics, TypeOK, ClockKnown
  <2>3. ASSUME NEW p \in Path PROVE p \in created' <=> opens'[p] > 0
    <3>1. opens \in [Path -> Nat] /\ (p \in created <=> opens[p] > 0)
      BY DEF Basics, TypeOK, OpenedFiles
    <3> QED BY <2>1, <2>2, <3>1 DEF OpenAndWrite
  <2>4. handle'.st = "open" => handle'.path \in created'
    BY <2>1 DEF OpenAndWrite
  <2> QED BY <2>3, <2>4 DEF OpenedFiles
<1>2. CASE CloseFile
  <2>1. handle'.st # "open"
    BY <1>2 DEF CloseFile, Basics, TypeOK, Handle
  <2> QED BY <1>2, <1>same, <2>1 DEF CloseFile
<1>3. CASE WriteMessage \/ FlushBuffer
  <2>1. handle'.st = handle.st /\ handle'.path = handle.path
    BY <1>3 DEF WriteMessage, FlushBuffer, Basics, TypeOK, Handle
  <2> QED BY <1>3, <1>same, <2>1 DEF WriteMessage, FlushBuffer
<1>4. ASSUME Exit PROVE OpenedFiles'
  BY <1>4, <1>same DEF Exit, NoFile
<1>5. CASE Start \/ Defer \/ MakePath \/ NothingDeferred \/ KeepFile
           \/ (\E kind \in MessageKind : Receive(kind))
  BY <1>5, <1>same DEF Start, Receive, Defer, MakePath, NothingDeferred, KeepFile
<1>6. CASE UNCHANGED vars
  BY <1>6, <1>same DEF vars
<1> QED
  BY <1>1, <1>2, <1>3, <1>4, <1>5, <1>6 DEF Next, Stop, MakePathFails, StrayPointer

\* While the clock has not gone back no file was opened that is later than the
\* one in use, nor than the one the clock points to.
LEMMA NewestInUse ==
  ASSUME Basics, LatestFile, OpenedFiles, ~wentBack, NEW p \in Path,
         OpenAt(p) \/ (clock # Invalid /\ p = PathOf(clock))
  PROVE  Archived!Newest(p)
<1> SUFFICES ASSUME NEW q \in Path, EarlierFile(p, q), opens[q] # 0 PROVE FALSE
  BY DEF Archived!Newest
<1>1. q \in created
  BY DEF OpenedFiles, Basics, TypeOK
<1>2. Latest
  BY DEF LatestFile
<1> QED BY <1>1, <1>2 DEF Latest, OpenAt

\* Writing the buffer out is saving the open file.
LEMMA FlushSaves ==
  ASSUME Basics, Written, LatestFile, OpenedFiles, handle.st = "open",
         disk' = Flushed, UNCHANGED <<opens, wentBack>>
  PROVE  \E p \in Path : Archived!Save(p)
<1>1. PICK p \in Path : p = handle.path /\ OpenAt(p)
  BY DEF Basics, TypeOK, OpenAt
<1>2. opens[p] > 0
  BY <1>1 DEF OpenedFiles
<1>3. ~wentBack => Archived!Newest(p)
  BY <1>1, NewestInUse
<1>4. /\ disk \in [Path -> Seq(Cell)] /\ disk[p] \in Seq(Cell) /\ handle.buf \in Seq(Cell)
      /\ sent[p] \in Seq(Cell) /\ handle.pos \in Nat
  BY <1>1 DEF Basics, TypeOK, Handle
<1>5. disk' = [disk EXCEPT ![p] = disk'[p]]
  BY <1>1, <1>4 DEF Flushed
<1>6. Len(disk'[p]) >= Len(disk[p])
  <2>1. disk'[p] = Overlay(disk[p], handle.pos, handle.buf)
    BY <1>1, <1>4 DEF Flushed
  <2>2. handle.pos \in 0..Len(disk[p])
    BY <1>1, <1>4, LenProperties DEF Basics, HandleFits
  <2>3. Len(Overlay(disk[p], handle.pos, handle.buf)) >= Len(disk[p])
    BY <1>4, <2>2, OverlayCells
  <2> QED BY <2>1, <2>3
<1>7. opens[p] = 1 => Archived!IsPrefix(disk[p], disk'[p])
  <2>1. opens[p] = 1 => disk'[p] = disk[p] \o handle.buf
    BY <1>1, FlushedFile DEF Written
  <2>2. IsPrefix(disk[p], disk[p] \o handle.buf)
    BY <1>4, PrefixExtends
  <2> QED BY <2>1, <2>2 DEF IsPrefix, Archived!IsPrefix
<1>8. UNCHANGED <<opens, ~wentBack>>
  OBVIOUS
<1>9. Archived!Save(p)
  BY ONLY <1>2, <1>3, <1>5, <1>6, <1>7, <1>8 DEF Archived!Save
<1> QED BY <1>1, <1>9

\* Every step of the storage is a step of the archive, or none.
LEMMA ArchiveStep ==
  Basics /\ Written /\ LatestFile /\ OpenedFiles /\ [Next]_vars
    => [Archived!Next]_(Archived!vars)
<1> SUFFICES ASSUME Basics, Written, LatestFile, OpenedFiles, [Next]_vars
             PROVE  [Archived!Next]_(Archived!vars)
  OBVIOUS
<1> USE DEF process, store, history
<1>same. ASSUME UNCHANGED <<disk, opens, wentBack>> PROVE UNCHANGED Archived!vars
  BY <1>same DEF Archived!vars
<1>1. ASSUME NEW kind \in MessageKind, Receive(kind) PROVE [Archived!Next]_(Archived!vars)
  <2>1. UNCHANGED <<disk, opens>> /\ wentBack' = (wentBack \/ EarlierTime(lastTime', lastTime))
    BY <1>1 DEF Receive
  <2>2. CASE wentBack'
    BY <2>1, <2>2 DEF Archived!Next, Archived!TimeGoesBack
  <2>3. CASE ~wentBack'
    <3>1. wentBack' = wentBack
      BY <2>1, <2>3 DEF Basics, TypeOK
    <3> QED BY <2>1, <3>1, <1>same
  <2> QED BY <2>2, <2>3
<1>2. ASSUME NEW ok \in BOOLEAN, WriteDeferred(ok) \/ OpenFile(ok)
      PROVE  [Archived!Next]_(Archived!vars)
  <2>1. PICK cells : OpenAndWrite(PathOf(clock), ok, cells)
    BY <1>2 DEF WriteDeferred, OpenFile
  <2>2. PathOf(clock) \in Path /\ clock # Invalid
    BY <1>2, Files DEF WriteDeferred, OpenFile, Basics, TypeOK, ClockKnown
  <2>3. UNCHANGED <<disk, wentBack>>
    BY <1>2 DEF WriteDeferred, OpenFile
  <2>4. CASE ok
    <3>1. opens' = [opens EXCEPT ![PathOf(clock)] = opens[PathOf(clock)] + 1]
      BY <2>1, <2>4 DEF OpenAndWrite
    <3>2. ~wentBack => Archived!Newest(PathOf(clock))
      BY <2>2, NewestInUse
    <3>3. Archived!Open(PathOf(clock))
      BY <2>3, <3>1, <3>2 DEF Archived!Open
    <3> QED BY <2>2, <3>3 DEF Archived!Next
  <2>5. CASE ~ok
    BY <2>1, <2>3, <2>5, <1>same DEF OpenAndWrite
  <2> QED BY <2>4, <2>5
<1>3. CASE CloseFile \/ FlushBuffer
  <2>1. disk' = Flushed /\ UNCHANGED <<opens, wentBack>>
    BY <1>3 DEF CloseFile, FlushBuffer
  <2>2. CASE handle.st = "open"
    BY <2>1, <2>2, FlushSaves DEF Archived!Next
  <2>3. CASE handle.st # "open"
    BY <2>1, <2>3, <1>same DEF Flushed
  <2> QED BY <2>2, <2>3
<1>4. ASSUME Exit PROVE [Archived!Next]_(Archived!vars)
  BY <1>4, <1>same DEF Exit
<1>5. CASE Start \/ Defer \/ MakePath \/ NothingDeferred \/ KeepFile \/ WriteMessage
  BY <1>5, <1>same DEF Start, Defer, MakePath, NothingDeferred, KeepFile, WriteMessage
<1>6. CASE UNCHANGED vars
  BY <1>6, <1>same DEF vars
<1> QED
  BY <1>1, <1>2, <1>3, <1>4, <1>5, <1>6 DEF Next, Stop, MakePathFails, StrayPointer

\* The file tree is an archive to its readers: for all times, slot lengths, failed
\* opens, crashes and restarts, no file shrinks, a file opened once only grows at its
\* end, and only the latest is opened or written to while the clock does not go back.
THEOREM ArchiveImplemented == Spec => ImplementsArchive
<1>1. Init => Archived!Init
  BY DEF Init, Archived!Init
<1>2. Init => LatestFile /\ OpenedFiles
  BY DEF Init, NoFile, LatestFile, Latest, OpenedFiles
<1>3. Spec => [](LatestFile /\ OpenedFiles)
  BY <1>2, LatestNext, OpenedFilesNext, BasicsAlways, PTL DEF Spec
<1> QED
  BY <1>1, <1>3, ArchiveStep, BasicsAlways, WrittenAlways, PTL
     DEF Spec, ImplementsArchive, Archived!Spec
=============================================================================
