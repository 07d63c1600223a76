------------------------------ MODULE FileTree ------------------------------
(***************************************************************************)
(* The file-tree storage of gnssrcvbroker's main loop                      *)
(* (gnssrcvbroker/src/main.cpp, mainLoop): every message of the receiver   *)
(* stream is appended to <root>/<year>/<dayOfYear>/<number>.jps, where     *)
(* number is the start minute of the time slot the receiver clock is in.   *)
(* Messages that arrive before the clock is known are kept in memory and   *)
(* written to the first file that is opened.                               *)
(*                                                                         *)
(* A file is a sequence of cells.  A cell stands for one message, or for   *)
(* one of the three header messages, whatever its size in bytes.           *)
(***************************************************************************)
EXTENDS Integers, Sequences, SequencesExt

CONSTANTS
  Instant,      \* the receiver times SkyPeek may report: records [day, minute]
  Denominator,  \* fileDenominator: the length of a time slot in minutes
  MessageKind,  \* the kinds of message the receiver sends
  EnableParse,  \* C["enableParse"] as configured
  MaxMessages,  \* bound on the messages received, over all the runs
  Invalid       \* a DateTime for which isValid() is false

HeaderKind == {"JP", "MF", "PM"}

-----------------------------------------------------------------------------
(* File names.                                                             *)

\* Mutant of FileNumber: the hour is left out.
MinuteOnlyNumber(minute) == Denominator * ((minute % 60) \div Denominator)

\* The slot number of a minute of the day: integer division, line 199.
FileNumber(minute) == Denominator * (minute \div Denominator)

\* The file a message received at time t belongs to.
PathOf(t) == [day |-> t.day, number |-> FileNumber(t.minute)]
Path == {PathOf(t) : t \in Instant}

ASSUME ConstantsAssumption ==
  /\ Instant \subseteq [day : Nat, minute : 0..1439]
  /\ Denominator \in Nat \ {0}
  /\ MessageKind \subseteq HeaderKind \cup {"std", "nonStd"}
  /\ EnableParse \in BOOLEAN
  /\ MaxMessages \in Nat
  /\ Invalid \notin Instant \cup Path

\* Files are created under the number padded to four digits, the comparison
\* of line 212 uses the bare number: the two names agree from 1000 on.
NamesAgree(p) == p.number >= 1000

EarlierTime(t, u) ==
  /\ t # Invalid /\ u # Invalid
  /\ t.day < u.day \/ (t.day = u.day /\ t.minute < u.minute)
EarlierFile(p, q) == p.day < q.day \/ (p.day = q.day /\ p.number < q.number)

-----------------------------------------------------------------------------
VARIABLES
  pc,        \* where the main loop is
  tree,      \* fileTreeMode
  clock,     \* skyPeek->DateTime
  header,    \* fileId, msgFmt and msgPMVer: the message each was taken from
  msg,       \* the message being handled
  deferred,  \* baFileTreeInitial
  handle,    \* fileTreefile, with QFile's write buffer
  dirs,      \* the day directories that exist
  created,   \* the files that exist
  disk,      \* their contents as the file system has them
  received,  \* how many messages arrived so far, in all the runs
  base,      \* history: the value of received when this run began
  lastTime,  \* history: the last valid time the clock has shown
  wentBack,  \* history: the clock has shown an earlier time than before
  opens,     \* history: how often each file was opened
  sent,      \* history: the cells passed to write() on an open file
  settled    \* history: the files closed by the rotation

process == <<pc, tree, clock, header, msg, deferred>>
store == <<dirs, created, disk>>
history == <<base, lastTime, wentBack, opens, sent, settled>>
vars == <<process, handle, store, received, history>>

Location == {"down", "next", "store", "deferred", "compare", "reopen", "write"}

\* at: the file the clock pointed to when the message arrived, if any.
Cell == [n : Nat, hdr : BOOLEAN, at : Path \cup {Invalid}]

NoMessage == [n |-> 0, hdr |-> FALSE, at |-> Invalid]

\* Mutant of BuiltIn: no firmware version header.
BuiltInWithoutPM == [k \in HeaderKind \ {"PM"} |-> 0]

\* The headers built into the program, lines 147-151.
BuiltIn == [k \in HeaderKind |-> 0]

\* st is "none" for the uninitialised pointer of line 145, "failed" for a
\* QFile whose open() returned false; buf is written at offset pos.
NoFile == [st |-> "none", path |-> Invalid, pos |-> 0, buf |-> << >>]
Handle == [st : {"none", "open", "failed", "closed"},
           path : Path \cup {Invalid}, pos : Nat, buf : Seq(Cell)]

HeaderCell(k) == [n |-> header[k], hdr |-> TRUE, at |-> Invalid]
FileHeader == <<HeaderCell("JP"), HeaderCell("MF"), HeaderCell("PM")>>

-----------------------------------------------------------------------------
(* QFile and QFileInfo.                                                    *)

\* The contents s after the cells b were written at offset pos <= Len(s).
Overlay(s, pos, b) ==
  SubSeq(s, 1, pos) \o b \o SubSeq(s, pos + Len(b) + 1, Len(s))

\* The files once the buffer of the open handle has been written out.
Flushed ==
  IF handle.st = "open"
  THEN [disk EXCEPT ![handle.path] = Overlay(@, handle.pos, handle.buf)]
  ELSE disk

\* new QFile, open(ReadWrite) and a first write.  ReadWrite neither truncates
\* nor appends, so writing begins at offset 0.  The result of open() is not
\* looked at: if it failed, the writes are discarded.
OpenAndWrite(p, ok, cells) ==
  /\ handle' = [st   |-> IF ok THEN "open" ELSE "failed", path |-> p, pos |-> 0,
                buf  |-> IF ok THEN cells ELSE << >>]
  /\ created' = IF ok THEN created \cup {p} ELSE created
  /\ opens' = IF ok THEN [opens EXCEPT ![p] = @ + 1] ELSE opens
  /\ sent' = IF ok THEN [sent EXCEPT ![p] = @ \o cells] ELSE sent

\* Mutant of SameFile: the file names are compared without their directory.
SameName(p) ==
  \/ NamesAgree(p) /\ handle.path.number = p.number
  \/ (NamesAgree(p) => p \notin created) /\ handle.path \notin created

\* QFileInfo's ==, as line 212 uses it: the names are equal, or neither file
\* exists (then both canonical paths are empty).
SameFile(p) ==
  \/ NamesAgree(p) /\ handle.path = p
  \/ (NamesAgree(p) => p \notin created) /\ handle.path \notin created

-----------------------------------------------------------------------------
(* The main loop.                                                          *)

Init ==
  /\ pc = "down" /\ tree = FALSE /\ clock = Invalid /\ header = BuiltIn
  /\ msg = NoMessage /\ deferred = << >> /\ handle = NoFile
  /\ dirs = {} /\ created = {} /\ disk = [p \in Path |-> << >>]
  /\ received = 0 /\ base = 0 /\ lastTime = Invalid /\ wentBack = FALSE
  /\ opens = [p \in Path |-> 0] /\ sent = [p \in Path |-> << >>]
  /\ settled = {}

\* The process starts, or systemd starts it again.  fileTreeMode is set if
\* the file "writetest" can be opened; otherwise the run stores nothing.
Start ==
  /\ pc = "down"
  /\ pc' = "next"
  /\ tree' \in BOOLEAN
  /\ base' = received
  /\ UNCHANGED <<clock, header, msg, deferred, handle, store, received,
                 lastTime, wentBack, opens, sent, settled>>

\* Next() returns a message.  A standard one is parsed (file-tree mode always
\* parses): it may replace a header, and SkyPeek (external) takes it in, and
\* with it any time, or none.
Receive(kind) ==
  /\ pc = "next" /\ received < MaxMessages
  /\ received' = received + 1
  /\ IF kind # "nonStd" /\ (tree \/ EnableParse)
     THEN /\ header' = IF kind \in HeaderKind
                       THEN [header EXCEPT ![kind] = received + 1] ELSE header
          /\ clock' \in Instant \cup {Invalid}
     ELSE UNCHANGED <<header, clock>>
  /\ lastTime' = IF clock' = Invalid THEN lastTime ELSE clock'
  /\ wentBack' = (wentBack \/ EarlierTime(lastTime', lastTime))
  /\ msg' = [n |-> received + 1, hdr |-> FALSE,
             at |-> IF clock' = Invalid THEN Invalid ELSE PathOf(clock')]
  /\ pc' = IF tree THEN "store" ELSE "next"
  /\ UNCHANGED <<tree, deferred, handle, store, base, opens, sent, settled>>

\* Mutant of Defer: the message is not kept.
DropUntimed ==
  /\ pc = "store" /\ clock = Invalid
  /\ pc' = "next"
  /\ UNCHANGED <<tree, clock, header, msg, deferred, handle, store, received,
                 history>>

\* Mutant of Defer: it is only kept until there is a file.
DropOnceOpen ==
  /\ pc = "store" /\ clock = Invalid
  /\ deferred' = IF handle.st = "open" THEN deferred ELSE Append(deferred, msg)
  /\ pc' = "next"
  /\ UNCHANGED <<tree, clock, header, msg, handle, dirs, created, disk, received, history>>

\* The clock is not known: keep the message in memory.
Defer ==
  /\ pc = "store" /\ clock = Invalid
  /\ deferred' = Append(deferred, msg)
  /\ pc' = "next"
  /\ UNCHANGED <<tree, clock, header, msg, handle, store, received, history>>

\* The day directory exists, or mkpath creates it.
MakePath ==
  /\ pc = "store" /\ clock # Invalid
  /\ dirs' = dirs \cup {clock.day}
  /\ pc' = "deferred"
  /\ UNCHANGED <<tree, clock, header, msg, deferred, handle, created, disk,
                 received, history>>

\* Open the current file and write the deferred messages to it.  A file that
\* was open before is neither closed nor deleted: its buffer is lost.
WriteDeferred(ok) ==
  /\ pc = "deferred" /\ deferred # << >>
  /\ OpenAndWrite(PathOf(clock), ok, deferred)
  /\ deferred' = << >>
  /\ pc' = "compare"
  /\ UNCHANGED <<tree, clock, header, msg, dirs, disk, received, base,
                 lastTime, wentBack, settled>>

NothingDeferred ==
  /\ pc = "deferred" /\ deferred = << >>
  /\ pc' = "compare"
  /\ UNCHANGED <<tree, clock, header, msg, deferred, handle, store, received,
                 history>>

KeepFile ==
  /\ pc = "compare" /\ handle.st # "none" /\ SameFile(PathOf(clock))
  /\ pc' = "write"
  /\ UNCHANGED <<tree, clock, header, msg, deferred, handle, store, received,
                 history>>

\* Mutant of CloseFile: the buffer is dropped with the file.
AbandonFile ==
  /\ pc = "compare" /\ handle.st # "none" /\ ~SameFile(PathOf(clock))
  /\ settled' = IF handle.st = "open" THEN settled \cup {handle.path} ELSE settled
  /\ handle' = [handle EXCEPT !.st = "closed", !.buf = << >>]
  /\ pc' = "reopen"
  /\ UNCHANGED <<tree, clock, header, msg, deferred, store, received, base,
                 lastTime, wentBack, opens, sent>>

\* The open file is not the current one: close it, which writes its buffer.
CloseFile ==
  /\ pc = "compare" /\ handle.st # "none" /\ ~SameFile(PathOf(clock))
  /\ disk' = Flushed
  /\ settled' = IF handle.st = "open" THEN settled \cup {handle.path} ELSE settled
  /\ handle' = [handle EXCEPT !.st = "closed", !.buf = << >>]
  /\ pc' = "reopen"
  /\ UNCHANGED <<tree, clock, header, msg, deferred, dirs, created, received,
                 base, lastTime, wentBack, opens, sent>>

\* ... open the current one and write the header to it.
OpenFile(ok) ==
  /\ pc = "reopen"
  /\ OpenAndWrite(PathOf(clock), ok, FileHeader)
  /\ pc' = "write"
  /\ UNCHANGED <<tree, clock, header, msg, deferred, dirs, disk, received, base,
                 lastTime, wentBack, settled>>

WriteMessage ==
  /\ pc = "write"
  /\ IF handle.st = "open"
     THEN /\ handle' = [handle EXCEPT !.buf = Append(@, msg)]
          /\ sent' = [sent EXCEPT ![handle.path] = Append(@, msg)]
     ELSE UNCHANGED <<handle, sent>>
  /\ pc' = "next"
  /\ UNCHANGED <<tree, clock, header, msg, deferred, store, received, base,
                 lastTime, wentBack, opens, settled>>

\* Mutant of FlushBuffer: the file offset stays where it was.
FlushInPlace ==
  /\ handle.st = "open" /\ handle.buf # << >>
  /\ disk' = Flushed
  /\ handle' = [handle EXCEPT !.buf = << >>]
  /\ UNCHANGED <<process, dirs, created, received, history>>

\* QFile writes its buffer out when it is full: at any time, since a cell's
\* size is abstracted.
FlushBuffer ==
  /\ handle.st = "open" /\ handle.buf # << >>
  /\ disk' = Flushed
  /\ handle' = [handle EXCEPT !.pos = @ + Len(handle.buf), !.buf = << >>]
  /\ UNCHANGED <<process, dirs, created, received, history>>

\* The process ends; nothing closes the open file, so its buffer is lost.
Exit ==
  /\ pc' = "down" /\ tree' = FALSE /\ clock' = Invalid /\ header' = BuiltIn
  /\ msg' = NoMessage /\ deferred' = << >> /\ handle' = NoFile
  /\ UNCHANGED <<store, received, history>>

\* The stream ends, an Exception reaches the end of mainLoop, or the process
\* is killed.
Stop == pc # "down" /\ Exit

\* mkpath fails: throw 73.
MakePathFails == pc = "store" /\ clock # Invalid /\ clock.day \notin dirs /\ Exit

\* fileTreefile is used before it was ever set.  The behaviour is undefined;
\* calling a virtual function through the stray pointer ends the process.
StrayPointer == pc = "compare" /\ handle.st = "none" /\ Exit

Next ==
  \/ Start \/ Stop
  \/ \E kind \in MessageKind : Receive(kind)
  \/ Defer \/ MakePath \/ MakePathFails
  \/ \E ok \in BOOLEAN : WriteDeferred(ok)
  \/ NothingDeferred
  \/ KeepFile \/ CloseFile \/ StrayPointer
  \/ \E ok \in BOOLEAN : OpenFile(ok)
  \/ WriteMessage
  \/ FlushBuffer

Spec == Init /\ [][Next]_vars

-----------------------------------------------------------------------------
(* Properties.                                                             *)

TypeOK ==
  /\ pc \in Location
  /\ tree \in BOOLEAN
  /\ clock \in Instant \cup {Invalid} /\ lastTime \in Instant \cup {Invalid}
  /\ wentBack \in BOOLEAN
  /\ header \in [HeaderKind -> Nat]
  /\ msg \in Cell
  /\ deferred \in Seq(Cell)
  /\ handle \in Handle /\ (handle.st # "none" => handle.path \in Path)
  /\ dirs \subseteq Nat /\ created \subseteq Path /\ settled \subseteq Path
  /\ disk \in [Path -> Seq(Cell)] /\ sent \in [Path -> Seq(Cell)]
  /\ opens \in [Path -> Nat]
  /\ received \in Nat /\ base \in 0..received

BelongsTo(cell, p) == cell.hdr \/ cell.at \in {p, Invalid}

\* A message is never stored under another time slot than the one the clock
\* showed when it arrived: the rotation of lines 212-225 comes before the write
\* of 226.  One that came while the clock was invalid may be in any file.
RightSlot ==
  \A p \in Path : \A i \in DOMAIN disk[p] : BelongsTo(disk[p][i], p)

\* A file opened once holds, at every moment and after any crash, a prefix of
\* what was written to it: no gap, no duplicate, no reordering.
SavedPrefix ==
  \A p \in Path : opens[p] <= 1 => IsPrefix(disk[p], sent[p])

\* The messages in a file opened once are consecutive ones of the receiver's: none
\* is missing between two, none comes twice or out of order, also where the clock
\* was lost and found again on the way; headers come only at the start.
Consecutive ==
  \A p \in Path : opens[p] <= 1 =>
    \A i, j \in DOMAIN disk[p] :
      j = i + 1 /\ ~disk[p][i].hdr
        => ~disk[p][j].hdr /\ disk[p][j].n = disk[p][i].n + 1

\* A file opened once and closed by the rotation holds all that was written to
\* it, whatever happened since: closing it (line 214) writes the buffer.
SettledComplete ==
  \A p \in settled : opens[p] = 1 => disk[p] = sent[p]

\* Once a message is stored the file in use is the current one, or one that open()
\* failed to create and that is still missing: line 212 takes it for the current
\* one as long as there is no file of the current one's bare name either, which
\* before 16:45 is always so.
HandleFollowsClock ==
  pc = "next" /\ handle.st # "none" /\ clock # Invalid
    => handle.path = PathOf(clock) \/ handle.path \notin created

\* The uninitialised fileTreefile (line 145) is only used if the very first
\* message of a run makes the clock valid.
StrayOnlyAtStart ==
  pc = "compare" /\ handle.st = "none" => received = base + 1

\* As long as the clock has not gone back, a file no longer changes once a later
\* one exists, over crashes and restarts: btcaster may hash it.
PastFrozen ==
  [][~wentBack =>
       \A p \in Path, q \in created : EarlierFile(p, q) => disk'[p] = disk[p]]_vars

\* What others see of the tree, at every moment and over crashes and restarts, is
\* an archive: no file ever shrinks, one opened once only grows at its end, and
\* as long as the clock has not gone back only the latest file is opened or written
\* to, although each file is opened without looking at the others (lines 202, 217).
Archived == INSTANCE Archive WITH
  File <- Path, Before <- {pq \in Path \X Path : EarlierFile(pq[1], pq[2])},
  contents <- disk, opened <- opens, ordered <- ~wentBack
ImplementsArchive == Archived!Spec

\* "Defer saving" (main.cpp:228): the deferred messages written to a file in
\* this run are still in the file or on their way to it.
DeferredSaved ==
  pc # "down" =>
    \A p \in Path : \A i \in DOMAIN sent[p] :
      LET cell == sent[p][i] IN
      ~cell.hdr /\ cell.at = Invalid /\ cell.n > base
        => cell \in ToSet(disk[p]) \cup ToSet(handle.buf)
=============================================================================
