--------------------------- MODULE FileTreeProofs ---------------------------
(***************************************************************************)
(* Proofs about FileTree, for every set of times, every slot length, every *)
(* number of messages and of restarts.                                     *)
(***************************************************************************)
EXTENDS FileTree, SequenceTheorems, TLAPS

-----------------------------------------------------------------------------
(* File contents.                                                          *)

\* A write inside or at the end of a file leaves a file at least as long, made
\* of old and of new cells (QFile's write at an offset, Overlay).
LEMMA OverlayCells ==
  ASSUME NEW S, NEW s \in Seq(S), NEW b \in Seq(S), NEW pos \in 0..Len(s)
  PROVE  /\ Overlay(s, pos, b) \in Seq(S)
         /\ Len(Overlay(s, pos, b)) >= pos + Len(b)
         /\ Len(Overlay(s, pos, b)) >= Len(s)
         /\ \A i \in DOMAIN Overlay(s, pos, b) :
              \/ \E j \in DOMAIN s : Overlay(s, pos, b)[i] = s[j]
              \/ \E j \in DOMAIN b : Overlay(s, pos, b)[i] = b[j]
<1> DEFINE front == SubSeq(s, 1, pos)
           till == pos + Len(b)
           back == SubSeq(s, till + 1, Len(s))
           written == front \o b
           result == written \o back
<1>1. Len(s) \in Nat /\ Len(b) \in Nat /\ till \in Nat /\ pos \in Nat /\ pos <= Len(s)
  BY LenProperties
<1>2. \A i \in 1..Len(s) : s[i] \in S
  BY ElementOfSeq
<1>3. front \in Seq(S) /\ Len(front) = pos /\ \A i \in 1..pos : front[i] = s[i]
  BY <1>1, <1>2, SubSeqProperties
<1>4. back \in Seq(S) /\ Len(back) \in Nat
  <2>1. \A i \in (till + 1)..Len(s) : s[i] \in S
    BY <1>1, <1>2
  <2>2. back \in Seq(S)
    BY <2>1, <1>1, SubSeqProperties
  <2> QED BY <2>2, LenProperties
<1>5. /\ Len(back) = 0 => till >= Len(s)
      /\ Len(back) > 0 => till + Len(back) = Len(s)
  <2>1. \A i \in (till + 1)..Len(s) : s[i] \in S
    BY <1>1, <1>2
  <2>2. Len(back) = IF till + 1 <= Len(s) THEN Len(s) - (till + 1) + 1 ELSE 0
    BY <2>1, <1>1, SubSeqProperties
  <2> HIDE DEF till, back
  <2> QED BY <2>2, <1>1
<1>6. \A i \in 1..Len(back) : back[i] = s[till + i]
  <2>1. \A i \in (till + 1)..Len(s) : s[i] \in S
    BY <1>1, <1>2
  <2>2. \A i \in 1..Len(s) - (till + 1) + 1 : back[i] = s[till + 1 + i - 1]
    BY <2>1, <1>1, SubSeqProperties
  <2> HIDE DEF till, back
  <2> QED BY <2>2, <1>1, <1>4, <1>5
<1>7. written \in Seq(S) /\ Len(written) = till
  BY <1>3, ConcatProperties
<1>8. \A i \in 1..till : written[i] = IF i <= pos THEN front[i] ELSE b[i - pos]
  BY <1>3, ConcatProperties
<1>9. result \in Seq(S) /\ Len(result) = till + Len(back)
  BY <1>4, <1>7, ConcatProperties
<1>10. \A i \in 1..(till + Len(back)) :
         result[i] = IF i <= till THEN written[i] ELSE back[i - till]
  <2> HIDE DEF front, till, back, written
  <2> QED BY <1>4, <1>7, ConcatProperties
<1>11. Overlay(s, pos, b) = result
  BY DEF Overlay
<1>12. till = pos + Len(b)
  OBVIOUS
<1> HIDE DEF front, till, back, written, result
<1>13. ASSUME NEW i \in 1..(till + Len(back))
       PROVE  \/ \E j \in 1..Len(s) : result[i] = s[j]
              \/ \E j \in 1..Len(b) : result[i] = b[j]
  <2>1. i \in Nat /\ 1 <= i /\ i <= till + Len(back)
    BY <1>1, <1>4
  <2>2. CASE i <= pos
    <3>1. i \in 1..Len(s) /\ i \in 1..pos /\ i \in 1..till
      BY <2>1, <2>2, <1>1, <1>12
    <3>2. result[i] = s[i]
      BY <2>1, <2>2, <3>1, <1>1, <1>3, <1>8, <1>10
    <3> QED BY <3>1, <3>2
  <2>3. CASE i > pos /\ i <= till
    <3>1. i - pos \in 1..Len(b) /\ i \in 1..till
      BY <2>1, <2>3, <1>1, <1>12
    <3>2. result[i] = b[i - pos]
      BY <2>1, <2>3, <3>1, <1>1, <1>8, <1>10
    <3> QED BY <3>1, <3>2
  <2>4. CASE i > till
    <3>1. i - till \in 1..Len(back) /\ till + (i - till) = i
      BY <2>1, <2>4, <1>1, <1>4
    <3>2. i \in 1..Len(s)
      BY <2>1, <2>4, <1>1, <1>4, <1>5
    <3>3. result[i] = back[i - till]
      BY <2>1, <2>4, <1>1, <1>10
    <3>4. back[i - till] = s[i]
      BY <3>1, <1>6
    <3> QED BY <3>2, <3>3, <3>4
  <2> QED BY <2>1, <2>2, <2>3, <2>4, <1>1
<1>14. Len(result) >= pos + Len(b) /\ Len(result) >= Len(s)
  BY <1>1, <1>4, <1>5, <1>9, <1>12
<1>15. DOMAIN s = 1..Len(s) /\ DOMAIN b = 1..Len(b) /\ DOMAIN result = 1..Len(result)
  BY <1>9, LenProperties
<1> QED BY <1>9, <1>11, <1>13, <1>14, <1>15

-----------------------------------------------------------------------------
(* Types.                                                                  *)

\* Past the test of line 188 the clock is valid until the message is written.
ClockKnown ==
  pc \in {"deferred", "compare", "reopen", "write"} => clock # Invalid

\* Only an open file has a buffer, and its offset lies within the file.
HandleFits ==
  /\ handle.st # "open" => handle.buf = << >>
  /\ handle.st = "open" => handle.pos <= Len(disk[handle.path])

Basics == TypeOK /\ ClockKnown /\ HandleFits

\* A valid time has a file, and Invalid is neither a time nor a file.
LEMMA Files ==
  /\ \A t \in Instant : PathOf(t) \in Path
  /\ Invalid \notin Instant /\ Invalid \notin Path
BY ConstantsAssumption DEF Path

\* The header written to a file (lines 219-224) consists of cells.
LEMMA HeaderTyped ==
  ASSUME TypeOK
  PROVE  FileHeader \in Seq(Cell)
<1>1. \A k \in HeaderKind : HeaderCell(k) \in Cell
  BY DEF TypeOK, HeaderCell, Cell
<1>2. "JP" \in HeaderKind /\ "MF" \in HeaderKind /\ "PM" \in HeaderKind
  BY DEF HeaderKind
<1> QED BY <1>1, <1>2 DEF FileHeader

\* Writing the buffer out keeps every file a sequence of cells, at least as
\* long as it was and as the offset behind what was written.
LEMMA FlushedTyped ==
  ASSUME Basics
  PROVE  /\ Flushed \in [Path -> Seq(Cell)]
         /\ handle.st = "open" =>
              handle.pos + Len(handle.buf) <= Len(Flushed[handle.path])
<1>1. CASE handle.st = "open"
  <2>1. /\ handle.path \in Path /\ disk \in [Path -> Seq(Cell)]
        /\ handle.buf \in Seq(Cell) /\ handle.pos \in Nat
    BY <1>1 DEF Basics, TypeOK, Handle
  <2>2. disk[handle.path] \in Seq(Cell) /\ Len(disk[handle.path]) \in Nat
    BY <2>1, LenProperties
  <2>3. handle.pos \in 0..Len(disk[handle.path])
    BY <1>1, <2>1, <2>2 DEF Basics, HandleFits
  <2> DEFINE new == Overlay(disk[handle.path], handle.pos, handle.buf)
  <2>4. new \in Seq(Cell) /\ Len(new) >= handle.pos + Len(handle.buf)
    BY <2>1, <2>2, <2>3, OverlayCells
  <2>5. Flushed = [disk EXCEPT ![handle.path] = new]
    BY <1>1 DEF Flushed
  <2> HIDE DEF new
  <2>6. Len(new) \in Nat /\ Len(handle.buf) \in Nat
    BY <2>1, <2>4, LenProperties
  <2> QED BY <2>1, <2>4, <2>5, <2>6
<1>2. CASE handle.st # "open"
  BY <1>2 DEF Basics, TypeOK, Flushed
<1> QED BY <1>1, <1>2

\* The effect of opening a file and writing to it (lines 202-205, 217-224).
LEMMA OpenAndWriteTyped ==
  ASSUME Basics, NEW p \in Path, NEW ok \in BOOLEAN, NEW cells \in Seq(Cell),
         OpenAndWrite(p, ok, cells)
  PROVE  /\ handle' \in Handle /\ handle'.path = p /\ handle'.pos = 0
         /\ handle'.st = IF ok THEN "open" ELSE "failed"
         /\ handle'.buf = IF ok THEN cells ELSE << >>
         /\ created' \subseteq Path
         /\ opens' \in [Path -> Nat]
         /\ sent' \in [Path -> Seq(Cell)]
<1> USE DEF Basics, TypeOK, OpenAndWrite
<1>1. handle' = [st |-> IF ok THEN "open" ELSE "failed", path |-> p, pos |-> 0,
                 buf |-> IF ok THEN cells ELSE << >>]
  OBVIOUS
<1>2. handle' \in Handle
  BY <1>1 DEF Handle
<1>3. created' \subseteq Path /\ opens' \in [Path -> Nat]
  OBVIOUS
<1>4. sent[p] \o cells \in Seq(Cell)
  BY ConcatProperties
<1>5. sent' \in [Path -> Seq(Cell)]
  BY <1>4
<1> QED BY <1>1, <1>2, <1>3, <1>5

\* The updates of the handle's state, offset and buffer keep its type.
LEMMA HandleUpdates ==
  ASSUME NEW h \in Handle, NEW n \in Nat, NEW b \in Seq(Cell)
  PROVE  /\ [h EXCEPT !.st = "closed", !.buf = b] \in Handle
         /\ [h EXCEPT !.pos = n, !.buf = b] \in Handle
         /\ [h EXCEPT !.buf = b] \in Handle
<1>1. ASSUME NEW g \in Handle
      PROVE  /\ [g EXCEPT !.buf = b] \in Handle
             /\ [g EXCEPT !.pos = n] \in Handle
             /\ [g EXCEPT !.st = "closed"] \in Handle
  BY DEF Handle
<1>2. /\ [h EXCEPT !.st = "closed", !.buf = b]
           = [[h EXCEPT !.st = "closed"] EXCEPT !.buf = b]
      /\ [h EXCEPT !.pos = n, !.buf = b] = [[h EXCEPT !.pos = n] EXCEPT !.buf = b]
  OBVIOUS
<1> QED BY <1>1, <1>2

LEMMA BasicsInit == Init => Basics
<1> SUFFICES ASSUME Init PROVE Basics
  OBVIOUS
<1>1. BuiltIn \in [HeaderKind -> Nat] /\ NoMessage \in Cell /\ NoFile \in Handle
  BY DEF BuiltIn, NoMessage, Cell, NoFile, Handle
<1>2. /\ << >> \in Seq(Cell) /\ [p \in Path |-> << >>] \in [Path -> Seq(Cell)]
      /\ [p \in Path |-> 0] \in [Path -> Nat]
  OBVIOUS
<1>3. /\ pc \in Location /\ tree \in BOOLEAN
      /\ clock \in Instant \cup {Invalid} /\ lastTime \in Instant \cup {Invalid}
      /\ wentBack \in BOOLEAN
      /\ header \in [HeaderKind -> Nat] /\ msg \in Cell
      /\ received \in Nat /\ base \in 0..received
  <2>1. pc \in Location /\ tree \in BOOLEAN /\ header \in [HeaderKind -> Nat] /\ msg \in Cell
    BY <1>1 DEF Init, Location
  <2>2. received \in Nat /\ base \in 0..received
    BY DEF Init
  <2> QED BY <2>1, <2>2 DEF Init
<1>4. /\ deferred \in Seq(Cell)
      /\ handle \in Handle /\ handle.st = "none"
      /\ dirs \subseteq Nat /\ created \subseteq Path /\ settled \subseteq Path
      /\ disk \in [Path -> Seq(Cell)] /\ sent \in [Path -> Seq(Cell)]
      /\ opens \in [Path -> Nat]
  BY <1>1, <1>2 DEF Init, NoFile
<1>5. TypeOK
  BY <1>3, <1>4 DEF TypeOK
<1> QED
  BY <1>5 DEF Init, Basics, ClockKnown, HandleFits, NoFile

\* Every step keeps the types: opening happens only with a valid clock, and
\* writing only at an offset inside the file.
LEMMA BasicsNext == Basics /\ [Next]_vars => Basics'
<1> SUFFICES ASSUME Basics, [Next]_vars PROVE Basics'
  OBVIOUS
<1> USE DEF Basics, process, store, history
<1>1. CASE Start
  BY <1>1 DEF Start, TypeOK, Location, ClockKnown, HandleFits
<1>2. ASSUME Exit PROVE Basics'
  <2>1. BuiltIn \in [HeaderKind -> Nat] /\ NoMessage \in Cell /\ NoFile \in Handle
    BY DEF BuiltIn, NoMessage, Cell, NoFile, Handle
  <2>2. << >> \in Seq(Cell)
    OBVIOUS
  <2>3. TypeOK'
    BY <1>2, <2>1, <2>2 DEF Exit, TypeOK, Location, NoFile
  <2> QED
    BY <1>2, <2>3 DEF Exit, ClockKnown, HandleFits, NoFile
<1>3. ASSUME NEW kind \in MessageKind, Receive(kind) PROVE Basics'
  <2>1. clock' \in Instant \cup {Invalid} /\ lastTime' \in Instant \cup {Invalid}
    BY <1>3 DEF Receive, TypeOK
  <2>5. wentBack' \in BOOLEAN
    BY <1>3 DEF Receive
  <2>2. header' \in [HeaderKind -> Nat]
    BY <1>3 DEF Receive, TypeOK
  <2>3. msg' \in Cell
    BY <1>3, <2>1, Files DEF Receive, TypeOK, Cell
  <2>4. TypeOK'
    BY <1>3, <2>1, <2>2, <2>3, <2>5 DEF Receive, TypeOK, Location
  <2> QED
    BY <1>3, <2>4 DEF Receive, ClockKnown, HandleFits
<1>4. CASE Defer
  <2>1. deferred' \in Seq(Cell)
    BY <1>4 DEF Defer, TypeOK
  <2> QED
    BY <1>4, <2>1 DEF Defer, TypeOK, Location, ClockKnown, HandleFits
<1>5. CASE MakePath
  <2>1. clock \in Instant
    BY <1>5 DEF MakePath, TypeOK
  <2>2. clock.day \in Nat
    BY <2>1, ConstantsAssumption
  <2>3. dirs' \subseteq Nat
    BY <1>5, <2>2 DEF MakePath, TypeOK
  <2> QED
    BY <1>5, <2>3 DEF MakePath, TypeOK, Location, ClockKnown, HandleFits
<1>6. ASSUME NEW ok \in BOOLEAN, WriteDeferred(ok) PROVE Basics'
  <2>1. PathOf(clock) \in Path /\ deferred \in Seq(Cell)
    BY <1>6, Files DEF WriteDeferred, TypeOK, ClockKnown
  <2>2. OpenAndWrite(PathOf(clock), ok, deferred)
    BY <1>6 DEF WriteDeferred
  <2>3. /\ handle' \in Handle /\ handle'.path \in Path /\ handle'.pos = 0
        /\ handle'.st \in {"open", "failed"}
        /\ handle'.st # "open" => handle'.buf = << >>
        /\ created' \subseteq Path
        /\ opens' \in [Path -> Nat] /\ sent' \in [Path -> Seq(Cell)]
    BY <2>1, <2>2, OpenAndWriteTyped
  <2>4. TypeOK'
    BY <1>6, <2>3 DEF WriteDeferred, TypeOK, Location
  <2>5. disk'[handle'.path] \in Seq(Cell)
    BY <2>3, <2>4 DEF TypeOK
  <2> QED
    BY <1>6, <2>3, <2>4, <2>5, LenProperties DEF WriteDeferred, ClockKnown, HandleFits
<1>7. CASE NothingDeferred
  BY <1>7 DEF NothingDeferred, TypeOK, Location, ClockKnown, HandleFits
<1>8. CASE KeepFile
  BY <1>8 DEF KeepFile, TypeOK, Location, ClockKnown, HandleFits
<1>9. CASE CloseFile
  <2>1. handle' \in Handle /\ handle'.st = "closed" /\ handle'.buf = << >>
        /\ handle'.path = handle.path
    <3>1. handle' = [handle EXCEPT !.st = "closed", !.buf = << >>]
      BY <1>9 DEF CloseFile
    <3>2. handle \in Handle /\ << >> \in Seq(Cell)
      BY DEF TypeOK
    <3>3. handle' \in Handle
      BY <3>1, <3>2, HandleUpdates
    <3> QED BY <3>1, <3>2, <3>3 DEF Handle
  <2>2. disk' \in [Path -> Seq(Cell)]
    BY <1>9, FlushedTyped DEF CloseFile
  <2>3. TypeOK'
    BY <1>9, <2>1, <2>2 DEF CloseFile, TypeOK, Location
  <2> QED
    BY <1>9, <2>1, <2>3 DEF CloseFile, ClockKnown, HandleFits
<1>10. ASSUME NEW ok \in BOOLEAN, OpenFile(ok) PROVE Basics'
  <2>1. PathOf(clock) \in Path /\ FileHeader \in Seq(Cell)
    BY <1>10, Files, HeaderTyped DEF OpenFile, TypeOK, ClockKnown
  <2>2. OpenAndWrite(PathOf(clock), ok, FileHeader)
    BY <1>10 DEF OpenFile
  <2>3. /\ handle' \in Handle /\ handle'.path \in Path /\ handle'.pos = 0
        /\ handle'.st \in {"open", "failed"}
        /\ handle'.st # "open" => handle'.buf = << >>
        /\ created' \subseteq Path
        /\ opens' \in [Path -> Nat] /\ sent' \in [Path -> Seq(Cell)]
    BY <2>1, <2>2, OpenAndWriteTyped
  <2>4. TypeOK'
    BY <1>10, <2>3 DEF OpenFile, TypeOK, Location
  <2>5. disk'[handle'.path] \in Seq(Cell)
    BY <2>3, <2>4 DEF TypeOK
  <2> QED
    BY <1>10, <2>3, <2>4, <2>5, LenProperties DEF OpenFile, ClockKnown, HandleFits
<1>11. CASE WriteMessage
  <2>1. CASE handle.st = "open"
    <3>1. handle' \in Handle /\ handle'.st = "open"
          /\ handle'.path = handle.path /\ handle'.pos = handle.pos
      <4>1. handle' = [handle EXCEPT !.buf = Append(handle.buf, msg)]
        BY <1>11, <2>1 DEF WriteMessage
      <4>2. handle \in Handle
        BY DEF TypeOK
      <4>3. Append(handle.buf, msg) \in Seq(Cell)
        BY <4>2, AppendProperties DEF TypeOK, Handle
      <4>4. handle' \in Handle
        BY <4>1, <4>2, <4>3, HandleUpdates
      <4> QED BY <4>1, <4>2, <4>4, <2>1 DEF Handle
    <3>2. sent' \in [Path -> Seq(Cell)]
      <4>1. sent' = [sent EXCEPT ![handle.path] = Append(sent[handle.path], msg)]
        BY <1>11, <2>1 DEF WriteMessage
      <4>2. Append(sent[handle.path], msg) \in Seq(Cell)
        BY <2>1, AppendProperties DEF TypeOK
      <4> QED BY <4>1, <4>2 DEF TypeOK
    <3>3. TypeOK'
      BY <1>11, <3>1, <3>2 DEF WriteMessage, TypeOK, Location
    <3> QED
      BY <1>11, <2>1, <3>1, <3>3 DEF WriteMessage, ClockKnown, HandleFits
  <2>2. CASE handle.st # "open"
    BY <1>11, <2>2 DEF WriteMessage, TypeOK, Location, ClockKnown, HandleFits
  <2> QED BY <2>1, <2>2
<1>12. CASE FlushBuffer
  <2>1. Len(handle.buf) \in Nat
    BY <1>12, LenProperties DEF FlushBuffer, TypeOK, Handle
  <2>2. handle' \in Handle /\ handle'.st = "open" /\ handle'.path = handle.path
        /\ handle'.pos = handle.pos + Len(handle.buf)
    <3>1. handle' = [handle EXCEPT !.pos = handle.pos + Len(handle.buf), !.buf = << >>]
      BY <1>12 DEF FlushBuffer
    <3>2. handle \in Handle /\ << >> \in Seq(Cell) /\ handle.st = "open"
      BY <1>12 DEF TypeOK, FlushBuffer
    <3>3. handle.pos + Len(handle.buf) \in Nat
      BY <2>1, <3>2 DEF Handle
    <3>4. handle' \in Handle
      BY <3>1, <3>2, <3>3, HandleUpdates
    <3> QED BY <3>1, <3>2, <3>4 DEF Handle
  <2>3. disk' \in [Path -> Seq(Cell)]
    BY <1>12, FlushedTyped DEF FlushBuffer
  <2>4. TypeOK'
    BY <1>12, <2>2, <2>3 DEF FlushBuffer, TypeOK
  <2>5. handle'.pos <= Len(disk'[handle'.path])
    BY <1>12, <2>2, FlushedTyped DEF FlushBuffer
  <2> QED
    BY <1>12, <2>2, <2>4, <2>5 DEF FlushBuffer, ClockKnown, HandleFits
<1>13. CASE UNCHANGED vars
  BY <1>13 DEF vars, TypeOK, ClockKnown, HandleFits
<1> QED
  BY <1>1, <1>2, <1>3, <1>4, <1>5, <1>6, <1>7, <1>8, <1>9, <1>10, <1>11, <1>12,
     <1>13 DEF Next, Stop, MakePathFails, StrayPointer

\* The types hold in every state the broker reaches, over all restarts; the
\* writes to a file stay within it.
THEOREM BasicsAlways == Spec => []Basics
BY BasicsInit, BasicsNext, PTL DEF Spec

\* Type correctness: every variable of the main loop keeps its type.
THEOREM Typing == Spec => []TypeOK
<1>1. Basics => TypeOK
  BY DEF Basics
<1> QED BY <1>1, BasicsAlways, PTL

-----------------------------------------------------------------------------
(* Control: which file is in use, and when the pointer is not set yet.     *)

FileInUse == handle.st # "none"

\* Nothing of a run has been stored or deferred so far.
Untouched == ~FileInUse /\ deferred = << >>

ModeControl ==
  /\ pc = "down" => ~tree
  /\ ~tree => ~FileInUse /\ pc \in {"down", "next"}
  /\ pc \in {"reopen", "write"} => FileInUse
  /\ pc = "compare" => deferred = << >>

FirstMessage ==
  Untouched =>
    /\ pc = "next" /\ tree => received = base
    /\ pc \in {"store", "deferred", "compare"} => received = base + 1

CurrentFile ==
  pc \in {"write", "next"} /\ FileInUse /\ clock # Invalid
    => handle.path = PathOf(clock) \/ handle.path \notin created

Control == ModeControl /\ FirstMessage /\ CurrentFile

\* Every step of the main loop keeps the control invariant.
LEMMA ControlNext == Basics /\ Control /\ [Next]_vars => Control'
<1> SUFFICES ASSUME Basics, Control, [Next]_vars PROVE Control'
  OBVIOUS
<1> USE DEF Control, process, store, history, FileInUse, Untouched
<1>1. CASE Start
  BY <1>1 DEF Start, ModeControl, FirstMessage, CurrentFile
<1>2. ASSUME Exit PROVE Control'
  BY <1>2 DEF Exit, NoFile, ModeControl, FirstMessage, CurrentFile
<1>3. ASSUME NEW kind \in MessageKind, Receive(kind) PROVE Control'
  <2>1. received \in Nat /\ base \in Nat
    BY DEF Basics, TypeOK
  <2> QED
    BY <1>3, <2>1 DEF Receive, ModeControl, FirstMessage, CurrentFile
<1>4. CASE Defer
  <2>1. deferred' # << >>
    <3>1. deferred \in Seq(Cell) /\ msg \in Cell /\ deferred' = Append(deferred, msg)
      BY <1>4 DEF Defer, Basics, TypeOK
    <3> QED BY <3>1, AppendProperties
  <2> QED
    BY <1>4, <2>1 DEF Defer, ModeControl, FirstMessage, CurrentFile
<1>5. CASE MakePath
  BY <1>5 DEF MakePath, ModeControl, FirstMessage, CurrentFile
<1>6. ASSUME NEW ok \in BOOLEAN, WriteDeferred(ok) PROVE Control'
  <2>1. handle'.st # "none"
    BY <1>6 DEF WriteDeferred, OpenAndWrite
  <2> QED
    BY <1>6, <2>1 DEF WriteDeferred, ModeControl, FirstMessage, CurrentFile
<1>7. CASE NothingDeferred
  BY <1>7 DEF NothingDeferred, ModeControl, FirstMessage, CurrentFile
<1>8. CASE KeepFile
  BY <1>8 DEF KeepFile, SameFile, ModeControl, FirstMessage, CurrentFile
<1>9. CASE CloseFile
  <2>1. handle'.st # "none"
    BY <1>9 DEF CloseFile, Basics, TypeOK, Handle
  <2> QED
    BY <1>9, <2>1 DEF CloseFile, ModeControl, FirstMessage, CurrentFile
<1>10. ASSUME NEW ok \in BOOLEAN, OpenFile(ok) PROVE Control'
  <2>1. handle'.st # "none" /\ handle'.path = PathOf(clock)
    BY <1>10 DEF OpenFile, OpenAndWrite
  <2> QED
    BY <1>10, <2>1 DEF OpenFile, ModeControl, FirstMessage, CurrentFile
<1>11. CASE WriteMessage
  <2>1. handle'.st = handle.st /\ handle'.path = handle.path
    BY <1>11 DEF WriteMessage, Basics, TypeOK, Handle
  <2> QED
    BY <1>11, <2>1 DEF WriteMessage, ModeControl, FirstMessage, CurrentFile
<1>12. CASE FlushBuffer
  <2>1. handle'.st = handle.st /\ handle'.path = handle.path
    BY <1>12 DEF FlushBuffer, Basics, TypeOK, Handle
  <2> QED
    BY <1>12, <2>1 DEF FlushBuffer, ModeControl, FirstMessage, CurrentFile
<1>13. CASE UNCHANGED vars
  BY <1>13 DEF vars, ModeControl, FirstMessage, CurrentFile
<1> QED
  BY <1>1, <1>2, <1>3, <1>4, <1>5, <1>6, <1>7, <1>8, <1>9, <1>10, <1>11, <1>12,
     <1>13 DEF Next, Stop, MakePathFails, StrayPointer

THEOREM ControlAlways == Spec => []Control
<1>1. Init => Control
  BY DEF Init, NoFile, Control, ModeControl, FirstMessage, CurrentFile,
         FileInUse, Untouched
<1> QED BY <1>1, ControlNext, BasicsAlways, PTL DEF Spec

\* The file in use is the one of the current slot whenever a message has been
\* stored, failed opens apart (the comparison of line 212).
THEOREM CurrentFileInUse == Spec => []HandleFollowsClock
<1>1. Control => HandleFollowsClock
  BY DEF Control, CurrentFile, FileInUse, HandleFollowsClock
<1> QED BY <1>1, ControlAlways, PTL

\* The uninitialised pointer of line 145 is used on the first message of a run
\* or never, however often the broker is restarted.
THEOREM StrayPointerOnlyAtStart == Spec => []StrayOnlyAtStart
<1>1. Control => StrayOnlyAtStart
  BY DEF Control, ModeControl, FirstMessage, FileInUse, Untouched, StrayOnlyAtStart
<1> QED BY <1>1, ControlAlways, PTL

-----------------------------------------------------------------------------
(* Contents: which cells are in which file.                                *)

OpenAt(p) == handle.st = "open" /\ handle.path = p

AllBelong(cells, p) == \A i \in DOMAIN cells : BelongsTo(cells[i], p)

MessageSlot ==
  pc \in {"store", "deferred", "compare", "reopen", "write"} =>
    msg.at = IF clock = Invalid THEN Invalid ELSE PathOf(clock)

Owned ==
  /\ RightSlot
  /\ handle.st = "open" => AllBelong(handle.buf, handle.path)
  /\ handle.st = "open" => handle.path \in created
  /\ \A i \in DOMAIN deferred : deferred[i].at = Invalid
  /\ MessageSlot

\* Writing the buffer out puts no cell into a wrong file.
LEMMA FlushedOwned ==
  ASSUME Basics, Owned, NEW p \in Path
  PROVE  AllBelong(Flushed[p], p)
<1>1. AllBelong(disk[p], p)
  BY DEF Owned, RightSlot, AllBelong
<1>2. CASE OpenAt(p)
  <2>1. /\ disk[p] \in Seq(Cell) /\ disk \in [Path -> Seq(Cell)]
        /\ handle.buf \in Seq(Cell) /\ handle.pos \in Nat
    BY DEF Basics, TypeOK, Handle
  <2>2. handle.pos <= Len(disk[p]) /\ Len(disk[p]) \in Nat
    BY <1>2, <2>1, LenProperties DEF Basics, HandleFits, OpenAt
  <2> DEFINE new == Overlay(disk[p], handle.pos, handle.buf)
  <2>3. \A i \in DOMAIN new : \/ \E j \in DOMAIN disk[p] : new[i] = disk[p][j]
                             \/ \E j \in DOMAIN handle.buf : new[i] = handle.buf[j]
    <3>1. handle.pos \in 0..Len(disk[p])
      BY <2>1, <2>2
    <3>2. disk[p] \in Seq(Cell) /\ handle.buf \in Seq(Cell)
      BY <2>1
    <3> QED BY ONLY <3>1, <3>2, OverlayCells
  <2>4. Flushed[p] = new
    BY <1>2, <2>1 DEF Flushed, OpenAt
  <2>5. AllBelong(handle.buf, p)
    BY <1>2 DEF Owned, OpenAt
  <2> HIDE DEF new
  <2> QED BY <1>1, <2>3, <2>4, <2>5 DEF AllBelong
<1>3. CASE ~OpenAt(p)
  <2>1. Flushed[p] = disk[p]
    BY <1>3 DEF Flushed, OpenAt, Basics, TypeOK
  <2> QED BY <1>1, <2>1
<1> QED BY <1>2, <1>3

\* Every step keeps each stored, buffered and deferred cell in its place: the
\* rotation precedes the write of the message.
LEMMA OwnedNext == Basics /\ Control /\ Owned /\ [Next]_vars => Owned'
<1> SUFFICES ASSUME Basics, Control, Owned, [Next]_vars PROVE Owned'
  OBVIOUS
<1> USE DEF Owned, process, store, history
<1>1. ASSUME UNCHANGED <<handle, created, disk, deferred>>, MessageSlot'
      PROVE  Owned'
  BY <1>1 DEF RightSlot, AllBelong
<1>2. ASSUME NEW p \in Path, NEW ok \in BOOLEAN, NEW cells \in Seq(Cell),
             AllBelong(cells, p), OpenAndWrite(p, ok, cells),
             UNCHANGED <<clock, msg, disk>>,
             deferred' = deferred \/ deferred' = << >>,
             pc \in {"deferred", "reopen"}
      PROVE  Owned'
  <2>1. /\ handle'.path = p
        /\ handle'.st = IF ok THEN "open" ELSE "failed"
        /\ handle'.buf = IF ok THEN cells ELSE << >>
    BY <1>2, OpenAndWriteTyped
  <2>2. handle'.st = "open" => /\ AllBelong(handle'.buf, handle'.path)
                               /\ handle'.path \in created'
    BY <1>2, <2>1 DEF OpenAndWrite
  <2>3. \A i \in DOMAIN deferred' : deferred'[i].at = Invalid
    BY <1>2
  <2>4. MessageSlot'
    BY <1>2 DEF MessageSlot
  <2>5. RightSlot'
    BY <1>2 DEF RightSlot
  <2>6. handle'.st = "open" => AllBelong(handle.buf, handle.path)'
    BY <2>2 DEF AllBelong, BelongsTo
  <2> QED BY <2>2, <2>3, <2>4, <2>5, <2>6
<1>3. CASE Start
  BY <1>3, <1>1 DEF Start, MessageSlot
<1>4. ASSUME Exit PROVE Owned'
  BY <1>4 DEF Exit, NoFile, RightSlot, MessageSlot
<1>5. ASSUME NEW kind \in MessageKind, Receive(kind) PROVE Owned'
  BY <1>5, <1>1 DEF Receive, MessageSlot
<1>6. CASE Defer
  <2>1. deferred \in Seq(Cell) /\ msg \in Cell /\ deferred' = Append(deferred, msg)
    BY <1>6 DEF Defer, Basics, TypeOK
  <2>2. msg.at = Invalid
    BY <1>6 DEF Defer, MessageSlot
  <2>3. \A i \in DOMAIN deferred' : deferred'[i] = msg \/ (i \in DOMAIN deferred
                                                         /\ deferred'[i] = deferred[i])
    BY <2>1, AppendProperties, LenProperties
  <2>4. \A i \in DOMAIN deferred' : deferred'[i].at = Invalid
    BY <2>2, <2>3
  <2> QED BY <1>6, <2>4 DEF Defer, RightSlot, AllBelong, MessageSlot
<1>7. CASE MakePath
  BY <1>7, <1>1 DEF MakePath, MessageSlot
<1>8. ASSUME NEW ok \in BOOLEAN, WriteDeferred(ok) PROVE Owned'
  <2>1. PathOf(clock) \in Path /\ deferred \in Seq(Cell)
    BY <1>8, Files DEF WriteDeferred, Basics, TypeOK, ClockKnown
  <2>2. AllBelong(deferred, PathOf(clock))
    BY DEF AllBelong, BelongsTo
  <2> QED BY <1>8, <1>2, <2>1, <2>2 DEF WriteDeferred
<1>9. CASE NothingDeferred
  BY <1>9, <1>1 DEF NothingDeferred, MessageSlot
<1>10. CASE KeepFile
  BY <1>10, <1>1 DEF KeepFile, MessageSlot
<1>11. CASE CloseFile
  <2>1. RightSlot'
    BY <1>11, FlushedOwned DEF CloseFile, RightSlot, AllBelong
  <2>2. handle'.st # "open"
    BY <1>11 DEF CloseFile, Basics, TypeOK, Handle
  <2> QED BY <1>11, <2>1, <2>2 DEF CloseFile, MessageSlot
<1>12. ASSUME NEW ok \in BOOLEAN, OpenFile(ok) PROVE Owned'
  <2>1. PathOf(clock) \in Path /\ FileHeader \in Seq(Cell)
    BY <1>12, Files, HeaderTyped DEF OpenFile, Basics, TypeOK, ClockKnown
  <2>2. AllBelong(FileHeader, PathOf(clock))
    BY DEF AllBelong, BelongsTo, FileHeader, HeaderCell
  <2> QED BY <1>12, <1>2, <2>1, <2>2 DEF OpenFile
<1>13. CASE WriteMessage
  <2>1. CASE handle.st = "open"
    <3>1. /\ handle.buf \in Seq(Cell) /\ msg \in Cell
          /\ handle'.st = "open" /\ handle'.path = handle.path
          /\ handle'.buf = Append(handle.buf, msg)
      BY <1>13, <2>1 DEF WriteMessage, Basics, TypeOK, Handle
    <3>2. handle.path = PathOf(clock) /\ clock # Invalid
      BY <1>13, <2>1 DEF WriteMessage, Control, CurrentFile, FileInUse,
                         Basics, ClockKnown
    <3>3. BelongsTo(msg, handle.path)
      BY <1>13, <3>2 DEF WriteMessage, MessageSlot, BelongsTo
    <3>4. \A i \in DOMAIN handle'.buf :
            handle'.buf[i] = msg \/ (i \in DOMAIN handle.buf
                                      /\ handle'.buf[i] = handle.buf[i])
      BY <3>1, AppendProperties, LenProperties
    <3>5. AllBelong(handle'.buf, handle.path)
      BY <2>1, <3>3, <3>4 DEF AllBelong
    <3>6. AllBelong(handle.buf, handle.path)'
      BY <3>1, <3>5 DEF AllBelong, BelongsTo
    <3> QED BY <1>13, <2>1, <3>1, <3>6 DEF WriteMessage, RightSlot, MessageSlot
  <2>2. CASE handle.st # "open"
    BY <1>13, <2>2, <1>1 DEF WriteMessage, MessageSlot
  <2> QED BY <2>1, <2>2
<1>14. CASE FlushBuffer
  <2>1. RightSlot'
    BY <1>14, FlushedOwned DEF FlushBuffer, RightSlot, AllBelong
  <2>2. handle'.buf = << >> /\ handle'.path = handle.path
    BY <1>14 DEF FlushBuffer, Basics, TypeOK, Handle
  <2>3. AllBelong(handle.buf, handle.path)'
    BY <2>2 DEF AllBelong
  <2> QED BY <1>14, <2>1, <2>2, <2>3 DEF FlushBuffer, MessageSlot
<1>15. CASE UNCHANGED vars
  BY <1>15, <1>1 DEF vars, MessageSlot
<1> QED
  BY <1>3, <1>4, <1>5, <1>6, <1>7, <1>8, <1>9, <1>10, <1>11, <1>12, <1>13,
     <1>14, <1>15 DEF Next, Stop, MakePathFails, StrayPointer

\* No message is ever stored under another time slot than the one the clock
\* showed when it arrived.
THEOREM StoredInRightSlot == Spec => []RightSlot
<1>1. Init => Owned
  BY DEF Init, NoFile, Owned, RightSlot, MessageSlot
<1>2. Owned => RightSlot
  BY DEF Owned
<1> QED BY <1>1, <1>2, OwnedNext, BasicsAlways, ControlAlways, PTL DEF Spec

=============================================================================
