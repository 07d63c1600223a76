------------------------ MODULE FileTreeSavedProofs ------------------------
(***************************************************************************)
(* Proof that a file of the tree that was opened once holds a prefix of    *)
(* what was written to it, and all of it once the rotation has closed it,  *)
(* for every number of messages, files, failed opens and restarts.         *)
(***************************************************************************)
EXTENDS FileTreeProofs

-----------------------------------------------------------------------------
(* File contents.                                                          *)

\* A write at the end of a file appends.
LEMMA OverlayAtEnd ==
  ASSUME NEW S, NEW s \in Seq(S), NEW b \in Seq(S)
  PROVE  Overlay(s, Len(s), b) = s \o b
<1>1. Len(s) \in Nat /\ Len(b) \in Nat
  BY LenProperties
<1>2. SubSeq(s, 1, Len(s)) = s
  BY SubSeqFull
<1>3. SubSeq(s, Len(s) + Len(b) + 1, Len(s)) = << >>
  BY <1>1, SubSeqEmpty
<1>4. (s \o b) \o << >> = s \o b
  BY ConcatProperties, ConcatEmptySeq
<1> QED BY <1>2, <1>3, <1>4 DEF Overlay

\* A file remains a prefix of what was written to it when more is written.
LEMMA PrefixExtends ==
  ASSUME NEW S, NEW s \in Seq(S), NEW t \in Seq(S), NEW u \in Seq(S)
  PROVE  /\ IsPrefix(s, s \o u)
         /\ IsPrefix(s, t) => IsPrefix(s, t \o u)
<1>1. ASSUME NEW v \in Seq(S)
      PROVE  /\ v \o u \in Seq(S)
             /\ Len(v \o u) = Len(v) + Len(u)
             /\ \A i \in 1..(Len(v) + Len(u)) :
                  (v \o u)[i] = IF i <= Len(v) THEN v[i] ELSE u[i - Len(v)]
             /\ Len(v) \in Nat /\ Len(u) \in Nat
  BY ConcatProperties, LenProperties
<1>2. ASSUME NEW v \in Seq(S), NEW n \in 0..Len(v)
      PROVE  SubSeq(v, 1, n) = SubSeq(v \o u, 1, n)
  <2>1. /\ SubSeq(v, 1, n) \in Seq(S) /\ Len(SubSeq(v, 1, n)) = n
        /\ \A i \in 1..n : SubSeq(v, 1, n)[i] = v[i]
    BY <1>1, SubSeqProperties, LenProperties
  <2>2. \A i \in 1..n : (v \o u)[i] \in S /\ (v \o u)[i] = v[i]
    BY <1>1, ElementOfSeq
  <2>3. /\ SubSeq(v \o u, 1, n) \in Seq(S) /\ Len(SubSeq(v \o u, 1, n)) = n
        /\ \A i \in 1..n : SubSeq(v \o u, 1, n)[i] = (v \o u)[i]
    BY <2>2, <1>1, SubSeqProperties
  <2> QED BY <2>1, <2>2, <2>3, SeqEqual
<1> QED BY <1>1, <1>2 DEF IsPrefix

\* Appending to the last of two parts appends to the whole.
LEMMA AppendToConcat ==
  ASSUME NEW s \in Seq(Cell), NEW t \in Seq(Cell), NEW e \in Cell
  PROVE  Append(s \o t, e) = s \o Append(t, e)
<1> DEFINE last == <<e>>
<1>1. last \in Seq(Cell)
  OBVIOUS
<1>2. s \o t \in Seq(Cell)
  BY ConcatProperties
<1>3. Append(s \o t, e) = (s \o t) \o last
  BY <1>2, AppendIsConcat
<1>4. Append(t, e) = t \o last
  BY AppendIsConcat
<1> HIDE DEF last
<1>5. (s \o t) \o last = s \o (t \o last)
  BY <1>1, ConcatAssociative
<1> QED BY <1>3, <1>4, <1>5, Zenon

\* Every sequence is a prefix of itself.
LEMMA PrefixSelf ==
  ASSUME NEW S, NEW s \in Seq(S)
  PROVE  IsPrefix(s, s)
BY LenProperties DEF IsPrefix

-----------------------------------------------------------------------------
(* What is known of a file that was never opened, of one that is open for  *)
(* the first time, and of one that was opened once.                        *)

Fresh(p) == disk[p] = << >> /\ sent[p] = << >> /\ p \notin settled /\ ~OpenAt(p)
InProgress(p) ==
  handle.pos = Len(disk[p]) /\ sent[p] = disk[p] \o handle.buf /\ p \notin settled
Saved(p) == IsPrefix(disk[p], sent[p]) /\ (p \in settled => disk[p] = sent[p])

FileOK(p) ==
  /\ opens[p] = 0 => Fresh(p)
  /\ opens[p] = 1 => IF OpenAt(p) THEN InProgress(p) ELSE Saved(p)

Written == \A p \in Path : FileOK(p)

\* The types of what a file holds and has been sent.
LEMMA FileTyped ==
  ASSUME Basics, NEW p \in Path
  PROVE  /\ disk[p] \in Seq(Cell) /\ sent[p] \in Seq(Cell) /\ opens[p] \in Nat
         /\ handle.buf \in Seq(Cell) /\ handle \in Handle /\ msg \in Cell
BY DEF Basics, TypeOK, Handle

\* A buffer that is lost leaves a prefix (the handle dropped on line 202, a
\* crash).
LEMMA SavedWithoutBuffer ==
  ASSUME Basics, NEW p \in Path, FileOK(p), opens[p] = 1
  PROVE  Saved(p)
<1>1. CASE OpenAt(p)
  <2>1. sent[p] = disk[p] \o handle.buf /\ p \notin settled
    BY <1>1 DEF FileOK, InProgress
  <2>2. IsPrefix(disk[p], disk[p] \o handle.buf)
    BY FileTyped, PrefixExtends
  <2> QED BY <2>1, <2>2 DEF Saved
<1>2. CASE ~OpenAt(p)
  BY <1>2 DEF FileOK
<1> QED BY <1>1, <1>2

\* A file a step does not touch, and that is not open after it.
LEMMA LeftAlone ==
  ASSUME Basics, NEW p \in Path, FileOK(p), ~OpenAt(p)',
         disk'[p] = disk[p], sent'[p] = sent[p], opens'[p] = opens[p],
         p \in settled' <=> p \in settled
  PROVE  FileOK(p)'
<1>1. opens[p] = 1 => Saved(p)
  BY SavedWithoutBuffer
<1> QED BY <1>1 DEF FileOK, Fresh, Saved

\* Opening a file (lines 202-205, 217-224) and writing to it.
LEMMA OpenedFile ==
  ASSUME Basics, NEW p \in Path, NEW ok \in BOOLEAN, NEW cells \in Seq(Cell),
         OpenAndWrite(p, ok, cells), UNCHANGED <<disk, settled>>,
         NEW q \in Path, FileOK(q)
  PROVE  FileOK(q)'
<1>1. /\ handle'.path = p /\ handle'.pos = 0
      /\ handle'.st = IF ok THEN "open" ELSE "failed"
      /\ handle'.buf = IF ok THEN cells ELSE << >>
  BY OpenAndWriteTyped
<1>2. CASE ok /\ q = p
  <2>1. opens'[p] = opens[p] + 1 /\ sent'[p] = sent[p] \o cells
    BY <1>2 DEF OpenAndWrite, Basics, TypeOK
  <2>2. OpenAt(q)'
    BY <1>1, <1>2 DEF OpenAt
  <2>3. opens[p] = 0 => InProgress(q)'
    <3>1. SUFFICES ASSUME opens[p] = 0 PROVE InProgress(q)'
      OBVIOUS
    <3>2. disk[p] = << >> /\ sent[p] = << >> /\ p \notin settled
      BY <1>2, <3>1 DEF FileOK, Fresh
    <3>3. sent'[p] = disk'[p] \o cells
      BY <2>1, <3>2
    <3> QED BY <1>1, <1>2, <3>2, <3>3 DEF InProgress
  <2> QED BY <1>2, <2>1, <2>2, <2>3, FileTyped DEF FileOK
<1>3. CASE ~(ok /\ q = p)
  <2>1. opens'[q] = opens[q] /\ sent'[q] = sent[q]
    BY <1>3 DEF OpenAndWrite, Basics, TypeOK
  <2>2. ~OpenAt(q)'
    BY <1>1, <1>3 DEF OpenAt
  <2> QED BY <2>1, <2>2, LeftAlone
<1> QED BY <1>2, <1>3

\* What writing the buffer out does to a file.
LEMMA FlushedFile ==
  ASSUME Basics, NEW p \in Path, FileOK(p)
  PROVE  /\ ~OpenAt(p) => Flushed[p] = disk[p]
         /\ OpenAt(p) /\ opens[p] = 1 =>
              Flushed[p] = disk[p] \o handle.buf /\ Flushed[p] = sent[p]
<1>1. CASE OpenAt(p) /\ opens[p] = 1
  <2>1. handle.pos = Len(disk[p]) /\ sent[p] = disk[p] \o handle.buf
    BY <1>1 DEF FileOK, InProgress
  <2>2. Flushed[p] = Overlay(disk[p], handle.pos, handle.buf)
    BY <1>1 DEF Flushed, OpenAt, Basics, TypeOK
  <2>3. disk[p] \in Seq(Cell) /\ handle.buf \in Seq(Cell)
    BY FileTyped
  <2>4. Overlay(disk[p], Len(disk[p]), handle.buf) = disk[p] \o handle.buf
    BY <2>3, OverlayAtEnd, Zenon
  <2> QED BY <1>1, <2>1, <2>2, <2>4, Zenon
<1>2. CASE ~OpenAt(p)
  BY <1>2 DEF Flushed, OpenAt, Basics, TypeOK
<1> QED BY <1>1, <1>2

LEMMA WrittenNext == Basics /\ Control /\ Written /\ [Next]_vars => Written'
<1> SUFFICES ASSUME Basics, Control, [Next]_vars, NEW p \in Path, FileOK(p)
             PROVE  FileOK(p)'
  BY DEF Written
<1> USE DEF process, store, history
<1>1. ASSUME UNCHANGED <<handle, disk, sent, opens, settled>> PROVE FileOK(p)'
  BY <1>1 DEF FileOK, Fresh, InProgress, Saved, OpenAt
<1>2. CASE Start
  BY <1>2, <1>1 DEF Start
<1>3. ASSUME Exit PROVE FileOK(p)'
  <2>1. ~OpenAt(p)'
    BY <1>3 DEF Exit, NoFile, OpenAt
  <2> QED BY <1>3, <2>1, LeftAlone DEF Exit
<1>4. ASSUME NEW kind \in MessageKind, Receive(kind) PROVE FileOK(p)'
  BY <1>4, <1>1 DEF Receive
<1>5. CASE Defer
  BY <1>5, <1>1 DEF Defer
<1>6. CASE MakePath
  BY <1>6, <1>1 DEF MakePath
<1>7. ASSUME NEW ok \in BOOLEAN, WriteDeferred(ok) PROVE FileOK(p)'
  <2>1. PathOf(clock) \in Path /\ deferred \in Seq(Cell)
    BY <1>7, Files DEF WriteDeferred, Basics, TypeOK, ClockKnown
  <2> QED BY <1>7, <2>1, OpenedFile DEF WriteDeferred
<1>8. CASE NothingDeferred
  BY <1>8, <1>1 DEF NothingDeferred
<1>9. CASE KeepFile
  BY <1>9, <1>1 DEF KeepFile
<1>10. CASE CloseFile
  <2>1. ~OpenAt(p)' /\ disk'[p] = Flushed[p]
        /\ (p \in settled' <=> p \in settled \/ OpenAt(p))
    BY <1>10 DEF CloseFile, OpenAt, Basics, TypeOK, Handle
  <2>2. CASE ~OpenAt(p)
    BY <1>10, <2>1, <2>2, FlushedFile, LeftAlone DEF CloseFile
  <2>3. CASE OpenAt(p)
    <3>1. opens[p] # 0
      BY <2>3 DEF FileOK, Fresh
    <3>2. ASSUME opens[p] = 1 PROVE Saved(p)'
      <4>1. disk'[p] = sent'[p]
        BY <1>10, <2>1, <2>3, <3>2, FlushedFile DEF CloseFile
      <4>2. IsPrefix(sent[p], sent[p])
        BY FileTyped, PrefixSelf
      <4>3. sent'[p] = sent[p]
        BY <1>10 DEF CloseFile
      <4> QED BY <4>1, <4>2, <4>3 DEF Saved
    <3>3. opens'[p] = opens[p]
      BY <1>10 DEF CloseFile
    <3> QED BY <2>1, <3>1, <3>2, <3>3 DEF FileOK
  <2> QED BY <2>2, <2>3
<1>11. ASSUME NEW ok \in BOOLEAN, OpenFile(ok) PROVE FileOK(p)'
  <2>1. PathOf(clock) \in Path /\ FileHeader \in Seq(Cell)
    BY <1>11, Files, HeaderTyped DEF OpenFile, Basics, TypeOK, ClockKnown
  <2> QED BY <1>11, <2>1, OpenedFile DEF OpenFile
<1>12. CASE WriteMessage
  <2>1. CASE handle.st = "open" /\ OpenAt(p)
    <3>1. /\ handle'.st = "open" /\ handle'.path = p /\ handle'.pos = handle.pos
          /\ handle'.buf = Append(handle.buf, msg)
      BY <1>12, <2>1, FileTyped DEF WriteMessage, OpenAt, Handle
    <3>2. sent'[p] = Append(sent[p], msg)
      BY <1>12, <2>1 DEF WriteMessage, OpenAt, Basics, TypeOK
    <3>3. ASSUME opens[p] = 1 PROVE InProgress(p)'
      <4>1. /\ handle.pos = Len(disk[p]) /\ sent[p] = disk[p] \o handle.buf
            /\ p \notin settled
        BY <2>1, <3>3 DEF FileOK, InProgress
      <4>2. Append(disk[p] \o handle.buf, msg) = disk[p] \o Append(handle.buf, msg)
        <5>1. disk[p] \in Seq(Cell) /\ handle.buf \in Seq(Cell) /\ msg \in Cell
          BY FileTyped
        <5> QED BY <5>1, AppendToConcat
      <4> QED BY <1>12, <3>1, <3>2, <4>1, <4>2 DEF WriteMessage, InProgress
    <3>4. OpenAt(p)' /\ opens' = opens /\ opens[p] # 0
      BY <1>12, <2>1, <3>1 DEF WriteMessage, OpenAt, FileOK, Fresh
    <3> QED BY <3>3, <3>4 DEF FileOK
  <2>2. CASE handle.st = "open" /\ ~OpenAt(p)
    <3>1. handle'.path = handle.path
      BY <1>12, <2>2, FileTyped DEF WriteMessage, Handle
    <3>2. ~OpenAt(p)' /\ sent'[p] = sent[p]
      BY <1>12, <2>2, <3>1 DEF WriteMessage, OpenAt, Basics, TypeOK
    <3> QED BY <1>12, <3>2, LeftAlone DEF WriteMessage
  <2>3. CASE handle.st # "open"
    BY <1>12, <2>3, <1>1 DEF WriteMessage
  <2> QED BY <2>1, <2>2, <2>3
<1>13. CASE FlushBuffer
  <2>1. /\ handle'.st = handle.st /\ handle'.path = handle.path
        /\ handle'.pos = handle.pos + Len(handle.buf) /\ handle'.buf = << >>
    BY <1>13, FileTyped DEF FlushBuffer, Handle
  <2>2. disk'[p] = Flushed[p] /\ sent' = sent /\ opens' = opens /\ settled' = settled
    BY <1>13 DEF FlushBuffer
  <2>3. CASE ~OpenAt(p)
    <3>1. ~OpenAt(p)'
      BY <2>1, <2>3 DEF OpenAt
    <3> QED BY <2>2, <2>3, <3>1, FlushedFile, LeftAlone
  <2>4. CASE OpenAt(p)
    <3>1. OpenAt(p)' /\ opens[p] # 0
      BY <2>1, <2>4 DEF OpenAt, FileOK, Fresh
    <3>2. ASSUME opens[p] = 1 PROVE InProgress(p)'
      <4>1. /\ handle.pos = Len(disk[p]) /\ p \notin settled
            /\ disk'[p] = disk[p] \o handle.buf /\ disk'[p] = sent[p]
        BY <2>2, <2>4, <3>2, FlushedFile DEF FileOK, InProgress
      <4>2. Len(disk[p] \o handle.buf) = Len(disk[p]) + Len(handle.buf)
        BY FileTyped, ConcatProperties
      <4>3. sent[p] \o << >> = sent[p]
        BY FileTyped, ConcatEmptySeq
      <4> QED BY <2>1, <2>2, <4>1, <4>2, <4>3 DEF InProgress
    <3> QED BY <2>2, <3>1, <3>2 DEF FileOK
  <2> QED BY <2>3, <2>4
<1>14. CASE UNCHANGED vars
  BY <1>14, <1>1 DEF vars
<1> QED
  BY <1>2, <1>3, <1>4, <1>5, <1>6, <1>7, <1>8, <1>9, <1>10, <1>11, <1>12, <1>13,
     <1>14 DEF Next, Stop, MakePathFails, StrayPointer

THEOREM WrittenAlways == Spec => []Written
<1>1. Init => Written
  BY DEF Init, NoFile, Written, FileOK, Fresh, OpenAt
<1> QED BY <1>1, WrittenNext, BasicsAlways, ControlAlways, PTL DEF Spec

\* A file opened once holds a prefix of what was written to it in every state,
\* also after a crash or a failed open.
THEOREM PrefixSaved == Spec => []SavedPrefix
<1>1. Basics /\ Written => SavedPrefix
  <2> SUFFICES ASSUME Basics, Written, NEW p \in Path, opens[p] <= 1
               PROVE  IsPrefix(disk[p], sent[p])
    BY DEF SavedPrefix
  <2>1. CASE opens[p] = 0
    <3>1. disk[p] = << >> /\ sent[p] = << >>
      BY <2>1 DEF Written, FileOK, Fresh
    <3> QED BY <3>1, FileTyped, PrefixSelf
  <2>2. CASE opens[p] = 1
    BY <2>2, SavedWithoutBuffer DEF Written, Saved
  <2> QED BY <2>1, <2>2, FileTyped
<1> QED BY <1>1, BasicsAlways, WrittenAlways, PTL

\* A file opened once and closed by the rotation holds everything written to
\* it.
THEOREM RotationSavesAll == Spec => []SettledComplete
<1>1. Basics /\ Written => SettledComplete
  BY SavedWithoutBuffer DEF Written, Saved, SettledComplete, Basics, TypeOK
<1> QED BY <1>1, BasicsAlways, WrittenAlways, PTL

-----------------------------------------------------------------------------
(* The order of the messages.                                              *)

InARow(cells) ==
  \A i, j \in DOMAIN cells :
    j = i + 1 /\ ~cells[i].hdr => ~cells[j].hdr /\ cells[j].n = cells[i].n + 1

\* The last cell is a header, or the n-th message.
EndsWith(cells, n) ==
  cells # << >> => cells[Len(cells)].hdr \/ cells[Len(cells)].n = n

\* A message was received that is neither stored nor deferred yet.
InHand == pc \in {"store", "deferred", "compare", "reopen", "write"}
Upto == IF InHand THEN received - 1 ELSE received

\* The deferred messages are the latest, up to the one in hand; without any, the
\* open file ends with the latest.
DeferredInARow ==
  /\ ~tree \/ pc \in {"compare", "reopen", "write"} => deferred = << >>
  /\ \A i \in DOMAIN deferred :
       ~deferred[i].hdr /\ deferred[i].n = Upto - Len(deferred) + i

SentInARow ==
  \A p \in Path : opens[p] = 1 =>
    /\ InARow(sent[p])
    /\ OpenAt(p) /\ deferred = << >> => EndsWith(sent[p], Upto)

Row ==
  /\ InHand => msg.n = received /\ ~msg.hdr
  /\ DeferredInARow /\ SentInARow

\* Appending the next message, or the first after the header.
LEMMA RowGrows ==
  ASSUME NEW cells \in Seq(Cell), NEW m \in Cell, NEW k \in Nat,
         InARow(cells), EndsWith(cells, k - 1), m.n = k, ~m.hdr
  PROVE  InARow(Append(cells, m)) /\ EndsWith(Append(cells, m), k)
<1> DEFINE more == Append(cells, m)
<1>1. /\ more \in Seq(Cell) /\ Len(more) = Len(cells) + 1 /\ more[Len(more)] = m
      /\ \A i \in 1..Len(cells) : more[i] = cells[i]
      /\ Len(cells) \in Nat /\ DOMAIN cells = 1..Len(cells) /\ DOMAIN more = 1..Len(more)
  BY AppendProperties, LenProperties
<1> HIDE DEF more
<1>2. ASSUME NEW i \in DOMAIN more, NEW j \in DOMAIN more, j = i + 1, ~more[i].hdr
      PROVE  ~more[j].hdr /\ more[j].n = more[i].n + 1
  <2>1. i \in 1..Len(cells) /\ more[i] = cells[i]
    BY <1>1, <1>2
  <2>2. CASE j \in 1..Len(cells)
    BY <1>1, <1>2, <2>1, <2>2 DEF InARow
  <2>3. CASE j = Len(more)
    <3>1. i = Len(cells) /\ cells # << >>
      BY <1>1, <1>2, <2>1, <2>3
    <3>2. cells[i].n = k - 1
      BY <1>2, <2>1, <3>1 DEF EndsWith
    <3> QED BY <1>1, <2>1, <2>3, <3>2
  <2> QED BY <1>1, <1>2, <2>2, <2>3
<1>3. InARow(more)
  BY <1>2 DEF InARow
<1>4. EndsWith(more, k)
  BY <1>1 DEF EndsWith
<1> QED BY <1>3, <1>4 DEF more

\* The header of a file, lines 219-224.
LEMMA HeaderRow ==
  ASSUME NEW k \in Int
  PROVE  InARow(FileHeader) /\ EndsWith(FileHeader, k)
<1>1. \A i \in DOMAIN FileHeader : FileHeader[i].hdr
  BY DEF FileHeader, HeaderCell
<1>2. FileHeader # << >> => Len(FileHeader) \in DOMAIN FileHeader
  BY DEF FileHeader
<1> QED BY <1>1, <1>2 DEF InARow, EndsWith

\* The deferred messages, line 206.
LEMMA DeferredRow ==
  ASSUME Basics, DeferredInARow
  PROVE  InARow(deferred) /\ EndsWith(deferred, Upto)
<1>1. /\ deferred \in Seq(Cell) /\ Len(deferred) \in Nat
      /\ DOMAIN deferred = 1..Len(deferred) /\ Upto \in Int
  BY LenProperties DEF Basics, TypeOK, Upto
<1>2. ASSUME NEW i \in DOMAIN deferred, NEW j \in DOMAIN deferred, j = i + 1
      PROVE  ~deferred[j].hdr /\ deferred[j].n = deferred[i].n + 1
  <2>1. /\ deferred[i].n = Upto - Len(deferred) + i
        /\ deferred[j].n = Upto - Len(deferred) + j /\ ~deferred[j].hdr
    BY DEF DeferredInARow
  <2> QED BY <1>1, <1>2, <2>1
<1>3. ASSUME deferred # << >> PROVE deferred[Len(deferred)].n = Upto
  <2>1. Len(deferred) \in DOMAIN deferred
    BY <1>1, <1>3, EmptySeq
  <2>2. deferred[Len(deferred)].n = Upto - Len(deferred) + Len(deferred)
    BY <2>1 DEF DeferredInARow
  <2> QED BY <1>1, <2>2
<1> QED BY <1>2, <1>3 DEF InARow, EndsWith

\* Opening a file with cells in a row that end with the latest message.
LEMMA OpenedRow ==
  ASSUME Basics, Written, SentInARow,
         NEW p \in Path, NEW ok \in BOOLEAN, NEW cells \in Seq(Cell),
         OpenAndWrite(p, ok, cells), InARow(cells), EndsWith(cells, Upto), Upto' = Upto
  PROVE  SentInARow'
<1> SUFFICES ASSUME NEW q \in Path, opens'[q] = 1
             PROVE  InARow(sent'[q]) /\ (OpenAt(q)' => EndsWith(sent'[q], Upto))
  BY DEF SentInARow, InARow, EndsWith
<1>1. handle'.path = p /\ handle'.st = IF ok THEN "open" ELSE "failed"
  BY OpenAndWriteTyped
<1>2. CASE ok /\ q = p
  <2>1. opens'[p] = opens[p] + 1 /\ sent'[p] = sent[p] \o cells
    BY <1>2 DEF OpenAndWrite, Basics, TypeOK
  <2>2. opens[p] = 0
    BY <1>2, <2>1, FileTyped
  <2>3. sent'[q] = cells
    BY <1>2, <2>1, <2>2, ConcatEmptySeq DEF Written, FileOK, Fresh
  <2> QED BY <2>3
<1>3. CASE ~(ok /\ q = p)
  <2>1. opens'[q] = opens[q] /\ sent'[q] = sent[q]
    BY <1>3 DEF OpenAndWrite, Basics, TypeOK
  <2>2. ~OpenAt(q)'
    BY <1>1, <1>3 DEF OpenAt
  <2> QED BY <2>1, <2>2 DEF SentInARow
<1> QED BY <1>2, <1>3

LEMMA RowNext == Basics /\ Control /\ Written /\ Row /\ [Next]_vars => Row'
<1> SUFFICES ASSUME Basics, Control, Written, Row, [Next]_vars PROVE Row'
  OBVIOUS
<1> USE DEF process, store, history
<1>typ. /\ received \in Nat /\ deferred \in Seq(Cell) /\ msg \in Cell
        /\ opens \in [Path -> Nat] /\ sent \in [Path -> Seq(Cell)]
  BY DEF Basics, TypeOK
\* A step that leaves the messages alone, and at most lets go of the file.
<1>same. ASSUME UNCHANGED <<received, deferred, msg, opens, sent>>,
                InHand' <=> InHand, ~tree' => ~tree,
                pc' \in {"compare", "reopen", "write"} => deferred = << >>,
                \A p \in Path : OpenAt(p)' => OpenAt(p)
         PROVE  Row'
  <2>1. Upto' = Upto
    BY <1>same DEF Upto
  <2>2. DeferredInARow'
    BY <1>same, <2>1 DEF Row, DeferredInARow
  <2>3. SentInARow'
    BY <1>same, <2>1 DEF Row, SentInARow, InARow, EndsWith
  <2> QED BY <1>same, <2>2, <2>3 DEF Row
<1>1. CASE Start
  BY <1>1, <1>same DEF Start, InHand, OpenAt, Control, ModeControl
<1>2. ASSUME Exit PROVE Row'
  <2>1. ~InHand' /\ deferred' = << >> /\ \A p \in Path : ~OpenAt(p)'
    BY <1>2 DEF Exit, InHand, NoFile, OpenAt
  <2>2. SentInARow'
    BY <1>2, <2>1 DEF Exit, Row, SentInARow, InARow
  <2> QED BY <2>1, <2>2 DEF Row, DeferredInARow
<1>3. ASSUME NEW kind \in MessageKind, Receive(kind) PROVE Row'
  <2>1. /\ pc = "next" /\ received' = received + 1 /\ UNCHANGED <<tree, deferred, handle, opens, sent>>
        /\ pc' = IF tree THEN "store" ELSE "next"
        /\ msg'.n = received + 1 /\ ~msg'.hdr
    BY <1>3 DEF Receive
  <2>2. CASE tree
    <3>1. Upto' = Upto /\ InHand' /\ ~InHand
      BY <1>typ, <2>1, <2>2 DEF Upto, InHand
    <3>2. DeferredInARow'
      BY <2>1, <2>2, <3>1 DEF Row, DeferredInARow
    <3>3. SentInARow'
      BY <2>1, <3>1 DEF Row, SentInARow, InARow, EndsWith, OpenAt
    <3> QED BY <2>1, <3>2, <3>3 DEF Row
  <2>3. CASE ~tree
    <3>1. deferred = << >> /\ \A p \in Path : ~OpenAt(p)'
      BY <2>1, <2>3 DEF Row, DeferredInARow, Control, ModeControl, FileInUse, OpenAt
    <3>2. ~InHand'
      BY <2>1, <2>3 DEF InHand
    <3>3. SentInARow'
      BY <2>1, <3>1 DEF Row, SentInARow, InARow
    <3> QED BY <2>1, <3>1, <3>2, <3>3 DEF Row, DeferredInARow
  <2> QED BY <2>2, <2>3
<1>4. CASE Defer
  <2>1. /\ pc = "store" /\ pc' = "next" /\ deferred' = Append(deferred, msg)
        /\ UNCHANGED <<tree, handle, opens, sent, received>>
    BY <1>4 DEF Defer
  <2>2. tree /\ Upto = received - 1 /\ Upto' = received /\ ~InHand'
    BY <2>1 DEF Control, ModeControl, Upto, InHand
  <2>3. msg.n = received /\ ~msg.hdr
    BY <2>1 DEF Row, InHand
  <2>4. /\ Len(deferred') = Len(deferred) + 1 /\ Len(deferred) \in Nat
        /\ DOMAIN deferred = 1..Len(deferred) /\ DOMAIN deferred' = 1..Len(deferred')
        /\ deferred'[Len(deferred')] = msg
        /\ \A i \in 1..Len(deferred) : deferred'[i] = deferred[i]
    BY <1>typ, <2>1, AppendProperties, LenProperties
  <2>5. ASSUME NEW i \in DOMAIN deferred'
        PROVE  ~deferred'[i].hdr /\ deferred'[i].n = Upto' - Len(deferred') + i
    <3>1. CASE i \in DOMAIN deferred
      <4>1. ~deferred[i].hdr /\ deferred[i].n = Upto - Len(deferred) + i
        BY <3>1 DEF Row, DeferredInARow
      <4> QED BY <1>typ, <2>2, <2>4, <3>1, <4>1
    <3>2. CASE i = Len(deferred')
      BY <1>typ, <2>2, <2>3, <2>4, <3>2
    <3> QED BY <2>4, <3>1, <3>2
  <2>6. deferred' # << >>
    BY <2>4, EmptySeq
  <2>7. SentInARow'
    BY <2>1, <2>6 DEF Row, SentInARow, InARow
  <2> QED BY <2>1, <2>2, <2>5, <2>7 DEF Row, DeferredInARow
<1>5. CASE MakePath \/ NothingDeferred \/ KeepFile
  BY <1>5, <1>same
     DEF MakePath, NothingDeferred, KeepFile, InHand, OpenAt, Row, DeferredInARow
<1>6. ASSUME NEW ok \in BOOLEAN, WriteDeferred(ok) PROVE Row'
  <2>1. PathOf(clock) \in Path
    BY <1>6, Files DEF WriteDeferred, Basics, TypeOK, ClockKnown
  <2>2. InARow(deferred) /\ EndsWith(deferred, Upto)
    BY DeferredRow DEF Row
  <2>3. /\ OpenAndWrite(PathOf(clock), ok, deferred) /\ deferred' = << >>
        /\ received' = received /\ msg' = msg /\ tree' = tree /\ InHand /\ InHand'
    BY <1>6 DEF WriteDeferred, InHand
  <2>4. Upto' = Upto
    BY <2>3 DEF Upto
  <2>5. SentInARow'
    BY <1>typ, <2>1, <2>2, <2>3, <2>4, OpenedRow DEF Row
  <2> QED BY <2>3, <2>5 DEF Row, DeferredInARow
<1>7. CASE CloseFile
  <2>1. \A p \in Path : ~OpenAt(p)'
    BY <1>7 DEF CloseFile, OpenAt, Basics, TypeOK, Handle
  <2> QED
    BY <1>7, <1>same, <2>1 DEF CloseFile, InHand, Control, ModeControl
<1>8. ASSUME NEW ok \in BOOLEAN, OpenFile(ok) PROVE Row'
  <2>1. PathOf(clock) \in Path /\ FileHeader \in Seq(Cell)
    BY <1>8, Files, HeaderTyped DEF OpenFile, Basics, TypeOK, ClockKnown
  <2>2. Upto \in Int
    BY <1>typ DEF Upto
  <2>3. /\ OpenAndWrite(PathOf(clock), ok, FileHeader) /\ deferred' = deferred
        /\ received' = received /\ msg' = msg /\ tree' = tree
        /\ pc = "reopen" /\ InHand /\ InHand'
    BY <1>8 DEF OpenFile, InHand
  <2>4. Upto' = Upto
    BY <2>3 DEF Upto
  <2>5. SentInARow'
    BY <2>1, <2>2, <2>3, <2>4, HeaderRow, OpenedRow DEF Row
  <2>6. deferred = << >>
    BY <2>3 DEF Row, DeferredInARow
  <2> QED BY <2>3, <2>5, <2>6 DEF Row, DeferredInARow
<1>9. CASE WriteMessage
  <2>1. /\ pc = "write" /\ pc' = "next" /\ InHand /\ ~InHand'
        /\ UNCHANGED <<tree, deferred, received, msg, opens>>
    BY <1>9 DEF WriteMessage, InHand
  <2>2. deferred = << >> /\ Upto = received - 1 /\ Upto' = received
    BY <2>1 DEF Row, DeferredInARow, Upto
  <2>3. msg.n = received /\ ~msg.hdr
    BY <2>1 DEF Row
  <2>4. ASSUME NEW p \in Path, opens[p] = 1
        PROVE  InARow(sent'[p]) /\ (OpenAt(p)' => EndsWith(sent'[p], received))
    <3>1. CASE OpenAt(p)
      <4>1. sent'[p] = Append(sent[p], msg)
        BY <1>9, <1>typ, <3>1 DEF WriteMessage, OpenAt
      <4>2. InARow(sent[p]) /\ EndsWith(sent[p], received - 1)
        BY <2>2, <2>4, <3>1 DEF Row, SentInARow
      <4>3. sent[p] \in Seq(Cell)
        BY <1>typ
      <4> QED BY <1>typ, <2>3, <4>1, <4>2, <4>3, RowGrows
    <3>2. CASE ~OpenAt(p)
      <4>1. sent'[p] = sent[p] /\ ~OpenAt(p)'
        BY <1>9, <1>typ, <3>2 DEF WriteMessage, OpenAt, Basics, TypeOK, Handle
      <4> QED BY <2>4, <4>1 DEF Row, SentInARow
    <3> QED BY <3>1, <3>2
  <2>5. SentInARow'
    BY <2>1, <2>2, <2>4 DEF SentInARow, InARow, EndsWith
  <2> QED BY <2>1, <2>2, <2>5 DEF Row, DeferredInARow
<1>10. CASE FlushBuffer
  <2>1. \A p \in Path : OpenAt(p)' => OpenAt(p)
    BY <1>10 DEF FlushBuffer, OpenAt, Basics, TypeOK, Handle
  <2> QED
    BY <1>10, <1>same, <2>1 DEF FlushBuffer, InHand, Row, DeferredInARow
<1>11. CASE UNCHANGED vars
  BY <1>11, <1>same DEF vars, InHand, OpenAt, Row, DeferredInARow
<1> QED
  BY <1>1, <1>2, <1>3, <1>4, <1>5, <1>6, <1>7, <1>8, <1>9, <1>10, <1>11
     DEF Next, Stop, MakePathFails, StrayPointer

\* The messages in a file that was opened once are consecutive ones, whatever
\* was deferred, and however often the clock was lost and the broker restarted.
THEOREM StoredInARow == Spec => []Consecutive
<1>1. Basics /\ Written /\ Row => Consecutive
  <2> SUFFICES ASSUME Basics, Written, Row, NEW p \in Path, opens[p] <= 1,
                      NEW i \in DOMAIN disk[p], NEW j \in DOMAIN disk[p],
                      j = i + 1, ~disk[p][i].hdr
               PROVE  ~disk[p][j].hdr /\ disk[p][j].n = disk[p][i].n + 1
    BY DEF Consecutive
  <2>1. disk[p] \in Seq(Cell) /\ sent[p] \in Seq(Cell) /\ opens[p] \in Nat
    BY FileTyped
  <2>2. opens[p] = 1
    BY <2>1 DEF Written, FileOK, Fresh
  <2>3. IsPrefix(disk[p], sent[p])
    BY <2>2, SavedWithoutBuffer DEF Written, Saved
  <2>4. /\ Len(disk[p]) \in Nat /\ Len(sent[p]) \in Nat /\ Len(disk[p]) <= Len(sent[p])
        /\ DOMAIN disk[p] = 1..Len(disk[p]) /\ DOMAIN sent[p] = 1..Len(sent[p])
        /\ disk[p] = SubSeq(sent[p], 1, Len(disk[p]))
    BY <2>1, <2>3, LenProperties DEF IsPrefix
  <2>5. \A k \in DOMAIN disk[p] : k \in DOMAIN sent[p] /\ disk[p][k] = sent[p][k]
    <3>1. \A k \in 1..Len(disk[p]) : sent[p][k] \in Cell
      BY <2>1, <2>4, ElementOfSeq
    <3>2. \A k \in 1..Len(disk[p]) : SubSeq(sent[p], 1, Len(disk[p]))[k] = sent[p][k]
      BY <2>1, <2>4, <3>1, SubSeqProperties
    <3> QED BY <2>4, <3>2
  <2> QED BY <2>2, <2>5 DEF Row, SentInARow, InARow
<1>2. Init => Row
  BY DEF Init, NoFile, Row, InHand, DeferredInARow, SentInARow, InARow, OpenAt
<1> QED BY <1>1, <1>2, RowNext, WrittenAlways, BasicsAlways, ControlAlways, PTL DEF Spec
=============================================================================
