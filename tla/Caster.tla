-------------------------------- MODULE Caster --------------------------------
(***************************************************************************)
(* btcaster's fileHandler (btcaster/src/main.cpp): it watches the station, *)
(* year and day directories, and puts a torrent of each file it does not   *)
(* take for live on the feed.  The files are those of gnssrcvbroker, which *)
(* names and rotates them by the receiver's clock; btcaster goes by its    *)
(* own clock and an estimate of the difference.                            *)
(*                                                                         *)
(* A path is the sequence of its numbers below the station directory:      *)
(* <<year>>, <<year, day>>, <<year, day, number>>.                         *)
(***************************************************************************)
EXTENDS Integers, Sequences, SequencesExt

CONSTANTS
  Moments,      \* the receiver times at which something happens, in order
  Denominator,  \* MinuteDenominator, fileDenominator in both programs
  Skew,         \* btcaster's clock minus the receiver's, in seconds
  Nowhere       \* no path

Station == << >>

\* The start minute of the slot of a minute of the day.
FileNumber(minute) == Denominator * (minute \div Denominator)

PathOf(t) == <<t.year, t.day, FileNumber(t.minute)>>

\* A time: the minute of the day and the second of the minute.
Time == [year : Nat, day : Nat, minute : 0..1439, second : 0..59]

SecondOfDay(t) == 60 * t.minute + t.second

\* Time goes on: once a slot is over it does not come back.
ASSUME ConstantsAssumption ==
  /\ Moments \in Seq(Time) /\ Moments # << >>
  /\ \A i, j, k \in DOMAIN Moments :
       i <= j /\ j <= k /\ PathOf(Moments[i]) = PathOf(Moments[k])
         => PathOf(Moments[j]) = PathOf(Moments[k])
  /\ Denominator \in Nat \ {0}
  /\ Skew \in Int
  /\ Nowhere \notin Seq(Nat)

VARIABLES
  now,       \* the receiver's clock: an index of Moments
  made,      \* the directories that exist
  current,   \* the file the broker writes to
  size,      \* the files that exist: 0 empty, 1 some of it, 2 all of it
  birth,     \* the second of the day each was created, by the receiver's clock
  up,        \* btcaster runs
  todo,      \* the calls left in the running handlers, the next one first
  watched,   \* the directories on the three watchers
  pending,   \* the watched directories that changed since they were last handled
  compensationMinutes,
  feed,      \* the torrents: the size each file in it had when it was hashed
  due,       \* history: the files a notification has promised to list, and
             \* that were not taken for live since, rightly or wrongly
  late       \* history: a file was created after the first minute of its slot

disk == <<now, made, current, size, birth, late>>
handler == <<todo, watched, compensationMinutes, feed>>
vars == <<disk, up, handler, pending, due>>

Files == DOMAIN size
SlotPath == PathOf(Moments[now])

\* The entries of a directory, oldest first.
Listings(paths, dir) ==
  {s \in SetToSeqs({p \in paths : p # Station /\ Front(p) = dir}) :
     \A i, j \in DOMAIN s : i < j => Last(s[i]) < Last(s[j])}

Task(op, p) == [op |-> op, path |-> p]
Level == <<"station", "year", "day">>
Op == {"station", "year", "day", "file", "hash", "watch"}

Init ==
  /\ now = 1 /\ made = {Station} /\ current = Nowhere
  /\ size = << >> /\ birth = << >>
  /\ up = FALSE /\ todo = << >> /\ watched = {} /\ pending = {}
  /\ compensationMinutes = 1 /\ feed = {} /\ due = {} /\ late = FALSE

-----------------------------------------------------------------------------
(* The broker and the file system: FileTree, seen from outside.            *)

\* An entry of dir is created or removed.  Writing to a file is not noticed.
Changed(dir) ==
  /\ pending' = IF dir \in watched THEN pending \cup {dir} ELSE pending
  /\ due' = IF dir \in watched
            THEN due \cup {f \in DOMAIN size' : size'[f] = 2 /\ IsPrefix(dir, f)}
            ELSE due

\* mkpath makes the year's directory, then the day's.
MakeDirectory(dir) ==
  /\ dir \notin made /\ Front(dir) \in made
  /\ made' = made \cup {dir}
  /\ UNCHANGED <<now, current, size, birth, late, up, handler>>
  /\ Changed(Front(dir))

\* The old file is closed, which completes it, and the new one created, empty.
Rotate ==
  /\ current # SlotPath /\ Front(SlotPath) \in made
  /\ current' = SlotPath
  /\ size' = [f \in Files \cup {SlotPath} |->
                IF f = SlotPath THEN 0 ELSE IF f = current THEN 2 ELSE size[f]]
  /\ birth' = [f \in Files \cup {SlotPath} |->
                 IF f = SlotPath THEN SecondOfDay(Moments[now]) ELSE birth[f]]
  /\ late' = (late \/ Moments[now].minute # SlotPath[3])
  /\ UNCHANGED <<now, made, up, handler>>
  /\ Changed(Front(SlotPath))

Flush ==
  /\ current # Nowhere /\ size[current] = 0
  /\ size' = [size EXCEPT ![current] = 1]
  /\ UNCHANGED <<now, made, current, birth, late, up, handler, pending, due>>

\* The broker is started, or started again within a slot (it then goes on with
\* the same file): "writetest" comes and goes in the station directory.
WriteTest ==
  /\ current \in {Nowhere, SlotPath}
  /\ UNCHANGED <<disk, up, handler>>
  /\ Changed(Station)

Tick ==
  /\ now < Len(Moments)
  /\ now' = now + 1
  /\ UNCHANGED <<made, current, size, birth, late, up, handler, pending, due>>

-----------------------------------------------------------------------------
(* btcaster.                                                               *)

\* main() calls handleStation and then enters the event loop.
Start ==
  /\ ~up
  /\ up' = TRUE
  /\ todo' = <<Task("station", Station)>>
  /\ UNCHANGED <<disk, watched, compensationMinutes, feed, pending, due>>

\* The process ends: the feed and the watches are gone.
Stop ==
  /\ up
  /\ up' = FALSE /\ todo' = << >> /\ watched' = {} /\ pending' = {}
  /\ compensationMinutes' = 1 /\ feed' = {} /\ due' = {}
  /\ UNCHANGED disk

\* One call for each entry.
Each(op, entries) == [k \in 1..Len(entries) |-> Task(op, entries[k])]

\* The event loop reads what one of the watchers has to tell, once no handler
\* runs, and directoryChanged is emitted for one directory after the other.
Notify(level) ==
  /\ up /\ todo = << >>
  /\ LET changed == {dir \in pending : Len(dir) = level} IN
     /\ changed # {}
     /\ pending' = pending \ changed
     /\ \E order \in SetToSeqs(changed) :
          todo' = Each(Level[level + 1], order)
  /\ UNCHANGED <<disk, up, watched, compensationMinutes, feed, due>>

Running(op) == todo # << >> /\ Head(todo).op = op
Subject == Head(todo).path

\* One call of a handler and one addPath for each entry.
DiveAndWatch(op, entries) ==
  [k \in 1..(2 * Len(entries)) |->
     Task(IF k % 2 = 1 THEN op ELSE "watch", entries[(k + 1) \div 2])]

HandleStation ==
  /\ Running("station")
  /\ watched' = watched \cup {Station}
  /\ \E years \in Listings(made, Subject) :
       todo' = DiveAndWatch("year", years) \o Tail(todo)
  /\ UNCHANGED <<disk, up, compensationMinutes, feed, pending, due>>

\* Mutant of HandleYear: the days are watched but not looked into.
WatchDaysOnly ==
  /\ Running("year")
  /\ \E days \in Listings(made, Subject) : todo' = Each("watch", days) \o Tail(todo)
  /\ UNCHANGED <<disk, up, watched, compensationMinutes, feed, pending, due>>

\* Mutant of HandleYear: handleFile is called for the days.
DaysAsFiles ==
  /\ Running("year")
  /\ \E days \in Listings(made, Subject) :
       todo' = DiveAndWatch("file", days) \o Tail(todo)
  /\ UNCHANGED <<disk, up, watched, compensationMinutes, feed, pending, due>>

HandleYear ==
  /\ Running("year")
  /\ \E days \in Listings(made, Subject) :
       todo' = DiveAndWatch("day", days) \o Tail(todo)
  /\ UNCHANGED <<disk, up, watched, compensationMinutes, feed, pending, due>>

HandleDay ==
  /\ Running("day")
  /\ \E files \in Listings(Files, Subject) : todo' = Each("file", files) \o Tail(todo)
  /\ UNCHANGED <<disk, up, watched, compensationMinutes, feed, pending, due>>

AddPath ==
  /\ Running("watch")
  /\ watched' = watched \cup {Subject}
  /\ todo' = Tail(todo)
  /\ UNCHANGED <<disk, up, compensationMinutes, feed, pending, due>>

\* secsSkew: by how many seconds the time a file was created, by btcaster's
\* clock, differs from the time in its name.
SkewOf(f) ==
  LET ahead == birth[f] + Skew - 60 * f[3] IN IF ahead >= 0 THEN ahead ELSE -ahead

\* The number of a second of the day, or of the days before and after.
NumberAt(second) == FileNumber((second % 86400) \div 60)

\* Mutant of LiveNumber: the clock is not compensated.
UncompensatedNumber == NumberAt(SecondOfDay(Moments[now]) + Skew)

\* The number of the file taken for live.
LiveNumber == NumberAt(SecondOfDay(Moments[now]) + Skew + 60 * compensationMinutes)

\* The first part of handleFile: the skew is estimated anew, in whole minutes,
\* then an empty or live file is skipped.  Only the file's number is compared,
\* not its date.
HandleFile ==
  /\ Running("file")
  /\ UNCHANGED <<disk, up, watched, feed, pending>>
  /\ compensationMinutes' =
       IF SkewOf(Subject) > 60 THEN SkewOf(Subject) \div 60 ELSE compensationMinutes
  /\ todo' = IF size[Subject] = 0 \/ LiveNumber' = Subject[3]
             THEN Tail(todo)
             ELSE <<Task("hash", Subject)>> \o Tail(todo)
  /\ due' = IF LiveNumber' = Subject[3] THEN due \ {Subject} ELSE due

\* The files that go into the torrent made for f: all those of its name.
Namesakes(f) == {g \in Files : g[3] = f[3]}

\* The second part: the files are hashed and the torrent is put on the feed.
Hash ==
  /\ Running("hash")
  /\ feed' = feed \cup {[g \in Namesakes(Subject) |-> size[g]]}
  /\ todo' = Tail(todo)
  /\ UNCHANGED <<disk, up, watched, compensationMinutes, pending, due>>

Handle ==
  \/ HandleStation \/ HandleYear \/ HandleDay \/ AddPath \/ HandleFile \/ Hash

Next ==
  \/ \E i \in 1..2 : MakeDirectory(SubSeq(SlotPath, 1, i))
  \/ Rotate \/ Flush \/ WriteTest \/ Tick
  \/ Start \/ Stop
  \/ \E level \in 0..2 : Notify(level)
  \/ Handle

\* Handlers return, and the event loop gets round to each of the watchers.  The
\* receiver need not send, nor time pass, nor btcaster be started.
Spec ==
  /\ Init /\ [][Next]_vars
  /\ WF_vars(Handle)
  /\ \A level \in 0..2 : SF_vars(Notify(level))

-----------------------------------------------------------------------------
(* Properties.                                                             *)

Paths == {PathOf(Moments[i]) : i \in DOMAIN Moments}
Directories == {SubSeq(p, 1, n) : p \in Paths, n \in 0..2}

TypeOK ==
  /\ now \in DOMAIN Moments
  /\ made \subseteq Directories /\ current \in Paths \cup {Nowhere}
  /\ Files \subseteq Paths /\ size \in [Files -> 0..2]
  /\ birth \in [Files -> Nat]
  /\ up \in BOOLEAN
  /\ \A i \in DOMAIN todo :
       todo[i] \in [op : Op \ {"file", "hash"}, path : Directories]
                     \cup [op : {"file", "hash"}, path : Files]
  /\ watched \subseteq made /\ pending \subseteq watched
  /\ compensationMinutes \in Nat
  /\ due \subseteq Files /\ late \in BOOLEAN
  /\ \A t \in feed : DOMAIN t \subseteq Files /\ \A f \in DOMAIN t : t[f] <= size[f]

Listed(f) == \E t \in feed : f \in DOMAIN t /\ t[f] = 2

\* The receiver is two minutes into its slot, or more.
Settled == SecondOfDay(Moments[now]) >= 60 * SlotPath[3] + 120

\* From two minutes into a slot on, the test on line 194 lets no file through
\* that has the name of the file being written, of whatever day it is, as long
\* as files are created in the first minute of their slots (see the TODO on
\* line 159).  It is about the moment of the test: the files of the torrent are
\* chosen after it, on line 208.
LiveIsSkipped ==
  [][~late /\ Settled /\ HandleFile /\ Len(todo') = Len(todo)
       => SlotPath \notin Namesakes(Subject)]_vars

\* The call leads to the file: to a look at it, or to a torrent with it.
LeadsTo(task, f) ==
  \/ task.op \in {"station", "year", "day", "file"} /\ IsPrefix(task.path, f)
  \/ task.op = "hash" /\ f \in Namesakes(task.path)

\* No file is forgotten: once it is complete and a directory above it has changed
\* while being watched, and until it was listed with its final contents or
\* handleFile took it for live, rightly or wrongly, there is a call to come that
\* leads to it, or a change of such a directory still to be read from the watcher.
NotForgotten ==
  \A f \in due :
    \/ Listed(f)
    \/ \E k \in DOMAIN todo : LeadsTo(todo[k], f)
    \/ \E dir \in pending : IsPrefix(dir, f)

\* A file that is complete when a directory above it changes while being watched
\* comes to be listed with its final contents, if btcaster goes on running, or
\* to be taken for live by handleFile (line 194): because the time of day is
\* that of its slot again, or wrongly, by what its clock and estimate say.
DueListed ==
  \A i \in DOMAIN Moments :
    PathOf(Moments[i]) \in due
      ~> PathOf(Moments[i]) \notin due \/ Listed(PathOf(Moments[i]))
=============================================================================
