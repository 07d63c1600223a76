# A TLA+ verification project for omnicollect

omnicollect records a GNSS receiver and publishes the recordings. It consists of
two programs that share a directory on disk:

* **gnssrcvbroker** reads messages from a receiver on a serial port, keeps the
  receiver's state (`SkyPeek`) up to date, shows that state on a web API, and
  stores the messages under `<root>/<year>/<dayOfYear>/<number>.jps`, one file for
  each time slot of the receiver's clock;
* **btcaster** watches that directory, makes a torrent of each file it takes for
  complete, and lists the torrents in an RSS feed.

The project consists of TLA+ modules translated from the C++ sources, TLC
configurations that check them on small instances, and TLAPS proofs for all
instances. `PROJECT.json` relates every definition to the lines it models.
This file says what is modelled, what is shown and what is not.

## Running it

    tlc -workers 2 -config FileTree.cfg MCFileTree.tla
    tlapm FileTreeProofs.tla

The runs and their properties are listed below; each takes less than a minute.
`SerialPort.cfg` goes with `MCSerialPort`, `Startup.cfg` with `MCStartup`, and so on: a configuration's
name begins with its module's.

## Inventory

Paths are relative to the repository; `broker` is `gnssrcvbroker/src/main.cpp`,
`caster` is `btcaster/src/main.cpp`. The repository has no tests. Its
documentation is its comments, `config.ini` and `gnssrcvbroker.service`.

| Component | State | Operations | Works with |
|---|---|---|---|
| Broker: file-tree storage (broker 88-111, 186-233) | `fileTreefile`, `baFileTreeInitial`, the three header messages, the files | start, take in a message, defer, rotate, write, end | SkyPeek's clock; the files are the caster's input |
| Broker: SkyPeek and web API (broker 131-182, `webapi.cpp`) | `skyPeek`, `skyPeekLock`, `Webapi::skyPeek` | publish, update under the write lock; read three pages under the read lock | two threads, shared memory |
| Broker: configuration (broker 252-380) | hash `C`, `sIniSettings` | built-in values, then the file, then the arguments | everything reads `C` |
| Broker: receiver set-up (broker 47-136) | the list of commands, the port | stop the receiver, purge, configure, make SkyPeek | serial port |
| Broker: serial port (`SerialPortBinaryStream.cpp`) | `_buffer`, `QSerialPort`'s buffers, a recursive mutex | readyRead handler, `read`, `peek`, `write`, `purgeBuffers` | event loop inside `waitForReadyRead` |
| Caster: watching and hashing (caster 20-240) | three watchers, `Files`, `Torrents`, `compensationMinutes`, station path | handleStation, handleYear, handleDay, handleFile | file system notifications, libtorrent, the feed |
| Caster: RSS feed (`webapi.cpp`) | three parallel lists, `lock_torrent_list` | append under the write lock; list under the read lock | two threads, shared memory |
| Caster: configuration and session (caster 243-376) | hash `C`, the libtorrent session | as in the broker, with fewer options | the web thread is started here |
| Utilities (`Logger`, `Singleton`, `Path`, `IniSettings`) | log level, the singletons | initialise, log | used by both threads |
| Vendored: mongoose, in both programs | the connections | `mg_mgr_poll` | calls `ev_handler` on the web thread |

`SerialStreamReader` is instantiated nowhere, and `ChainedSink` is a declaration only.

### Hard behaviours and what is correct

* **Storage.** The broker can be killed at any moment and systemd starts it again
  at once (`Restart=always`, `RestartSec=0`). It then reopens the current file with
  `ReadWrite`, which neither truncates nor appends. Files are created under a
  four-digit padded number but compared with the bare number, so that before
  16:45 (slot 1005, with the default slots) each message closes and reopens the file at offset 0. The
  results of `open()` are ignored. `fileTreefile` is uninitialised until the first
  file is opened. Correct means: a message is in the file of the slot in which it
  came; a file opened once holds a prefix of what was written to it and, when it
  was closed by the rotation, all of it; files of the past no longer change.
* **SkyPeek.** Two threads, a read-write lock, a pointer published without it, an
  exception that leaves it locked, and static destruction while the other thread
  runs. Correct means: an answer shows one state, not older than the request; neither
  thread starves the other. (A request before the pointer is set ends the process, and one during
  static destruction may.)
* **Serial port.** `purgeBuffers()` clears the port but not `_buffer`; `read()` loops
  as long as the buffer is short, also on an unplugged port. Correct means: bytes are
  read in order, each once.
* **Caster.** A file is "live" if its number is the current slot's by the caster's
  clock plus an estimate of the skew, in whole minutes, whose sign is lost; the files of a torrent are chosen
  after that test; directories are scanned before they are watched; every scan appends everything again. Correct
  would mean: only files that no longer change are hashed, and every such file is. The code falls short of the first
  (findings 2 and 3, and `LiveIsSkipped` below), and of the second for files made before their directory is watched.
* **Feed.** Three lists, indexed together and bounded by the length of one.
* **Configuration.** Later sources override earlier ones, and `--maintenance` ends
  the scan of the arguments. Words are matched by unanchored expressions, tried in turn. Correct
  means: the last word on a key counts, and a broker in maintenance stores nothing.
* **Start.** The web thread is started by the main thread, and both use objects that are created on
  first use without a lock. Correct means: what the thread needs is there before it runs.

`hazards` in `PROJECT.json` gives each of these with its line and the properties
that would catch it. Those without a property have a note saying why.

## Modules

| Module | What it is |
|---|---|
| `Archive` | the abstract archive: what the tree of files promises those who read it |
| `FileTree` | the broker's storage; implements `Archive` |
| `MCFileTree` | its instances for TLC |
| `FileTreeProofs`, `FileTreeSavedProofs`, `FileTreeFrozenProofs` | its theorems |
| `SkyPeekShare` | SkyPeek between main loop, web thread, clients and process life |
| `MCSkyPeekShare` | its instances for TLC |
| `SkyPeekProofs` | its theorems |
| `Caster` | the caster's watching and hashing, against a broker seen from outside |
| `MCCaster` | its instances for TLC |
| `CasterProofs` | its theorems |
| `Feed` | the abstract feed: what the caster's RSS page promises |
| `CastFeed` | the three lists of the feed between two threads; implements `Feed` |
| `MCCastFeed` | its instance for TLC |
| `CastFeedProofs` | its theorems |
| `ByteQueue` | the abstract stream: a queue of the bytes the receiver sent |
| `SerialPort` | the broker's stream, the port and the conversation with the receiver; implements `ByteQueue` |
| `MCSerialPort` | its instance for TLC |
| `SerialPortProofs` | its theorems |
| `Startup` | `main()` of both programs: logger, settings, arguments, web thread, storage |
| `MCStartup` | its instance for TLC |
| `StartupProofs` | its theorems |

Operators whose comment begins with "Mutant of" are not part of a model. Each is a
plausible mistake in the definition it names, and putting it in that definition's
place makes TLC report one of the properties as violated: the properties can fail.

### FileTree

The loop of `mainLoop` is split where a crash between two lines, or the file's
state, makes a difference: `Receive` (lines 152-186) up to `store`, then `Defer` or
`MakePath` (188-198), `WriteDeferred` or `NothingDeferred` (200-207), the
comparison (`KeepFile`, `CloseFile`, `StrayPointer`, 210-215), `OpenFile` (217-224)
and `WriteMessage` (226). `FlushBuffer` stands for `QFile` writing its buffer out
when full, `Stop` for any way the process may end, `Start` for the service manager
starting it (again).

Abstractions. A file is a sequence of *cells*, one for a message or a header
message whatever its size; an overwrite therefore lines up with cells, and the
properties are about files that nothing overwrites, or about which messages are
there. A time is a day and a minute of the day. The path is the pair of day and slot
number; whether the padded and the bare name are the same is the predicate
`NamesAgree`. SkyPeek decides when its `DateTime` becomes valid or invalid;
it may show any time in `Instant`, and the history variable `wentBack` remembers whether it was
ever earlier than before. A call through the uninitialised pointer ends the process.

External behaviour, modelled from how the code uses it: `QFile` writes its buffer
at its own offset, `ReadWrite` starts at offset 0, a leaked `QFile` never writes
its buffer (the code never deletes it at exit), writes on a `QFile` that is not
open are discarded; `QFileInfo`'s `==` compares canonical paths, and these are
empty for files that do not exist, so two missing files are equal.

`Archive` has three variables: what each file contains, how often it was opened, and whether time went only
forward. Files are opened and saved to, one at a time; no file ever shrinks, one opened once grows at its end, and
while time goes forward only the latest file is opened or saved to. The refinement mapping takes the disk, the
count of opens and the negation of `wentBack`; what is still in a buffer is not in the archive, so that a crash is
a stuttering step.

### SkyPeekShare

The main thread goes through `down`, `setup`, `next`, `lock`, `parse` and, when it
ends, `exit`, `freed`, `unlocked`. `AddMessage` of the external library changes
the members one by one, so that a torn read is representable. The web thread
polls, calls `lockForRead()`, reads the members the page shows in the order
of the code (a list is read for its size and again for its elements), unlocks
and answers. `Kill`, `Return`, `Throw` and the three steps of static destruction
are there, and what a request may do to the process while they happen: a null
pointer ends it, a dangling one may.

A member's value is the number of the last message it accounts for; `Wraps` lets
the numbers start over, so that the stream need not end. The `QReadWriteLock` lets
a waiting writer go before new readers, as Qt documents it.

### Caster

The running handlers are a stack of calls (`todo`): `HandleStation` and `HandleYear`
replace themselves by one call of the next handler and one `addPath` for each
entry of the directory, `HandleDay` by one `handleFile` for each file, `HandleFile`
by `Hash` if the file is neither empty nor taken for live. Everything else can happen
between two steps: the broker makes directories, rotates and flushes; time passes.
The broker is reduced to what can be seen in the directory; `FileTree` is
the model of how it comes about. `Notify` is the event loop: a watcher is read when no handler
runs, and the handler is called for each of its directories in any order.

Abstractions. The receiver's clock steps through `Moments`, times of a day to the second, chosen to lie at the
beginnings and ends of slots. `Skew` is the caster's local clock, time zone included,
minus the receiver's clock, in seconds; it is constant. A file is empty, written in part, or
complete (0, 1, 2). Hashing is one step, and the torrent is the sizes of its files; as in
the code, these are *all* files of that name, on every day. The feed is the set of torrents: `CastFeed` has
the lists. A broker that restarts goes on with the file of its slot
(`WriteTest` is what the caster notices of it); crashes that leave a file
incomplete forever belong to `FileTree`. The history variable `late` remembers whether a file was
ever created after the first minute of its slot, which the estimate of the skew takes for a skew. `due` has
the complete files below a watched directory that changed; one leaves it when `handleFile` takes it for live, rightly or wrongly.

External behaviour: a watch on a directory tells of entries made and removed,
not of writing, and tells once of several changes between two readings. The file
system is assumed to record the time a file was created.

### Feed and CastFeed

`Feed` is an append-only log with clients that ask and get the log of some moment since.
`CastFeed` has the two threads, the lock, the three appends of `handleFile`, and the loop of
`ev_handler` that asks for the length of one list and takes the elements of all three.
`Log`, the refinement mapping, joins the three lists up to the length of `hash_list`,
the last one to grow. An element past the end of a list is `Nothing`.

### SerialPort and ByteQueue

The broker's main thread goes through `closed`, `stop`, `flush` and `clear` (the two
halves of `purgeBuffers()`, three times during set-up), `configure`, and then
`acquire` and `read`, for the calls of the message stream. A byte goes from the driver's
queue (`wire`) to `_buffer` in the `readyRead` handler, which only runs while `read()` or `peek()` waits;
a command goes from QSerialPort's buffer (`pending`) to the driver's output queue
(`uart`) in `flush()` or in the same wait, and from there to the receiver. A byte is its number
and what the receiver was sending then; the four spellings of `dm` are one command. The mutex is
recursive and only one thread uses it, so it is always free and is left out.

`ByteQueue` is a queue that bytes get into in the order of their numbers, that is read, peeked at or emptied.
The refinement mapping takes `_buffer` followed by `wire` for the queue, so that the handler is a stuttering step.

External behaviour: the driver hands over any number of the bytes it has, drops bytes when its queue is
full or the port is closed, and keeps its output queue when the process ends; `flush()` writes what
the driver takes without waiting; `waitForReadyRead()` writes, too; a port whose cable was pulled stays dead
until it is opened again. In `read()` it is then waited for without end, which is why
`CommandsDelivered` has its exception.

### Startup

One module has `main()` of both programs, which differ in the options they know (`Chain`). It goes from `start`
through `making` and `initialize` (the logger), `config` (the first loop), `settings`, `args` (the
second loop), `level`, `prepare` and `start web`, to `main` and `service`. The web thread runs beside it from
`start web` on: it logs, and it may fail to bind its port, upon which the broker's thread returns and
btcaster's brings the process down.

A word is the set of the expressions that match it and what it captures. The order in which the expressions are
tried is that of the code, and the captured text is a name, of which only is known whether it is empty or ends
with a separator. A settings file is the record of what it says; a key that is missing is what the program's default
makes of it. `C["enableFile"]` being a string in the file is the name, empty or not.

Two things the module shows but no property is about: `--maintenance` does not stop btcaster from casting, because
nothing there looks at `enableFile`; and an exception out of the broker's acquisition ends in
exit status 0, because `mainLoop` returns 1 as a `bool` that `main` ignores.

## Runs

| Run | Configuration | Checks | Shows |
|---|---|---|---|
| `file_tree` | `FileTree` | `TypeOK`, `SavedPrefix`, `SettledComplete`, `RightSlot`, `HandleFollowsClock`, `StrayOnlyAtStart`, `PastFrozen`, `Consecutive`, `ImplementsArchive` | over crashes, restarts, failed opens and a clock that jumps or is lost: a file opened once holds what was written to it, a message goes to its slot's file, the file in use follows the clock, the uninitialised pointer is used on a run's first message or never, the messages in a file opened once are consecutive ones of the receiver's, and the tree implements the archive: as long as the clock has not gone back a file no longer changes once a later one exists |
| `file_tree_deferred` | `FileTreeDeferred` | `DeferredSaved` (violated) | finding 1 |
| `sky_peek_replies` | `SkyPeekReplies` | `TypeOK`, `ConsistentReply`, `FreshReply` | answers are whole and current |
| `sky_peek_service` | `SkyPeekService` | `WriterGranted`, `Answered` | requests cannot starve the main loop, and every request is answered or its connection closed |
| `caster_finished` | `CasterFinished` | `TypeOK`, `LiveIsSkipped` | with a slow caster clock, and files created in the first minute of their slots, the live test lets no file through with the name of the one being written, from two minutes into the slot on |
| `caster_listed` | `CasterListed` | `NotForgotten`, `DueListed` | for every file a notification was due for a call or a change that leads to it is outstanding, until it is listed complete or taken for live, rightly or wrongly, and one of the two happens |
| `caster_last_minute` | `CasterLastMinute` | `LiveIsSkipped` (violated) | finding 2 |
| `caster_east` | `CasterEast` | `LiveIsSkipped` (violated) | finding 3 |
| `cast_feed` | `CastFeed` | `TypeOK`, `ListsAgree`, `ImplementsFeed` | the three lists implement the feed |
| `serial_port` | `SerialPort` | `TypeOK`, `NothingStale`, `NoCommandLost`, `ImplementsQueue`, `CommandsDelivered` | the stream is a queue of the bytes sent, none from before the last purge gets out of it, no command is lost or repeated on its way, and the configuration reaches a receiver that stays connected |
| `serial_stop` | `SerialPortStop` | `StopReachesReceiver` (violated) | finding 4 |
| `startup` | `Startup` | `TypeOK`, `Resolved`, `MaintenanceStoresNothing`, `WebThreadReady` | the last word on each key counts, maintenance mode stores nothing and has started the web thread, and that finds its logger, and the lock or name it uses, ready |

`LiveIsSkipped` says as much of the live test as holds of the code. A clock that is slow by 20 minutes sees a file that was
created 2 seconds into its slot with 1198 seconds of skew, which makes 19 minutes: its compensated time is a minute
late, and in the first minute of a slot the slot before is taken for live and the new file is not. In general the
compensated time of a slow clock is late by the seconds of the creation and those that were rounded away, less than two minutes in
all; hence `Settled`. It is about the moment of the test (194). The files of the torrent are chosen on line 208, and
when a slot begins in between, a namesake of the tested file that is being written goes into the torrent; the model has
that behaviour, and no property excludes it.

The receiver's slot being over does not mean that its file is complete: until the first message of the next one the broker
holds part of it in its buffer, and a caster that starts just then hashes what is there. It comes to list
the complete file later: that is `DueListed`. `DueListed` excepts a file that `handleFile` takes for live. It does so
rightly when the time of day is that of the file's slot, or of its namesake on another day, since only the number within the
day is compared (194); it does so wrongly when the clock or the estimate is off, as in `caster_listed` itself, where a file
created five minutes late makes an estimate of five minutes. Either way nothing makes the
caster look at the file again before the next change of a directory above it. A file made between the scan of its
directory and the watch on it (caster 129-134) is not due, nor is one that is still being written; the next
change of the directory makes it so once it is complete.

`NotForgotten` is the safety half of `DueListed`: it says that the next thing to do about a file is always there, whatever
happens between two calls, and fairness then says that it is done.

`Consecutive` looks at the disk alone, where `SavedPrefix` compares it with what was sent: the numbers of two
neighbouring messages in a file differ by one, and headers come before all messages. A broker that dropped what it
receives while it has no time would violate it when the clock comes back within the slot.

`PastFrozen` is about disk contents only. In a run in which the clock is lost and
found again the leaked `QFile` holds data it never writes, so it is no threat to
`PastFrozen`, but it is a loss of data; `SavedPrefix` says that what remains is a prefix.

### Bounds

* `MaxMessages` (3 to 6) bounds the messages over all runs of the process together.
  Six are enough for a file to be opened, written, left, found again after a crash
  and overwritten; to lose and regain the clock on the way; and for two rotations.
* `Instant` (`BothDays`) has four times: one before 16:45, whose slot's padded and bare names
  differ, and three later ones, whose names agree; two of these have the same number on
  different days, so that a comparison of numbers only would be caught. The slots are not
  adjacent to the first, which makes no difference: nothing in the code depends on the distance.
* `Denominator` is 15, the default of `fileDenominator`.
* `MessageKind` has one header kind, a standard and a nonstandard message: the three headers
  are treated alike.
* `SkyPeekShare`: two clients, so that one can be served while another waits; `Last` =
  3 messages where answers are compared with requests, and 1 with `Wraps` (a
  stream without end, two distinguishable states) for the liveness properties.

* `Caster`: `TwoDays` has six moments, in the first minutes of slots, exactly two minutes into them and in the last second
  of one, and the slot of the second day has the number of the first; `NewYear` has two slots of one year
  and one of the next, so that both kinds of directories are made during scans, and its last slot has the number of its first.
  `Skew` is -1258 seconds (with a file created 59 seconds into its slot, the compensated time is 118 seconds late, which is
  the most there is), 0 and 3600.
* `CastFeed`: two clients, three entries of two files, so that one is repeated.
* `SerialPort`: two commands, so that one can be on the wire while the other waits; reads of no, one and two bytes, so
  that one read may need several arrivals; a queue of two bytes in the driver, so that it overflows; and
  `MaxBytes` is 4 (3 for `serial_stop`): some from before the last purge, and some after it in two reads.
* `Startup`: `MaxWords` is 3, which is a word before `--maintenance` and one after it, or two settings
  files and an option. There is a word for each branch of the chain except the broker's `--db` and `--rb`, which
  are treated like `--parse` and `--webapi`; a file named after an option, which matches two expressions; the
  `--file=` that captures only its sign; a settings file that is missing; and a word that is no option.

`CHECK_DEADLOCK` is nowhere switched off: all systems can always go on, because
a process can be started again or a client can ask.

### Fairness

`FileTree` states no liveness, since the receiver may stop sending at any time.
`SkyPeekShare` has two parts.

* `ThreadsRun`: weak fairness of what either thread does without waiting for others,
  and of `LockForWrite`. The operating system schedules both; `AddMessage`
  returns. There is no fairness for `Receive`, `Ask`, `Kill`, `Return` or `Throw`.
  `WriterGranted` holds because the lock prefers writers; the mutant in which readers
  overtake a waiting writer violates it.
* `WebIsServed`: strong fairness of `LockForRead`, and of handling each client's
  request. The first is needed because of the same preference: a main loop
  that always calls `lockForWrite()` again before the reader wakes up would
  starve it. It is justified because between two messages the main loop
  waits for the receiver, at 115200 baud, with the lock free. The second is
  justified because `mg_mgr_poll` visits all the connections in turn.

`Caster` has weak fairness of the handlers' next step and strong fairness of each of the three
watchers being read, as Qt's event loop serves all its sockets. There is none for the broker, the time, or
starting and stopping the caster. `CastFeed` and `Startup` state safety only.

`SerialPort` has weak fairness of the main thread's steps, of the handler and `Return`, and of the driver's
output (`Transmit`). The message stream always reads again, so that a call of `read()` for at least one
byte has strong fairness (it is not enabled while another call is pending). `WriteOut`
has strong fairness because `waitForReadyRead()` serves reading first: it is only enabled when there is nothing
to read, and at 115200 baud that is most of the time. There is none for the
receiver sending, the cable, giving up or ending the process.

### Findings

1. The comment "Defer saving" (`broker` 228) says that the messages that arrive before
the clock is known are stored later. They are written to a file with a padded name
(202), and then that name is compared with the bare number (212). Before 16:45
they differ, so the file is closed and opened at offset 0, and header and message
overwrite the deferred messages just saved. `file_tree_deferred` gives
the trace: start, a message without a time, a message with one.
The same mismatch makes *every* later message of the morning
overwrite the file from its start; `SavedPrefix` is stated for files opened
once for that reason.

2. "Test if file is not live" (caster 185), with "minutes to add to cooldown timer" (92).
The minutes are added to the current time, and so the next slot begins *earlier*:
with equal clocks the live file counts as finished in the last minute of its slot. `caster_last_minute`:
the caster starts in that minute and hashes the file the broker writes to.

3. The same compensation is the absolute value of the skew (177). If the caster's clock, or its time
zone, is ahead of the receiver's, adding it doubles the error.
`caster_east`: at 12:00 by the receiver the caster, an hour ahead, looks for the file of 14:00, and
hashes that of 12:00.

4. "Stopping current monitoring (if any)..." (broker 80). The commands that stop the receiver go into
QSerialPort's buffer, and `purgeBuffers()`, which follows, discards what has not gone over the wire yet. In
`serial_stop` the receiver is configured while it goes on sending what it was told long before.

## Proofs

All theorems are of the form `Spec => P`, for all values of the constants that
satisfy `ConstantsAssumption`, hence for all sets of times, slot lengths, streams,
numbers of clients.

`FileTreeProofs`

* `Typing`. `TypeOK` is not inductive: `FlushBuffer` overwrites at `handle.pos`, which
  must lie inside the file, and `HandleUpdates`/`OverlayCells` show what an overwrite makes of
  a sequence of cells. `Basics` adds that.
* `CurrentFileInUse` and `StrayPointerOnlyAtStart`, from `Control`: what is known of
  handle, clock and message at each place of the loop (in `compare` with no file, nothing was ever
  deferred; in `write` the handle's file is the current one or missing).
* `StoredInRightSlot`, from `Owned`: not only the files but also the buffer, the deferred messages
  and the message in hand carry the slot they came in.

`FileTreeSavedProofs`

* `PrefixSaved` and `RotationSavesAll`, from `Written`: for a file opened once, while open,
  contents followed by buffer are exactly what was sent, and the offset is the file's
  end; when abandoned, a prefix. A file never opened is empty. Appending at the end
  extends a prefix (`OverlayAtEnd`, `PrefixExtends`, `AppendToConcat`).
* `StoredInARow`, from `Row`: what was sent to a file opened once is a run of consecutive messages after headers, the
  deferred messages are such a run too, and each continues to the last message received (or the one in
  hand), so that whatever is written next is the next in the run. A prefix of a run is a run, which `PrefixSaved` gives.

`FileTreeFrozenProofs`, which builds on the former

* `PastIsFrozen`, from `Latest`: as long as the clock has not gone back, no file is later than the time
  last shown, nor than the file that is open, so that the only file written to is the latest there is. It rests on
  `NumberMonotone`: a later minute has no smaller slot number.
* `ArchiveImplemented`, from `Written`, `Latest` and `OpenedFiles` (a file that exists was opened, and one that was opened
  is no later than the latest): `ArchiveStep` maps each opening to `Open`, writing a buffer out, also when a file is
  closed, to `Save`, a clock that goes back to `TimeGoesBack`, and all else, crashes included, to stuttering.

`CasterProofs`

* `Typing`. That a handler gets a file or directory that exists needs that directories and files are only added, and that
  slots do not recur (`ConstantsAssumption`): else a rotation would empty a file a torrent was made of.
* `LiveSlot`: while files are created in the first minute of their slots, the slot taken for live is the one at the
  receiver's time plus one of the `Offsets`, in seconds: from -118 to 0 for a clock that is two minutes behind or more, the skew
  and a minute for one from there to a minute ahead, and about twice the skew for one that is further
  ahead. It follows from `Estimate`: a file was created within a minute of its slot's start, and for the clocks in the
  middle the compensation is still the initial minute. Findings 2 and 3 are thereby not two instances only.
* `BehindIsSafe`: `LiveIsSkipped` for every `Skew` of -60 or less, from `LiveSlot` and `SameSlot`: a time less than two minutes
  back is in the same slot, two minutes into it. With equal clocks, and with one an hour ahead, the property is
  false (findings 2 and 3).
* `NoneForgotten`, from `Pursued`, since `NotForgotten` is not inductive: a call leads on to a file only if the directories above it
  exist (`Closed`), if it is the call for its level of the tree (`Calls`), and if a file that is due, once looked
  at, is complete. `Handling` is the step all handlers share, the first call being replaced by others, one of which
  leads to the file because a listing has every entry (`ListingComplete`). `Change` is the broker's: who enters a file into
  `due` also leaves the directory in `pending`.

`SerialPortProofs`

* `NoStaleByte`, from `QueueInv`: `_buffer` is empty until the set-up is over, because nothing calls the
  handler before, and bytes are numbered upwards along `taken`, `_buffer` and `wire`.
* `CommandsKept`, from `CommandInv`: until `clear` of the last purge, which empties QSerialPort's and the driver's
  buffers, these hold nothing but stop commands, none of which counts as heard; from then on a command only moves
  from the head of one place to the end of the next.

`StartupProofs`

* `Typing`, from `Typed`: the field names of what a word sets are those of the configuration, and the
  settings file has been found to exist.
* `ThreadFindsLogger`, from `Thread`: what is set at each place of `main()`.
* `MaintenanceOnly`, from `Maintaining`: past the word the configuration has no file and a web thread.
* `LastWordCounts`, from `Scanned`: in the second loop the configuration is what the words so far decide; one more
  word has the last say on what it sets and leaves the rest (`DecidedExtends`).

`SkyPeekProofs`

* `AnswersAreWhole` and `AnswersAreFresh`, from `LockInv` and `AnswerInv`: who holds the lock is determined by where the
  two threads are, as long as the lock exists; while the web thread reads, all
  members equal `taken`; what was read so far equals it too; and no client's
  `asked` exceeds `taken`.

`CastFeedProofs`

* `ReadsAgree`, from `ListInv`: how far each list is ahead of `hash_list` is determined by where the main
  thread is, the lists hold the same files, and the lock is held by exactly one reader or writer.
* `Typing` and `FeedImplemented`, from `FeedInv`: what the web thread has written matches the
  lists entry for entry, the last one as far as it goes, and no client asked when the feed was longer.
  `FeedStep` then maps appending to `hash_list` to `Publish`, the answer to `Answer`, and all
  else to stuttering.

Every safety property of the passing runs is proved. Only model-checked are the liveness properties
`WriterGranted`, `Answered`, `DueListed` and `CommandsDelivered`, since fairness and ENABLED are out of the
prover's reach, and the four findings.

## Not modelled

* mongoose, which is vendored twice and makes up more than nine tenths of the lines of the repository. Its behaviour is
  assumed where it is used: one thread, connections visited in turn, replies buffered until they are sent. Its own
  correctness is another project's, and the programs use it for a handful of pages.
* libtorrent and its session, Qt, and the message parser and `LoggingBinaryStream` of the `greis` library are
  not in the repository; the first three are modelled as far as the code's use of them shows.
* The texts of replies and log lines, which lines a log level prints, and the bytes of messages.
* `SerialStreamReader`, `ChainedSink`, `IniSettings::setValue`, and the stream's `flush()`, `isOpen()` and `close()`, which
  nothing calls; `Path`, `SmartPtr` and `Exception`, which hold no state; the build files.
* `fileDenominator` being 0, which ends either program at its first division (see the hazard at broker 199).

## What could come next

`Pipeline`: `FileTree` and `Caster` composed over one disk. The interface is now proved: `ImplementsArchive` says
that no file changes after a later one was created, `LiveIsSkipped` when the caster passes over the file of the
current slot. What lies between, the part of a file in the broker's buffer after its slot is over, is in `Caster` as
sizes 1 and 2.
