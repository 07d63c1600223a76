------------------------------- MODULE Startup -------------------------------
(***************************************************************************)
(* main() of both programs (gnssrcvbroker/src/main.cpp,                    *)
(* btcaster/src/main.cpp), up to the point where the broker has chosen its *)
(* storage and btcaster its directory: the logger, the settings file, the  *)
(* words of the command line, and the start of the web thread.             *)
(*                                                                         *)
(* The words are looked at through unanchored regular expressions, so that *)
(* one word may match several; it is what it matches and captures.         *)
(***************************************************************************)
EXTENDS Integers, Sequences

CONSTANTS
  Word,       \* command-line words: records [matches, cap]
  MaxWords,   \* bound on their number
  Ini,        \* the settings files that exist, and what they say
  DefaultIni, \* config.ini next to the program; if it is missing, it says nothing
  Name,       \* what enableFile, --file or --config= may name
  TreeName,   \* those that end with a separator
  NoName,     \* the empty string
  Unset       \* the level of a logger that was only constructed

Program == {"broker", "caster"}

\* The order in which the second loop tries the expressions.
Chain ==
  [broker |-> <<"maint", "noParse", "noDB", "noFile", "noWebAPI", "file",
                "parse", "db", "webapi", "rb">>,
   caster |-> <<"maint", "noWebAPI", "file", "webapi">>]
Pattern == {Chain["broker"][i] : i \in DOMAIN Chain["broker"]} \cup {"config"}

\* Where no file or no key is, the program's default stands in for it.  --file
\* and --config= only match with something after them.
ASSUME ConstantsAssumption ==
  /\ TreeName \subseteq Name /\ NoName \in Name \ TreeName
  /\ DefaultIni \in DOMAIN Ini
  /\ \A f \in DOMAIN Ini :
       Ini[f] \in [parse : BOOLEAN, db : BOOLEAN, rb : BOOLEAN, web : BOOLEAN,
                   name : Name, level : Int]
  /\ \A w \in Word : w.matches \subseteq Pattern /\ w.cap \in Name
                     /\ ("file" \in w.matches => w.cap # NoName)
  /\ MaxWords \in Nat
  /\ Unset \notin Int

VARIABLES
  program,   \* which of the two it is
  args,      \* the command line
  pc,        \* where main() is
  i,         \* the next word
  settings,  \* the file IniSettings was initialised with
  extConfig, \* C["extConfig"]
  C,         \* the configuration: C["enableParse"] is C.parse, and so on
  made,      \* how many loggers Singleton::Instance() has made
  level,     \* the last one's logLevel
  shared,    \* what the web thread needs of main() is set
  web,       \* where the web thread is
  storage,   \* what the program works on
  code       \* how it ended

line == <<program, args>>
config == <<settings, extConfig, C>>
thread == <<shared, web>>
vars == <<line, pc, i, config, made, level, thread, storage, code>>

\* Before the settings are read.
BuiltIn == [maint |-> FALSE, parse |-> FALSE, file |-> FALSE, db |-> FALSE,
            rb |-> FALSE, web |-> FALSE, name |-> NoName]

Init ==
  /\ program \in Program
  /\ args \in UNION {[1..n -> Word] : n \in 0..MaxWords}
  /\ pc = "start" /\ i = 1
  /\ settings = "none" /\ extConfig = FALSE /\ C = BuiltIn
  /\ made = 0 /\ level = Unset
  /\ shared = FALSE /\ web = "off"
  /\ storage = "none" /\ code = 0

-----------------------------------------------------------------------------
(* The logger.  Instance() tests the pointer and makes the object if there *)
(* is none; nothing would keep two threads from doing so at once.          *)

FirstUse ==
  /\ pc = "start" /\ made = 0
  /\ pc' = "making"
  /\ UNCHANGED <<line, i, config, made, level, thread, storage, code>>

MakeLogger ==
  /\ pc = "making"
  /\ made' = made + 1 /\ level' = Unset
  /\ pc' = "initialize"
  /\ UNCHANGED <<line, i, config, thread, storage, code>>

InitializeLogger ==
  /\ pc = "initialize"
  /\ level' = 3
  /\ pc' = "config"
  /\ UNCHANGED <<line, i, config, made, thread, storage, code>>

-----------------------------------------------------------------------------
(* The configuration.                                                      *)

\* Mutant of ScanConfig: QSettings opens what is not there, too.
ScanUnchecked ==
  /\ pc = "config" /\ i <= Len(args)
  /\ IF "config" \in args[i].matches
     THEN settings' = args[i].cap /\ extConfig' = TRUE
     ELSE UNCHANGED <<settings, extConfig>>
  /\ i' = i + 1
  /\ UNCHANGED <<line, pc, C, made, level, thread, storage, code>>

\* --config= names a file that exists: the settings are taken from it.
ScanConfig ==
  /\ pc = "config" /\ i <= Len(args)
  /\ IF "config" \in args[i].matches
     THEN /\ args[i].cap \in DOMAIN Ini
          /\ settings' = args[i].cap /\ extConfig' = TRUE
     ELSE UNCHANGED <<settings, extConfig>>
  /\ i' = i + 1
  /\ UNCHANGED <<line, pc, C, made, level, thread, storage, code>>

Crash == 139  \* what a shell makes of the signal

\* The process ends, with all its threads.
Exit(status) ==
  /\ pc' = "exited" /\ code' = status /\ web' = "off"
  /\ UNCHANGED <<line, i, config, made, level, shared, storage>>

\* It does not exist: throw 2.
NoSuchConfig ==
  /\ pc = "config" /\ i <= Len(args)
  /\ "config" \in args[i].matches /\ args[i].cap \notin DOMAIN Ini
  /\ Exit(2)

DefaultConfig ==
  /\ pc = "config" /\ i = Len(args) + 1
  /\ settings' = IF extConfig THEN settings ELSE DefaultIni
  /\ pc' = "settings"
  /\ UNCHANGED <<line, i, extConfig, C, made, level, thread, storage, code>>

\* What a settings file makes of the configuration.
Read(f) ==
  [maint |-> FALSE, parse |-> Ini[f].parse, file |-> Ini[f].name # NoName,
   db |-> Ini[f].db, rb |-> Ini[f].rb, web |-> Ini[f].web, name |-> Ini[f].name]

ReadSettings ==
  /\ pc = "settings"
  /\ C' = Read(settings)
  /\ pc' = "args" /\ i' = 1
  /\ UNCHANGED <<line, settings, extConfig, made, level, thread, storage, code>>

\* The first expression of the chain that matches.
Option(w) ==
  LET chain == Chain[program]
      hits == {k \in DOMAIN chain : chain[k] \in w.matches} IN
  IF hits = {} THEN "other" ELSE chain[CHOOSE k \in hits : \A l \in hits : k <= l]

Switch ==
  [noParse |-> [parse |-> FALSE], noDB |-> [db |-> FALSE],
   noFile |-> [file |-> FALSE], noWebAPI |-> [web |-> FALSE],
   parse |-> [parse |-> TRUE], db |-> [db |-> TRUE],
   webapi |-> [web |-> TRUE], rb |-> [rb |-> TRUE]]

Maintenance ==
  [maint |-> TRUE, parse |-> FALSE, file |-> FALSE, db |-> FALSE, web |-> TRUE]

\* What a word sets.
Effect(w) ==
  CASE Option(w) = "maint" -> Maintenance
    [] Option(w) = "file"  -> [name |-> w.cap, file |-> w.cap # NoName]
    [] Option(w) \in DOMAIN Switch -> Switch[Option(w)]
    [] OTHER -> << >>

IsMaint(w) == Option(w) = "maint"

\* Mutant of ScanArg: the loop goes on after --maintenance.
ScanOn ==
  /\ pc = "args" /\ i <= Len(args)
  /\ C' = [f \in DOMAIN C |->
             IF f \in DOMAIN Effect(args[i]) THEN Effect(args[i])[f] ELSE C[f]]
  /\ i' = i + 1
  /\ UNCHANGED <<line, pc, settings, extConfig, made, level, thread, storage, code>>

\* One word of the second loop, which ends at --maintenance.
ScanArg ==
  /\ pc = "args" /\ i <= Len(args)
  /\ C' = [f \in DOMAIN C |->
             IF f \in DOMAIN Effect(args[i]) THEN Effect(args[i])[f] ELSE C[f]]
  /\ pc' = IF IsMaint(args[i]) THEN "level" ELSE "args"
  /\ i' = i + 1
  /\ UNCHANGED <<line, settings, extConfig, made, level, thread, storage, code>>

EndArgs ==
  /\ pc = "args" /\ i = Len(args) + 1
  /\ pc' = "level"
  /\ UNCHANGED <<line, i, config, made, level, thread, storage, code>>

\* Logger::Initialize.
LevelOf(n) == IF n < 0 THEN 5 ELSE n

SetLevel ==
  /\ pc = "level"
  /\ level' = LevelOf(Ini[settings].level)
  /\ pc' = "prepare"
  /\ UNCHANGED <<line, i, config, made, thread, storage, code>>

-----------------------------------------------------------------------------
(* The web thread, and what the main thread goes on to.                    *)

\* The lock, or the channel name.
PrepareWeb ==
  /\ pc = "prepare"
  /\ shared' = C.web
  /\ pc' = "start web"
  /\ UNCHANGED <<line, i, config, made, level, web, storage, code>>

\* Mutant of StartWeb: a static object starts the thread.
StartWebAtOnce ==
  /\ web = "off" /\ pc # "exited"
  /\ web' = "started"
  /\ pc' = IF pc = "start web" THEN "main" ELSE pc
  /\ UNCHANGED <<line, i, config, made, level, shared, storage, code>>

StartWeb ==
  /\ pc = "start web"
  /\ web' = IF C.web THEN "started" ELSE "off"
  /\ pc' = "main"
  /\ UNCHANGED <<line, i, config, made, level, shared, storage, code>>

\* run() logs, then polls and logs each request.
WebLog ==
  /\ web = "started"
  /\ web' = "polling"
  /\ UNCHANGED <<line, pc, i, config, made, level, shared, storage, code>>

\* The HTTP port is taken.  The broker's thread returns; btcaster's uses the
\* null pointer it got.
BindFails ==
  /\ web = "started"
  /\ \/ /\ program = "broker" /\ web' = "over"
        /\ UNCHANGED <<line, pc, i, config, made, level, shared, storage, code>>
     \/ program = "caster" /\ Exit(Crash)

\* The broker cannot open the serial port: throw 2.
PortFails == pc = "main" /\ program = "broker" /\ Exit(2)

Serve == pc = "main" /\ pc' = "service"

\* Mutant of ChooseStorage: the name decides.
StoreWhereNamed(writable) ==
  /\ Serve /\ program = "broker"
  /\ storage' = IF C.name = NoName THEN "none"
                ELSE IF C.name \notin TreeName THEN "log"
                ELSE IF writable THEN "tree" ELSE "none"
  /\ UNCHANGED <<line, i, config, made, level, thread, code>>

\* The broker stores nothing, a tree of files if "writetest" can be opened, or
\* one file; a tree needs the clock, hence parsing.
ChooseStorage(writable) ==
  /\ Serve /\ program = "broker"
  /\ LET tree == C.file /\ C.name \in TreeName IN
     /\ storage' = IF ~C.file THEN "none" ELSE IF ~tree THEN "log"
                   ELSE IF writable THEN "tree" ELSE "none"
     /\ C' = [C EXCEPT !.file = @ /\ (tree => writable),
                       !.parse = @ \/ (tree /\ writable)]
  /\ UNCHANGED <<line, i, settings, extConfig, made, level, thread, code>>

\* btcaster watches what is named, whatever enableFile says.
WatchStation ==
  /\ Serve /\ program = "caster"
  /\ storage' = "station"
  /\ UNCHANGED <<line, i, config, made, level, thread, code>>

\* The main loop ends, by an exception of its own or not; the broker's also
\* throws 73, when it cannot make a directory.
End ==
  /\ pc = "service"
  /\ \E status \in {0, 73} : (status = 73 => program = "broker") /\ Exit(status)

\* systemd starts the broker again, with the same command line; btcaster has no
\* unit, and is started by hand.
Restart ==
  /\ pc = "exited"
  /\ pc' = "start" /\ i' = 1
  /\ settings' = "none" /\ extConfig' = FALSE /\ C' = BuiltIn
  /\ made' = 0 /\ level' = Unset
  /\ shared' = FALSE /\ web' = "off"
  /\ storage' = "none" /\ code' = 0
  /\ UNCHANGED line

Next ==
  \/ FirstUse \/ MakeLogger \/ InitializeLogger
  \/ ScanConfig \/ NoSuchConfig \/ DefaultConfig
  \/ ReadSettings \/ ScanArg \/ EndArgs \/ SetLevel
  \/ PrepareWeb \/ StartWeb \/ WebLog \/ BindFails
  \/ PortFails \/ WatchStation \/ End \/ Restart
  \/ \E writable \in BOOLEAN : ChooseStorage(writable)

Spec == Init /\ [][Next]_vars

-----------------------------------------------------------------------------
(* Properties.                                                             *)

TypeOK ==
  /\ program \in Program /\ args \in Seq(Word) /\ Len(args) <= MaxWords
  /\ pc \in {"start", "making", "initialize", "config", "settings", "args", "level",
             "prepare", "start web", "main", "service", "exited"}
  /\ i \in 1..(Len(args) + 1)
  /\ settings \in DOMAIN Ini \cup {"none"} /\ extConfig \in BOOLEAN
  /\ C \in [maint : BOOLEAN, parse : BOOLEAN, file : BOOLEAN, db : BOOLEAN,
            rb : BOOLEAN, web : BOOLEAN, name : Name]
  /\ made \in {0, 1} /\ level \in Int \cup {Unset}
  /\ shared \in BOOLEAN /\ web \in {"off", "started", "polling", "over"}
  /\ storage \in {"none", "log", "tree", "station"} /\ code \in {0, 2, 73, Crash}

\* The words that count: none after the first --maintenance.
Counting == {k \in DOMAIN args : \A l \in 1..(k - 1) : ~IsMaint(args[l])}

\* What the configuration ought to say of f: what the last of these words that
\* sets it says, and if there is none, the settings.
Decided(f, v, words) ==
  \/ \E k \in words :
       /\ f \in DOMAIN Effect(args[k]) /\ v = Effect(args[k])[f]
       /\ \A l \in words : f \in DOMAIN Effect(args[l]) => l <= k
  \/ /\ \A k \in words : f \notin DOMAIN Effect(args[k])
     /\ v = Read(settings)[f]

\* The settings file ought to be the last one that is named.
Chosen(f) ==
  \/ \E k \in DOMAIN args :
       /\ "config" \in args[k].matches /\ f = args[k].cap
       /\ \A l \in DOMAIN args : "config" \in args[l].matches => l <= k
  \/ /\ \A k \in DOMAIN args : "config" \notin args[k].matches
     /\ f = DefaultIni

\* When the two loops are through (line 368), the configuration is what the last
\* word says, --maintenance having the last word on what it sets, and the
\* settings say the rest; they are those of the last --config=, or the default.
Resolved ==
  pc \in {"level", "prepare", "start web", "main"} =>
    /\ Chosen(settings)
    /\ \A f \in DOMAIN C : Decided(f, C[f], Counting)

\* "Starting in maintenance mode" (line 321): the broker stores nothing, whatever
\* the other words and the settings say, and has started the web thread.
MaintenanceStoresNothing ==
  /\ program = "broker" /\ pc = "service"
  /\ \E k \in DOMAIN args : IsMaint(args[k])
  => storage = "none" /\ web # "off"

\* The web thread finds the logger made and set to the configured level, and the
\* lock or name it needs: it never runs while the main thread still makes
\* objects on first use, which nothing synchronises.
WebThreadReady ==
  web # "off" => made = 1 /\ shared /\ level = LevelOf(Ini[settings].level)
=============================================================================
