---------------------------- MODULE StartupProofs ----------------------------
(***************************************************************************)
(* Theorems about Startup: the configuration both programs end up with,    *)
(* what maintenance mode leaves to do, and what the web thread finds, for  *)
(* all command lines and settings files.                                   *)
(***************************************************************************)
EXTENDS Startup, TLAPS

Fields == {"maint", "parse", "file", "db", "rb", "web", "name"}

-----------------------------------------------------------------------------
(* Words.                                                                  *)

LEMMA SwitchWords ==
  DOMAIN Switch = {"noParse", "noDB", "noFile", "noWebAPI", "parse", "db", "webapi", "rb"}
BY DEF Switch

LEMMA SwitchOne ==
  ASSUME NEW o \in DOMAIN Switch
  PROVE  \E f \in Fields \ {"name"}, b \in BOOLEAN : Switch[o] = [g \in {f} |-> b]
<1>1. /\ Switch["noParse"] = [parse |-> FALSE] /\ Switch["parse"] = [parse |-> TRUE]
      /\ Switch["noDB"] = [db |-> FALSE] /\ Switch["db"] = [db |-> TRUE]
      /\ Switch["noWebAPI"] = [web |-> FALSE] /\ Switch["webapi"] = [web |-> TRUE]
      /\ Switch["noFile"] = [file |-> FALSE] /\ Switch["rb"] = [rb |-> TRUE]
  BY DEF Switch
<1>2. \A b \in BOOLEAN :
        /\ [parse |-> b] = [g \in {"parse"} |-> b] /\ [db |-> b] = [g \in {"db"} |-> b]
        /\ [web |-> b] = [g \in {"web"} |-> b] /\ [file |-> b] = [g \in {"file"} |-> b]
        /\ [rb |-> b] = [g \in {"rb"} |-> b]
  OBVIOUS
<1> QED
  BY <1>1, <1>2, SwitchWords DEF Fields

LEMMA EffectTypes ==
  ASSUME NEW w \in Word
  PROVE  /\ DOMAIN Effect(w) \subseteq Fields
         /\ \A f \in DOMAIN Effect(w) : f # "name" => Effect(w)[f] \in BOOLEAN
         /\ "name" \in DOMAIN Effect(w) => Effect(w)["name"] \in Name
<1>cap. w.cap \in Name
  BY ConstantsAssumption
<1>1. CASE Option(w) = "maint"
  <2>1. Effect(w) = Maintenance
    BY <1>1, SwitchWords DEF Effect
  <2>2. DOMAIN Effect(w) = {"maint", "parse", "file", "db", "web"}
    BY <2>1 DEF Maintenance
  <2>3. /\ Effect(w)["maint"] \in BOOLEAN /\ Effect(w)["parse"] \in BOOLEAN
        /\ Effect(w)["file"] \in BOOLEAN /\ Effect(w)["db"] \in BOOLEAN
        /\ Effect(w)["web"] \in BOOLEAN
    BY <2>1 DEF Maintenance
  <2> QED
    BY <2>2, <2>3 DEF Fields
<1>2. CASE Option(w) = "file"
  <2>1. Effect(w) = [name |-> w.cap, file |-> w.cap # NoName]
    BY <1>2, SwitchWords DEF Effect
  <2>2. DOMAIN Effect(w) = {"name", "file"}
    BY <2>1
  <2>3. Effect(w)["name"] \in Name
    BY <1>cap, <2>1
  <2>4. Effect(w)["file"] \in BOOLEAN
    BY <2>1
  <2> QED
    BY <2>2, <2>3, <2>4 DEF Fields
<1>3. CASE Option(w) \notin {"maint", "file"} /\ Option(w) \in DOMAIN Switch
  <2>1. PICK o \in DOMAIN Switch : Effect(w) = Switch[o]
    BY <1>3 DEF Effect
  <2>2. \E f \in Fields \ {"name"}, b \in BOOLEAN : Switch[o] = [g \in {f} |-> b]
    BY ONLY SwitchOne, o \in DOMAIN Switch
  <2>3. PICK f \in Fields \ {"name"}, b \in BOOLEAN : Effect(w) = [g \in {f} |-> b]
    BY ONLY <2>1, <2>2, Zenon
  <2>4. DOMAIN Effect(w) = {f} /\ Effect(w)[f] = b
    BY ONLY <2>3
  <2> QED
    BY <2>4
<1>4. CASE Option(w) \notin {"maint", "file"} /\ Option(w) \notin DOMAIN Switch
  <2>1. Effect(w) = << >>
    BY <1>4 DEF Effect
  <2>2. DOMAIN Effect(w) = {}
    BY <2>1
  <2> QED
    BY <2>2
<1> QED
  BY <1>1, <1>2, <1>3, <1>4

\* What a word means depends on which of the programs it is, and on nothing else.
LEMMA WordsStay ==
  ASSUME NEW w, program' = program
  PROVE  Effect(w)' = Effect(w) /\ IsMaint(w)' = IsMaint(w)
<1>1. Option(w)' = Option(w)
  BY DEF Option
<1> QED
  BY <1>1 DEF Effect, IsMaint

LEMMA MaintenanceEffect ==
  ASSUME NEW w, IsMaint(w)
  PROVE  /\ {"file", "web"} \subseteq DOMAIN Effect(w)
         /\ Effect(w)["file"] = FALSE /\ Effect(w)["web"] = TRUE
<1>1. Effect(w) = Maintenance
  BY SwitchWords DEF IsMaint, Effect
<1> QED
  BY <1>1 DEF Maintenance

-----------------------------------------------------------------------------
(* Types.                                                                  *)

Configuration ==
  [maint : BOOLEAN, parse : BOOLEAN, file : BOOLEAN, db : BOOLEAN,
   rb : BOOLEAN, web : BOOLEAN, name : Name]

LEMMA ReadTypes ==
  ASSUME NEW f \in DOMAIN Ini
  PROVE  Read(f) \in Configuration
<1>1. Ini[f] \in [parse : BOOLEAN, db : BOOLEAN, rb : BOOLEAN, web : BOOLEAN,
                  name : Name, level : Int]
  BY ConstantsAssumption
<1> QED
  BY <1>1 DEF Read, Configuration

LEMMA ConfigurationFields ==
  ASSUME NEW c
  PROVE  c \in Configuration <=>
           /\ c = [f \in Fields |-> c[f]]
           /\ \A f \in Fields \ {"name"} : c[f] \in BOOLEAN
           /\ c["name"] \in Name
BY DEF Configuration, Fields

LEMMA OverrideTypes ==
  ASSUME NEW w \in Word, NEW c \in Configuration, NEW d,
         d = [f \in DOMAIN c |-> IF f \in DOMAIN Effect(w) THEN Effect(w)[f] ELSE c[f]]
  PROVE  d \in Configuration
<1>1. DOMAIN c = Fields /\ (\A f \in Fields \ {"name"} : c[f] \in BOOLEAN) /\ c["name"] \in Name
  BY ConfigurationFields
<1>2. d = [f \in Fields |-> d[f]]
  BY <1>1
<1>3. "name" \in Fields
  BY DEF Fields
<1>4. \A f \in Fields : d[f] = IF f \in DOMAIN Effect(w) THEN Effect(w)[f] ELSE c[f]
  BY <1>1
<1>5. \A f \in Fields \ {"name"} : d[f] \in BOOLEAN
  BY <1>1, <1>4, EffectTypes
<1>6. d["name"] \in Name
  BY <1>1, <1>3, <1>4, EffectTypes
<1> QED
  BY <1>2, <1>5, <1>6, ConfigurationFields

\* TypeOK but for the configuration.
Types ==
  /\ program \in Program /\ args \in Seq(Word) /\ Len(args) <= MaxWords
  /\ pc \in {"start", "making", "initialize", "config", "settings", "args", "level",
             "prepare", "start web", "main", "service", "exited"}
  /\ i \in 1..(Len(args) + 1)
  /\ settings \in DOMAIN Ini \cup {"none"} /\ extConfig \in BOOLEAN
  /\ made \in {0, 1} /\ level \in Int \cup {Unset}
  /\ shared \in BOOLEAN /\ web \in {"off", "started", "polling", "over"}
  /\ storage \in {"none", "log", "tree", "station"} /\ code \in {0, 2, 73, Crash}

\* What ReadSettings may rely on, and FirstUse's test of the pointer.
Control ==
  /\ pc \in {"start", "making"} => made = 0 /\ i = 1
  /\ pc = "initialize" => i = 1
  /\ pc \notin {"start", "making", "exited"} => made = 1
  /\ extConfig => settings \in DOMAIN Ini
  /\ pc \in {"settings", "args", "level", "prepare", "start web", "main", "service"}
       => settings \in DOMAIN Ini

Typed == Types /\ C \in Configuration /\ Control

LEMMA TypedInit == Init => Typed
<1> SUFFICES ASSUME Init PROVE Typed
  OBVIOUS
<1>1. PICK n \in 0..MaxWords : args \in [1..n -> Word]
  BY DEF Init
<1>2. MaxWords \in Nat /\ NoName \in Name
  BY ConstantsAssumption
<1>3. args \in Seq(Word) /\ Len(args) <= MaxWords /\ Len(args) \in Nat
  BY <1>1, <1>2
<1>4. C \in Configuration
  BY <1>2 DEF Init, BuiltIn, Configuration
<1>5. Len(args) + 1 \in Nat /\ 1 \in 1..(Len(args) + 1)
  BY <1>3
<1>6. Types
  BY <1>3, <1>5 DEF Init, Types
<1> QED
  BY <1>4, <1>6 DEF Init, Typed, Control

\* All but the web thread stays.
LEMMA TypesStay ==
  Types /\ web' \in {"off", "started", "polling", "over"}
    /\ UNCHANGED <<program, args, pc, i, settings, extConfig, made, level, shared, storage, code>>
  => Types'
<1> SUFFICES ASSUME Types, web' \in {"off", "started", "polling", "over"},
                    program' = program, args' = args, pc' = pc, i' = i,
                    settings' = settings, extConfig' = extConfig, made' = made,
                    level' = level, shared' = shared, storage' = storage, code' = code
             PROVE  Types'
  BY Zenon
<1>1. (program \in Program /\ args \in Seq(Word) /\ Len(args) <= MaxWords)'
  BY DEF Types
<1>2. (/\ settings \in DOMAIN Ini \cup {"none"} /\ extConfig \in BOOLEAN
       /\ made \in {0, 1} /\ level \in Int \cup {Unset} /\ shared \in BOOLEAN)'
  BY DEF Types
<1>3. (i \in 1..(Len(args) + 1))'
  BY DEF Types
<1>4. (storage \in {"none", "log", "tree", "station"} /\ code \in {0, 2, 73, Crash})'
  BY DEF Types
<1>5. (pc \in {"start", "making", "initialize", "config", "settings", "args", "level",
               "prepare", "start web", "main", "service", "exited"})'
  BY Zenon DEF Types
<1> QED
  BY <1>1, <1>2, <1>3, <1>4, <1>5, Zenon DEF Types

LEMMA TypesNext == Typed /\ [Next]_vars => Types' /\ Control'
<1> SUFFICES ASSUME Typed, Types, Control, [Next]_vars PROVE Types' /\ Control'
  BY DEF Typed
<1>typ. Types
  OBVIOUS
<1>seq. args \in Seq(Word)
  BY DEF Types
<1>len. Len(args) \in Nat
  BY ONLY <1>seq
<1>1st. 1 \in 1..(Len(args) + 1)
  BY ONLY <1>len
<1> USE DEF Types, Control, line, config, thread
<1>1. CASE FirstUse
  BY <1>1 DEF FirstUse
<1>2. CASE MakeLogger
  <2>1. made' = 1
    BY <1>2 DEF MakeLogger
  <2> QED
    BY <1>2, <2>1 DEF MakeLogger
<1>3. CASE InitializeLogger
  BY <1>3 DEF InitializeLogger
<1>4. CASE ScanConfig
  <2>1. i' \in 1..(Len(args) + 1)
    BY <1>4, <1>len DEF ScanConfig
  <2>2. settings' \in DOMAIN Ini \cup {"none"} /\ extConfig' \in BOOLEAN
        /\ (extConfig' => settings' \in DOMAIN Ini)
    BY <1>4 DEF ScanConfig
  <2>3. UNCHANGED <<program, args, pc, made, level, shared, web, storage, code>> /\ pc = "config"
    BY <1>4 DEF ScanConfig
  <2> QED
    BY <2>1, <2>2, <2>3
<1>5. CASE NoSuchConfig
  BY <1>5 DEF NoSuchConfig, Exit
<1>6. CASE DefaultConfig
  BY <1>6, ConstantsAssumption DEF DefaultConfig
<1>7. CASE ReadSettings
  BY <1>7, <1>1st DEF ReadSettings
<1>8. CASE ScanArg
  BY <1>8, <1>len DEF ScanArg
<1>9. CASE EndArgs
  BY <1>9 DEF EndArgs
<1>10. CASE SetLevel
  <2>1. Ini[settings] \in [parse : BOOLEAN, db : BOOLEAN, rb : BOOLEAN, web : BOOLEAN,
                           name : Name, level : Int]
    BY <1>10, ConstantsAssumption DEF SetLevel
  <2>3. Ini[settings].level \in Int
    BY ONLY <2>1
  <2>2. LevelOf(Ini[settings].level) \in Int
    BY ONLY <2>3 DEF LevelOf
  <2> QED
    BY <1>10, <2>2 DEF SetLevel
<1>11. CASE PrepareWeb
  <2>1. C.web \in BOOLEAN
    BY DEF Typed, Configuration
  <2> QED
    BY <1>11, <2>1 DEF PrepareWeb
<1>12. CASE StartWeb
  BY <1>12 DEF StartWeb
<1>13. CASE WebLog
  <2>1. web' \in {"off", "started", "polling", "over"}
        /\ UNCHANGED <<program, args, pc, i, settings, extConfig, made, level, shared, storage, code>>
    BY <1>13 DEF WebLog
  <2>2. Types'
    BY <2>1, <1>typ, TypesStay
  <2>3. Control'
    BY <2>1
  <2> QED
    BY ONLY <2>2, <2>3
<1>bind. CASE BindFails
  <2>1. CASE web' = "over" /\ UNCHANGED <<program, args, pc, i, settings, extConfig, made,
                                          level, shared, storage, code>>
    <3>1. Types'
      BY <2>1, <1>typ, TypesStay
    <3>2. Control'
      BY <2>1
    <3> QED
      BY ONLY <3>1, <3>2
  <2>2. CASE Exit(Crash)
    BY <2>2 DEF Exit
  <2> QED
    BY <1>bind, <2>1, <2>2 DEF BindFails
<1>14. CASE PortFails
  BY <1>14 DEF PortFails, Exit
<1>15. CASE WatchStation
  BY <1>15 DEF WatchStation, Serve
<1>16. CASE End
  BY <1>16 DEF End, Exit
<1>17. CASE Restart
  BY <1>17, <1>1st DEF Restart
<1>18. CASE \E writable \in BOOLEAN : ChooseStorage(writable)
  BY <1>18 DEF ChooseStorage, Serve
<1>19. CASE UNCHANGED vars
  <2>1. UNCHANGED <<program, args, pc, i, settings, extConfig, made, level, shared, web, storage, code>>
    BY <1>19 DEF vars
  <2>2. Types'
    BY <2>1, <1>typ, TypesStay
  <2>3. Control'
    BY <2>1
  <2> QED
    BY ONLY <2>2, <2>3
<1> QED
  BY <1>1, <1>2, <1>3, <1>4, <1>5, <1>6, <1>7, <1>8, <1>9, <1>10, <1>11, <1>12,
     <1>13, <1>14, <1>15, <1>16, <1>17, <1>18, <1>19, <1>bind DEF Next

LEMMA ConfigurationNext == Typed /\ [Next]_vars => (C \in Configuration)'
<1> SUFFICES ASSUME Typed, [Next]_vars PROVE C' \in Configuration
  OBVIOUS
<1>1. CASE UNCHANGED C
  BY <1>1 DEF Typed
<1>2. CASE ReadSettings
  <2>1. settings \in DOMAIN Ini
    BY <1>2 DEF Typed, Control, ReadSettings
  <2> QED
    BY <1>2, <2>1, ReadTypes DEF ReadSettings
<1>3. CASE ScanArg
  <2>1. args[i] \in Word
    BY <1>3 DEF Typed, Types, ScanArg
  <2>2. C' = [f \in DOMAIN C |->
               IF f \in DOMAIN Effect(args[i]) THEN Effect(args[i])[f] ELSE C[f]]
    BY <1>3 DEF ScanArg
  <2> HIDE DEF Configuration
  <2> QED
    BY ONLY <2>1, <2>2, OverrideTypes, Typed DEF Typed
<1>4. CASE \E writable \in BOOLEAN : ChooseStorage(writable)
  <2>1. PICK file \in BOOLEAN, parse \in BOOLEAN :
          C' = [C EXCEPT !.file = file, !.parse = parse]
    <3>1. PICK writable \in BOOLEAN : ChooseStorage(writable)
      BY <1>4
    <3>2. C.file \in BOOLEAN /\ C.parse \in BOOLEAN
      BY DEF Typed, Configuration
    <3> QED
      BY <3>1, <3>2 DEF ChooseStorage
  <2> QED
    BY <2>1 DEF Typed, Configuration
<1>5. CASE Restart
  <2>1. NoName \in Name
    BY ConstantsAssumption
  <2> QED
    BY <1>5, <2>1 DEF Restart, BuiltIn, Configuration
<1> QED
  BY <1>1, <1>2, <1>3, <1>4, <1>5
     DEF Next, vars, config, FirstUse, MakeLogger, InitializeLogger, ScanConfig,
         NoSuchConfig, DefaultConfig, EndArgs, SetLevel, PrepareWeb, StartWeb,
         WebLog, BindFails, PortFails, Serve, WatchStation, End, Exit

LEMMA Invariance == Spec => []Typed
<1>1. Typed /\ [Next]_vars => Typed'
  BY TypesNext, ConfigurationNext DEF Typed
<1> QED
  BY TypedInit, <1>1, PTL DEF Spec

\* Type correctness of main() and its configuration: in particular the settings
\* file that is read exists.
THEOREM Typing == Spec => []TypeOK
<1>1. Typed => TypeOK
  BY DEF Typed, Types, Configuration, TypeOK
<1> QED
  BY Invariance, <1>1, PTL

-----------------------------------------------------------------------------
(* The web thread.                                                         *)

\* What main() has done for the thread before it starts it.
Thread ==
  /\ pc \in {"prepare", "start web", "main", "service"}
       => level = LevelOf(Ini[settings].level)
  /\ pc = "start web" => shared = C.web
  /\ web # "off" => pc \in {"main", "service"} /\ shared

LEMMA ThreadNext == Typed /\ Thread /\ [Next]_vars => Thread'
<1> SUFFICES ASSUME Typed, Thread, [Next]_vars PROVE Thread'
  OBVIOUS
<1> USE DEF Thread, line, config, thread
<1>1. CASE FirstUse
  BY <1>1 DEF FirstUse
<1>2. CASE MakeLogger
  BY <1>2 DEF MakeLogger
<1>3. CASE InitializeLogger
  BY <1>3 DEF InitializeLogger
<1>4. CASE ScanConfig
  BY <1>4 DEF ScanConfig
<1>5. CASE NoSuchConfig \/ PortFails \/ End
  BY <1>5 DEF NoSuchConfig, PortFails, End, Exit
<1>6. CASE DefaultConfig
  BY <1>6 DEF DefaultConfig
<1>7. CASE ReadSettings
  BY <1>7 DEF ReadSettings
<1>8. CASE ScanArg
  BY <1>8 DEF ScanArg
<1>9. CASE EndArgs
  BY <1>9 DEF EndArgs
<1>10. CASE SetLevel
  BY <1>10 DEF SetLevel
<1>11. CASE PrepareWeb
  BY <1>11 DEF PrepareWeb
<1>12. CASE StartWeb
  BY <1>12 DEF StartWeb
<1>13. CASE WebLog
  BY <1>13 DEF WebLog
<1>bind. CASE BindFails
  BY <1>bind DEF BindFails, Exit
<1>14. CASE WatchStation
  BY <1>14 DEF WatchStation, Serve
<1>15. CASE Restart
  BY <1>15 DEF Restart
<1>16. CASE \E writable \in BOOLEAN : ChooseStorage(writable)
  BY <1>16 DEF ChooseStorage, Serve
<1>17. CASE UNCHANGED vars
  BY <1>17 DEF vars
<1> QED
  BY <1>1, <1>2, <1>3, <1>4, <1>5, <1>6, <1>7, <1>8, <1>9, <1>10, <1>11, <1>12,
     <1>13, <1>14, <1>15, <1>16, <1>17, <1>bind DEF Next

\* The web thread runs only when the logger is made and set, and with the lock or
\* channel name it needs.
THEOREM ThreadFindsLogger == Spec => []WebThreadReady
<1>1. Init => Thread
  BY DEF Init, Thread
<1>2. Typed /\ Thread => WebThreadReady
  BY DEF Typed, Control, Thread, WebThreadReady
<1> QED
  BY <1>1, <1>2, ThreadNext, Invariance, PTL DEF Spec

-----------------------------------------------------------------------------
(* Maintenance mode.                                                       *)

Maintained == \E k \in DOMAIN args : IsMaint(args[k])

\* From the word on, the configuration says no file and a web thread.
Maintaining ==
  /\ pc = "args" => \A l \in 1..(i - 1) : ~IsMaint(args[l])
  /\ pc \in {"level", "prepare", "start web", "main", "service"} /\ Maintained
       => C.file = FALSE /\ C.web = TRUE
  /\ pc \in {"main", "service"} /\ Maintained => web # "off"
  /\ pc = "service" /\ program = "broker" /\ Maintained => storage = "none"

LEMMA MaintainingNext == Typed /\ Maintaining /\ [Next]_vars => Maintaining'
<1> SUFFICES ASSUME Typed, Maintaining, [Next]_vars PROVE Maintaining'
  OBVIOUS
<1>args. args \in Seq(Word)
  BY DEF Typed, Types
<1>line. program' = program /\ args' = args
  BY DEF Next, vars, line, FirstUse, MakeLogger, InitializeLogger, ScanConfig,
         NoSuchConfig, DefaultConfig, ReadSettings, ScanArg, EndArgs, SetLevel,
         PrepareWeb, StartWeb, WebLog, BindFails, PortFails, Serve, WatchStation, End, Exit,
         Restart, ChooseStorage
<1>stay. /\ Maintained' <=> Maintained
         /\ \A l : IsMaint(args[l])' = IsMaint(args[l])
  BY <1>line, WordsStay DEF Maintained
<1> USE DEF Maintaining, line, config, thread
<1>1. CASE FirstUse
  BY <1>1 DEF FirstUse
<1>2. CASE MakeLogger
  BY <1>2 DEF MakeLogger
<1>3. CASE InitializeLogger
  BY <1>3 DEF InitializeLogger
<1>4. CASE ScanConfig
  BY <1>4 DEF ScanConfig
<1>5. CASE NoSuchConfig \/ PortFails \/ End
  BY <1>5 DEF NoSuchConfig, PortFails, End, Exit
<1>6. CASE DefaultConfig
  BY <1>6 DEF DefaultConfig
<1>7. CASE ReadSettings
  BY <1>7 DEF ReadSettings
<1>8. CASE ScanArg
  <2>1. CASE IsMaint(args[i])
    <3>1. pc' = "level"
      BY <1>8, <2>1 DEF ScanArg
    <3>2. {"file", "web"} \subseteq DOMAIN C
      BY DEF Typed, Configuration
    <3>3. C'["file"] = FALSE /\ C'["web"] = TRUE
      BY <1>8, <2>1, <3>2, MaintenanceEffect DEF ScanArg
    <3> QED
      BY <3>1, <3>3
  <2>2. CASE ~IsMaint(args[i])
    <3>1. pc' = "args" /\ i' = i + 1 /\ i \in Nat /\ pc = "args"
      BY <1>8, <2>2 DEF ScanArg, Typed, Types
    <3>2. \A l \in 1..i : ~IsMaint(args[l])
      BY <2>2, <3>1
    <3> QED
      BY <1>stay, <3>1, <3>2
  <2> QED
    BY <2>1, <2>2
<1>9. CASE EndArgs
  <2>1. ~Maintained
    BY <1>9, <1>args DEF EndArgs, Maintained
  <2> QED
    BY <1>9, <1>stay, <2>1 DEF EndArgs
<1>10. CASE SetLevel
  BY <1>10, <1>stay DEF SetLevel
<1>11. CASE PrepareWeb
  BY <1>11, <1>stay DEF PrepareWeb
<1>12. CASE StartWeb
  BY <1>12, <1>stay DEF StartWeb
<1>13. CASE WebLog
  BY <1>13, <1>stay DEF WebLog
<1>bind. CASE BindFails
  BY <1>bind, <1>stay DEF BindFails, Exit
<1>14. CASE WatchStation
  BY <1>14, <1>stay DEF WatchStation, Serve
<1>15. CASE Restart
  BY <1>15 DEF Restart
<1>16. CASE \E writable \in BOOLEAN : ChooseStorage(writable)
  <2>1. PICK writable \in BOOLEAN : ChooseStorage(writable)
    BY <1>16
  <2>2. /\ pc = "main" /\ pc' = "service" /\ web' = web
        /\ C'.web = C.web /\ C'.file = (C.file /\ (C.file /\ C.name \in TreeName => writable))
        /\ (~C.file => storage' = "none")
    BY <2>1 DEF ChooseStorage, Serve, Typed, Configuration
  <2> QED
    BY <2>2, <1>stay
<1>17. CASE UNCHANGED vars
  BY <1>17, <1>stay DEF vars
<1> QED
  BY <1>1, <1>2, <1>3, <1>4, <1>5, <1>6, <1>7, <1>8, <1>9, <1>10, <1>11, <1>12,
     <1>13, <1>14, <1>15, <1>16, <1>17, <1>bind DEF Next

\* A broker started with --maintenance, wherever on the command line and whatever
\* else is there, stores nothing and has started the web thread.
THEOREM MaintenanceOnly == Spec => []MaintenanceStoresNothing
<1>1. Init => Maintaining
  BY DEF Init, Maintaining
<1>2. Maintaining => MaintenanceStoresNothing
  BY DEF Maintaining, Maintained, MaintenanceStoresNothing
<1> QED
  BY <1>1, <1>2, MaintainingNext, Invariance, PTL DEF Spec

-----------------------------------------------------------------------------
(* The configuration.                                                      *)

\* The first loop: what the words so far have named.
Configured ==
  /\ pc \in {"start", "making", "initialize"} => ~extConfig
  /\ pc = "config" =>
       \/ /\ extConfig
          /\ \E k \in 1..(i - 1) :
               /\ "config" \in args[k].matches /\ settings = args[k].cap
               /\ \A l \in 1..(i - 1) : "config" \in args[l].matches => l <= k
       \/ ~extConfig /\ \A k \in 1..(i - 1) : "config" \notin args[k].matches
  /\ pc \in {"settings", "args", "level", "prepare", "start web", "main"} => Chosen(settings)

LEMMA ConfiguredNext == Typed /\ Configured /\ [Next]_vars => Configured'
<1> SUFFICES ASSUME Typed, Configured, [Next]_vars PROVE Configured'
  OBVIOUS
<1>args. args \in Seq(Word)
  BY DEF Typed, Types
<1>dom. DOMAIN args = 1..Len(args) /\ Len(args) \in Nat
  BY ONLY <1>args
<1> USE DEF Configured, line, config, thread
<1>1. CASE FirstUse
  BY <1>1 DEF FirstUse
<1>2. CASE MakeLogger
  BY <1>2 DEF MakeLogger
<1>3. CASE InitializeLogger
  BY <1>3 DEF InitializeLogger, Typed, Control
<1>4. CASE ScanConfig
  <2>1. i \in Nat /\ i' = i + 1 /\ pc = "config" /\ pc' = "config" /\ args' = args
    BY <1>4 DEF ScanConfig, Typed, Types
  <2>2. CASE "config" \in args[i].matches
    <3>1. settings' = args[i].cap /\ extConfig'
      BY <1>4, <2>2 DEF ScanConfig
    <3>2. i \in 1..(i' - 1) /\ \A l \in 1..(i' - 1) : l <= i
      BY <1>4, <2>1 DEF ScanConfig, Typed, Types
    <3> QED
      BY <2>1, <2>2, <3>1, <3>2
  <2>3. CASE "config" \notin args[i].matches
    <3>1. settings' = settings /\ extConfig' = extConfig
      BY <1>4, <2>3 DEF ScanConfig
    <3>2. 1..(i' - 1) = 1..(i - 1) \cup {i}
      BY <1>4, <2>1 DEF ScanConfig, Typed, Types
    <3> QED
      BY <2>1, <2>3, <3>1, <3>2
  <2> QED
    BY <2>2, <2>3
<1>5. CASE NoSuchConfig \/ PortFails \/ End
  BY <1>5 DEF NoSuchConfig, PortFails, End, Exit
<1>6. CASE DefaultConfig
  <2>1. pc = "config" /\ pc' = "settings" /\ args' = args /\ 1..(i - 1) = DOMAIN args
        /\ settings' = IF extConfig THEN settings ELSE DefaultIni
    BY <1>6, <1>dom DEF DefaultConfig
  <2> QED
    BY <2>1 DEF Chosen
<1>7. CASE ReadSettings
  BY <1>7 DEF ReadSettings, Chosen
<1>8. CASE ScanArg
  BY <1>8 DEF ScanArg, Chosen
<1>9. CASE EndArgs
  BY <1>9 DEF EndArgs, Chosen
<1>10. CASE SetLevel
  BY <1>10 DEF SetLevel, Chosen
<1>11. CASE PrepareWeb
  BY <1>11 DEF PrepareWeb, Chosen
<1>12. CASE StartWeb
  BY <1>12 DEF StartWeb, Chosen
<1>13. CASE WebLog
  BY <1>13 DEF WebLog, Chosen
<1>bind. CASE BindFails
  <2>1. CASE pc' = "exited"
    BY <2>1
  <2>2. CASE pc' = pc /\ i' = i /\ args' = args /\ settings' = settings /\ extConfig' = extConfig
    BY <2>2 DEF Chosen
  <2> QED
    BY <1>bind, <2>1, <2>2 DEF BindFails, Exit
<1>14. CASE WatchStation
  BY <1>14 DEF WatchStation, Serve
<1>15. CASE Restart
  BY <1>15 DEF Restart
<1>16. CASE \E writable \in BOOLEAN : ChooseStorage(writable)
  BY <1>16 DEF ChooseStorage, Serve
<1>17. CASE UNCHANGED vars
  BY <1>17 DEF vars, Chosen
<1> QED
  BY <1>1, <1>2, <1>3, <1>4, <1>5, <1>6, <1>7, <1>8, <1>9, <1>10, <1>11, <1>12,
     <1>13, <1>14, <1>15, <1>16, <1>17, <1>bind DEF Next

\* One more word, which has the last say.
LEMMA DecidedExtends ==
  ASSUME NEW f, NEW v, NEW d, NEW n \in Nat \ {0}, Decided(f, v, 1..(n - 1)),
         d = IF f \in DOMAIN Effect(args[n]) THEN Effect(args[n])[f] ELSE v
  PROVE  Decided(f, d, 1..n)
<1>1. 1..n = 1..(n - 1) \cup {n} /\ n \in 1..n /\ \A l \in 1..n : l <= n
  OBVIOUS
<1>2. CASE f \in DOMAIN Effect(args[n])
  BY <1>1, <1>2 DEF Decided
<1>3. CASE f \notin DOMAIN Effect(args[n])
  BY <1>1, <1>3 DEF Decided
<1> QED
  BY <1>2, <1>3

\* The second loop: what the words so far, and then those that count, decide.
Scanned ==
  /\ pc = "args" => \A f \in Fields : Decided(f, C[f], 1..(i - 1))
  /\ pc \in {"level", "prepare", "start web", "main"}
       => \A f \in Fields : Decided(f, C[f], Counting)

LEMMA ScannedNext == Typed /\ Maintaining /\ Scanned /\ [Next]_vars => Scanned'
<1> SUFFICES ASSUME Typed, Maintaining, Scanned, [Next]_vars PROVE Scanned'
  OBVIOUS
<1>args. args \in Seq(Word)
  BY DEF Typed, Types
<1>dom. DOMAIN args = 1..Len(args) /\ Len(args) \in Nat
  BY ONLY <1>args
<1>line. program' = program /\ args' = args
  BY DEF Next, vars, line, FirstUse, MakeLogger, InitializeLogger, ScanConfig,
         NoSuchConfig, DefaultConfig, ReadSettings, ScanArg, EndArgs, SetLevel,
         PrepareWeb, StartWeb, WebLog, BindFails, PortFails, Serve, WatchStation, End, Exit,
         Restart, ChooseStorage
<1>stay. \A k : Effect(args[k])' = Effect(args[k]) /\ IsMaint(args[k])' = IsMaint(args[k])
  BY <1>line, WordsStay
<1>count. Counting' = Counting
  BY <1>line, <1>stay DEF Counting
<1>same. ASSUME settings' = settings, C' = C, NEW f
         PROVE  Decided(f, C[f], Counting)' <=> Decided(f, C[f], Counting)
  <2>1. Read(settings)' = Read(settings)
    BY <1>same DEF Read
  <2>2. args' = args /\ Counting' = Counting /\ C' = C
    BY <1>line, <1>count, <1>same
  <2> HIDE DEF Counting, Read
  <2> QED
    BY ONLY <1>stay, <2>1, <2>2 DEF Decided
<1>rest. ASSUME settings' = settings, C' = C,
                pc \in {"level", "prepare", "start web", "main"}
         PROVE  (\A f \in Fields : Decided(f, C[f], Counting))'
  <2>1. \A f \in Fields : Decided(f, C[f], Counting)
    BY <1>rest DEF Scanned
  <2> QED
    BY <2>1, <1>rest, <1>same
<1>0. CASE pc' \notin {"args", "level", "prepare", "start web", "main"}
  BY <1>0 DEF Scanned
<1>7. CASE ReadSettings
  <2>1. C' = Read(settings)' /\ pc' = "args" /\ 1..(i' - 1) = {}
    BY <1>7 DEF ReadSettings, Read, config
  <2>2. (\A f \in Fields : Decided(f, C[f], 1..(i - 1)))'
    BY <2>1 DEF Decided
  <2> QED
    BY <2>1, <2>2 DEF Scanned
<1>8. CASE ScanArg
  <2>1. pc = "args" /\ i \in 1..Len(args) /\ i' = i + 1 /\ settings' = settings
    BY <1>8 DEF ScanArg, Typed, Types
  <2>2. \A f \in Fields :
          C'[f] = IF f \in DOMAIN Effect(args[i]) THEN Effect(args[i])[f] ELSE C[f]
    <3>1. DOMAIN C = Fields
      BY DEF Typed, Configuration, Fields
    <3> QED
      BY <1>8, <3>1 DEF ScanArg
  <2>3. \A f \in Fields : Decided(f, C'[f], 1..i)
    <3>1. i \in Nat \ {0}
      BY <2>1
    <3> TAKE f \in Fields
    <3>2. Decided(f, C[f], 1..(i - 1))
      BY <2>1 DEF Scanned
    <3> QED
      BY <2>2, <3>1, <3>2, DecidedExtends
  <2>4. Read(settings)' = Read(settings)
    BY <2>1 DEF Read
  <2>5. CASE ~IsMaint(args[i])
    <3>1. pc' = "args" /\ i' - 1 = i
      BY <1>8, <2>1, <2>5 DEF ScanArg
    <3>2. (\A f \in Fields : Decided(f, C[f], 1..(i - 1)))'
      BY <1>line, <1>stay, <2>3, <2>4, <3>1 DEF Decided
    <3> QED
      BY <3>1, <3>2 DEF Scanned
  <2>6. CASE IsMaint(args[i])
    <3>1. pc' = "level"
      BY <1>8, <2>6 DEF ScanArg
    <3>2. Counting = 1..i
      <4>1. \A l \in 1..(i - 1) : ~IsMaint(args[l])
        BY <2>1 DEF Maintaining
      <4>2. \A k \in DOMAIN args : k > i => i \in 1..(k - 1)
        BY <1>dom, <2>1
      <4>3. 1..i \subseteq DOMAIN args /\ \A k \in 1..i : 1..(k - 1) \subseteq 1..(i - 1)
        BY <1>dom, <2>1
      <4>4. \A k \in DOMAIN args : k \in 1..i \/ k > i
        BY <1>dom, <2>1
      <4> QED
        BY <2>6, <4>1, <4>2, <4>3, <4>4 DEF Counting
    <3>3. (\A f \in Fields : Decided(f, C[f], Counting))'
      BY <1>line, <1>stay, <1>count, <2>3, <2>4, <3>2 DEF Decided
    <3> QED
      BY <3>1, <3>3 DEF Scanned
  <2> QED
    BY <2>5, <2>6
<1>9. CASE EndArgs
  <2>1. pc = "args" /\ pc' = "level" /\ i = Len(args) + 1 /\ settings' = settings /\ C' = C
    BY <1>9 DEF EndArgs, config
  <2>2. Counting = 1..(i - 1)
    <3>1. \A l \in 1..(i - 1) : ~IsMaint(args[l])
      BY <2>1 DEF Maintaining
    <3>2. DOMAIN args = 1..(i - 1) /\ \A k \in 1..(i - 1) : 1..(k - 1) \subseteq 1..(i - 1)
      BY <1>dom, <2>1
    <3> QED
      BY <3>1, <3>2 DEF Counting
  <2>3. \A f \in Fields : Decided(f, C[f], Counting)
    BY <2>1, <2>2 DEF Scanned
  <2>4. (\A f \in Fields : Decided(f, C[f], Counting))'
    BY <2>1, <2>3, <1>same
  <2> QED
    BY <2>1, <2>4 DEF Scanned
<1>10. CASE SetLevel \/ PrepareWeb \/ StartWeb
  <2>1. /\ pc \in {"level", "prepare", "start web"} /\ pc' # "args"
        /\ settings' = settings /\ C' = C
    BY <1>10 DEF SetLevel, PrepareWeb, StartWeb, config
  <2> QED
    BY <2>1, <1>rest DEF Scanned
<1>11. CASE WebLog \/ UNCHANGED vars \/ (BindFails /\ pc' = pc)
  <2>1. pc' = pc /\ i' = i /\ settings' = settings /\ C' = C
    BY <1>11 DEF WebLog, BindFails, Exit, vars, config
  <2>2. Read(settings)' = Read(settings)
    BY <2>1 DEF Read
  <2>3. CASE pc = "args"
    <3>1. \A f \in Fields : Decided(f, C[f], 1..(i - 1))
      BY <2>3 DEF Scanned
    <3>2. (\A f \in Fields : Decided(f, C[f], 1..(i - 1)))'
      BY <1>line, <1>stay, <2>1, <2>2, <3>1 DEF Decided
    <3> QED
      BY <2>1, <2>3, <3>2 DEF Scanned
  <2>4. CASE pc \in {"level", "prepare", "start web", "main"}
    BY <2>1, <2>4, <1>rest DEF Scanned
  <2> QED
    BY <1>0, <2>1, <2>3, <2>4
<1> QED
  <2>1. FirstUse \/ MakeLogger \/ InitializeLogger \/ ScanConfig \/ NoSuchConfig
          \/ DefaultConfig \/ PortFails \/ WatchStation \/ End \/ Restart
          \/ (\E writable \in BOOLEAN : ChooseStorage(writable))
        => pc' \notin {"args", "level", "prepare", "start web", "main"}
    BY DEF FirstUse, MakeLogger, InitializeLogger, ScanConfig, NoSuchConfig, DefaultConfig,
           PortFails, Serve, WatchStation, End, Exit, Restart, ChooseStorage
  <2>2. BindFails => pc' = pc \/ pc' = "exited"
    BY DEF BindFails, Exit
  <2> QED
    BY <1>0, <1>7, <1>8, <1>9, <1>10, <1>11, <2>1, <2>2 DEF Next

\* The configuration both programs work with is what the last word on each key
\* says, --maintenance being the last word of all, and the settings say the rest.
THEOREM LastWordCounts == Spec => []Resolved
<1>1. Init => Configured /\ Maintaining /\ Scanned
  BY DEF Init, Configured, Maintaining, Scanned
<1>2. Typed /\ Configured /\ Scanned => Resolved
  <2>1. Typed => DOMAIN C = Fields
    BY DEF Typed, Configuration, Fields
  <2> QED
    BY <2>1 DEF Configured, Scanned, Resolved
<1> QED
  BY <1>1, <1>2, ConfiguredNext, MaintainingNext, ScannedNext, Invariance, PTL DEF Spec
=============================================================================
