---------------------------- MODULE SkyPeekShare ----------------------------
(***************************************************************************)
(* The receiver state shared by the two threads of gnssrcvbroker.  The     *)
(* main loop (gnssrcvbroker/src/main.cpp) updates the SkyPeek object with  *)
(* every standard message; the web API's thread (webapi.cpp) reads it to   *)
(* answer requests.  A QReadWriteLock guards the object; the pointer to it *)
(* is published without one, and static destruction at the end of main()   *)
(* frees object and lock while the web thread is still running.            *)
(*                                                                         *)
(* The value of a field of SkyPeek is abstracted to the number of the last *)
(* message it accounts for.                                                *)
(***************************************************************************)
EXTENDS Naturals, Sequences, FiniteSets

CONSTANTS
  Client,   \* the clients of the web API
  Last,     \* the highest message number
  Wraps,    \* TRUE: numbering starts over, the stream does not end at Last
  Nobody,   \* no client
  Garbage   \* what a read of freed memory yields, if it does not crash

ASSUME ConstantsAssumption ==
  /\ Last \in Nat \ {0}
  /\ Wraps \in BOOLEAN
  /\ Nobody \notin Client
  /\ Garbage \notin 0..Last

Version == 0..Last
Field == {"DateTime", "pSVs", "SVs", "pv"}

\* The pages that show the object.
Page == {"/SkyPeek", "/TEC", "/NAV"}

\* The members a page reads, in order: a list is read for its size and again
\* for its elements.
Reads(uri) ==
  CASE uri = "/SkyPeek" -> <<"DateTime", "pSVs", "pSVs">>
    [] uri = "/TEC"     -> <<"DateTime", "SVs", "SVs">>
    [] uri = "/NAV"     -> <<"DateTime", "pv">>

VARIABLES
  main,     \* where the main thread is
  web,      \* where the web thread is
  lock,     \* who holds skyPeekLock: a subset of {"main", "web"}
  pointer,  \* Webapi::skyPeek: "null", or the object is "live" or "freed"
  skyPeek,  \* the fields of the object
  taken,    \* the number of the last message AddMessage has taken in
  serving,  \* the client whose request the web thread handles
  todo,     \* the members still to read for it
  got,      \* what was read so far
  request,  \* the page each client waits for
  reply,    \* the values in the answer to its last request
  asked     \* history: the value of taken when the client asked (unless Wraps)

object == <<pointer, skyPeek, taken>>
handler == <<serving, todo, got>>
clients == <<request, reply, asked>>
vars == <<main, web, lock, object, handler, clients>>

MainLocation ==
  {"down", "setup", "next", "lock", "parse", "exit", "freed", "unlocked"}
WebLocation == {"none", "poll", "lock", "read"}

Init ==
  /\ main = "down" /\ web = "none" /\ lock = {}
  /\ pointer = "null" /\ skyPeek = [f \in Field |-> 0] /\ taken = 0
  /\ serving = Nobody /\ todo = << >> /\ got = << >>
  /\ request = [c \in Client |-> "none"] /\ reply = [c \in Client |-> << >>]
  /\ asked = [c \in Client |-> 0]

-----------------------------------------------------------------------------
(* The process.                                                            *)

\* main() starts the web thread and goes on to the set-up in mainLoop; the
\* thread ends at once if the port cannot be bound.
Boot(bound) ==
  /\ main = "down"
  /\ main' = "setup"
  /\ web' = IF bound THEN "poll" ELSE "none"
  /\ UNCHANGED <<lock, object, handler, clients>>

\* The process is gone, and with it the connections.
Gone ==
  /\ main' = "down" /\ web' = "none" /\ lock' = {}
  /\ pointer' = "null" /\ skyPeek' = [f \in Field |-> 0] /\ taken' = 0
  /\ serving' = Nobody /\ todo' = << >> /\ got' = << >>
  /\ request' = [c \in Client |-> "none"] /\ reply' = [c \in Client |-> << >>]
  /\ asked' = [c \in Client |-> 0]

\* systemd stops the service.
Kill == main # "down" /\ Gone

-----------------------------------------------------------------------------
(* The main thread.                                                        *)

\* Mutant of Publish: the object is made by new SkyPeek instead of make_unique,
\* which leaves the numbers in pv as the memory was.
MakeUninitialised ==
  /\ main = "setup"
  /\ pointer' = "live" /\ skyPeek' = [skyPeek EXCEPT !["pv"] = Garbage]
  /\ main' = "next"
  /\ UNCHANGED <<web, lock, taken, handler, clients>>

\* Set-up ends: the object is made and its pointer published.
Publish ==
  /\ main = "setup"
  /\ pointer' = "live"
  /\ main' = "next"
  /\ UNCHANGED <<web, lock, skyPeek, taken, handler, clients>>

\* Set-up fails or the stream ends: main() returns.
Return ==
  /\ main \in {"setup", "next"}
  /\ main' = "exit"
  /\ UNCHANGED <<web, lock, object, handler, clients>>

\* A standard message arrives: lockForWrite() is called.
Receive ==
  /\ main = "next" /\ (taken < Last \/ Wraps)
  /\ main' = "lock"
  /\ UNCHANGED <<web, lock, object, handler, clients>>

LockForWrite ==
  /\ main = "lock" /\ lock = {}
  /\ lock' = {"main"}
  /\ main' = "parse"
  /\ UNCHANGED <<web, object, handler, clients>>

\* The number of the message being taken in.
Number == IF taken = Last THEN 0 ELSE taken + 1

\* AddMessage (external) brings the fields up to the message, one by one.
AddMessage(f) ==
  /\ main = "parse" /\ skyPeek[f] # Number
  /\ skyPeek' = [skyPeek EXCEPT ![f] = Number]
  /\ UNCHANGED <<main, web, lock, pointer, taken, handler, clients>>

\* Mutant of Unlock: the lock is released before the message is taken in.
UnlockFirst ==
  /\ main = "parse"
  /\ taken' = Number
  /\ lock' = lock \ {"main"}
  /\ main' = "next"
  /\ UNCHANGED <<web, pointer, skyPeek, handler, clients>>

Unlock ==
  /\ main = "parse" /\ \A f \in Field : skyPeek[f] = Number
  /\ taken' = Number
  /\ lock' = lock \ {"main"}
  /\ main' = "next"
  /\ UNCHANGED <<web, pointer, skyPeek, handler, clients>>

\* An Exception out of AddMessage skips the unlock() of line 181; it is caught
\* at the end of mainLoop and main() returns.
Throw ==
  /\ main = "parse"
  /\ main' = "exit"
  /\ UNCHANGED <<web, lock, object, handler, clients>>

\* Static destruction: the object, then the lock, while the web thread runs.
FreeSkyPeek ==
  /\ main = "exit"
  /\ pointer' = IF pointer = "live" THEN "freed" ELSE pointer
  /\ main' = "freed"
  /\ UNCHANGED <<web, lock, skyPeek, taken, handler, clients>>

FreeLock ==
  /\ main = "freed"
  /\ main' = "unlocked"
  /\ UNCHANGED <<web, lock, object, handler, clients>>

Exit == main = "unlocked" /\ Gone

-----------------------------------------------------------------------------
(* The web thread.                                                         *)

Ask(c, uri) ==
  /\ web # "none" /\ request[c] = "none"
  /\ request' = [request EXCEPT ![c] = uri]
  /\ reply' = [reply EXCEPT ![c] = << >>]
  /\ asked' = IF Wraps THEN asked ELSE [asked EXCEPT ![c] = taken]
  /\ UNCHANGED <<main, web, lock, object, handler>>

\* ev_handler is called for the request of c: lockForRead() is called.
Handle(c) ==
  /\ web = "poll" /\ request[c] \in Page
  /\ web' = "lock"
  /\ serving' = c /\ todo' = Reads(request[c]) /\ got' = << >>
  /\ UNCHANGED <<main, lock, object, clients>>

\* Any other request is answered without the object.
HandleOther(c) ==
  /\ web = "poll" /\ request[c] = "other"
  /\ request' = [request EXCEPT ![c] = "none"]
  /\ UNCHANGED <<main, web, lock, object, handler, reply, asked>>

\* Mutant of LockForRead: the request is handled without the lock.
ReadUnlocked ==
  /\ web = "lock"
  /\ web' = "read"
  /\ UNCHANGED <<main, lock, object, handler, clients>>

\* Mutant of LockForRead: a waiting writer does not hold up readers.
LockForReadFirst ==
  /\ web = "lock" /\ ("main" \notin lock \/ main = "unlocked")
  /\ lock' = lock \cup {"web"}
  /\ web' = "read"
  /\ UNCHANGED <<main, object, handler, clients>>

\* A waiting writer comes first.  A lock that was freed may do anything.
LockForRead ==
  /\ web = "lock"
  /\ ("main" \notin lock /\ main # "lock") \/ main = "unlocked"
  /\ lock' = lock \cup {"web"}
  /\ web' = "read"
  /\ UNCHANGED <<main, object, handler, clients>>

\* One member is read; a freed object may yield anything.
Read ==
  /\ web = "read" /\ todo # << >> /\ pointer # "null"
  /\ \/ got' = Append(got, skyPeek[Head(todo)])
     \/ pointer = "freed" /\ got' = Append(got, Garbage)
  /\ todo' = Tail(todo)
  /\ UNCHANGED <<main, web, lock, object, serving, clients>>

\* Mutant of Answer: the handler of /NAV returns without unlock().
AnswerLocked ==
  /\ web = "read" /\ todo = << >>
  /\ lock' = IF request[serving] = "/NAV" THEN lock ELSE lock \ {"web"}
  /\ request' = [request EXCEPT ![serving] = "none"]
  /\ reply' = [reply EXCEPT ![serving] = got]
  /\ web' = "poll" /\ serving' = Nobody /\ got' = << >>
  /\ UNCHANGED <<main, object, todo, asked>>

\* unlock(), then the answer is sent.
Answer ==
  /\ web = "read" /\ todo = << >>
  /\ lock' = lock \ {"web"}
  /\ request' = [request EXCEPT ![serving] = "none"]
  /\ reply' = [reply EXCEPT ![serving] = got]
  /\ web' = "poll" /\ serving' = Nobody /\ got' = << >>
  /\ UNCHANGED <<main, object, todo, asked>>

\* The object is used before its pointer is set: the process is killed.
NullPointer == web = "read" /\ todo # << >> /\ pointer = "null"

\* The object or the lock is used after static destruction: it may be killed.
DanglingPointer ==
  \/ web = "read" /\ todo # << >> /\ pointer = "freed"
  \/ web = "lock" /\ main = "unlocked"

CrashOnNull == NullPointer /\ Gone
CrashOnFreed == DanglingPointer /\ Gone

Next ==
  \/ \E bound \in BOOLEAN : Boot(bound)
  \/ Kill \/ Publish \/ Return
  \/ Receive \/ LockForWrite \/ (\E f \in Field : AddMessage(f)) \/ Unlock \/ Throw
  \/ FreeSkyPeek \/ FreeLock \/ Exit
  \/ \E c \in Client, uri \in Page \cup {"other"} : Ask(c, uri)
  \/ \E c \in Client : Handle(c) \/ HandleOther(c)
  \/ LockForRead \/ Read \/ Answer
  \/ CrashOnNull \/ CrashOnFreed

Spec == Init /\ [][Next]_vars

\* Both threads run, AddMessage returns, and main() exits once it has returned.
\* The receiver need not send, nor a client ask.
ThreadsRun ==
  /\ WF_vars(LockForWrite) /\ WF_vars(\E f \in Field : AddMessage(f))
  /\ WF_vars(Unlock)
  /\ WF_vars(FreeSkyPeek) /\ WF_vars(FreeLock) /\ WF_vars(Exit)
  /\ WF_vars(Read) /\ WF_vars(Answer) /\ WF_vars(CrashOnNull)

\* mg_mgr_poll visits all connections in turn, and between two messages the
\* main thread waits for the receiver long enough for a reader to wake up.
WebIsServed ==
  /\ SF_vars(LockForRead)
  /\ \A c \in Client : SF_vars(Handle(c) \/ HandleOther(c))

FairSpec == Spec /\ ThreadsRun /\ WebIsServed

-----------------------------------------------------------------------------
(* Properties.                                                             *)

TypeOK ==
  /\ main \in MainLocation /\ web \in WebLocation
  /\ lock \subseteq {"main", "web"}
  /\ pointer \in {"null", "live", "freed"}
  /\ skyPeek \in [Field -> Version] /\ taken \in Version
  /\ serving \in Client \cup {Nobody}
  /\ todo \in Seq(Field) /\ got \in Seq(Version \cup {Garbage})
  /\ request \in [Client -> Page \cup {"none", "other"}]
  /\ reply \in [Client -> Seq(Version \cup {Garbage})]
  /\ asked \in [Client -> Version]

\* Until the object is freed an answer shows one state of it: the state after
\* some message, never a mixture of two (lines 53-68, 78-95, 104-111).
ConsistentReply ==
  pointer # "freed" =>
    \A c \in Client : \A i, j \in DOMAIN reply[c] : reply[c][i] = reply[c][j]

\* An answer accounts for every message that had been taken in when the client
\* asked.
FreshReply ==
  pointer # "freed" /\ ~Wraps =>
    \A c \in Client : \A i \in DOMAIN reply[c] : reply[c][i] >= asked[c]

\* The main loop does not wait for the lock forever, however many requests
\* come in: readers unlock, and do not overtake a waiting writer.
WriterGranted == main = "lock" ~> main # "lock"

\* Every request is answered, or its connection is closed with the process: the
\* latter is what becomes of a request that waits for a lock left taken (Throw).
Answered == \A c \in Client : request[c] # "none" ~> request[c] = "none"
=============================================================================
