------------------------------- MODULE CastFeed -------------------------------
(***************************************************************************)
(* btcaster's feed between its two threads.  The main thread appends each  *)
(* file it has hashed to three lists (btcaster/src/main.cpp, handleFile);  *)
(* the web thread turns the lists into an RSS document (webapi.cpp).  A    *)
(* QReadWriteLock guards the lists.  Feed says what this amounts to.       *)
(***************************************************************************)
EXTENDS Naturals, Sequences

CONSTANTS
  Client,   \* who asks for the feed
  Item,     \* a hashed file: its name and the uri of its torrent
  MaxItems, \* bound on the files hashed
  Nothing   \* no file, no client

ASSUME ConstantsAssumption ==
  MaxItems \in Nat /\ Nothing \notin Item /\ Nothing \notin Client

VARIABLES
  main,     \* where the main thread is
  item,     \* the file it publishes
  name_list, description_list, hash_list,
  lock,     \* who holds lock_torrent_list: a subset of {"main", "web"}
  web,      \* where the web thread is
  serving,  \* the client whose request it handles
  reply,    \* the entries written so far, the last one possibly in part
  waiting,  \* the clients whose requests are not answered
  asked,    \* history: how many entries there were when each client asked
  answer    \* the last answer to each

publisher == <<main, item, name_list, description_list, hash_list>>
reader == <<web, serving, reply>>
clients == <<waiting, asked, answer>>
vars == <<publisher, lock, reader, clients>>

Init ==
  /\ main = "hash" /\ item = Nothing
  /\ name_list = << >> /\ description_list = << >> /\ hash_list = << >>
  /\ lock = {} /\ web = "poll" /\ serving = Nothing /\ reply = << >>
  /\ waiting = {} /\ asked = [c \in Client |-> 0]
  /\ answer = [c \in Client |-> << >>]

-----------------------------------------------------------------------------
(* The main thread.                                                        *)

\* A file was hashed (it may have been before): lockForWrite() is called.
Hashed(e) ==
  /\ main = "hash" /\ Len(hash_list) < MaxItems
  /\ main' = "lock" /\ item' = e
  /\ UNCHANGED <<name_list, description_list, hash_list, lock, reader, clients>>

LockForWrite ==
  /\ main = "lock" /\ lock = {}
  /\ lock' = {"main"}
  /\ main' = "name"
  /\ UNCHANGED <<item, name_list, description_list, hash_list, reader, clients>>

AppendName ==
  /\ main = "name"
  /\ name_list' = Append(name_list, item)
  /\ main' = "description"
  /\ UNCHANGED <<item, description_list, hash_list, lock, reader, clients>>

AppendDescription ==
  /\ main = "description"
  /\ description_list' = Append(description_list, item)
  /\ main' = "uri"
  /\ UNCHANGED <<item, name_list, hash_list, lock, reader, clients>>

\* Mutant of AppendUri: a uri that is on the feed is not appended again.
AppendNewUri ==
  /\ main = "uri"
  /\ hash_list' = IF \E i \in DOMAIN hash_list : hash_list[i] = item
                  THEN hash_list ELSE Append(hash_list, item)
  /\ main' = "unlock"
  /\ UNCHANGED <<item, name_list, description_list, lock, reader, clients>>

AppendUri ==
  /\ main = "uri"
  /\ hash_list' = Append(hash_list, item)
  /\ main' = "unlock"
  /\ UNCHANGED <<item, name_list, description_list, lock, reader, clients>>

Unlock ==
  /\ main = "unlock"
  /\ lock' = lock \ {"main"}
  /\ main' = "hash" /\ item' = Nothing
  /\ UNCHANGED <<name_list, description_list, hash_list, reader, clients>>

-----------------------------------------------------------------------------
(* The web thread.                                                         *)

Ask(c) ==
  /\ c \notin waiting
  /\ waiting' = waiting \cup {c}
  /\ asked' = [asked EXCEPT ![c] = Len(hash_list)]
  /\ UNCHANGED <<publisher, lock, reader, answer>>

\* A request for /rss: lockForRead() is called.
Handle(c) ==
  /\ web = "poll" /\ c \in waiting
  /\ web' = "lock" /\ serving' = c /\ reply' = << >>
  /\ UNCHANGED <<publisher, lock, clients>>

\* Mutant of LockForRead: the lists are read without the lock.
ReadUnlocked ==
  /\ web = "lock"
  /\ web' = "size"
  /\ UNCHANGED <<publisher, lock, serving, reply, clients>>

\* A waiting writer comes first.
LockForRead ==
  /\ web = "lock" /\ "main" \notin lock /\ main # "lock"
  /\ lock' = lock \cup {"web"}
  /\ web' = "size"
  /\ UNCHANGED <<publisher, serving, reply, clients>>

\* Mutant of AnotherEntry: i <= size.
OneEntryMore ==
  /\ web = "size" /\ Len(reply) <= Len(hash_list)
  /\ web' = "title"
  /\ UNCHANGED <<publisher, lock, serving, reply, clients>>

\* The loop is bounded by the length of hash_list, asked for each time.
AnotherEntry ==
  /\ web = "size" /\ Len(reply) < Len(hash_list)
  /\ web' = "title"
  /\ UNCHANGED <<publisher, lock, serving, reply, clients>>

NoOtherEntry ==
  /\ web = "size" /\ Len(reply) >= Len(hash_list)
  /\ web' = "answer"
  /\ UNCHANGED <<publisher, lock, serving, reply, clients>>

\* The element at(i); past the end of the list it is undefined.
Element(list, i) == IF i \in DOMAIN list THEN list[i] ELSE Nothing

ReadTitle ==
  /\ web = "title"
  /\ reply' = Append(reply, [title |-> Element(name_list, Len(reply) + 1),
                             url |-> Nothing, description |-> Nothing])
  /\ web' = "url"
  /\ UNCHANGED <<publisher, lock, serving, clients>>

ReadUrl ==
  /\ web = "url"
  /\ reply' = [reply EXCEPT ![Len(reply)] =
                 [@ EXCEPT !.url = Element(hash_list, Len(reply))]]
  /\ web' = "description"
  /\ UNCHANGED <<publisher, lock, serving, clients>>

ReadDescription ==
  /\ web = "description"
  /\ reply' = [reply EXCEPT ![Len(reply)] =
                 [@ EXCEPT !.description = Element(description_list, Len(reply))]]
  /\ web' = "size"
  /\ UNCHANGED <<publisher, lock, serving, clients>>

\* unlock(), then the answer is sent.
Answer ==
  /\ web = "answer"
  /\ lock' = lock \ {"web"}
  /\ answer' = [answer EXCEPT ![serving] = reply]
  /\ waiting' = waiting \ {serving}
  /\ web' = "poll" /\ serving' = Nothing /\ reply' = << >>
  /\ UNCHANGED <<publisher, asked>>

Next ==
  \/ \E e \in Item : Hashed(e)
  \/ LockForWrite \/ AppendName \/ AppendDescription \/ AppendUri \/ Unlock
  \/ \E c \in Client : Ask(c) \/ Handle(c)
  \/ LockForRead \/ AnotherEntry \/ NoOtherEntry
  \/ ReadTitle \/ ReadUrl \/ ReadDescription \/ Answer

Spec == Init /\ [][Next]_vars

-----------------------------------------------------------------------------
(* Properties.                                                             *)

\* The entries the lists amount to.  hash_list comes last, so an entry is on
\* the feed once it is complete.
Log == [i \in DOMAIN hash_list |->
          [title |-> name_list[i], url |-> hash_list[i],
           description |-> description_list[i]]]

F == INSTANCE Feed WITH log <- Log

\* The three lists implement the feed: entries are published whole, and each
\* answer is the feed of some moment since its request.
ImplementsFeed == F!Spec

Partial == [title : Item, url : Item \cup {Nothing}, description : Item \cup {Nothing}]

TypeOK ==
  /\ main \in {"hash", "lock", "name", "description", "uri", "unlock"}
  /\ item \in Item \cup {Nothing} /\ (main = "hash" <=> item = Nothing)
  /\ name_list \in Seq(Item) /\ description_list \in Seq(Item)
  /\ hash_list \in Seq(Item)
  /\ lock \subseteq {"main", "web"}
  /\ web \in {"poll", "lock", "size", "title", "url", "description", "answer"}
  /\ serving \in Client \cup {Nothing} /\ (web = "poll" <=> serving = Nothing)
  /\ reply \in Seq(Partial)
  /\ waiting \subseteq Client
  /\ asked \in [Client -> Nat] /\ answer \in [Client -> Seq(Partial)]

Appending == main \in {"name", "description", "uri"}
Reading == web \in {"size", "title", "url", "description"}

\* While the web thread reads, no list is being appended to (a data race), and
\* the two lists that do not bound its loop are as long as the one that does
\* (lines 71-75 of webapi.cpp).
ListsAgree ==
  Reading => ~Appending /\ Len(name_list) = Len(hash_list)
                        /\ Len(description_list) = Len(hash_list)
=============================================================================
