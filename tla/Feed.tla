--------------------------------- MODULE Feed ---------------------------------
(***************************************************************************)
(* What btcaster's RSS feed promises: an entry is there as a whole or not  *)
(* at all, entries stay and keep their order, and an answer shows the feed *)
(* as it was at some moment after the request.                             *)
(***************************************************************************)
EXTENDS Naturals, Sequences

CONSTANTS
  Client,  \* who asks for the feed
  Item     \* a hashed file: its name and the uri of its torrent

\* An entry of the feed; the description repeats the name.
Row(e) == [title |-> e, url |-> e, description |-> e]
Rows == [title : Item, url : Item, description : Item]

VARIABLES
  log,      \* the entries published
  waiting,  \* the clients that have asked
  asked,    \* how many entries there were when each of them asked
  answer    \* the last answer to each

vars == <<log, waiting, asked, answer>>

Init ==
  /\ log = << >> /\ waiting = {}
  /\ asked = [c \in Client |-> 0] /\ answer = [c \in Client |-> << >>]

Publish(e) ==
  /\ log' = Append(log, Row(e))
  /\ UNCHANGED <<waiting, asked, answer>>

Ask(c) ==
  /\ c \notin waiting
  /\ waiting' = waiting \cup {c}
  /\ asked' = [asked EXCEPT ![c] = Len(log)]
  /\ UNCHANGED <<log, answer>>

Answer(c, n) ==
  /\ c \in waiting /\ n \in asked[c]..Len(log)
  /\ waiting' = waiting \ {c}
  /\ answer' = [answer EXCEPT ![c] = SubSeq(log, 1, n)]
  /\ UNCHANGED <<log, asked>>

Next ==
  \/ \E e \in Item : Publish(e)
  \/ \E c \in Client : Ask(c) \/ \E n \in 0..Len(log) : Answer(c, n)

Spec == Init /\ [][Next]_vars
=============================================================================
