------------------------------ MODULE ByteQueue ------------------------------
(***************************************************************************)
(* What the broker expects of a binary stream: a queue of the bytes the    *)
(* receiver sent, in the order in which it sent them, each delivered at    *)
(* most once.  Bytes are lost only by not getting into the queue, or all   *)
(* together when the queue is emptied.                                     *)
(***************************************************************************)
EXTENDS Naturals, Sequences

CONSTANT Byte      \* records with a field n, the number of the byte

VARIABLES
  queue,   \* the bytes not read yet
  taken,   \* all that was read so far
  result   \* what the last call returned

vars == <<queue, taken, result>>

Init == queue = << >> /\ taken = << >> /\ result = << >>

\* The receiver sent a byte later than all before.
Arrive(b) ==
  /\ \A i \in DOMAIN queue : queue[i].n < b.n
  /\ \A i \in DOMAIN taken : taken[i].n < b.n
  /\ queue' = Append(queue, b)
  /\ UNCHANGED <<taken, result>>

First(n) == SubSeq(queue, 1, n)

Read(n) ==
  /\ n <= Len(queue)
  /\ result' = First(n)
  /\ taken' = taken \o First(n)
  /\ queue' = SubSeq(queue, n + 1, Len(queue))

Peek(n) ==
  /\ n <= Len(queue)
  /\ result' = First(n)
  /\ UNCHANGED <<queue, taken>>

\* The queue is emptied, or the stream closed.
Purge ==
  /\ queue' = << >>
  /\ result' \in {result, << >>}
  /\ UNCHANGED taken

Next ==
  \/ \E b \in Byte : Arrive(b)
  \/ \E n \in 0..Len(queue) : Read(n) \/ Peek(n)
  \/ Purge

Spec == Init /\ [][Next]_vars
=============================================================================
