------------------------------ MODULE SerialPort ------------------------------
(***************************************************************************)
(* The broker's SerialPortBinaryStream (gnssrcvbroker/src/                 *)
(* SerialPortBinaryStream.cpp) and the conversation mainLoop has with the  *)
(* receiver over it (main.cpp): stop the receiver, purge, configure it,    *)
(* and read.  One thread does all this, so that the stream's mutex is      *)
(* always free when it is asked for, and readyRead is signalled only       *)
(* inside waitForReadyRead(), which only read() and peek() call.           *)
(*                                                                         *)
(* The port is external: QSerialPort with its write buffer, and the input  *)
(* and output queues of the driver.  ByteQueue is what it amounts to.      *)
(***************************************************************************)
EXTENDS Naturals, Sequences, SequencesExt

CONSTANTS
  Command,   \* the commands of the configuration
  Commands,  \* ... in the order in which mainLoop sends them
  Dm,        \* the command that stops the receiver
  Length,    \* the lengths the message stream asks for
  Capacity,  \* of the driver's input queue
  MaxBytes   \* bound on the bytes the receiver sends

ASSUME ConstantsAssumption ==
  /\ Commands \in Seq(Command) /\ Dm \notin Command
  /\ Length \subseteq Nat
  /\ Capacity \in Nat /\ MaxBytes \in Nat

VARIABLES
  pc,        \* where mainLoop is
  purge,     \* which call of purgeBuffers() it is in, or will be in next
  call,      \* the pending call of read() or peek()
  buffer,    \* _buffer
  result,    \* what the last call of read() or peek() returned
  pending,   \* QSerialPort's write buffer
  uart,      \* the driver's output queue
  wire,      \* the driver's input queue
  plugged,   \* the receiver is connected
  mode,      \* what it sends: what it was told long ago, nothing, or as configured
  sent,      \* how many bytes it has sent
  heard,     \* history: the commands it got since the port was opened
  taken,     \* history: all the bytes read
  purgedAt   \* history: the value of sent when the port was last purged

receiver == <<plugged, mode, sent, heard>>
stream == <<buffer, result, taken>>
port == <<pending, uart, wire>>
vars == <<pc, purge, call, stream, port, receiver, purgedAt>>

Mode == {"old", "quiet", "new"}
Byte == [n : 1..MaxBytes, mode : Mode]
NoCall == [op |-> "none", length |-> 0]

Init ==
  /\ pc = "closed" /\ purge = "first" /\ call = NoCall
  /\ buffer = << >> /\ result = << >> /\ taken = << >>
  /\ pending = << >> /\ uart = << >> /\ wire = << >>
  /\ plugged = TRUE /\ mode \in {"old", "quiet"} /\ heard = << >>
  /\ sent = 0 /\ purgedAt = 0

-----------------------------------------------------------------------------
(* mainLoop's set-up.                                                      *)

\* The constructor opens the port.  What an earlier process left in the
\* driver has been sent or dropped by then.
Open ==
  /\ pc = "closed" /\ plugged
  /\ pc' = "stop"
  /\ uart' = << >> /\ wire' = << >> /\ purgedAt' = sent /\ heard' = << >>
  /\ mode' = IF mode = "quiet" THEN mode ELSE "old"
  /\ UNCHANGED <<purge, call, stream, pending, plugged, sent>>

\* write() puts the command into QSerialPort's buffer.  The four variants of
\* "dm" with different line ends are one command.
WriteStop ==
  /\ pc = "stop"
  /\ pending' = Append(pending, Dm)
  /\ pc' = "flush" /\ purge' = "first"
  /\ UNCHANGED <<call, stream, uart, wire, receiver, purgedAt>>

\* Mutant of Flush: waiting until all is written also takes in bytes.
FlushAndRead ==
  /\ pc = "flush"
  /\ pending' = << >> /\ uart' = uart \o pending
  /\ buffer' = buffer \o wire /\ wire' = << >>
  /\ pc' = "clear"
  /\ UNCHANGED <<purge, call, result, taken, receiver, purgedAt>>

\* The first half of purgeBuffers() hands the driver as much as it takes.
Flush ==
  /\ pc = "flush"
  /\ \E n \in 0..Len(pending) :
       /\ uart' = uart \o SubSeq(pending, 1, n)
       /\ pending' = SubSeq(pending, n + 1, Len(pending))
  /\ pc' = "clear"
  /\ UNCHANGED <<purge, call, stream, wire, receiver, purgedAt>>

\* mainLoop calls purgeBuffers() twice after stopping the receiver, and once
\* more before configuring it.
AfterPurge == [first |-> "second", second |-> "third", third |-> "third"]

\* The second half discards both queues of the driver, and QSerialPort's
\* buffers.  _buffer is left as it is.
Clear ==
  /\ pc = "clear" /\ purge # "last"
  /\ pending' = << >> /\ uart' = << >> /\ wire' = << >>
  /\ purgedAt' = sent
  /\ pc' = IF purge = "third" THEN "configure" ELSE "flush"
  /\ purge' = AfterPurge[purge]
  /\ UNCHANGED <<call, stream, receiver>>

\* Mutant of Configure: the third purge comes after the commands.
ConfigureThenPurge ==
  /\ pc = "configure"
  /\ pending' = << >> /\ uart' = << >> /\ wire' = << >>
  /\ pc' = "acquire"
  /\ UNCHANGED <<purge, call, stream, receiver, purgedAt>>

Configure ==
  /\ pc = "configure"
  /\ pending' = pending \o Commands
  /\ pc' = "acquire"
  /\ UNCHANGED <<purge, call, stream, uart, wire, receiver, purgedAt>>

-----------------------------------------------------------------------------
(* Reading, from the message stream's Next().                              *)

\* Mutant of Call: a terminating byte is asked for as well.
CallForOneMore(op, length) ==
  /\ pc = "acquire"
  /\ call' = [op |-> op, length |-> length + 1]
  /\ pc' = "read"
  /\ UNCHANGED <<purge, stream, port, receiver, purgedAt>>

\* read(length) or peek(length) is called.
Call(op, length) ==
  /\ pc = "acquire"
  /\ call' = [op |-> op, length |-> length]
  /\ pc' = "read"
  /\ UNCHANGED <<purge, stream, port, receiver, purgedAt>>

Short == pc = "read" /\ Len(buffer) < call.length

\* Mutant of ReadyRead: what the buffer held is replaced.
ReadyReadAssigns ==
  /\ Short /\ wire # << >>
  /\ buffer' = wire /\ wire' = << >>
  /\ UNCHANGED <<pc, purge, call, result, taken, pending, uart, receiver, purgedAt>>

\* waitForReadyRead() finds bytes and signals readyRead: the handler appends
\* them to _buffer.  The driver may hand over only some.
ReadyRead ==
  /\ Short
  /\ \E n \in 1..Len(wire) :
       /\ buffer' = buffer \o SubSeq(wire, 1, n)
       /\ wire' = SubSeq(wire, n + 1, Len(wire))
  /\ UNCHANGED <<pc, purge, call, result, taken, pending, uart, receiver, purgedAt>>

\* waitForReadyRead() finds none, and can write meanwhile.
WriteOut ==
  /\ Short /\ wire = << >> /\ pending # << >>
  /\ \E n \in 1..Len(pending) :
       /\ uart' = uart \o SubSeq(pending, 1, n)
       /\ pending' = SubSeq(pending, n + 1, Len(pending))
  /\ UNCHANGED <<pc, purge, call, stream, wire, receiver, purgedAt>>

\* The loop ends; left() and, for read(), remove().
Return ==
  /\ pc = "read" /\ call.length <= Len(buffer)
  /\ result' = SubSeq(buffer, 1, call.length)
  /\ IF call.op = "read"
     THEN /\ buffer' = SubSeq(buffer, call.length + 1, Len(buffer))
          /\ taken' = taken \o SubSeq(buffer, 1, call.length)
     ELSE UNCHANGED <<buffer, taken>>
  /\ call' = NoCall
  /\ pc' = "acquire"
  /\ UNCHANGED <<purge, port, receiver, purgedAt>>

-----------------------------------------------------------------------------
(* The end of the process.                                                 *)

\* No directory can be made: the receiver is stopped again, the port purged...
GiveUp ==
  /\ pc = "acquire"
  /\ pending' = Append(pending, Dm)
  /\ pc' = "flush" /\ purge' = "last"
  /\ UNCHANGED <<call, stream, uart, wire, receiver, purgedAt>>

Gone ==
  /\ pc' = "closed" /\ purge' = "first" /\ call' = NoCall
  /\ buffer' = << >> /\ result' = << >>
  /\ pending' = << >> /\ wire' = << >>
  /\ UNCHANGED <<taken, receiver, purgedAt>>

\* ... and 73 thrown.
ClearAndThrow == pc = "clear" /\ purge = "last" /\ uart' = << >> /\ Gone

\* An exception, or a signal.  The driver keeps what it has to send.
Stop == pc # "closed" /\ Gone /\ UNCHANGED uart

-----------------------------------------------------------------------------
(* The receiver and the cable.                                             *)

\* It gets a command.  Any but the one that stops it makes it send.
Transmit ==
  /\ plugged /\ uart # << >>
  /\ uart' = Tail(uart)
  /\ mode' = IF Head(uart) = Dm THEN "quiet" ELSE "new"
  /\ heard' = IF Head(uart) = Dm THEN heard ELSE Append(heard, Head(uart))
  /\ UNCHANGED <<pc, purge, call, stream, pending, wire, plugged, sent, purgedAt>>

\* It sends a byte, which is lost if the port is closed or its queue full.
Send ==
  /\ plugged /\ mode # "quiet" /\ sent < MaxBytes
  /\ sent' = sent + 1
  /\ wire' = IF pc # "closed" /\ Len(wire) < Capacity
             THEN Append(wire, [n |-> sent + 1, mode |-> mode]) ELSE wire
  /\ UNCHANGED <<pc, purge, call, stream, pending, uart, plugged, mode, heard, purgedAt>>

\* The cable is pulled, or plugged in again.  A port that was open then stays
\* dead: an open port is not looked for again.
Unplug ==
  /\ plugged
  /\ plugged' = FALSE
  /\ UNCHANGED <<pc, purge, call, stream, port, mode, heard, sent, purgedAt>>

Plug ==
  /\ ~plugged /\ pc = "closed"
  /\ plugged' = TRUE
  /\ UNCHANGED <<pc, purge, call, stream, port, mode, heard, sent, purgedAt>>

Next ==
  \/ Open \/ WriteStop \/ Flush \/ Clear \/ Configure
  \/ \E op \in {"read", "peek"}, length \in Length : Call(op, length)
  \/ ReadyRead \/ WriteOut \/ Return
  \/ GiveUp \/ ClearAndThrow \/ Stop
  \/ Transmit \/ Send \/ Unplug \/ Plug

Spec == Init /\ [][Next]_vars

\* The thread runs, the message stream keeps reading, the driver sends.
\* waitForReadyRead() prefers reading, but the receiver is slower than the
\* loop.  Nothing makes the receiver send, or the process give up or end.
FairSpec ==
  /\ Spec
  /\ WF_vars(WriteStop \/ Flush \/ Clear \/ Configure \/ ClearAndThrow)
  /\ WF_vars(ReadyRead \/ Return)
  /\ SF_vars(\E length \in Length \ {0} : Call("read", length))
  /\ SF_vars(WriteOut)
  /\ WF_vars(Transmit)

-----------------------------------------------------------------------------
(* Properties.                                                             *)

TypeOK ==
  /\ pc \in {"closed", "stop", "flush", "clear", "configure", "acquire", "read"}
  /\ purge \in {"first", "second", "third", "last"}
  /\ call \in {NoCall} \cup [op : {"read", "peek"}, length : Length]
  /\ buffer \in Seq(Byte) /\ result \in Seq(Byte) /\ taken \in Seq(Byte)
  /\ pending \in Seq(Command \cup {Dm}) /\ uart \in Seq(Command \cup {Dm})
  /\ wire \in Seq(Byte) /\ Len(wire) <= Capacity
  /\ plugged \in BOOLEAN /\ mode \in Mode
  /\ heard \in Seq(Command)
  /\ sent \in 0..MaxBytes /\ purgedAt \in 0..sent

\* What read() returns is what the receiver sent, in order and each byte once,
\* although it goes through the driver, QSerialPort and _buffer and is partly
\* peeked at before: the three together are one queue.
Queue == INSTANCE ByteQueue WITH queue <- buffer \o wire
ImplementsQueue == Queue!Spec

\* purgeBuffers() does not touch _buffer, and yet no byte from before the last
\* purge of the set-up is ever returned: _buffer is empty until the first
\* read(), since nothing takes in bytes before.
NothingStale ==
  \A i \in DOMAIN buffer, j \in DOMAIN result :
    buffer[i].n > purgedAt /\ result[j].n > purgedAt

Acquiring == pc \in {"acquire", "read"}

\* While mainLoop reads, what the receiver got since the port was opened, what the
\* driver has and what QSerialPort has are together the configuration, each command
\* once and in order: the last purge (line 122) leaves nothing before them, and
\* nothing is discarded after them.
NoCommandLost == Acquiring => heard \o uart \o pending = Commands

\* The commands of line 127 only leave QSerialPort's buffer while read()
\* waits; the receiver gets them all, in order, if it stays connected.
CommandsDelivered == Acquiring ~> (heard = Commands \/ ~plugged \/ ~Acquiring)

\* "Stopping current monitoring (if any)..." (main.cpp:80): when the receiver
\* is configured it has been stopped, or the command is on its way.
StopReachesReceiver ==
  pc = "configure" /\ plugged => mode = "quiet" \/ Dm \in ToSet(uart \o pending)
=============================================================================
