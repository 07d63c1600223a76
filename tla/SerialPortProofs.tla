--------------------------- MODULE SerialPortProofs ---------------------------
(***************************************************************************)
(* Proofs about SerialPort, for every list of commands, all lengths of     *)
(* reads and every size of the driver's queue: the driver's input queue    *)
(* and _buffer are one queue of bytes, and nothing from before the last    *)
(* purge gets out of it.                                                   *)
(***************************************************************************)
EXTENDS SerialPort, TLAPS

-----------------------------------------------------------------------------
(* Cutting a sequence in two.                                              *)

LEMMA Halves ==
  ASSUME NEW S, NEW s \in Seq(S), NEW n \in 0..Len(s)
  PROVE  /\ SubSeq(s, 1, n) \in Seq(S) /\ Len(SubSeq(s, 1, n)) = n
         /\ SubSeq(s, n + 1, Len(s)) \in Seq(S)
         /\ Len(SubSeq(s, n + 1, Len(s))) = Len(s) - n
         /\ \A i \in 1..n : SubSeq(s, 1, n)[i] = s[i]
         /\ \A i \in 1..(Len(s) - n) : SubSeq(s, n + 1, Len(s))[i] = s[n + i]
  OBVIOUS

\* Joining two.
LEMMA Joined ==
  ASSUME NEW S, NEW s \in Seq(S), NEW t \in Seq(S)
  PROVE  /\ s \o t \in Seq(S) /\ Len(s \o t) = Len(s) + Len(t)
         /\ \A i \in 1..Len(s) : (s \o t)[i] = s[i]
         /\ \A i \in 1..Len(t) : (s \o t)[Len(s) + i] = t[i]
         /\ \A i \in (Len(s) + 1)..(Len(s) + Len(t)) : (s \o t)[i] = t[i - Len(s)]
  OBVIOUS

LEMMA SameSequence ==
  ASSUME NEW S, NEW s \in Seq(S), NEW t \in Seq(S), Len(s) = Len(t),
         \A i \in 1..Len(s) : s[i] = t[i]
  PROVE  s = t
  OBVIOUS

\* The front of the second sequence moves to the end of the first.
LEMMA MoveOver ==
  ASSUME NEW S, NEW s \in Seq(S), NEW t \in Seq(S), NEW n \in 0..Len(t)
  PROVE  (s \o SubSeq(t, 1, n)) \o SubSeq(t, n + 1, Len(t)) = s \o t
<1> DEFINE a == SubSeq(t, 1, n)  b == SubSeq(t, n + 1, Len(t))
<1>1. /\ a \in Seq(S) /\ Len(a) = n
      /\ b \in Seq(S) /\ Len(b) = Len(t) - n
      /\ \A i \in 1..n : a[i] = t[i]
      /\ \A i \in 1..(Len(t) - n) : b[i] = t[n + i]
  BY Halves
<1> HIDE DEF a, b
<1> DEFINE u == s \o a  v == u \o b  w == s \o t
<1>a. a \in Seq(S) /\ b \in Seq(S)
  BY <1>1
<1>u. u = s \o a
  OBVIOUS
<1> HIDE DEF u
<1>v. v = u \o b
  OBVIOUS
<1> HIDE DEF v
<1>2. /\ u \in Seq(S) /\ Len(u) = Len(s) + Len(a)
      /\ \A i \in 1..Len(s) : u[i] = s[i]
      /\ \A i \in (Len(s) + 1)..(Len(s) + Len(a)) : u[i] = a[i - Len(s)]
  BY <1>a, <1>u
<1>b. u \in Seq(S)
  BY <1>2
<1>3. /\ v \in Seq(S) /\ Len(v) = Len(u) + Len(b)
      /\ \A i \in 1..Len(u) : v[i] = u[i]
      /\ \A i \in (Len(u) + 1)..(Len(u) + Len(b)) : v[i] = b[i - Len(u)]
  BY <1>a, <1>b, <1>v
<1>4. /\ w \in Seq(S) /\ Len(w) = Len(s) + Len(t)
      /\ \A i \in 1..Len(s) : w[i] = s[i]
      /\ \A i \in (Len(s) + 1)..(Len(s) + Len(t)) : w[i] = t[i - Len(s)]
  BY Joined
<1> HIDE DEF w
<1>5. Len(s) \in Nat /\ Len(t) \in Nat /\ n \in Nat /\ n <= Len(t)
  OBVIOUS
<1>6. Len(v) = Len(w)
  BY <1>1, <1>2, <1>3, <1>4, <1>5
<1>7. ASSUME NEW i \in 1..Len(v) PROVE v[i] = w[i]
  <2>1. CASE i <= Len(s)
    BY <2>1, <1>2, <1>3, <1>4, <1>5
  <2>2. CASE i > Len(s) /\ i <= Len(s) + n
    <3>1. i \in (Len(s) + 1)..(Len(s) + Len(a)) /\ i \in 1..Len(u)
      BY <2>2, <1>1, <1>2, <1>5
    <3>2. i \in (Len(s) + 1)..(Len(s) + Len(t)) /\ i - Len(s) \in 1..n
      BY <2>2, <3>1, <1>1, <1>5
    <3>3. v[i] = u[i] /\ u[i] = a[i - Len(s)] /\ w[i] = t[i - Len(s)]
      BY <3>1, <3>2, <1>2, <1>3, <1>4
    <3>4. a[i - Len(s)] = t[i - Len(s)]
      BY <3>2, <1>1
    <3> QED BY <3>3, <3>4
  <2>3. CASE i > Len(s) + n
    <3>1. /\ i \in (Len(u) + 1)..(Len(u) + Len(b))
          /\ i \in (Len(s) + 1)..(Len(s) + Len(t))
      BY <2>3, <1>1, <1>2, <1>3, <1>5
    <3>2. /\ i - Len(u) \in 1..(Len(t) - n)
          /\ n + (i - Len(u)) = i - Len(s)
      <4>1. Len(u) = Len(s) + n /\ Len(b) = Len(t) - n
        BY <1>1, <1>2
      <4> QED BY <3>1, <4>1, <1>5
    <3>3. v[i] = b[i - Len(u)] /\ w[i] = t[i - Len(s)]
      BY <3>1, <1>3, <1>4, Zenon
    <3>4. b[i - Len(u)] = t[n + (i - Len(u))]
      BY <3>2, <1>1
    <3> QED BY <3>2, <3>3, <3>4
  <2> QED BY <2>1, <2>2, <2>3, <1>3, <1>5
<1>8. v = w
  BY <1>3, <1>4, <1>6, <1>7, SameSequence
<1> QED BY <1>8 DEF u, v, w, a, b

\* What is taken from the front of the first sequence.
LEMMA TakeFront ==
  ASSUME NEW S, NEW s \in Seq(S), NEW t \in Seq(S), NEW n \in 0..Len(s)
  PROVE  /\ SubSeq(s \o t, 1, n) = SubSeq(s, 1, n)
         /\ SubSeq(s \o t, n + 1, Len(s \o t)) = SubSeq(s, n + 1, Len(s)) \o t
<1> DEFINE w == s \o t
           a == SubSeq(w, n + 1, Len(w))
           b == SubSeq(s, n + 1, Len(s))
           c == b \o t
<1>1. SubSeq(s \o t, 1, n) = SubSeq(s, 1, n)
  OBVIOUS
<1>2. Len(s) \in Nat /\ Len(t) \in Nat /\ n \in Nat /\ n <= Len(s)
  OBVIOUS
<1>3. /\ w \in Seq(S) /\ Len(w) = Len(s) + Len(t)
      /\ \A i \in 1..Len(s) : w[i] = s[i]
      /\ \A i \in (Len(s) + 1)..(Len(s) + Len(t)) : w[i] = t[i - Len(s)]
  BY Joined
<1>4. /\ b \in Seq(S) /\ Len(b) = Len(s) - n
      /\ \A i \in 1..(Len(s) - n) : b[i] = s[n + i]
  BY Halves
<1> HIDE DEF w, b
<1>5. n \in 0..Len(w)
  BY <1>2, <1>3
<1>6. /\ a \in Seq(S) /\ Len(a) = Len(w) - n
      /\ \A i \in 1..(Len(w) - n) : a[i] = w[n + i]
  BY <1>3, <1>5, Halves
<1>7. /\ c \in Seq(S) /\ Len(c) = Len(b) + Len(t)
      /\ \A i \in 1..Len(b) : c[i] = b[i]
      /\ \A i \in (Len(b) + 1)..(Len(b) + Len(t)) : c[i] = t[i - Len(b)]
  BY <1>4, Joined
<1> HIDE DEF a, c
<1>8. Len(a) = Len(c)
  BY <1>2, <1>3, <1>4, <1>6, <1>7
<1>9. ASSUME NEW i \in 1..Len(a) PROVE a[i] = c[i]
  <2>1. CASE i <= Len(s) - n
    <3>1. /\ i \in 1..(Len(w) - n) /\ n + i \in 1..Len(s)
          /\ i \in 1..Len(b) /\ i \in 1..(Len(s) - n)
      BY <2>1, <1>2, <1>3, <1>4, <1>6
    <3> QED BY <3>1, <1>3, <1>4, <1>6, <1>7
  <2>2. CASE i > Len(s) - n
    <3>1. /\ i \in 1..(Len(w) - n)
          /\ n + i \in (Len(s) + 1)..(Len(s) + Len(t))
          /\ i \in (Len(b) + 1)..(Len(b) + Len(t))
          /\ (n + i) - Len(s) = i - Len(b)
      BY <2>2, <1>2, <1>3, <1>4, <1>6
    <3>2. a[i] = w[n + i] /\ w[n + i] = t[(n + i) - Len(s)] /\ c[i] = t[i - Len(b)]
      BY <3>1, <1>3, <1>6, <1>7
    <3> QED BY <3>1, <3>2
  <2> QED BY <2>1, <2>2, <1>2, <1>6
<1>10. a = c
  BY <1>6, <1>7, <1>8, <1>9, SameSequence
<1> QED BY <1>1, <1>10 DEF a, b, c, w

\* Where the elements of a joined, or of a cut, sequence come from.
LEMMA FromParts ==
  ASSUME NEW S, NEW s \in Seq(S), NEW t \in Seq(S), NEW n \in 0..Len(t)
  PROVE  /\ \A i \in DOMAIN SubSeq(t, 1, n) :
               \E j \in DOMAIN t : SubSeq(t, 1, n)[i] = t[j]
         /\ \A i \in DOMAIN SubSeq(t, n + 1, Len(t)) :
               \E j \in DOMAIN t : SubSeq(t, n + 1, Len(t))[i] = t[j]
         /\ \A i \in DOMAIN (s \o SubSeq(t, 1, n)) :
               \/ \E j \in DOMAIN t : (s \o SubSeq(t, 1, n))[i] = t[j]
               \/ i \in DOMAIN s /\ (s \o SubSeq(t, 1, n))[i] = s[i]
<1> DEFINE a == SubSeq(t, 1, n)  b == SubSeq(t, n + 1, Len(t))
           u == s \o a
<1>1. /\ a \in Seq(S) /\ Len(a) = n
      /\ b \in Seq(S) /\ Len(b) = Len(t) - n
      /\ \A i \in 1..n : a[i] = t[i]
      /\ \A i \in 1..(Len(t) - n) : b[i] = t[n + i]
  BY Halves
<1>2. /\ DOMAIN t = 1..Len(t) /\ DOMAIN s = 1..Len(s)
      /\ Len(s) \in Nat /\ Len(t) \in Nat /\ n \in Nat /\ n <= Len(t)
  OBVIOUS
<1> HIDE DEF a, b
<1>a. a \in Seq(S)
  BY <1>1
<1>u. u = s \o a
  OBVIOUS
<1> HIDE DEF u
<1>3. DOMAIN a = 1..n /\ DOMAIN b = 1..(Len(t) - n)
  BY <1>1
<1>4. /\ u \in Seq(S) /\ Len(u) = Len(s) + Len(a)
      /\ \A i \in 1..Len(s) : u[i] = s[i]
      /\ \A i \in (Len(s) + 1)..(Len(s) + Len(a)) : u[i] = a[i - Len(s)]
  BY <1>a, <1>u
<1>5. DOMAIN u = 1..(Len(s) + n)
  BY <1>1, <1>4
<1>6. ASSUME NEW i \in DOMAIN a PROVE \E j \in DOMAIN t : a[i] = t[j]
  BY <1>1, <1>2, <1>3
<1>7. ASSUME NEW i \in DOMAIN b PROVE \E j \in DOMAIN t : b[i] = t[j]
  <2>1. n + i \in DOMAIN t
    BY <1>2, <1>3
  <2> QED BY <2>1, <1>1, <1>3
<1>8. ASSUME NEW i \in DOMAIN u
      PROVE  \/ \E j \in DOMAIN t : u[i] = t[j]
             \/ i \in DOMAIN s /\ u[i] = s[i]
  <2>1. CASE i \in 1..Len(s)
    BY <2>1, <1>2, <1>4
  <2>2. CASE i \in (Len(s) + 1)..(Len(s) + n)
    <3>1. u[i] = a[i - Len(s)]
      BY <2>2, <1>1, <1>4
    <3>2. i - Len(s) \in DOMAIN a
      BY <2>2, <1>2, <1>3
    <3>3. \E j \in DOMAIN t : a[i - Len(s)] = t[j]
      BY <3>2, <1>6
    <3>4. PICK j \in DOMAIN t : a[i - Len(s)] = t[j]
      BY <3>3
    <3>5. u[i] = t[j]
      BY <3>1, <3>4
    <3> QED BY <3>5
  <2>3. i \in 1..Len(s) \/ i \in (Len(s) + 1)..(Len(s) + n)
    BY <1>2, <1>5
  <2> QED BY <2>1, <2>2, <2>3, Zenon
<1> QED BY <1>6, <1>7, <1>8 DEF a, b, u

-----------------------------------------------------------------------------
(* Type correctness.                                                       *)

LEMMA CallLength == TypeOK => call.length \in Nat
<1> SUFFICES ASSUME TypeOK PROVE call.length \in Nat
  OBVIOUS
<1>1. CASE call = NoCall
  BY <1>1 DEF NoCall
<1>2. CASE call \in [op : {"read", "peek"}, length : Length]
  BY <1>2, ConstantsAssumption
<1> QED BY <1>1, <1>2 DEF TypeOK

LEMMA TypeNext == TypeOK /\ [Next]_vars => TypeOK'
<1> SUFFICES ASSUME TypeOK, [Next]_vars PROVE TypeOK'
  OBVIOUS
<1> USE DEF TypeOK, receiver, stream, port
<1>1. CASE Open
  BY <1>1, ConstantsAssumption DEF Open, Mode
<1>2. CASE WriteStop
  BY <1>2 DEF WriteStop
<1>3. CASE Flush
  <2>1. PICK n \in 0..Len(pending) :
          /\ uart' = uart \o SubSeq(pending, 1, n)
          /\ pending' = SubSeq(pending, n + 1, Len(pending))
    BY <1>3 DEF Flush
  <2>2. uart' \in Seq(Command \cup {Dm}) /\ pending' \in Seq(Command \cup {Dm})
    BY <2>1
  <2> QED BY <1>3, <2>2 DEF Flush
<1>4. CASE Clear
  <2>1. purge' \in {"first", "second", "third", "last"}
    BY <1>4 DEF Clear, AfterPurge
  <2>2. wire' \in Seq(Byte) /\ Len(wire') <= Capacity
    BY <1>4, ConstantsAssumption DEF Clear
  <2>3. purgedAt' \in 0..sent' /\ sent' \in 0..MaxBytes
    BY <1>4 DEF Clear
  <2> QED BY <1>4, <2>1, <2>2, <2>3 DEF Clear
<1>5. CASE Configure
  <2>1. pending' \in Seq(Command \cup {Dm})
    BY <1>5, ConstantsAssumption DEF Configure
  <2> QED BY <1>5, <2>1 DEF Configure
<1>6. ASSUME NEW op \in {"read", "peek"}, NEW length \in Length, Call(op, length)
      PROVE  TypeOK'
  BY <1>6 DEF Call
<1>7. CASE ReadyRead
  <2>1. PICK n \in 1..Len(wire) :
          /\ buffer' = buffer \o SubSeq(wire, 1, n)
          /\ wire' = SubSeq(wire, n + 1, Len(wire))
    BY <1>7 DEF ReadyRead
  <2>0. n \in 0..Len(wire) /\ buffer \in Seq(Byte) /\ wire \in Seq(Byte)
    OBVIOUS
  <2>a. /\ SubSeq(wire, 1, n) \in Seq(Byte)
        /\ SubSeq(wire, n + 1, Len(wire)) \in Seq(Byte)
        /\ Len(SubSeq(wire, n + 1, Len(wire))) = Len(wire) - n
    BY ONLY <2>0, Halves
  <2>b. buffer \o SubSeq(wire, 1, n) \in Seq(Byte)
    BY ONLY <2>0, <2>a, Joined
  <2>2. /\ buffer' \in Seq(Byte) /\ wire' \in Seq(Byte)
        /\ Len(wire') = Len(wire) - n
    BY ONLY <2>1, <2>a, <2>b
  <2>3. Len(wire') <= Capacity
    BY <2>0, <2>2, ConstantsAssumption
  <2> QED BY <1>7, <2>2, <2>3 DEF ReadyRead
<1>8. CASE WriteOut
  <2>1. PICK n \in 1..Len(pending) :
          /\ uart' = uart \o SubSeq(pending, 1, n)
          /\ pending' = SubSeq(pending, n + 1, Len(pending))
    BY <1>8 DEF WriteOut
  <2>2. uart' \in Seq(Command \cup {Dm}) /\ pending' \in Seq(Command \cup {Dm})
    BY <2>1
  <2> QED BY <1>8, <2>2 DEF WriteOut
<1>9. CASE Return
  <2>1. call.length \in 0..Len(buffer)
    BY <1>9, CallLength DEF Return
  <2>2. /\ SubSeq(buffer, 1, call.length) \in Seq(Byte)
        /\ SubSeq(buffer, call.length + 1, Len(buffer)) \in Seq(Byte)
    BY <2>1, Halves
  <2> DEFINE front == SubSeq(buffer, 1, call.length)
             rest == SubSeq(buffer, call.length + 1, Len(buffer))
  <2>4. /\ result' = front
        /\ buffer' \in {buffer, rest}
        /\ taken' \in {taken, taken \o front}
    BY <1>9 DEF Return
  <2> HIDE DEF front, rest
  <2>5. front \in Seq(Byte) /\ rest \in Seq(Byte)
    BY <2>2 DEF front, rest
  <2>6. taken \o front \in Seq(Byte)
    BY <2>5, Joined
  <2>3. /\ result' \in Seq(Byte) /\ buffer' \in Seq(Byte) /\ taken' \in Seq(Byte)
    BY <2>4, <2>5, <2>6
  <2> QED BY <1>9, <2>3 DEF Return
<1>10. CASE GiveUp
  BY <1>10 DEF GiveUp
<1>11. CASE ClearAndThrow
  BY <1>11, ConstantsAssumption DEF ClearAndThrow, Gone
<1>12. CASE Stop
  BY <1>12, ConstantsAssumption DEF Stop, Gone
<1>13. CASE Transmit
  <2>1. Head(uart) \in Command \cup {Dm} /\ uart' \in Seq(Command \cup {Dm})
    BY <1>13 DEF Transmit
  <2>2. heard' \in Seq(Command) /\ mode' \in Mode
    BY <1>13, <2>1 DEF Transmit, Mode
  <2> QED BY <1>13, <2>1, <2>2 DEF Transmit
<1>14. CASE Send
  <2>1. sent' \in 0..MaxBytes /\ purgedAt' \in 0..sent'
    BY <1>14, ConstantsAssumption DEF Send
  <2>2. [n |-> sent + 1, mode |-> mode] \in Byte
    BY <1>14, ConstantsAssumption DEF Send, Byte
  <2>3. wire' \in Seq(Byte) /\ Len(wire') <= Capacity
    BY <1>14, <2>2, ConstantsAssumption DEF Send
  <2> QED BY <1>14, <2>1, <2>3 DEF Send
<1>15. CASE Unplug \/ Plug
  BY <1>15 DEF Unplug, Plug
<1>16. CASE UNCHANGED vars
  BY <1>16 DEF vars
<1> QED
  BY <1>1, <1>2, <1>3, <1>4, <1>5, <1>6, <1>7, <1>8, <1>9, <1>10, <1>11,
     <1>12, <1>13, <1>14, <1>15, <1>16 DEF Next

LEMMA TypeInit == Init => TypeOK
  BY ConstantsAssumption DEF Init, TypeOK, Mode, NoCall

\* What mainLoop, the stream, the port and the receiver hold has its type, and
\* the driver's queue does not outgrow its size.
THEOREM Typing == Spec => []TypeOK
  BY TypeInit, TypeNext, PTL DEF Spec

-----------------------------------------------------------------------------
(* One queue.                                                              *)

\* Every byte that is somewhere was sent.
Numbered ==
  /\ \A i \in DOMAIN taken : taken[i].n <= sent
  /\ \A i \in DOMAIN buffer : buffer[i].n <= sent
  /\ \A i \in DOMAIN wire : wire[i].n <= sent

\* Where _buffer is still empty.
SettingUp ==
  \/ pc \in {"closed", "stop", "configure"}
  \/ pc \in {"flush", "clear"} /\ purge # "last"

EmptyDuringSetUp == SettingUp => buffer = << >> /\ result = << >>

\* Nothing from before the last purge is left.
Recent ==
  /\ \A i \in DOMAIN wire : wire[i].n > purgedAt
  /\ \A i \in DOMAIN buffer : buffer[i].n > purgedAt
  /\ \A i \in DOMAIN result : result[i].n > purgedAt

QueueInv == TypeOK /\ Numbered /\ EmptyDuringSetUp /\ Recent

LEMMA QueueInit == Init => QueueInv
  BY TypeInit DEF Init, QueueInv, Numbered, EmptyDuringSetUp, Recent

LEMMA QueueNext == QueueInv /\ [Next]_vars => QueueInv'
<1> SUFFICES ASSUME QueueInv, [Next]_vars PROVE QueueInv'
  OBVIOUS
<1>1. TypeOK /\ TypeOK'
  BY TypeNext DEF QueueInv
<1>2. /\ taken \in Seq(Byte) /\ buffer \in Seq(Byte) /\ wire \in Seq(Byte)
      /\ result \in Seq(Byte) /\ sent \in Nat /\ purgedAt \in Nat
      /\ \A b \in Byte : b.n \in Nat
  BY <1>1 DEF TypeOK, Byte
<1>3. Numbered /\ EmptyDuringSetUp /\ Recent
  BY DEF QueueInv
<1> SUFFICES Numbered' /\ EmptyDuringSetUp' /\ Recent'
  BY <1>1 DEF QueueInv
<1> USE DEF receiver, stream, port
<1>4. CASE Open
  BY <1>4, <1>2, <1>3 DEF Open, Numbered, EmptyDuringSetUp, SettingUp, Recent
<1>5. CASE WriteStop \/ Flush \/ Configure
  BY <1>5, <1>3
     DEF WriteStop, Flush, Configure, Numbered, EmptyDuringSetUp, SettingUp, Recent
<1>6. CASE Clear
  <2>1. buffer = << >> /\ result = << >>
    BY <1>6, <1>3 DEF Clear, EmptyDuringSetUp, SettingUp
  <2> QED BY <1>6, <2>1, <1>3 DEF Clear, Numbered, EmptyDuringSetUp, Recent
<1>7. ASSUME NEW op \in {"read", "peek"}, NEW length \in Length, Call(op, length)
      PROVE  Numbered' /\ EmptyDuringSetUp' /\ Recent'
  BY <1>7, <1>3 DEF Call, Numbered, EmptyDuringSetUp, SettingUp, Recent
<1>8. CASE ReadyRead
  <2>1. PICK n \in 1..Len(wire) :
          /\ buffer' = buffer \o SubSeq(wire, 1, n)
          /\ wire' = SubSeq(wire, n + 1, Len(wire))
    BY <1>8 DEF ReadyRead
  <2>0. n \in 0..Len(wire)
    BY <1>2
  <2>2. /\ \A i \in DOMAIN wire' : \E j \in DOMAIN wire : wire'[i] = wire[j]
        /\ \A i \in DOMAIN buffer' : \/ \E j \in DOMAIN wire : buffer'[i] = wire[j]
                                     \/ i \in DOMAIN buffer /\ buffer'[i] = buffer[i]
    BY <2>0, <2>1, <1>2, FromParts
  <2>3. Numbered' /\ Recent'
    BY <1>8, <2>2, <1>3 DEF ReadyRead, Numbered, Recent
  <2> QED BY <1>8, <2>3 DEF ReadyRead, Short, EmptyDuringSetUp, SettingUp
<1>9. CASE WriteOut
  BY <1>9, <1>3 DEF WriteOut, Numbered, EmptyDuringSetUp, SettingUp, Recent
<1>10. CASE Return
  <2>1. call.length \in 0..Len(buffer)
    BY <1>10, <1>1, <1>2, CallLength DEF Return
  <2> DEFINE front == SubSeq(buffer, 1, call.length)
             rest == SubSeq(buffer, call.length + 1, Len(buffer))
  <2>a. /\ result' = front
        /\ buffer' \in {buffer, rest}
        /\ taken' \in {taken, taken \o front}
    BY <1>10 DEF Return
  <2>b. /\ \A i \in DOMAIN front : \E j \in DOMAIN buffer : front[i] = buffer[j]
        /\ \A i \in DOMAIN rest : \E j \in DOMAIN buffer : rest[i] = buffer[j]
        /\ \A i \in DOMAIN (taken \o front) :
              \/ \E j \in DOMAIN buffer : (taken \o front)[i] = buffer[j]
              \/ i \in DOMAIN taken /\ (taken \o front)[i] = taken[i]
    <3>1. /\ buffer \in Seq(Byte) /\ taken \in Seq(Byte)
          /\ call.length \in 0..Len(buffer)
      BY <1>2, <2>1
    <3>2. \A i \in DOMAIN front : \E j \in DOMAIN buffer : front[i] = buffer[j]
      BY <3>1, FromParts
    <3> DEFINE n == call.length
    <3>n. n \in 0..Len(buffer)
      BY <3>1
    <3> HIDE DEF n
    <3>r. \A i \in DOMAIN SubSeq(buffer, n + 1, Len(buffer)) :
            \E j \in DOMAIN buffer : SubSeq(buffer, n + 1, Len(buffer))[i] = buffer[j]
      BY <3>1, <3>n, FromParts
    <3>3. \A i \in DOMAIN rest : \E j \in DOMAIN buffer : rest[i] = buffer[j]
      BY <3>r, Zenon DEF n
    <3>4. \A i \in DOMAIN (taken \o front) :
            \/ \E j \in DOMAIN buffer : (taken \o front)[i] = buffer[j]
            \/ i \in DOMAIN taken /\ (taken \o front)[i] = taken[i]
      BY <3>1, FromParts
    <3> QED BY <3>2, <3>3, <3>4
  <2> HIDE DEF front, rest
  <2>2. \A i \in DOMAIN result' : \E j \in DOMAIN buffer : result'[i] = buffer[j]
    BY <2>a, <2>b
  <2>3. \A i \in DOMAIN buffer' : \E j \in DOMAIN buffer : buffer'[i] = buffer[j]
    BY <2>a, <2>b
  <2>4. \A i \in DOMAIN taken' : \/ \E j \in DOMAIN buffer : taken'[i] = buffer[j]
                                 \/ i \in DOMAIN taken /\ taken'[i] = taken[i]
    BY <2>a, <2>b
  <2>5. Numbered' /\ Recent'
    BY <1>10, <2>2, <2>3, <2>4, <1>3 DEF Return, Numbered, Recent
  <2> QED BY <1>10, <2>5 DEF Return, EmptyDuringSetUp, SettingUp
<1>11. CASE GiveUp
  BY <1>11, <1>3 DEF GiveUp, Numbered, EmptyDuringSetUp, SettingUp, Recent
<1>12. CASE ClearAndThrow \/ Stop
  BY <1>12, <1>3
     DEF ClearAndThrow, Stop, Gone, Numbered, EmptyDuringSetUp, Recent
<1>13. CASE Transmit \/ Unplug \/ Plug
  BY <1>13, <1>3
     DEF Transmit, Unplug, Plug, Numbered, EmptyDuringSetUp, SettingUp, Recent
<1>14. CASE Send
  <2>1. sent' = sent + 1
    BY <1>14 DEF Send
  <2>2. \A i \in DOMAIN wire' : \/ i \in DOMAIN wire /\ wire'[i] = wire[i]
                                \/ wire'[i].n = sent + 1
    BY <1>14, <1>2 DEF Send
  <2>3. \A i \in DOMAIN wire : wire[i] \in Byte
    BY <1>2
  <2>4. purgedAt < sent + 1
    BY <1>1 DEF TypeOK
  <2>5. /\ \A i \in DOMAIN taken : taken[i].n <= sent + 1
        /\ \A i \in DOMAIN buffer : buffer[i].n <= sent + 1
        /\ \A i \in DOMAIN wire : wire[i].n <= sent + 1
    BY <1>2, <1>3 DEF Numbered
  <2>6. Numbered'
    BY <1>14, <2>1, <2>2, <2>5 DEF Send, Numbered
  <2>7. Recent'
    BY <1>14, <2>2, <2>4, <1>3 DEF Send, Recent
  <2> QED BY <1>14, <2>6, <2>7, <1>3 DEF Send, EmptyDuringSetUp, SettingUp
<1>15. CASE UNCHANGED vars
  BY <1>15, <1>3 DEF vars, Numbered, EmptyDuringSetUp, SettingUp, Recent
<1> QED
  BY <1>4, <1>5, <1>6, <1>7, <1>8, <1>9, <1>10, <1>11, <1>12, <1>13, <1>14,
     <1>15 DEF Next

LEMMA QueueInvariant == Spec => []QueueInv
  BY QueueInit, QueueNext, PTL DEF Spec

\* No byte the receiver sent before the last purge of the set-up gets to the
\* message stream, although purgeBuffers() leaves _buffer alone.
THEOREM NoStaleByte == Spec => []NothingStale
<1>1. QueueInv => NothingStale
  BY DEF QueueInv, Recent, NothingStale
<1> QED BY <1>1, QueueInvariant, PTL

\* Every step of the stream is a step of the queue.
LEMMA QueueStep == QueueInv /\ [Next]_vars => [Queue!Next]_(Queue!vars)
<1> SUFFICES ASSUME QueueInv, [Next]_vars PROVE [Queue!Next]_(Queue!vars)
  OBVIOUS
<1>1. TypeOK
  BY DEF QueueInv
<1>2. /\ taken \in Seq(Byte) /\ buffer \in Seq(Byte) /\ wire \in Seq(Byte)
      /\ sent \in Nat
  BY <1>1 DEF TypeOK
<1> USE DEF receiver, stream, port
<1>3. ASSUME UNCHANGED <<stream, wire>> PROVE UNCHANGED Queue!vars
  BY <1>3 DEF Queue!vars
<1>4. CASE Open
  <2>1. buffer = << >> /\ UNCHANGED stream
    BY <1>4 DEF Open, QueueInv, EmptyDuringSetUp, SettingUp
  <2>2. wire' = << >>
    BY <1>4 DEF Open
  <2>3. Queue!Purge
    BY <2>1, <2>2 DEF Queue!Purge
  <2> QED BY <2>3 DEF Queue!Next
<1>5. CASE WriteStop \/ Flush \/ Configure \/ WriteOut \/ GiveUp
  BY <1>5, <1>3 DEF WriteStop, Flush, Configure, WriteOut, GiveUp
<1>6. CASE Clear
  <2>1. buffer = << >> /\ UNCHANGED stream
    BY <1>6 DEF Clear, QueueInv, EmptyDuringSetUp, SettingUp
  <2>2. wire' = << >>
    BY <1>6 DEF Clear
  <2>3. Queue!Purge
    BY <2>1, <2>2 DEF Queue!Purge
  <2> QED BY <2>3 DEF Queue!Next
<1>7. ASSUME NEW op \in {"read", "peek"}, NEW length \in Length, Call(op, length)
      PROVE  [Queue!Next]_(Queue!vars)
  BY <1>7, <1>3 DEF Call
<1>8. CASE ReadyRead
  <2>1. PICK n \in 1..Len(wire) :
          /\ buffer' = buffer \o SubSeq(wire, 1, n)
          /\ wire' = SubSeq(wire, n + 1, Len(wire))
    BY <1>8 DEF ReadyRead
  <2>2. n \in 0..Len(wire)
    BY <1>2
  <2>3. buffer' \o wire' = buffer \o wire
    BY <1>2, <2>1, <2>2, MoveOver
  <2> QED BY <1>8, <2>3 DEF ReadyRead, Queue!vars
<1>9. CASE Return
  <2> DEFINE n == call.length
  <2>0. n \in 0..Len(buffer)
    BY <1>9, <1>1, <1>2, CallLength DEF Return
  <2>1. n \in 0..Len(buffer) /\ n \in 0..Len(buffer \o wire)
    BY <2>0, <1>2, Joined
  <2>2. /\ SubSeq(buffer \o wire, 1, n) = SubSeq(buffer, 1, n)
        /\ SubSeq(buffer \o wire, n + 1, Len(buffer \o wire))
             = SubSeq(buffer, n + 1, Len(buffer)) \o wire
    BY <1>2, <2>1, TakeFront
  <2>3. /\ result' = SubSeq(buffer, 1, n) /\ wire' = wire
    BY <1>9 DEF Return
  <2>4. CASE call.op = "read"
    <3>1. /\ buffer' = SubSeq(buffer, n + 1, Len(buffer))
          /\ taken' = taken \o SubSeq(buffer, 1, n)
      BY <1>9, <2>4 DEF Return
    <3> HIDE DEF n
    <3>2. buffer' \o wire' = SubSeq(buffer \o wire, n + 1, Len(buffer \o wire))
      BY <2>2, <2>3, <3>1
    <3>3. /\ result' = SubSeq(buffer \o wire, 1, n)
          /\ taken' = taken \o SubSeq(buffer \o wire, 1, n)
      BY <2>2, <2>3, <3>1
    <3>4. n <= Len(buffer \o wire)
      BY <2>1
    <3>5. Queue!Read(n)
      BY <3>2, <3>3, <3>4 DEF Queue!Read, Queue!First
    <3> QED BY <3>5, <2>1 DEF Queue!Next
  <2>5. CASE call.op # "read"
    <3>1. UNCHANGED <<buffer, taken>>
      BY <1>9, <2>5 DEF Return
    <3> HIDE DEF n
    <3>2. Queue!Peek(n)
      BY <2>1, <2>2, <2>3, <3>1 DEF Queue!Peek, Queue!First
    <3> QED BY <3>2, <2>1 DEF Queue!Next
  <2> QED BY <2>4, <2>5
<1>10. CASE ClearAndThrow \/ Stop
  <2>1. buffer' = << >> /\ wire' = << >> /\ result' = << >> /\ taken' = taken
    BY <1>10 DEF ClearAndThrow, Stop, Gone
  <2>2. Queue!Purge
    BY <2>1 DEF Queue!Purge
  <2> QED BY <2>2 DEF Queue!Next
<1>11. CASE Transmit \/ Unplug \/ Plug
  BY <1>11, <1>3 DEF Transmit, Unplug, Plug
<1>12. CASE Send
  <2> DEFINE b == [n |-> sent + 1, mode |-> mode]
  <2>1. CASE wire' = wire
    BY <1>12, <2>1, <1>3 DEF Send
  <2>2. CASE wire' = Append(wire, b)
    <3>1. b \in Byte /\ b.n = sent + 1
      BY <1>12, <1>1, ConstantsAssumption DEF Send, Byte, TypeOK
    <3>2. /\ \A i \in DOMAIN taken : taken[i].n <= sent
          /\ \A i \in DOMAIN buffer : buffer[i].n <= sent
          /\ \A i \in DOMAIN wire : wire[i].n <= sent
      BY DEF QueueInv, Numbered
    <3>3. /\ \A i \in DOMAIN taken : taken[i] \in Byte
          /\ \A i \in DOMAIN (buffer \o wire) :
               (buffer \o wire)[i] \in Byte /\ (buffer \o wire)[i].n <= sent
      BY <1>2, <3>2
    <3>4. \A c \in Byte : c.n \in Nat
      BY DEF Byte
    <3>5. /\ \A i \in DOMAIN taken : taken[i].n < b.n
          /\ \A i \in DOMAIN (buffer \o wire) : (buffer \o wire)[i].n < b.n
      BY <1>2, <3>1, <3>2, <3>3, <3>4
    <3> HIDE DEF b
    <3>6. buffer \o Append(wire, b) = Append(buffer \o wire, b)
      BY <1>2, <3>1
    <3>7. UNCHANGED stream
      BY <1>12 DEF Send
    <3>8. Queue!Arrive(b)
      BY <2>2, <3>5, <3>6, <3>7 DEF Queue!Arrive
    <3> QED BY <3>1, <3>8 DEF Queue!Next
  <2> QED BY <1>12, <2>1, <2>2 DEF Send
<1>13. CASE UNCHANGED vars
  BY <1>13, <1>3 DEF vars
<1> QED
  BY <1>4, <1>5, <1>6, <1>7, <1>8, <1>9, <1>10, <1>11, <1>12, <1>13 DEF Next

\* The bytes read are the bytes sent, in order and each at most once, whatever
\* the lengths of the reads, the peeks in between and the restarts.
THEOREM QueueImplemented == Spec => ImplementsQueue
<1>1. Init => Queue!Init
  BY DEF Init, Queue!Init
<1> QED BY <1>1, QueueStep, QueueInvariant, PTL DEF Spec, ImplementsQueue, Queue!Spec

-----------------------------------------------------------------------------
(* The commands.                                                           *)

LEMMA Associative ==
  ASSUME NEW S, NEW s \in Seq(S), NEW t \in Seq(S), NEW u \in Seq(S)
  PROVE  (s \o t) \o u = s \o (t \o u)
<1> DEFINE a == s \o t  b == t \o u  v == a \o u  w == s \o b
<1>1. /\ a \in Seq(S) /\ Len(a) = Len(s) + Len(t)
      /\ \A i \in 1..Len(s) : a[i] = s[i]
      /\ \A i \in (Len(s) + 1)..(Len(s) + Len(t)) : a[i] = t[i - Len(s)]
  BY Joined
<1>2. /\ b \in Seq(S) /\ Len(b) = Len(t) + Len(u)
      /\ \A i \in 1..Len(t) : b[i] = t[i]
      /\ \A i \in (Len(t) + 1)..(Len(t) + Len(u)) : b[i] = u[i - Len(t)]
  BY Joined
<1> HIDE DEF a, b
<1>a. a \in Seq(S) /\ b \in Seq(S)
  BY <1>1, <1>2
<1>3. /\ v \in Seq(S) /\ Len(v) = Len(a) + Len(u)
      /\ \A i \in 1..Len(a) : v[i] = a[i]
      /\ \A i \in (Len(a) + 1)..(Len(a) + Len(u)) : v[i] = u[i - Len(a)]
  BY <1>a, Joined
<1>4. /\ w \in Seq(S) /\ Len(w) = Len(s) + Len(b)
      /\ \A i \in 1..Len(s) : w[i] = s[i]
      /\ \A i \in (Len(s) + 1)..(Len(s) + Len(b)) : w[i] = b[i - Len(s)]
  BY <1>a, Joined
<1> HIDE DEF v, w
<1>5. Len(s) \in Nat /\ Len(t) \in Nat /\ Len(u) \in Nat
  OBVIOUS
<1>6. Len(v) = Len(w) /\ Len(v) = Len(s) + Len(t) + Len(u)
  BY <1>1, <1>2, <1>3, <1>4, <1>5
<1>7. ASSUME NEW i \in 1..Len(v) PROVE v[i] = w[i]
  <2>1. CASE i \in 1..Len(s)
    <3>1. i \in 1..Len(a)
      BY <2>1, <1>1, <1>5
    <3> QED BY <2>1, <3>1, <1>1, <1>3, <1>4
  <2>2. CASE i \in (Len(s) + 1)..(Len(s) + Len(t))
    <3>1. /\ i \in 1..Len(a) /\ i - Len(s) \in 1..Len(t)
          /\ i \in (Len(s) + 1)..(Len(s) + Len(b))
      BY <2>2, <1>1, <1>2, <1>5
    <3>2. v[i] = a[i] /\ a[i] = t[i - Len(s)]
      BY <2>2, <3>1, <1>1, <1>3
    <3>3. w[i] = b[i - Len(s)] /\ b[i - Len(s)] = t[i - Len(s)]
      BY <3>1, <1>2, <1>4
    <3> QED BY <3>2, <3>3
  <2>3. CASE i \in (Len(s) + Len(t) + 1)..(Len(s) + Len(t) + Len(u))
    <3>1. /\ i \in (Len(a) + 1)..(Len(a) + Len(u))
          /\ i \in (Len(s) + 1)..(Len(s) + Len(b))
          /\ i - Len(s) \in (Len(t) + 1)..(Len(t) + Len(u))
          /\ (i - Len(s)) - Len(t) = i - Len(a)
      BY <2>3, <1>1, <1>2, <1>5
    <3>2. v[i] = u[i - Len(a)]
      BY <3>1, <1>3
    <3>3. w[i] = b[i - Len(s)] /\ b[i - Len(s)] = u[(i - Len(s)) - Len(t)]
      BY <3>1, <1>2, <1>4
    <3> QED BY <3>1, <3>2, <3>3
  <2> QED BY <2>1, <2>2, <2>3, <1>5, <1>6
<1>8. v = w
  BY <1>3, <1>4, <1>6, <1>7, SameSequence
<1> QED BY <1>8 DEF v, w, a, b

\* Until the commands of line 127 are sent, all there is to be sent is the
\* command that stops the receiver, and what is sent has told it nothing else.
OnlyStops(s) == \A i \in DOMAIN s : s[i] = Dm

Unconfigured ==
  \/ pc \in {"stop", "configure"}
  \/ pc \in {"flush", "clear"} /\ purge # "last"

CommandInv ==
  /\ pc = "closed" => pending = << >>
  /\ Unconfigured => heard = << >> /\ OnlyStops(uart) /\ OnlyStops(pending)
  /\ pc = "configure" => uart = << >> /\ pending = << >>
  /\ NoCommandLost

LEMMA CommandInit == Init => CommandInv
  BY DEF Init, CommandInv, Unconfigured, NoCommandLost, Acquiring

LEMMA CommandNext == TypeOK /\ CommandInv /\ [Next]_vars => CommandInv'
<1> SUFFICES ASSUME TypeOK, CommandInv, [Next]_vars PROVE CommandInv'
  OBVIOUS
<1> DEFINE C == Command \cup {Dm}
<1>1. /\ heard \in Seq(C) /\ uart \in Seq(C) /\ pending \in Seq(C)
      /\ Commands \in Seq(C)
  BY ConstantsAssumption DEF TypeOK
<1> HIDE DEF C
<1>2. \A i \in DOMAIN Commands : Commands[i] # Dm
  BY ConstantsAssumption
<1> USE DEF receiver, stream, port
<1>3. CASE Open
  BY <1>3 DEF Open, CommandInv, Unconfigured, OnlyStops, NoCommandLost, Acquiring
<1>4. CASE WriteStop
  <2>1. heard = << >> /\ OnlyStops(uart) /\ OnlyStops(pending)
    BY <1>4 DEF WriteStop, CommandInv, Unconfigured
  <2>2. OnlyStops(Append(pending, Dm))
    BY <2>1, <1>1 DEF OnlyStops
  <2> QED
    BY <1>4, <2>1, <2>2
       DEF WriteStop, CommandInv, Unconfigured, OnlyStops, NoCommandLost, Acquiring
<1>5. CASE Flush
  <2>1. PICK n \in 0..Len(pending) :
          /\ uart' = uart \o SubSeq(pending, 1, n)
          /\ pending' = SubSeq(pending, n + 1, Len(pending))
    BY <1>5 DEF Flush
  <2>2. /\ pc = "flush" /\ pc' = "clear" /\ purge' = purge /\ heard' = heard
    BY <1>5 DEF Flush
  <2>3. ASSUME purge # "last"
        PROVE  heard = << >> /\ OnlyStops(uart') /\ OnlyStops(pending')
    <3>1. heard = << >> /\ OnlyStops(uart) /\ OnlyStops(pending)
      BY <2>2, <2>3 DEF CommandInv, Unconfigured
    <3>2. /\ \A i \in DOMAIN pending' : \E j \in DOMAIN pending : pending'[i] = pending[j]
          /\ \A i \in DOMAIN uart' : \/ \E j \in DOMAIN pending : uart'[i] = pending[j]
                                     \/ i \in DOMAIN uart /\ uart'[i] = uart[i]
      BY <2>1, <1>1, FromParts
    <3> QED BY <3>1, <3>2 DEF OnlyStops
  <2> QED
    BY <2>2, <2>3 DEF CommandInv, Unconfigured, OnlyStops, NoCommandLost, Acquiring
<1>6. CASE Clear
  BY <1>6 DEF Clear, CommandInv, Unconfigured, OnlyStops, NoCommandLost, Acquiring
<1>7. CASE Configure
  <2>1. heard = << >> /\ uart = << >> /\ pending = << >>
    BY <1>7 DEF Configure, CommandInv, Unconfigured
  <2>2. pending' = << >> \o Commands /\ uart' = << >> /\ heard' = << >> /\ pc' = "acquire"
    BY <1>7, <2>1 DEF Configure
  <2>3. heard' \o uart' \o pending' = Commands
    BY <2>2, <1>1
  <2> QED BY <2>2, <2>3 DEF CommandInv, Unconfigured, NoCommandLost
<1>8. ASSUME NEW op \in {"read", "peek"}, NEW length \in Length, Call(op, length)
      PROVE  CommandInv'
  BY <1>8 DEF Call, CommandInv, Unconfigured, NoCommandLost, Acquiring
<1>9. CASE ReadyRead
  BY <1>9
     DEF ReadyRead, Short, CommandInv, Unconfigured, NoCommandLost, Acquiring
<1>10. CASE WriteOut
  <2>1. PICK n \in 1..Len(pending) :
          /\ uart' = uart \o SubSeq(pending, 1, n)
          /\ pending' = SubSeq(pending, n + 1, Len(pending))
    BY <1>10 DEF WriteOut
  <2>2. /\ pc = "read" /\ pc' = "read" /\ heard' = heard
        /\ heard \o uart \o pending = Commands
    BY <1>10 DEF WriteOut, Short, CommandInv, NoCommandLost, Acquiring
  <2>3. n \in 0..Len(pending)
    BY <1>1
  <2>4. SubSeq(pending, 1, n) \in Seq(C)
    BY <1>1, <2>3, Halves
  <2>5. heard \o (uart \o SubSeq(pending, 1, n)) = (heard \o uart) \o SubSeq(pending, 1, n)
    <3> DEFINE front == SubSeq(pending, 1, n)
    <3>1. front \in Seq(C)
      BY <2>4
    <3> HIDE DEF front
    <3>a. heard \in Seq(C) /\ uart \in Seq(C)
      BY <1>1
    <3>2. (heard \o uart) \o front = heard \o (uart \o front)
      BY ONLY <3>a, <3>1, Associative
    <3> QED BY <3>2 DEF front
  <2>6. heard \o uart \in Seq(C)
    BY <1>1, Joined
  <2>7. ((heard \o uart) \o SubSeq(pending, 1, n)) \o SubSeq(pending, n + 1, Len(pending))
          = (heard \o uart) \o pending
    BY <1>1, <2>3, <2>6, MoveOver
  <2>8. heard' \o uart' \o pending' = Commands
    BY <2>1, <2>2, <2>5, <2>7
  <2> QED BY <2>2, <2>8 DEF CommandInv, Unconfigured, NoCommandLost
<1>11. CASE Return
  BY <1>11 DEF Return, CommandInv, Unconfigured, NoCommandLost, Acquiring
<1>12. CASE GiveUp
  BY <1>12 DEF GiveUp, CommandInv, Unconfigured, NoCommandLost, Acquiring
<1>13. CASE ClearAndThrow \/ Stop
  BY <1>13
     DEF ClearAndThrow, Stop, Gone, CommandInv, Unconfigured, NoCommandLost, Acquiring
<1>14. CASE Transmit
  <2>1. /\ uart # << >> /\ uart' = Tail(uart)
        /\ heard' = IF Head(uart) = Dm THEN heard ELSE Append(heard, Head(uart))
        /\ UNCHANGED <<pc, purge, pending>>
    BY <1>14 DEF Transmit
  <2>2. pc # "configure"
    BY <2>1 DEF CommandInv
  <2>3. ASSUME Unconfigured
        PROVE  heard' = << >> /\ OnlyStops(uart') /\ OnlyStops(pending')
    <3>1. heard = << >> /\ OnlyStops(uart) /\ OnlyStops(pending)
      BY <2>3 DEF CommandInv
    <3>2. 1 \in DOMAIN uart /\ Head(uart) = uart[1]
      BY <2>1, <1>1
    <3>3. \A i \in DOMAIN Tail(uart) : i + 1 \in DOMAIN uart /\ Tail(uart)[i] = uart[i + 1]
      BY <2>1, <1>1
    <3> QED BY <2>1, <3>1, <3>2, <3>3 DEF OnlyStops
  <2>4. ASSUME Acquiring PROVE heard' \o uart' \o pending' = Commands
    <3>1. (heard \o uart) \o pending = Commands
      BY <2>4 DEF CommandInv, NoCommandLost
    <3>2. Len(heard) + 1 \in 1..Len(heard \o uart) /\ (heard \o uart)[Len(heard) + 1] = Head(uart)
      <4>1. /\ Len(heard) \in Nat /\ Len(uart) \in Nat /\ Len(uart) > 0
            /\ Head(uart) = uart[1]
        BY <2>1, <1>1
      <4>2. /\ Len(heard \o uart) = Len(heard) + Len(uart)
            /\ \A i \in 1..Len(uart) : (heard \o uart)[Len(heard) + i] = uart[i]
        BY ONLY <1>1, Joined
      <4>3. 1 \in 1..Len(uart)
        BY <4>1
      <4>4. (heard \o uart)[Len(heard) + 1] = uart[1]
        BY ONLY <4>2, <4>3, Zenon
      <4> QED BY <4>1, <4>2, <4>4
    <3>3. /\ Len(heard) + 1 \in 1..Len((heard \o uart) \o pending)
          /\ ((heard \o uart) \o pending)[Len(heard) + 1] = (heard \o uart)[Len(heard) + 1]
      <4>1. heard \o uart \in Seq(C)
        BY <1>1, Joined
      <4>2. /\ Len((heard \o uart) \o pending) = Len(heard \o uart) + Len(pending)
            /\ \A i \in 1..Len(heard \o uart) : ((heard \o uart) \o pending)[i] = (heard \o uart)[i]
        BY <4>1, <1>1, Joined
      <4>3. Len(heard \o uart) \in Nat /\ Len(pending) \in Nat /\ Len(heard) \in Nat
        BY <4>1, <1>1
      <4> QED BY <4>2, <4>3, <3>2
    <3>4. Commands[Len(heard) + 1] = Head(uart) /\ Len(heard) + 1 \in DOMAIN Commands
      BY <3>1, <3>2, <3>3, <1>1
    <3>5. heard' = Append(heard, Head(uart))
      BY <2>1, <3>4, <1>2
    <3>6. 1 \in 0..Len(uart)
      BY <2>1, <1>1
    <3>7. /\ SubSeq(uart, 1, 1) = <<Head(uart)>>
          /\ SubSeq(uart, 1 + 1, Len(uart)) = Tail(uart)
          /\ heard \o <<Head(uart)>> = Append(heard, Head(uart))
      <4>1. uart \in Seq(C) /\ uart # << >> /\ heard \in Seq(C)
        BY <2>1, <1>1
      <4>2. Head(uart) \in C /\ Head(uart) = uart[1] /\ Len(uart) \in Nat /\ Len(uart) >= 1
        BY ONLY <4>1
      <4>3. SubSeq(uart, 1, 1) = <<Head(uart)>>
        <5>1. 1 \in 0..Len(uart)
          BY <4>2
        <5>2. /\ SubSeq(uart, 1, 1) \in Seq(C) /\ Len(SubSeq(uart, 1, 1)) = 1
              /\ SubSeq(uart, 1, 1)[1] = uart[1]
          BY ONLY <4>1, <5>1, Halves
        <5> DEFINE single == <<Head(uart)>>
        <5>3. single \in Seq(C) /\ Len(single) = 1 /\ single[1] = uart[1]
          BY ONLY <4>2
        <5> HIDE DEF single
        <5>4. \A i \in 1..Len(SubSeq(uart, 1, 1)) : SubSeq(uart, 1, 1)[i] = single[i]
          BY ONLY <5>2, <5>3
        <5>5. SubSeq(uart, 1, 1) = single
          BY ONLY <5>2, <5>3, <5>4, SameSequence
        <5> QED BY <5>5 DEF single
      <4>4. SubSeq(uart, 1 + 1, Len(uart)) = Tail(uart)
        BY ONLY <4>1, <4>2
      <4>5. heard \o <<Head(uart)>> = Append(heard, Head(uart))
        BY ONLY <4>1, <4>2
      <4> QED BY <4>3, <4>4, <4>5
    <3>8. (heard \o SubSeq(uart, 1, 1)) \o SubSeq(uart, 1 + 1, Len(uart)) = heard \o uart
      BY <3>6, <1>1, MoveOver
    <3>9. heard' \o uart' = heard \o uart
      BY <2>1, <3>5, <3>7, <3>8
    <3> QED BY <2>1, <3>1, <3>9
  <2> QED
    BY <2>1, <2>2, <2>3, <2>4
       DEF CommandInv, Unconfigured, OnlyStops, NoCommandLost, Acquiring
<1>15. CASE Send
  BY <1>15 DEF Send, CommandInv, Unconfigured, NoCommandLost, Acquiring
<1>16. CASE Unplug \/ Plug
  BY <1>16 DEF Unplug, Plug, CommandInv, Unconfigured, NoCommandLost, Acquiring
<1>17. CASE UNCHANGED vars
  BY <1>17 DEF vars, CommandInv, Unconfigured, NoCommandLost, Acquiring
<1> QED
  BY <1>3, <1>4, <1>5, <1>6, <1>7, <1>8, <1>9, <1>10, <1>11, <1>12, <1>13, <1>14,
     <1>15, <1>16, <1>17 DEF Next

\* While mainLoop reads, what the receiver got, what the driver has and what
\* QSerialPort has are the configuration: however the writes are cut, the last
\* purge of the set-up discards all of the stop commands and no other.
THEOREM CommandsKept == Spec => []NoCommandLost
<1>1. CommandInv => NoCommandLost
  BY DEF CommandInv
<1> QED BY <1>1, CommandInit, CommandNext, Typing, PTL DEF Spec
=============================================================================
