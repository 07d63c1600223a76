--------------------------- MODULE SkyPeekProofs ---------------------------
(***************************************************************************)
(* Proofs about SkyPeekShare, for every number of clients, of requests and *)
(* of messages, with or without a stream that ends.                        *)
(***************************************************************************)
EXTENDS SkyPeekShare, SequenceTheorems, TLAPS

-----------------------------------------------------------------------------
(* Types.                                                                  *)

\* The members every page reads are members of SkyPeek.
LEMMA ReadsTyped == \A uri \in Page : Reads(uri) \in Seq(Field)
<1> SUFFICES ASSUME NEW uri \in Page PROVE Reads(uri) \in Seq(Field)
  OBVIOUS
<1>1. /\ "DateTime" \in Field /\ "pSVs" \in Field /\ "SVs" \in Field /\ "pv" \in Field
  BY DEF Field
<1>2. /\ <<"DateTime", "pSVs", "pSVs">> \in Seq(Field)
      /\ <<"DateTime", "SVs", "SVs">> \in Seq(Field)
      /\ <<"DateTime", "pv">> \in Seq(Field)
  BY <1>1
<1>3. \/ uri = "/SkyPeek" /\ Reads(uri) = <<"DateTime", "pSVs", "pSVs">>
      \/ uri = "/TEC" /\ Reads(uri) = <<"DateTime", "SVs", "SVs">>
      \/ uri = "/NAV" /\ Reads(uri) = <<"DateTime", "pv">>
  BY DEF Page, Reads
<1> QED BY <1>2, <1>3

LEMMA NumberTyped ==
  ASSUME TypeOK
  PROVE  Number \in Version /\ taken \in Nat /\ 0 \in Version
                /\ (taken < Last => Number = taken + 1)
BY ConstantsAssumption DEF TypeOK, Version, Number

LEMMA TypeNext == TypeOK /\ [Next]_vars => TypeOK'
<1> SUFFICES ASSUME TypeOK, [Next]_vars PROVE TypeOK'
  OBVIOUS
<1> USE DEF TypeOK, MainLocation, WebLocation, object, handler, clients
<1>1. ASSUME NEW bound \in BOOLEAN, Boot(bound) PROVE TypeOK'
  BY <1>1 DEF Boot
<1>2. ASSUME Gone PROVE TypeOK'
  <2>1. /\ << >> \in Seq(Field) /\ << >> \in Seq(Version \cup {Garbage})
        /\ [f \in Field |-> 0] \in [Field -> Version]
        /\ [c \in Client |-> "none"] \in [Client -> Page \cup {"none", "other"}]
        /\ [c \in Client |-> 0] \in [Client -> Version]
    BY NumberTyped
  <2>2. [c \in Client |-> << >>] \in [Client -> Seq(Version \cup {Garbage})]
    BY <2>1
  <2> QED BY <1>2, <2>1, <2>2, NumberTyped DEF Gone
<1>3. CASE Publish
  BY <1>3 DEF Publish
<1>4. CASE Return
  BY <1>4 DEF Return
<1>5. CASE Receive
  BY <1>5 DEF Receive
<1>6. CASE LockForWrite
  BY <1>6 DEF LockForWrite
<1>7. ASSUME NEW f \in Field, AddMessage(f) PROVE TypeOK'
  BY <1>7, NumberTyped DEF AddMessage
<1>8. CASE Unlock
  BY <1>8, NumberTyped DEF Unlock
<1>9. CASE Throw
  BY <1>9 DEF Throw
<1>10. CASE FreeSkyPeek
  BY <1>10 DEF FreeSkyPeek
<1>11. CASE FreeLock
  BY <1>11 DEF FreeLock
<1>12. ASSUME NEW c \in Client, NEW uri \in Page \cup {"other"}, Ask(c, uri)
       PROVE  TypeOK'
  <2>1. << >> \in Seq(Version \cup {Garbage})
    OBVIOUS
  <2> QED BY <1>12, <2>1 DEF Ask
<1>13. ASSUME NEW c \in Client, Handle(c) PROVE TypeOK'
  <2>1. << >> \in Seq(Version \cup {Garbage}) /\ Reads(request[c]) \in Seq(Field)
    BY <1>13, ReadsTyped DEF Handle
  <2> QED BY <1>13, <2>1 DEF Handle
<1>14. ASSUME NEW c \in Client, HandleOther(c) PROVE TypeOK'
  BY <1>14 DEF HandleOther
<1>15. CASE LockForRead
  BY <1>15 DEF LockForRead
<1>16. CASE Read
  <2>1. Head(todo) \in Field /\ Tail(todo) \in Seq(Field)
    BY <1>16, HeadTailProperties DEF Read
  <2>2. \E v \in Version \cup {Garbage} : got' = Append(got, v)
    BY <1>16, <2>1 DEF Read
  <2>3. got' \in Seq(Version \cup {Garbage})
    BY <2>2, AppendProperties
  <2> QED BY <1>16, <2>1, <2>3 DEF Read
<1>17. CASE Answer
  <2>1. << >> \in Seq(Version \cup {Garbage})
    OBVIOUS
  <2> QED BY <1>17, <2>1 DEF Answer
<1>18. CASE UNCHANGED vars
  BY <1>18 DEF vars
<1> QED
  BY <1>1, <1>2, <1>3, <1>4, <1>5, <1>6, <1>7, <1>8, <1>9, <1>10, <1>11, <1>12,
     <1>13, <1>14, <1>15, <1>16, <1>17, <1>18
  DEF Next, Kill, Exit, CrashOnNull, CrashOnFreed

\* Type correctness: every variable of the two threads keeps its type.
THEOREM Typing == Spec => []TypeOK
<1>1. Init => TypeOK
  <2> SUFFICES ASSUME Init PROVE TypeOK
    OBVIOUS
  <2>1. 0 \in Version
    BY ConstantsAssumption DEF Version
  <2>2. /\ << >> \in Seq(Field) /\ << >> \in Seq(Version \cup {Garbage})
        /\ [f \in Field |-> 0] \in [Field -> Version]
        /\ [c \in Client |-> "none"] \in [Client -> Page \cup {"none", "other"}]
        /\ [c \in Client |-> 0] \in [Client -> Version]
    BY <2>1
  <2>3. [c \in Client |-> << >>] \in [Client -> Seq(Version \cup {Garbage})]
    BY <2>2
  <2> QED BY <2>1, <2>2, <2>3 DEF Init, TypeOK, MainLocation, WebLocation
<1> QED BY <1>1, TypeNext, PTL DEF Spec

-----------------------------------------------------------------------------
(* The lock and the pointer.                                               *)

\* The main thread holds the lock only while it parses, or after an exception
\* in AddMessage; until the lock is freed its holder is alone.
LockOwner ==
  /\ main = "parse" => "main" \in lock
  /\ "main" \in lock => main \in {"parse", "exit", "freed", "unlocked"}
  /\ "main" \in lock /\ main # "unlocked" => "web" \notin lock
  /\ web = "read" => "web" \in lock

PointerState ==
  /\ main \in {"down", "setup"} => pointer = "null"
  /\ main \in {"next", "lock", "parse"} => pointer = "live"
  /\ main \in {"freed", "unlocked"} => pointer # "live"

LockInv == LockOwner /\ PointerState

LEMMA LockNext == TypeOK /\ LockInv /\ [Next]_vars => LockInv'
<1> SUFFICES ASSUME TypeOK, LockInv, [Next]_vars PROVE LockInv'
  OBVIOUS
<1> USE DEF LockInv, LockOwner, PointerState, object, handler, clients
<1>1. ASSUME NEW bound \in BOOLEAN, Boot(bound) PROVE LockInv'
  BY <1>1 DEF Boot
<1>2. ASSUME Gone PROVE LockInv'
  BY <1>2 DEF Gone
<1>3. CASE Publish
  BY <1>3 DEF Publish
<1>4. CASE Return
  BY <1>4 DEF Return
<1>5. CASE Receive
  BY <1>5 DEF Receive
<1>6. CASE LockForWrite
  BY <1>6 DEF LockForWrite
<1>7. ASSUME NEW f \in Field, AddMessage(f) PROVE LockInv'
  BY <1>7 DEF AddMessage
<1>8. CASE Unlock
  BY <1>8 DEF Unlock
<1>9. CASE Throw
  BY <1>9 DEF Throw
<1>10. CASE FreeSkyPeek
  BY <1>10 DEF FreeSkyPeek
<1>11. CASE FreeLock
  BY <1>11 DEF FreeLock
<1>12. ASSUME NEW c \in Client, NEW uri \in Page \cup {"other"}, Ask(c, uri)
       PROVE  LockInv'
  BY <1>12 DEF Ask
<1>13. ASSUME NEW c \in Client, Handle(c) PROVE LockInv'
  BY <1>13 DEF Handle
<1>14. ASSUME NEW c \in Client, HandleOther(c) PROVE LockInv'
  BY <1>14 DEF HandleOther
<1>15. CASE LockForRead
  BY <1>15 DEF LockForRead
<1>16. CASE Read
  BY <1>16 DEF Read
<1>17. CASE Answer
  BY <1>17 DEF Answer
<1>18. CASE UNCHANGED vars
  BY <1>18 DEF vars
<1> QED
  BY <1>1, <1>2, <1>3, <1>4, <1>5, <1>6, <1>7, <1>8, <1>9, <1>10, <1>11, <1>12,
     <1>13, <1>14, <1>15, <1>16, <1>17, <1>18
  DEF Next, Kill, Exit, CrashOnNull, CrashOnFreed

\* The lock has one owner at a time, and the main loop runs with its pointer set.
THEOREM LockAlways == Spec => []LockInv
<1>1. Init => LockInv
  BY DEF Init, LockInv, LockOwner, PointerState
<1> QED BY <1>1, Typing, LockNext, PTL DEF Spec

-----------------------------------------------------------------------------
(* Answers.                                                                *)

\* While the main thread does not hold the lock the object is in the state
\* after the last message.
WholeObject == "main" \notin lock => \A f \in Field : skyPeek[f] = taken

\* What the handler has read, and each answer, shows one such state.
WholeReading ==
  /\ web = "read" /\ pointer # "freed" => \A i \in DOMAIN got : got[i] = taken
  /\ web = "lock" => got = << >>

\* The numbering does not start over, and no client asked in the future.
Numbered ==
  ~Wraps =>
    /\ main \in {"lock", "parse"} => taken < Last
    /\ \A c \in Client : asked[c] <= taken

AnswerInv ==
  WholeObject /\ WholeReading /\ Numbered /\ ConsistentReply /\ FreshReply

\* Every step keeps the answers whole: the fields change only while the main
\* thread holds the lock, and then no handler reads.
LEMMA AnswerNext == TypeOK /\ LockInv /\ AnswerInv /\ [Next]_vars => AnswerInv'
<1> SUFFICES ASSUME TypeOK, LockInv, AnswerInv, [Next]_vars PROVE AnswerInv'
  OBVIOUS
<1> USE DEF AnswerInv, WholeObject, WholeReading, Numbered, ConsistentReply,
            FreshReply, object, handler, clients
<1>0. taken \in Nat /\ \A c \in Client : asked[c] \in Nat
  BY NumberTyped DEF TypeOK, Version
<1>1. ASSUME NEW bound \in BOOLEAN, Boot(bound) PROVE AnswerInv'
  BY <1>1 DEF Boot
<1>2. ASSUME Gone PROVE AnswerInv'
  BY <1>2, <1>0 DEF Gone
<1>3. CASE Publish
  BY <1>3 DEF Publish, LockInv, PointerState
<1>4. CASE Return
  BY <1>4 DEF Return
<1>5. CASE Receive
  BY <1>5 DEF Receive
<1>6. CASE LockForWrite
  BY <1>6 DEF LockForWrite
<1>7. ASSUME NEW f \in Field, AddMessage(f) PROVE AnswerInv'
  BY <1>7 DEF AddMessage, LockInv, LockOwner
<1>8. CASE Unlock
  <2>1. web # "read"
    BY <1>8 DEF Unlock, LockInv, LockOwner
  <2>2. ~Wraps => taken' = taken + 1
    BY <1>8, NumberTyped DEF Unlock
  <2>3. /\ UNCHANGED <<web, pointer, skyPeek, got, reply, asked>>
        /\ main' = "next" /\ \A f \in Field : skyPeek[f] = taken'
    BY <1>8 DEF Unlock
  <2>4. ~Wraps => \A c \in Client : asked[c] <= taken'
    BY <2>2, <1>0
  <2> QED BY <2>1, <2>3, <2>4
<1>9. CASE Throw
  BY <1>9 DEF Throw, LockInv, LockOwner
<1>10. CASE FreeSkyPeek
  BY <1>10 DEF FreeSkyPeek
<1>11. CASE FreeLock
  BY <1>11 DEF FreeLock
<1>12. ASSUME NEW c \in Client, NEW uri \in Page \cup {"other"}, Ask(c, uri)
       PROVE  AnswerInv'
  BY <1>12, <1>0 DEF Ask, TypeOK
<1>13. ASSUME NEW c \in Client, Handle(c) PROVE AnswerInv'
  BY <1>13 DEF Handle
<1>14. ASSUME NEW c \in Client, HandleOther(c) PROVE AnswerInv'
  BY <1>14 DEF HandleOther
<1>15. CASE LockForRead
  <2>1. \A i \in DOMAIN got : got[i] = taken
    BY <1>15 DEF LockForRead
  <2> QED BY <1>15, <2>1 DEF LockForRead
<1>16. CASE Read
  <2>1. CASE pointer # "freed"
    <3>1. "main" \notin lock
      BY <1>16, <2>1 DEF Read, LockInv, LockOwner, PointerState, TypeOK
    <3>2. Head(todo) \in Field
      BY <1>16, HeadTailProperties DEF Read, TypeOK
    <3>3. got' = Append(got, taken)
      BY <1>16, <2>1, <3>1, <3>2 DEF Read
    <3>4. \A i \in DOMAIN got' : got'[i] = taken
      <4>1. got \in Seq(Version \cup {Garbage}) /\ taken \in Version \cup {Garbage}
        BY DEF TypeOK
      <4>2. \A i \in DOMAIN got' :
              got'[i] = taken \/ (i \in DOMAIN got /\ got'[i] = got[i])
        BY <3>3, <4>1, AppendProperties, LenProperties
      <4> QED BY <1>16, <2>1, <4>2 DEF Read
    <3> QED BY <1>16, <3>4 DEF Read
  <2>2. CASE pointer = "freed"
    BY <1>16, <2>2 DEF Read
  <2> QED BY <2>1, <2>2
<1>17. CASE Answer
  <2>1. CASE pointer # "freed"
    <3>1. \A i \in DOMAIN got : got[i] = taken
      BY <1>17, <2>1 DEF Answer
    <3>2. \A c \in Client : reply'[c] = reply[c] \/ reply'[c] = got
      BY <1>17 DEF Answer, TypeOK
    <3>3. ConsistentReply'
      BY <1>17, <2>1, <3>1, <3>2 DEF Answer
    <3>4. FreshReply'
      BY <1>17, <1>0, <2>1, <3>1, <3>2 DEF Answer
    <3> QED BY <1>17, <2>1, <3>3, <3>4 DEF Answer
  <2>2. CASE pointer = "freed"
    BY <1>17, <2>2 DEF Answer
  <2> QED BY <2>1, <2>2
<1>18. CASE UNCHANGED vars
  BY <1>18 DEF vars
<1> QED
  BY <1>1, <1>2, <1>3, <1>4, <1>5, <1>6, <1>7, <1>8, <1>9, <1>10, <1>11, <1>12,
     <1>13, <1>14, <1>15, <1>16, <1>17, <1>18
  DEF Next, Kill, Exit, CrashOnNull, CrashOnFreed

THEOREM AnswersAlways == Spec => []AnswerInv
<1>1. Init => AnswerInv
  BY ConstantsAssumption DEF Init, AnswerInv, WholeObject, WholeReading, Numbered,
     ConsistentReply, FreshReply
<1> QED BY <1>1, Typing, LockAlways, AnswerNext, PTL DEF Spec

\* No answer mixes two states of the object, whatever the threads' order.
THEOREM AnswersAreWhole == Spec => []ConsistentReply
<1>1. AnswerInv => ConsistentReply
  BY DEF AnswerInv
<1> QED BY <1>1, AnswersAlways, PTL

\* No answer is older than its request.
THEOREM AnswersAreFresh == Spec => []FreshReply
<1>1. AnswerInv => FreshReply
  BY DEF AnswerInv
<1> QED BY <1>1, AnswersAlways, PTL
=============================================================================
