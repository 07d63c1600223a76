---------------------------- MODULE CastFeedProofs ----------------------------
(***************************************************************************)
(* Proofs about CastFeed, for every number of clients and of files: the    *)
(* three lists behind the lock implement the feed.                         *)
(***************************************************************************)
EXTENDS CastFeed, SequenceTheorems, TLAPS

-----------------------------------------------------------------------------
(* The lists and the lock.                                                 *)

ListTypes ==
  /\ main \in {"hash", "lock", "name", "description", "uri", "unlock"}
  /\ item \in Item \cup {Nothing} /\ (main = "hash" <=> item = Nothing)
  /\ name_list \in Seq(Item) /\ description_list \in Seq(Item)
  /\ hash_list \in Seq(Item)
  /\ lock \subseteq {"main", "web"}
  /\ web \in {"poll", "lock", "size", "title", "url", "description", "answer"}

\* The lists grow in turn: the last one by one entry behind the others.
Lengths ==
  /\ Len(name_list) = IF main \in {"description", "uri"}
                      THEN Len(hash_list) + 1 ELSE Len(hash_list)
  /\ Len(description_list) = IF main = "uri"
                             THEN Len(hash_list) + 1 ELSE Len(hash_list)

SameItems ==
  /\ \A i \in 1..Len(hash_list) : name_list[i] = hash_list[i]
  /\ \A i \in 1..Len(hash_list) : description_list[i] = hash_list[i]
  /\ main \in {"description", "uri"} => name_list[Len(hash_list) + 1] = item
  /\ main = "uri" => description_list[Len(hash_list) + 1] = item

Locking ==
  /\ "main" \in lock <=> main \in {"name", "description", "uri", "unlock"}
  /\ "web" \in lock <=> web \in {"size", "title", "url", "description", "answer"}
  /\ "main" \in lock => "web" \notin lock

ListInv == ListTypes /\ Lengths /\ SameItems /\ Locking

LEMMA ListNext == ListInv /\ [Next]_vars => ListInv'
<1> SUFFICES ASSUME ListInv, [Next]_vars PROVE ListInv'
  OBVIOUS
<1> USE DEF ListInv, ListTypes, Locking, publisher, reader, clients
<1>1. /\ Len(hash_list) \in Nat /\ Len(name_list) \in Nat
      /\ Len(description_list) \in Nat
  BY LenProperties
\* What leaves the lists and the publisher alone.
<1>2. ASSUME UNCHANGED publisher PROVE Lengths' /\ SameItems'
  BY <1>2 DEF Lengths, SameItems
<1>3. ASSUME NEW e \in Item, Hashed(e) PROVE ListInv'
  BY <1>3, ConstantsAssumption DEF Hashed, Lengths, SameItems
<1>4. CASE LockForWrite
  BY <1>4 DEF LockForWrite, Lengths, SameItems
<1>5. CASE AppendName
  <2>1. item \in Item
    BY <1>5 DEF AppendName
  <2>2. /\ name_list' \in Seq(Item) /\ Len(name_list') = Len(name_list) + 1
        /\ \A i \in 1..Len(name_list) : name_list'[i] = name_list[i]
        /\ name_list'[Len(name_list) + 1] = item
    BY <1>5, <2>1, AppendProperties DEF AppendName
  <2>3. Len(name_list) = Len(hash_list)
    BY <1>5 DEF AppendName, Lengths
  <2>4. ListTypes' /\ Locking'
    BY <1>5, <2>2 DEF AppendName
  <2>5. Lengths'
    BY <1>5, <2>2, <2>3 DEF AppendName, Lengths
  <2>6. SameItems'
    BY <1>5, <2>2, <2>3 DEF AppendName, SameItems
  <2> QED BY <2>4, <2>5, <2>6
<1>6. CASE AppendDescription
  <2>1. item \in Item
    BY <1>6 DEF AppendDescription
  <2>2. /\ description_list' \in Seq(Item)
        /\ Len(description_list') = Len(description_list) + 1
        /\ \A i \in 1..Len(description_list) :
             description_list'[i] = description_list[i]
        /\ description_list'[Len(description_list) + 1] = item
    BY <1>6, <2>1, AppendProperties DEF AppendDescription
  <2>3. Len(description_list) = Len(hash_list)
    BY <1>6 DEF AppendDescription, Lengths
  <2>4. ListTypes' /\ Locking'
    BY <1>6, <2>2 DEF AppendDescription
  <2>5. Lengths'
    BY <1>6, <2>2, <2>3 DEF AppendDescription, Lengths
  <2>6. SameItems'
    BY <1>6, <2>2, <2>3 DEF AppendDescription, SameItems
  <2> QED BY <2>4, <2>5, <2>6
<1>7. CASE AppendUri
  <2>1. item \in Item
    BY <1>7 DEF AppendUri
  <2>2. /\ hash_list' \in Seq(Item) /\ Len(hash_list') = Len(hash_list) + 1
        /\ \A i \in 1..Len(hash_list) : hash_list'[i] = hash_list[i]
        /\ hash_list'[Len(hash_list) + 1] = item
    BY <1>7, <2>1, AppendProperties DEF AppendUri
  <2>3. ListTypes' /\ Locking'
    BY <1>7, <2>2 DEF AppendUri
  <2>4. Lengths'
    BY <1>7, <2>2 DEF AppendUri, Lengths
  <2>5. ASSUME NEW i \in 1..Len(hash_list')
        PROVE  name_list'[i] = hash_list'[i] /\ description_list'[i] = hash_list'[i]
    <3>1. i \in 1..Len(hash_list) \/ i = Len(hash_list) + 1
      BY <2>2, <1>1
    <3> QED BY <1>7, <2>2, <3>1 DEF AppendUri, SameItems
  <2>6. SameItems'
    BY <1>7, <2>5 DEF AppendUri, SameItems
  <2> QED BY <2>3, <2>4, <2>6
<1>8. CASE Unlock
  BY <1>8, ConstantsAssumption DEF Unlock, Lengths, SameItems
<1>9. ASSUME NEW c \in Client, Ask(c) \/ Handle(c) PROVE ListInv'
  BY <1>9, <1>2 DEF Ask, Handle
<1>10. CASE LockForRead
  BY <1>10, <1>2 DEF LockForRead
<1>11. CASE AnotherEntry \/ NoOtherEntry
  BY <1>11, <1>2 DEF AnotherEntry, NoOtherEntry
<1>12. CASE ReadTitle \/ ReadUrl \/ ReadDescription
  BY <1>12, <1>2 DEF ReadTitle, ReadUrl, ReadDescription
<1>13. CASE Answer
  BY <1>13, <1>2 DEF Answer
<1>14. CASE UNCHANGED vars
  BY <1>14, <1>2 DEF vars
<1> QED
  BY <1>3, <1>4, <1>5, <1>6, <1>7, <1>8, <1>9, <1>10, <1>11, <1>12, <1>13, <1>14
  DEF Next

LEMMA ListsHold == Spec => []ListInv
<1>1. Init => ListInv
  BY EmptySeq DEF Init, ListInv, ListTypes, Lengths, SameItems, Locking
<1> QED BY <1>1, ListNext, PTL DEF Spec

\* While the web thread reads, no list is being appended to and all three are
\* of the same length (lines 71-75 of webapi.cpp).
THEOREM ReadsAgree == Spec => []ListsAgree
<1>1. ListInv => ListsAgree
  BY DEF ListInv, ListTypes, Lengths, Locking, ListsAgree, Reading, Appending
<1> QED BY <1>1, ListsHold, PTL

-----------------------------------------------------------------------------
(* The answers.                                                            *)

Serving == web \in {"size", "title", "url", "description", "answer"}

\* The entry begun last, as far as it goes.
Begun(e) ==
  CASE web = "url" -> [title |-> e, url |-> Nothing, description |-> Nothing]
    [] web = "description" -> [title |-> e, url |-> e, description |-> Nothing]
    [] OTHER -> F!Row(e)

ReplyTypes ==
  /\ serving \in Client \cup {Nothing} /\ (web = "poll" <=> serving = Nothing)
  /\ reply \in Seq(Partial)
  /\ waiting \subseteq Client /\ (serving # Nothing => serving \in waiting)
  /\ asked \in [Client -> Nat] /\ answer \in [Client -> Seq(Partial)]

\* What was written is what the lists hold, in order.
ReplyMatches ==
  /\ ~Serving => reply = << >>
  /\ Serving => Len(reply) <= Len(hash_list)
  /\ web \in {"url", "description"} => Len(reply) > 0
  /\ web = "title" => Len(reply) < Len(hash_list)
  /\ web = "answer" => Len(reply) = Len(hash_list)
  /\ \A i \in 1..Len(reply) :
       reply[i] = IF i < Len(reply) THEN F!Row(hash_list[i]) ELSE Begun(hash_list[i])

AskedBefore == \A c \in Client : asked[c] <= Len(hash_list)

FeedInv == ListInv /\ ReplyTypes /\ ReplyMatches /\ AskedBefore

\* An entry of the lists makes a complete entry of the answer.
LEMMA RowTyped ==
  ASSUME ListInv, NEW i \in 1..Len(hash_list)
  PROVE  /\ hash_list[i] \in Item /\ F!Row(hash_list[i]) \in Partial
         /\ Element(hash_list, i) = hash_list[i]
         /\ Serving => Element(name_list, i) = hash_list[i]
         /\ Serving => Element(description_list, i) = hash_list[i]
<1>1. /\ hash_list \in Seq(Item) /\ name_list \in Seq(Item)
      /\ description_list \in Seq(Item)
  BY DEF ListInv, ListTypes
<1>2. hash_list[i] \in Item /\ Element(hash_list, i) = hash_list[i]
  BY <1>1, ElementOfSeq, LenProperties DEF Element
<1>3. F!Row(hash_list[i]) \in Partial
  BY <1>2 DEF F!Row, Partial
<1>4. /\ name_list[i] = hash_list[i] /\ description_list[i] = hash_list[i]
  BY DEF ListInv, SameItems
<1>5. Serving => i \in 1..Len(name_list) /\ i \in 1..Len(description_list)
  BY DEF ListInv, ListTypes, Lengths, Locking, Serving
<1> QED BY <1>1, <1>2, <1>3, <1>4, <1>5, LenProperties DEF Element

\* Writing to the last entry of the answer.
LEMMA LastEntry ==
  ASSUME NEW s \in Seq(Partial), Len(s) > 0, NEW r \in Partial
  PROVE  /\ [s EXCEPT ![Len(s)] = r] \in Seq(Partial)
         /\ Len([s EXCEPT ![Len(s)] = r]) = Len(s)
         /\ \A i \in 1..Len(s) :
              [s EXCEPT ![Len(s)] = r][i] = IF i = Len(s) THEN r ELSE s[i]
<1>1. Len(s) \in Nat
  BY LenProperties
<1>2. Len(s) \in 1..Len(s)
  BY <1>1
<1> QED BY <1>2, ExceptSeq

\* Filling in the fields of an entry.
LEMMA RecordUpdates ==
  ASSUME NEW a, NEW b, NEW c, NEW d
  PROVE  /\ [[title |-> a, url |-> b, description |-> c] EXCEPT !.url = d]
              = [title |-> a, url |-> d, description |-> c]
         /\ [[title |-> a, url |-> b, description |-> c] EXCEPT !.description = d]
              = [title |-> a, url |-> b, description |-> d]
OBVIOUS

\* Every step keeps the answer in step with the lists, which do not change
\* while it is written.
LEMMA FeedNext == FeedInv /\ [Next]_vars => FeedInv'
<1> SUFFICES ASSUME FeedInv, [Next]_vars PROVE FeedInv'
  OBVIOUS
<1>1. ListInv /\ ListInv' /\ ListTypes
  BY ListNext DEF FeedInv, ListInv
<1>2. Len(hash_list) \in Nat /\ Len(reply) \in Nat /\ reply \in Seq(Partial)
  BY LenProperties DEF FeedInv, ReplyTypes, ListInv, ListTypes
<1> USE DEF publisher, reader, clients
<1>3. ASSUME UNCHANGED <<reader, clients, hash_list>> PROVE FeedInv'
  BY <1>3, <1>1 DEF FeedInv, ReplyTypes, ReplyMatches, AskedBefore, Serving, Begun
<1>4. CASE AppendUri
  <2>1. item \in Item
    BY <1>4, <1>1 DEF AppendUri, ListTypes
  <2>2. Len(hash_list') = Len(hash_list) + 1
    BY <1>4, <1>1, <2>1, AppendProperties DEF AppendUri, ListTypes
  <2>3. ~Serving
    BY <1>1, <1>4 DEF AppendUri, Serving, ListInv, Locking
  <2>4. reply = << >> /\ Len(reply) = 0
    BY <2>3 DEF FeedInv, ReplyMatches
  <2>5. ReplyTypes'
    BY <1>4 DEF AppendUri, FeedInv, ReplyTypes
  <2>6. ReplyMatches'
    BY <1>4, <2>3, <2>4 DEF AppendUri, ReplyMatches, Serving
  <2>7. AskedBefore'
    BY <1>2, <1>4, <2>2 DEF AppendUri, FeedInv, AskedBefore, ReplyTypes
  <2> QED BY <1>1, <2>5, <2>6, <2>7 DEF FeedInv
<1>5. ASSUME NEW c \in Client, Ask(c) PROVE FeedInv'
  <2>1. ReplyTypes'
    BY <1>5, <1>2 DEF Ask, FeedInv, ReplyTypes
  <2>2. ReplyMatches'
    BY <1>5 DEF Ask, FeedInv, ReplyMatches, Serving, Begun
  <2>3. AskedBefore'
    BY <1>5, <1>2 DEF Ask, FeedInv, AskedBefore, ReplyTypes
  <2> QED BY <1>1, <2>1, <2>2, <2>3 DEF FeedInv
<1>6. ASSUME NEW c \in Client, Handle(c) PROVE FeedInv'
  <2>1. reply' = << >> /\ Len(reply') = 0 /\ reply' \in Seq(Partial)
    BY <1>6, EmptySeq DEF Handle
  <2>2. ReplyTypes'
    BY <1>6, <2>1, ConstantsAssumption DEF Handle, FeedInv, ReplyTypes
  <2>3. ReplyMatches'
    BY <1>6, <2>1 DEF Handle, ReplyMatches, Serving
  <2>4. AskedBefore'
    BY <1>6 DEF Handle, FeedInv, AskedBefore
  <2> QED BY <1>1, <2>2, <2>3, <2>4 DEF FeedInv
<1>7. CASE LockForRead
  <2>1. reply = << >> /\ Len(reply) = 0
    BY <1>7 DEF LockForRead, FeedInv, ReplyMatches, Serving
  <2>2. ReplyTypes' /\ AskedBefore'
    BY <1>7 DEF LockForRead, FeedInv, ReplyTypes, AskedBefore
  <2>3. ReplyMatches'
    BY <1>7, <1>2, <2>1 DEF LockForRead, ReplyMatches, Serving
  <2> QED BY <1>1, <2>2, <2>3 DEF FeedInv
<1>8. CASE AnotherEntry \/ NoOtherEntry
  <2>1. ReplyTypes' /\ AskedBefore'
    BY <1>8 DEF AnotherEntry, NoOtherEntry, FeedInv, ReplyTypes, AskedBefore
  <2>2. ReplyMatches'
    BY <1>8, <1>2
    DEF AnotherEntry, NoOtherEntry, FeedInv, ReplyMatches, Serving, Begun
  <2> QED BY <1>1, <2>1, <2>2 DEF FeedInv
<1>9. CASE ReadTitle
  <2> DEFINE n == Len(reply) + 1
             e == hash_list[n]
             r == [title |-> e, url |-> Nothing, description |-> Nothing]
  <2>1. Serving /\ web = "title" /\ n \in 1..Len(hash_list)
    BY <1>9, <1>2 DEF ReadTitle, Serving, FeedInv, ReplyMatches
  <2>2. e \in Item /\ Element(name_list, n) = e
    BY <1>1, <2>1, RowTyped
  <2>3. r \in Partial
    BY <2>2 DEF Partial
  <2>4. reply' = Append(reply, r)
    BY <1>9, <2>2 DEF ReadTitle
  <2> HIDE DEF r
  <2>5. /\ reply' \in Seq(Partial) /\ Len(reply') = n
        /\ \A i \in 1..Len(reply) : reply'[i] = reply[i]
        /\ reply'[n] = r
    BY <1>2, <2>3, <2>4, AppendProperties
  <2>6. ReplyTypes' /\ AskedBefore'
    BY <1>9, <2>5 DEF ReadTitle, FeedInv, ReplyTypes, AskedBefore
  <2>7. web' = "url" /\ hash_list' = hash_list
    BY <1>9 DEF ReadTitle
  <2>8. ASSUME NEW i \in 1..n
        PROVE  reply'[i] = IF i < n THEN F!Row(hash_list[i])
                           ELSE Begun(hash_list[i])'
    <3>1. CASE i = n
      BY <2>5, <2>7, <3>1 DEF Begun, r
    <3>2. CASE i < n
      <4>1. i \in 1..Len(reply)
        BY <3>2, <1>2
      <4> QED BY <2>1, <2>5, <3>2, <4>1 DEF FeedInv, ReplyMatches, Begun
    <3> QED BY <3>1, <3>2, <1>2
  <2>9. ReplyMatches'
    BY <1>2, <2>1, <2>5, <2>7, <2>8 DEF ReplyMatches, Serving
  <2> QED BY <1>1, <2>6, <2>9 DEF FeedInv
<1>10. CASE ReadUrl
  <2> DEFINE n == Len(reply)
             e == hash_list[n]
             r == [title |-> e, url |-> e, description |-> Nothing]
  <2>1. Serving /\ web = "url" /\ n \in 1..Len(hash_list) /\ n > 0
    BY <1>10, <1>2 DEF ReadUrl, Serving, FeedInv, ReplyMatches
  <2>2. e \in Item /\ Element(hash_list, n) = e
    BY <1>1, <2>1, RowTyped
  <2>3. reply[n] = [title |-> e, url |-> Nothing, description |-> Nothing]
    BY <1>2, <2>1 DEF FeedInv, ReplyMatches, Begun
  <2>4. r \in Partial
    BY <2>2 DEF Partial
  <2>5. reply' = [reply EXCEPT ![n] = r]
    <3>1. [reply[n] EXCEPT !.url = e] = r
      BY ONLY <2>3, RecordUpdates
    <3>2. reply' = [reply EXCEPT ![n] = [reply[n] EXCEPT !.url = Element(hash_list, n)]]
      BY <1>10 DEF ReadUrl
    <3> QED BY ONLY <2>2, <3>1, <3>2
  <2> HIDE DEF r
  <2>6. /\ reply' \in Seq(Partial) /\ Len(reply') = n
        /\ \A i \in 1..n : reply'[i] = IF i = n THEN r ELSE reply[i]
    BY <1>2, <2>1, <2>4, <2>5, LastEntry
  <2>7. ReplyTypes' /\ AskedBefore'
    BY <1>10, <2>6 DEF ReadUrl, FeedInv, ReplyTypes, AskedBefore
  <2>8. web' = "description" /\ hash_list' = hash_list
    BY <1>10 DEF ReadUrl
  <2>9. ASSUME NEW i \in 1..n
        PROVE  reply'[i] = IF i < n THEN F!Row(hash_list[i])
                           ELSE Begun(hash_list[i])'
    <3>1. CASE i = n
      BY <2>6, <2>8, <3>1 DEF Begun, r
    <3>2. CASE i < n
      BY <2>6, <3>2 DEF FeedInv, ReplyMatches
    <3> QED BY <3>1, <3>2, <1>2
  <2>10. ReplyMatches'
    BY <1>2, <2>1, <2>6, <2>8, <2>9 DEF ReplyMatches, Serving
  <2> QED BY <1>1, <2>7, <2>10 DEF FeedInv
<1>11. CASE ReadDescription
  <2> DEFINE n == Len(reply)
             e == hash_list[n]
             r == F!Row(e)
  <2>1. Serving /\ web = "description" /\ n \in 1..Len(hash_list) /\ n > 0
    BY <1>11, <1>2 DEF ReadDescription, Serving, FeedInv, ReplyMatches
  <2>2. e \in Item /\ Element(description_list, n) = e /\ r \in Partial
    BY <1>1, <2>1, RowTyped
  <2>3. reply[n] = [title |-> e, url |-> e, description |-> Nothing]
    BY <1>2, <2>1 DEF FeedInv, ReplyMatches, Begun
  <2>4. reply' = [reply EXCEPT ![n] = r]
    <3>1. [reply[n] EXCEPT !.description = e] = r
      BY ONLY <2>3, RecordUpdates DEF F!Row
    <3>2. reply' = [reply EXCEPT ![n] =
                      [reply[n] EXCEPT !.description = Element(description_list, n)]]
      BY <1>11 DEF ReadDescription
    <3> QED BY ONLY <2>2, <3>1, <3>2
  <2> HIDE DEF r
  <2>5. /\ reply' \in Seq(Partial) /\ Len(reply') = n
        /\ \A i \in 1..n : reply'[i] = IF i = n THEN r ELSE reply[i]
    BY <1>2, <2>1, <2>2, <2>4, LastEntry
  <2>6. ReplyTypes' /\ AskedBefore'
    BY <1>11, <2>5 DEF ReadDescription, FeedInv, ReplyTypes, AskedBefore
  <2>7. web' = "size" /\ hash_list' = hash_list
    BY <1>11 DEF ReadDescription
  <2>8. ASSUME NEW i \in 1..n
        PROVE  reply'[i] = IF i < n THEN F!Row(hash_list[i])
                           ELSE Begun(hash_list[i])'
    <3>1. CASE i = n
      BY <2>5, <2>7, <3>1 DEF Begun, r
    <3>2. CASE i < n
      BY <2>5, <3>2 DEF FeedInv, ReplyMatches
    <3> QED BY <3>1, <3>2, <1>2
  <2>9. ReplyMatches'
    BY <1>2, <2>1, <2>5, <2>7, <2>8 DEF ReplyMatches, Serving
  <2> QED BY <1>1, <2>6, <2>9 DEF FeedInv
<1>12. CASE Answer
  <2>1. reply' = << >> /\ Len(reply') = 0 /\ reply' \in Seq(Partial)
    BY <1>12, EmptySeq DEF Answer
  <2>2. ReplyTypes'
    BY <1>12, <1>2, <2>1, ConstantsAssumption DEF Answer, FeedInv, ReplyTypes
  <2>3. ReplyMatches'
    BY <1>12, <2>1 DEF Answer, ReplyMatches, Serving
  <2>4. AskedBefore'
    BY <1>12 DEF Answer, FeedInv, AskedBefore
  <2> QED BY <1>1, <2>2, <2>3, <2>4 DEF FeedInv
<1>13. ASSUME NEW e \in Item, Hashed(e) PROVE FeedInv'
  BY <1>3, <1>13 DEF Hashed
<1>14. CASE LockForWrite \/ AppendName \/ AppendDescription \/ Unlock
  BY <1>3, <1>14 DEF LockForWrite, AppendName, AppendDescription, Unlock
<1>15. CASE UNCHANGED vars
  BY <1>3, <1>15 DEF vars
<1> QED
  BY <1>4, <1>5, <1>6, <1>7, <1>8, <1>9, <1>10, <1>11, <1>12, <1>13, <1>14, <1>15
  DEF Next

LEMMA FeedInit == Init => FeedInv
<1> SUFFICES ASSUME Init PROVE FeedInv
  OBVIOUS
<1>1. /\ << >> \in Seq(Partial) /\ << >> \in Seq(Item) /\ Len(<< >>) = 0
  BY EmptySeq
<1>2. [c \in Client |-> << >>] \in [Client -> Seq(Partial)]
  BY <1>1
<1>3. ListInv
  BY <1>1 DEF Init, ListInv, ListTypes, Lengths, SameItems, Locking
<1>4. ReplyTypes
  BY <1>1, <1>2 DEF Init, ReplyTypes
<1>5. ReplyMatches
  BY <1>1 DEF Init, ReplyMatches, Serving
<1>6. AskedBefore
  <2>1. Len(hash_list) = 0 /\ asked = [c \in Client |-> 0]
    BY <1>1 DEF Init
  <2>2. \A c \in Client : asked[c] = 0
    BY <2>1
  <2>3. \A c \in Client : asked[c] <= Len(hash_list)
    <3>1. Len(hash_list) = 0
      BY <2>1
    <3>2. 0 <= 0
      OBVIOUS
    <3> QED BY ONLY <2>2, <3>1, <3>2
  <2> QED BY <2>3 DEF AskedBefore
<1> QED BY <1>3, <1>4, <1>5, <1>6 DEF FeedInv

LEMMA FeedHolds == Spec => []FeedInv
BY FeedInit, FeedNext, PTL DEF Spec

\* Type correctness: in particular no element past the end of a list gets into
\* an answer.
THEOREM Typing == Spec => []TypeOK
<1>1. FeedInv => TypeOK
  BY DEF FeedInv, ListInv, ListTypes, ReplyTypes, TypeOK
<1> QED BY <1>1, FeedHolds, PTL

-----------------------------------------------------------------------------
(* The refinement.                                                         *)

\* The feed the lists amount to is a sequence of complete entries.
LEMMA LogTyped ==
  ASSUME ListInv
  PROVE  /\ Log \in Seq(Partial) /\ Len(Log) = Len(hash_list)
         /\ \A i \in 1..Len(hash_list) : Log[i] = F!Row(hash_list[i])
<1>1. hash_list \in Seq(Item) /\ Len(hash_list) \in Nat
      /\ DOMAIN hash_list = 1..Len(hash_list)
  BY LenProperties DEF ListInv, ListTypes
<1>2. \A i \in 1..Len(hash_list) : Log[i] = F!Row(hash_list[i])
  BY <1>1 DEF Log, F!Row, ListInv, SameItems
<1>3. \A i \in 1..Len(hash_list) : F!Row(hash_list[i]) \in Partial
  BY RowTyped
<1>4. Log = [i \in 1..Len(hash_list) |-> Log[i]]
  BY <1>1 DEF Log
<1>5. [i \in 1..Len(hash_list) |-> Log[i]] \in Seq(Partial)
  BY <1>1, <1>2, <1>3, IsASeq
<1>6. Len(Log) = Len(hash_list)
  BY <1>1, <1>4, <1>5, LenProperties
<1> QED BY <1>2, <1>4, <1>5, <1>6

\* The whole feed is its longest prefix.
LEMMA WholePrefix ==
  ASSUME NEW s \in Seq(Partial)
  PROVE  SubSeq(s, 1, Len(s)) = s
<1>1. Len(s) \in Nat /\ \A i \in 1..Len(s) : s[i] \in Partial
  BY LenProperties, ElementOfSeq
<1>2. /\ SubSeq(s, 1, Len(s)) \in Seq(Partial)
      /\ Len(SubSeq(s, 1, Len(s))) = Len(s)
      /\ \A i \in 1..Len(s) : SubSeq(s, 1, Len(s))[i] = s[i]
  BY <1>1, SubSeqProperties
<1> QED BY <1>2, SeqEqual

\* Every step is one of the feed or leaves it as it is: appending to hash_list
\* publishes an entry, and an answer is the whole feed as it is then.
LEMMA FeedStep == FeedInv /\ FeedInv' /\ [Next]_vars => [F!Next]_F!vars
<1> SUFFICES ASSUME FeedInv, FeedInv', [Next]_vars PROVE [F!Next]_F!vars
  OBVIOUS
<1> USE DEF publisher, reader, clients
<1>1. ListInv /\ ListInv'
  BY DEF FeedInv
<1>2. /\ Log \in Seq(Partial) /\ Len(Log) = Len(hash_list)
      /\ \A i \in 1..Len(hash_list) : Log[i] = F!Row(hash_list[i])
  BY <1>1, LogTyped
<1>3. /\ Log' \in Seq(Partial) /\ Len(Log') = Len(hash_list')
      /\ \A i \in 1..Len(hash_list') : Log'[i] = F!Row(hash_list'[i])
  <2>1. (ListInv => /\ Log \in Seq(Partial) /\ Len(Log) = Len(hash_list)
                    /\ \A i \in 1..Len(hash_list) : Log[i] = F!Row(hash_list[i]))'
    BY LogTyped, PTL
  <2> QED BY <1>1, <2>1
<1>4. Len(hash_list) \in Nat /\ hash_list \in Seq(Item)
  BY LenProperties DEF FeedInv, ListInv, ListTypes
\* The feed depends on hash_list alone.
<1>5. ASSUME hash_list' = hash_list PROVE Log' = Log
  BY <1>2, <1>3, <1>5, SeqEqual
<1>6. ASSUME UNCHANGED <<hash_list, clients>> PROVE UNCHANGED F!vars
  BY <1>5, <1>6 DEF F!vars
<1>7. CASE AppendUri
  <2>1. item \in Item
    BY <1>1, <1>7 DEF AppendUri, ListInv, ListTypes
  <2>2. /\ Len(hash_list') = Len(hash_list) + 1
        /\ \A i \in 1..Len(hash_list) : hash_list'[i] = hash_list[i]
        /\ hash_list'[Len(hash_list) + 1] = item
    BY <1>4, <1>7, <2>1, AppendProperties DEF AppendUri
  <2>3. F!Row(item) \in Partial
    BY <2>1 DEF F!Row, Partial
  <2>4. /\ Append(Log, F!Row(item)) \in Seq(Partial)
        /\ Len(Append(Log, F!Row(item))) = Len(hash_list) + 1
        /\ \A i \in 1..Len(hash_list) : Append(Log, F!Row(item))[i] = Log[i]
        /\ Append(Log, F!Row(item))[Len(hash_list) + 1] = F!Row(item)
    BY <1>2, <2>3, AppendProperties
  <2>5. ASSUME NEW i \in 1..Len(hash_list) + 1
        PROVE  Log'[i] = Append(Log, F!Row(item))[i]
    <3>1. i \in 1..Len(hash_list) \/ i = Len(hash_list) + 1
      BY <1>4
    <3> QED BY <1>2, <1>3, <2>2, <2>4, <3>1
  <2>6. Log' = Append(Log, F!Row(item))
    BY <1>3, <2>2, <2>4, <2>5, SeqEqual
  <2>7. F!Publish(item)
    BY <1>7, <2>6 DEF AppendUri, F!Publish
  <2> QED BY <2>1, <2>7 DEF F!Next
<1>8. ASSUME NEW c \in Client, Ask(c) PROVE F!Next
  <2>1. F!Ask(c)
    BY <1>2, <1>5, <1>8 DEF Ask, F!Ask
  <2> QED BY <2>1 DEF F!Next
<1>9. CASE Answer
  <2>1. serving \in Client /\ serving \in waiting /\ web = "answer"
    BY <1>9 DEF Answer, FeedInv, ReplyTypes
  <2>2. reply \in Seq(Partial) /\ Len(reply) = Len(hash_list)
    BY <2>1 DEF FeedInv, ReplyTypes, ReplyMatches
  <2>3. \A i \in 1..Len(hash_list) : reply[i] = F!Row(hash_list[i])
    BY <2>1, <2>2 DEF FeedInv, ReplyMatches, Begun
  <2>4. reply = Log
    BY <1>2, <2>2, <2>3, SeqEqual
  <2>5. answer' = [answer EXCEPT ![serving] = SubSeq(Log, 1, Len(Log))]
    BY <1>2, <1>9, <2>4, WholePrefix DEF Answer
  <2>6. asked[serving] \in Nat /\ asked[serving] <= Len(Log)
    BY <1>2, <2>1 DEF FeedInv, ReplyTypes, AskedBefore
  <2>7. Len(Log) \in asked[serving]..Len(Log) /\ Len(Log) \in 0..Len(Log)
    BY <1>2, <1>4, <2>6
  <2>8. F!Answer(serving, Len(Log))
    BY <1>5, <1>9, <2>1, <2>5, <2>7 DEF Answer, F!Answer
  <2> QED BY <2>1, <2>7, <2>8 DEF F!Next
<1>10. ASSUME NEW e \in Item, Hashed(e) PROVE UNCHANGED F!vars
  BY <1>6, <1>10 DEF Hashed
<1>11. CASE LockForWrite \/ AppendName \/ AppendDescription \/ Unlock
  BY <1>6, <1>11 DEF LockForWrite, AppendName, AppendDescription, Unlock
<1>12. ASSUME NEW c \in Client, Handle(c) PROVE UNCHANGED F!vars
  BY <1>6, <1>12 DEF Handle
<1>13. CASE LockForRead \/ AnotherEntry \/ NoOtherEntry
  BY <1>6, <1>13 DEF LockForRead, AnotherEntry, NoOtherEntry
<1>14. CASE ReadTitle \/ ReadUrl \/ ReadDescription
  BY <1>6, <1>14 DEF ReadTitle, ReadUrl, ReadDescription
<1>15. CASE UNCHANGED vars
  BY <1>6, <1>15 DEF vars
<1> QED
  BY <1>7, <1>8, <1>9, <1>10, <1>11, <1>12, <1>13, <1>14, <1>15 DEF Next

\* The three lists behind the lock implement the feed: entries are published
\* whole and stay, and each answer is the feed of some moment since its request.
THEOREM FeedImplemented == Spec => ImplementsFeed
<1>1. Init => F!Init
  BY DEF Init, F!Init, Log
<1> QED BY <1>1, FeedHolds, FeedStep, PTL DEF Spec, ImplementsFeed, F!Spec
=============================================================================
