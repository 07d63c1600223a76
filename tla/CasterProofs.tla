---------------------------- MODULE CasterProofs ----------------------------
(***************************************************************************)
(* Theorems about Caster: its types, for all times, slots and skews; which *)
(* slot it takes for live, and that one whose clock is behind the          *)
(* receiver's passes over the file being written, two minutes into its     *)
(* slot; and that it forgets no file.                                      *)
(***************************************************************************)
EXTENDS Caster, FiniteSetTheorems, TLAPS

-----------------------------------------------------------------------------
(* Slots.                                                                  *)

LEMMA NumberTyped ==
  ASSUME NEW m \in Nat
  PROVE  FileNumber(m) \in Nat
<1>1. Denominator \in Nat \ {0}
  BY ConstantsAssumption
<1>2. \A d \in Nat \ {0} : m \div d \in Nat
  OBVIOUS
<1>3. \A d \in Nat, q \in Nat : d * q \in Nat
  OBVIOUS
<1> QED
  BY <1>1, <1>2, <1>3 DEF FileNumber

LEMMA ElementTyped ==
  ASSUME NEW S, NEW s \in Seq(S), NEW i \in DOMAIN s
  PROVE  s[i] \in S
OBVIOUS

LEMMA MomentTyped ==
  ASSUME NEW i \in DOMAIN Moments
  PROVE  /\ Moments[i] \in Time
         /\ Moments[i].year \in Nat /\ Moments[i].day \in Nat
         /\ Moments[i].minute \in 0..1439 /\ Moments[i].second \in 0..59
         /\ SecondOfDay(Moments[i]) \in Nat
         /\ 60 * Moments[i].minute <= SecondOfDay(Moments[i])
         /\ SecondOfDay(Moments[i]) <= 60 * Moments[i].minute + 59
<1>1. Moments \in Seq(Time)
  BY ConstantsAssumption
<1>2. Moments[i] \in Time
  BY <1>1, ElementTyped
<1>3. /\ Moments[i].year \in Nat /\ Moments[i].day \in Nat
      /\ Moments[i].minute \in 0..1439 /\ Moments[i].second \in 0..59
  BY <1>2 DEF Time
<1> DEFINE m == Moments[i].minute s == Moments[i].second t == SecondOfDay(Moments[i])
<1>4. t = 60 * m + s /\ m \in 0..1439 /\ s \in 0..59
  BY <1>3 DEF SecondOfDay
<1> HIDE DEF m, s, t
<1>5. t \in Nat /\ 60 * m <= t /\ t <= 60 * m + 59
  BY <1>4
<1> QED
  BY <1>2, <1>3, <1>5 DEF m, t

LEMMA PathTyped ==
  ASSUME NEW p \in Paths
  PROVE  p \in Seq(Nat) /\ Len(p) = 3 /\ p[3] \in Nat /\ p # Nowhere
<1>1. PICK i \in DOMAIN Moments : p = PathOf(Moments[i])
  BY DEF Paths
<1>2. /\ Moments[i].year \in Nat /\ Moments[i].day \in Nat
      /\ FileNumber(Moments[i].minute) \in Nat
  <2>1. /\ Moments[i].year \in Nat /\ Moments[i].day \in Nat
        /\ Moments[i].minute \in 0..1439
    BY MomentTyped
  <2> DEFINE m == Moments[i].minute
  <2>2. m \in 0..1439
    BY <2>1
  <2> HIDE DEF m
  <2>3. FileNumber(m) \in Nat
    BY <2>2, NumberTyped
  <2> QED
    BY <2>1, <2>3 DEF m
<1>3. p = <<Moments[i].year, Moments[i].day, FileNumber(Moments[i].minute)>>
  BY <1>1 DEF PathOf
<1>4. p \in Seq(Nat) /\ Len(p) = 3 /\ p[3] \in Nat
  BY <1>2, <1>3
<1> QED
  BY <1>4, ConstantsAssumption

LEMMA StationTyped == Station \in Directories
<1>1. Moments \in Seq(Time) /\ Moments # << >>
  BY ConstantsAssumption
<1>2. 1 \in DOMAIN Moments
  BY <1>1
<1>3. PathOf(Moments[1]) \in Paths
  BY <1>2 DEF Paths
<1>4. SubSeq(PathOf(Moments[1]), 1, 0) = << >>
  BY <1>3, PathTyped
<1>5. 0 \in 0..2
  OBVIOUS
<1> QED
  BY <1>3, <1>4, <1>5 DEF Directories, Station

-----------------------------------------------------------------------------
(* The calls that are left.                                                *)

\* Directories are handled and watched, files handled and hashed.
Tasks(dirs, files) ==
  [op : Op \ {"file", "hash"}, path : dirs] \cup [op : {"file", "hash"}, path : files]

LEMMA SeqMonotone ==
  ASSUME NEW S, NEW T, S \subseteq T, NEW s \in Seq(S)
  PROVE  s \in Seq(T)
OBVIOUS

LEMMA TasksMonotone ==
  ASSUME NEW D, NEW E, D \subseteq E, NEW F, NEW G, F \subseteq G,
         NEW s \in Seq(Tasks(D, F))
  PROVE  s \in Seq(Tasks(E, G))
<1>1. Tasks(D, F) \subseteq Tasks(E, G)
  BY DEF Tasks
<1> QED
  BY <1>1, SeqMonotone

LEMMA ListingTyped ==
  ASSUME NEW paths, IsFiniteSet(paths), NEW dir, NEW s \in Listings(paths, dir)
  PROVE  s \in Seq(paths)
<1> DEFINE S == {p \in paths : p # Station /\ Front(p) = dir}
<1>1. S \in SUBSET paths
  OBVIOUS
<1>2. IsFiniteSet(S)
  BY <1>1, FS_Subset
<1>3. Cardinality(S) \in Nat
  BY <1>2, FS_CardinalityType
<1>4. s \in [1..Cardinality(S) -> S]
  BY DEF Listings, SetToSeqs
<1> HIDE DEF S
<1>5. s \in Seq(S)
  BY <1>3, <1>4
<1> QED
  BY <1>1, <1>5, SeqMonotone

LEMMA OrderTyped ==
  ASSUME NEW S, IsFiniteSet(S), NEW s \in SetToSeqs(S)
  PROVE  s \in Seq(S)
<1>1. Cardinality(S) \in Nat
  BY FS_CardinalityType
<1>2. s \in [1..Cardinality(S) -> S]
  BY DEF SetToSeqs
<1> QED
  BY <1>1, <1>2

LEMMA EachTyped ==
  ASSUME NEW D, NEW F, NEW op \in Op, NEW S, NEW s \in Seq(S),
         IF op \in {"file", "hash"} THEN S \subseteq F ELSE S \subseteq D
  PROVE  Each(op, s) \in Seq(Tasks(D, F))
<1>1. Len(s) \in Nat /\ \A k \in 1..Len(s) : s[k] \in S
  OBVIOUS
<1>2. \A k \in 1..Len(s) : Task(op, s[k]) \in Tasks(D, F)
  BY <1>1 DEF Task, Tasks
<1> QED
  BY <1>1, <1>2 DEF Each

LEMMA DiveTyped ==
  ASSUME NEW D, NEW F, NEW op \in {"year", "day"}, NEW s \in Seq(D)
  PROVE  DiveAndWatch(op, s) \in Seq(Tasks(D, F))
<1>1. Len(s) \in Nat /\ \A k \in 1..Len(s) : s[k] \in D
  OBVIOUS
<1>2. 2 * Len(s) \in Nat /\ \A k \in 1..(2 * Len(s)) : (k + 1) \div 2 \in 1..Len(s)
  BY <1>1
<1>3. ASSUME NEW k \in 1..(2 * Len(s))
      PROVE  Task(IF k % 2 = 1 THEN op ELSE "watch", s[(k + 1) \div 2]) \in Tasks(D, F)
  <2>1. s[(k + 1) \div 2] \in D
    BY <1>1, <1>2
  <2>2. (IF k % 2 = 1 THEN op ELSE "watch") \in Op \ {"file", "hash"}
    BY DEF Op
  <2> QED
    BY <2>1, <2>2 DEF Task, Tasks
<1> QED
  BY <1>2, <1>3 DEF DiveAndWatch

LEMMA ThenTyped ==
  ASSUME NEW T, NEW s \in Seq(T), NEW t \in Seq(T), t # << >>
  PROVE  /\ Tail(t) \in Seq(T) /\ s \o Tail(t) \in Seq(T) /\ Head(t) \in T
         /\ \A e \in T : <<e>> \o Tail(t) \in Seq(T)
OBVIOUS

-----------------------------------------------------------------------------
(* Types.                                                                  *)

\* The broker goes on to slots that have no file yet.
DiskOK ==
  /\ now \in DOMAIN Moments
  /\ made \subseteq Directories /\ Station \in made /\ IsFiniteSet(made)
  /\ Files \subseteq Paths /\ IsFiniteSet(Files)
  /\ size \in [Files -> 0..2] /\ birth \in [Files -> Nat]
  /\ current \in Files \cup {Nowhere}
  /\ SlotPath \in Files => current = SlotPath
  /\ \A f \in Files : \E j \in 1..now : f = PathOf(Moments[j])
  /\ late \in BOOLEAN

HandlerOK ==
  /\ up \in BOOLEAN
  /\ todo \in Seq(Tasks(made, Files))
  /\ watched \subseteq made /\ pending \subseteq watched
  /\ compensationMinutes \in Nat
  /\ due \subseteq Files

\* Files only grow.
FeedOK ==
  \A t \in feed : /\ DOMAIN t \subseteq Files /\ t \in [DOMAIN t -> 0..2]
                  /\ \A f \in DOMAIN t : t[f] <= size[f]

Typed == DiskOK /\ HandlerOK /\ FeedOK

LEMMA TypedInit == Init => Typed
<1> SUFFICES ASSUME Init PROVE Typed
  OBVIOUS
<1>1. Moments \in Seq(Time) /\ Moments # << >>
  BY ConstantsAssumption
<1>2. 1 \in DOMAIN Moments
  BY <1>1
<1>3. IsFiniteSet({}) /\ IsFiniteSet({Station})
  BY FS_EmptySet, FS_Singleton
<1>4. DOMAIN size = {} /\ size \in [{} -> 0..2] /\ birth \in [{} -> Nat]
  BY DEF Init
<1>5. DiskOK
  <2>1. now \in DOMAIN Moments /\ late \in BOOLEAN /\ current = Nowhere
    BY <1>2 DEF Init
  <2>2. made \subseteq Directories /\ Station \in made /\ IsFiniteSet(made)
    BY <1>3, StationTyped DEF Init
  <2>3. Files = {}
    BY <1>4 DEF Files
  <2> QED
    BY <1>3, <1>4, <2>1, <2>2, <2>3 DEF DiskOK
<1>6. HandlerOK
  <2>1. todo \in Seq(Tasks(made, Files)) /\ compensationMinutes \in Nat
    BY DEF Init
  <2>2. up \in BOOLEAN /\ watched = {} /\ pending = {} /\ due = {}
    BY DEF Init
  <2> QED
    BY <2>1, <2>2 DEF HandlerOK
<1> QED
  BY <1>5, <1>6 DEF Init, Typed, FeedOK

\* Files and directories are added, files grow, and the handlers do not move.
LEMMA Grows ==
  ASSUME Typed, DiskOK', made \subseteq made', Files \subseteq Files',
         \A f \in Files : size'[f] >= size[f],
         UNCHANGED <<up, handler>>,
         pending' \subseteq pending \cup watched, due' \subseteq due \cup Files'
  PROVE  Typed'
<1>1. todo' \in Seq(Tasks(made', Files'))
  BY TasksMonotone DEF Typed, HandlerOK, handler
<1>2. HandlerOK'
  BY <1>1 DEF Typed, HandlerOK, handler, Tasks, Files
<1>3. ASSUME NEW t \in feed
      PROVE  /\ DOMAIN t \subseteq Files' /\ t \in [DOMAIN t -> 0..2]
             /\ \A f \in DOMAIN t : t[f] <= size'[f]
  <2>1. DOMAIN t \subseteq Files /\ t \in [DOMAIN t -> 0..2] /\ \A f \in DOMAIN t : t[f] <= size[f]
    BY DEF Typed, FeedOK
  <2>2. \A f \in Files : size[f] \in Int /\ size'[f] \in Int
    BY DEF Typed, DiskOK
  <2> QED
    BY <2>1, <2>2
<1>4. FeedOK'
  BY <1>3 DEF FeedOK, handler, Files
<1> QED
  BY <1>2, <1>4 DEF Typed

LEMMA ChangedPromises ==
  ASSUME NEW dir, Changed(dir)
  PROVE  pending' \subseteq pending \cup watched /\ due' \subseteq due \cup Files'
BY DEF Changed, Files

LEMMA MakeTyped ==
  ASSUME Typed, NEW i \in 1..2, MakeDirectory(SubSeq(SlotPath, 1, i))
  PROVE  Typed'
<1> DEFINE dir == SubSeq(SlotPath, 1, i)
<1>1. dir \in Directories
  <2>1. SlotPath \in Paths
    BY DEF Typed, DiskOK, SlotPath, Paths
  <2>2. i \in 0..2
    OBVIOUS
  <2> QED
    BY <2>1, <2>2 DEF Directories
<1>2. made' = made \cup {dir} /\ UNCHANGED <<now, current, size, birth, late, up, handler>>
      /\ Changed(Front(dir))
  BY DEF MakeDirectory
<1>3. IsFiniteSet(made')
  BY <1>2, FS_AddElement DEF Typed, DiskOK
<1> HIDE DEF dir
<1>4. DiskOK'
  BY <1>1, <1>2, <1>3 DEF Typed, DiskOK, Files, SlotPath
<1>5. Files' = Files /\ \A f \in Files : size'[f] >= size[f]
  BY <1>2 DEF Typed, DiskOK, Files
<1> QED
  BY <1>2, <1>4, <1>5, ChangedPromises, Grows

LEMMA RotateTyped ==
  ASSUME Typed, Rotate
  PROVE  Typed'
<1>0. DiskOK
  BY DEF Typed
<1>1. SlotPath \notin Files /\ SlotPath \in Paths
  BY <1>0 DEF DiskOK, Rotate, SlotPath, Paths
<1>2. /\ current' = SlotPath
      /\ size' = [f \in Files \cup {SlotPath} |->
                    IF f = SlotPath THEN 0 ELSE IF f = current THEN 2 ELSE size[f]]
      /\ birth' = [f \in Files \cup {SlotPath} |->
                     IF f = SlotPath THEN SecondOfDay(Moments[now]) ELSE birth[f]]
      /\ late' = (late \/ Moments[now].minute # SlotPath[3])
      /\ UNCHANGED <<now, made, up, handler>> /\ Changed(Front(SlotPath))
  BY DEF Rotate
<1>3. Files' = Files \cup {SlotPath} /\ SlotPath' = SlotPath
  BY <1>2 DEF Files, SlotPath
<1>4. IsFiniteSet(Files')
  BY <1>0, <1>3, FS_AddElement DEF DiskOK
<1>5. \A f \in Files : size[f] \in 0..2 /\ birth[f] \in Nat
  BY <1>0 DEF DiskOK
<1>6. size' \in [Files' -> 0..2]
  BY <1>2, <1>3, <1>5
<1>7. birth' \in [Files' -> Nat]
  <2>1. SecondOfDay(Moments[now]) \in Nat
    BY <1>0, MomentTyped DEF DiskOK
  <2> QED
    BY <1>2, <1>3, <1>5, <2>1
<1>8. \A f \in Files' : \E j \in 1..now : f = PathOf(Moments[j])
  <2>1. now \in 1..now
    <3>1. now \in DOMAIN Moments /\ Moments \in Seq(Time)
      BY <1>0, ConstantsAssumption DEF DiskOK
    <3>2. now \in Nat /\ now >= 1
      BY ONLY <3>1
    <3> QED
      BY <3>2
  <2> QED
    BY <1>0, <1>3, <2>1 DEF DiskOK, SlotPath
<1>9. DiskOK'
  <2>1. late' \in BOOLEAN
    BY <1>0, <1>2 DEF DiskOK
  <2>2. now' = now /\ made' = made
    BY <1>2
  <2>3. Files' \subseteq Paths
    BY <1>0, <1>1, <1>3 DEF DiskOK
  <2>4. (\A f \in Files : \E j \in 1..now : f = PathOf(Moments[j]))'
    BY <1>8, <2>2 DEF PathOf, FileNumber
  <2>5. (now \in DOMAIN Moments /\ made \subseteq Directories /\ Station \in made
           /\ IsFiniteSet(made))'
    BY <1>0, <2>2 DEF DiskOK
  <2>6. (current \in Files \cup {Nowhere} /\ (SlotPath \in Files => current = SlotPath))'
    BY <1>2, <1>3
  <2> QED
    BY <1>4, <1>6, <1>7, <2>1, <2>3, <2>4, <2>5, <2>6 DEF DiskOK
<1>10. \A f \in Files : size'[f] >= size[f]
  BY <1>1, <1>2, <1>5
<1> QED
  BY <1>2, <1>3, <1>9, <1>10, ChangedPromises, Grows

LEMMA FlushTyped ==
  ASSUME Typed, Flush
  PROVE  Typed'
<1>0. DiskOK
  BY DEF Typed
<1>1. /\ current \in Files /\ size[current] = 0 /\ size' = [size EXCEPT ![current] = 1]
      /\ UNCHANGED <<now, made, current, birth, late, up, handler, pending, due>>
  BY <1>0 DEF Flush, DiskOK
<1>2. Files' = Files /\ size' \in [Files -> 0..2] /\ \A f \in Files : size'[f] >= size[f]
  <2>1. size \in [Files -> 0..2]
    BY <1>0 DEF DiskOK
  <2>2. size' \in [Files -> 0..2]
    BY <1>1, <2>1
  <2>3. \A f \in Files : size'[f] >= size[f]
    BY <1>1, <2>1
  <2> QED
    BY <2>2, <2>3 DEF Files
<1>3. DiskOK'
  BY <1>0, <1>1, <1>2 DEF DiskOK, SlotPath, PathOf, FileNumber
<1> QED
  BY <1>1, <1>2, <1>3, Grows

\* A slot that has a file when it begins is still the same slot.
LEMMA TickTyped ==
  ASSUME Typed, Tick
  PROVE  Typed'
<1>0. DiskOK
  BY DEF Typed
<1>1. /\ now' = now + 1 /\ now < Len(Moments)
      /\ UNCHANGED <<made, current, size, birth, late, up, handler, pending, due>>
  BY DEF Tick
<1>2. DOMAIN Moments = 1..Len(Moments) /\ Len(Moments) \in Nat
  <2>1. Moments \in Seq(Time)
    BY ConstantsAssumption
  <2> QED
    BY ONLY <2>1
<1>3. now \in 1..Len(Moments) /\ now' \in DOMAIN Moments /\ Files' = Files
  BY <1>0, <1>1, <1>2 DEF DiskOK, Files
<1>4. ASSUME SlotPath' \in Files PROVE current = SlotPath'
  <2>1. PICK j \in 1..now : SlotPath' = PathOf(Moments[j])
    BY <1>0, <1>4 DEF DiskOK
  <2>2. PathOf(Moments[j]) = PathOf(Moments[now'])
    BY <2>1 DEF SlotPath, PathOf, FileNumber
  <2>3. j \in DOMAIN Moments /\ now \in DOMAIN Moments /\ j <= now /\ now <= now'
    BY <1>1, <1>2, <1>3
  <2>4. PathOf(Moments[now]) = PathOf(Moments[now'])
    BY <1>3, <2>2, <2>3, ConstantsAssumption
  <2>5. SlotPath = SlotPath'
    BY <2>1, <2>2, <2>4 DEF SlotPath
  <2> QED
    BY <1>0, <1>4, <2>5 DEF DiskOK
<1>5. \A f \in Files : \E j \in 1..now' : f = PathOf(Moments[j])
  <2>1. 1..now \subseteq 1..now'
    BY <1>1, <1>3
  <2> QED
    BY <1>0, <2>1 DEF DiskOK
<1>6. DiskOK'
  <2>1. (\A f \in Files : \E j \in 1..now : f = PathOf(Moments[j]))'
    BY <1>3, <1>5 DEF PathOf, FileNumber
  <2>2. (SlotPath \in Files => current = SlotPath)'
    BY <1>1, <1>3, <1>4
  <2>3. (/\ made \subseteq Directories /\ Station \in made /\ IsFiniteSet(made)
         /\ late \in BOOLEAN /\ current \in Files \cup {Nowhere})'
    BY <1>0, <1>1, <1>3 DEF DiskOK
  <2>4. Files' \subseteq Paths /\ IsFiniteSet(Files')
    BY <1>0, <1>3 DEF DiskOK
  <2>5. size' \in [Files' -> 0..2] /\ birth' \in [Files' -> Nat]
    BY <1>0, <1>1, <1>3 DEF DiskOK
  <2> QED
    BY <1>3, <2>1, <2>2, <2>3, <2>4, <2>5 DEF DiskOK
<1>7. \A f \in Files : size'[f] >= size[f]
  <2>1. \A f \in Files : size[f] \in Int
    BY <1>0 DEF DiskOK
  <2> QED
    BY <1>1, <2>1
<1> QED
  BY <1>1, <1>3, <1>6, <1>7, Grows

LEMMA DiskStays ==
  ASSUME DiskOK, UNCHANGED disk
  PROVE  DiskOK' /\ Files' = Files /\ SlotPath' = SlotPath
<1>1. now' = now /\ made' = made /\ current' = current /\ size' = size /\ birth' = birth
      /\ late' = late
  BY DEF disk
<1>2. Files' = Files /\ SlotPath' = SlotPath
  BY <1>1 DEF Files, SlotPath, PathOf, FileNumber
<1>3. (\A f \in Files : \E j \in 1..now : f = PathOf(Moments[j]))'
  BY <1>1, <1>2 DEF DiskOK, PathOf, FileNumber
<1> QED
  BY <1>1, <1>2, <1>3 DEF DiskOK

LEMMA WriteTestTyped ==
  ASSUME Typed, WriteTest
  PROVE  Typed'
<1>1. UNCHANGED <<disk, up, handler>> /\ Changed(Station)
  BY DEF WriteTest
<1>2. DiskOK' /\ Files' = Files /\ made' = made /\ size' = size
  BY <1>1, DiskStays DEF Typed, disk
<1>3. \A f \in Files : size'[f] >= size[f]
  <2>1. \A f \in Files : size[f] \in Int
    BY DEF Typed, DiskOK
  <2> QED
    BY <1>2, <2>1
<1> QED
  BY <1>1, <1>2, <1>3, ChangedPromises, Grows

\* What btcaster does changes nothing on disk.
LEMMA Handled ==
  ASSUME Typed, UNCHANGED disk, up' \in BOOLEAN, todo' \in Seq(Tasks(made, Files)),
         watched' \subseteq made, pending' \subseteq watched', compensationMinutes' \in Nat,
         due' \subseteq Files,
         \A t \in feed' \ feed : /\ DOMAIN t \subseteq Files /\ t \in [DOMAIN t -> 0..2]
                                 /\ \A f \in DOMAIN t : t[f] <= size[f]
  PROVE  Typed'
<1>1. DiskOK' /\ Files' = Files /\ made' = made /\ size' = size
  BY DiskStays DEF Typed, disk
<1>2. HandlerOK'
  BY <1>1 DEF HandlerOK, Tasks
<1>3. FeedOK'
  BY <1>1 DEF Typed, FeedOK
<1> QED
  BY <1>1, <1>2, <1>3 DEF Typed

LEMMA StartStopTyped ==
  ASSUME Typed, Start \/ Stop
  PROVE  Typed'
<1>1. CASE Start
  <2>1. Task("station", Station) \in Tasks(made, Files)
    BY DEF Typed, DiskOK, Task, Tasks, Op
  <2>2. todo' \in Seq(Tasks(made, Files))
    BY <1>1, <2>1 DEF Start
  <2>3. up' \in BOOLEAN /\ UNCHANGED <<disk, watched, compensationMinutes, feed, pending, due>>
    BY <1>1 DEF Start
  <2> QED
    BY <2>2, <2>3, Handled DEF Typed, HandlerOK
<1>2. CASE Stop
  <2>1. todo' \in Seq(Tasks(made, Files))
    BY <1>2 DEF Stop
  <2>2. UNCHANGED disk /\ up' \in BOOLEAN /\ watched' = {} /\ pending' = {}
        /\ compensationMinutes' \in Nat /\ feed' = {} /\ due' = {}
    BY <1>2 DEF Stop
  <2> QED
    BY <2>1, <2>2, Handled
<1> QED
  BY <1>1, <1>2

LEMMA NotifyTyped ==
  ASSUME Typed, NEW level \in 0..2, Notify(level)
  PROVE  Typed'
<1> DEFINE changed == {dir \in pending : Len(dir) = level}
<1>1. PICK order \in SetToSeqs(changed) : todo' = Each(Level[level + 1], order)
  BY DEF Notify
<1>2. changed \subseteq made /\ IsFiniteSet(changed)
  <2>1. changed \in SUBSET made /\ IsFiniteSet(made)
    BY DEF Typed, HandlerOK, DiskOK
  <2> QED
    BY <2>1, FS_Subset
<1>3. pending' = pending \ changed /\ UNCHANGED <<disk, up, watched, compensationMinutes, feed, due>>
  BY DEF Notify
<1> HIDE DEF changed
<1>4. order \in Seq(changed)
  BY <1>1, <1>2, OrderTyped
<1>5. Level[level + 1] \in Op \ {"file", "hash"}
  BY DEF Level, Op
<1>6. todo' \in Seq(Tasks(made, Files))
  BY <1>1, <1>2, <1>4, <1>5, EachTyped
<1> QED
  BY <1>3, <1>6, Handled DEF Typed, HandlerOK

LEMMA HeadTyped ==
  ASSUME Typed, todo # << >>
  PROVE  /\ Head(todo) \in Tasks(made, Files) /\ Tail(todo) \in Seq(Tasks(made, Files))
         /\ \A op : Running(op) => Subject \in IF op \in {"file", "hash"} THEN Files ELSE made
<1>1. Head(todo) \in Tasks(made, Files) /\ Tail(todo) \in Seq(Tasks(made, Files))
  <2> DEFINE T == Tasks(made, Files)
  <2>1. todo \in Seq(T)
    BY DEF Typed, HandlerOK
  <2> HIDE DEF T
  <2>2. Head(todo) \in T /\ Tail(todo) \in Seq(T)
    BY <2>1
  <2> QED
    BY <2>2 DEF T
<1> QED
  BY <1>1 DEF Running, Subject, Tasks

LEMMA Then ==
  ASSUME Typed, todo # << >>, NEW s \in Seq(Tasks(made, Files)), todo' = s \o Tail(todo)
  PROVE  todo' \in Seq(Tasks(made, Files))
<1> DEFINE T == Tasks(made, Files)
<1>1. s \in Seq(T) /\ Tail(todo) \in Seq(T)
  BY HeadTyped
<1> HIDE DEF T
<1>2. s \o Tail(todo) \in Seq(T)
  BY <1>1
<1> QED
  BY <1>2 DEF T

LEMMA DirectoryTyped ==
  ASSUME Typed, HandleStation \/ HandleYear \/ HandleDay
  PROVE  Typed'
<1>0. todo # << >> /\ IsFiniteSet(made) /\ IsFiniteSet(Files)
  BY DEF HandleStation, HandleYear, HandleDay, Running, Typed, DiskOK
<1>1. CASE HandleStation
  <2>1. PICK s \in Listings(made, Subject) : todo' = DiveAndWatch("year", s) \o Tail(todo)
    BY <1>1 DEF HandleStation
  <2>2. s \in Seq(made)
    BY <1>0, ListingTyped
  <2>3. todo' \in Seq(Tasks(made, Files))
    BY <1>0, <2>1, <2>2, DiveTyped, Then
  <2>4. watched' = watched \cup {Station}
        /\ UNCHANGED <<disk, up, compensationMinutes, feed, pending, due>>
    BY <1>1 DEF HandleStation
  <2>5. watched' \subseteq made /\ pending' \subseteq watched'
    BY <2>4 DEF Typed, HandlerOK, DiskOK
  <2> QED
    BY <2>3, <2>4, <2>5, Handled DEF Typed, HandlerOK
<1>2. CASE HandleYear
  <2>1. PICK s \in Listings(made, Subject) : todo' = DiveAndWatch("day", s) \o Tail(todo)
    BY <1>2 DEF HandleYear
  <2>2. s \in Seq(made)
    BY <1>0, ListingTyped
  <2>3. todo' \in Seq(Tasks(made, Files))
    BY <1>0, <2>1, <2>2, DiveTyped, Then
  <2>4. UNCHANGED <<disk, up, watched, compensationMinutes, feed, pending, due>>
    BY <1>2 DEF HandleYear
  <2> QED
    BY <2>3, <2>4, Handled DEF Typed, HandlerOK
<1>3. CASE HandleDay
  <2>1. PICK s \in Listings(Files, Subject) : todo' = Each("file", s) \o Tail(todo)
    BY <1>3 DEF HandleDay
  <2>2. s \in Seq(Files)
    BY <1>0, ListingTyped
  <2>3. Each("file", s) \in Seq(Tasks(made, Files))
    BY <2>2, EachTyped DEF Op
  <2>4. todo' \in Seq(Tasks(made, Files))
    BY <1>0, <2>1, <2>3, Then
  <2>5. UNCHANGED <<disk, up, watched, compensationMinutes, feed, pending, due>>
    BY <1>3 DEF HandleDay
  <2> QED
    BY <2>4, <2>5, Handled DEF Typed, HandlerOK
<1> QED
  BY <1>1, <1>2, <1>3

LEMMA AddPathTyped ==
  ASSUME Typed, AddPath
  PROVE  Typed'
<1>1. /\ todo # << >> /\ Running("watch") /\ watched' = watched \cup {Subject}
      /\ todo' = Tail(todo) /\ UNCHANGED <<disk, up, compensationMinutes, feed, pending, due>>
  BY DEF AddPath, Running
<1>2. Subject \in made /\ Tail(todo) \in Seq(Tasks(made, Files))
  BY <1>1, HeadTyped
<1> QED
  BY <1>1, <1>2, Handled DEF Typed, HandlerOK

LEMMA SkewTyped ==
  ASSUME DiskOK, NEW f \in Files
  PROVE  SkewOf(f) \in Nat
<1>1. birth[f] \in Nat
  BY DEF DiskOK
<1>2. f[3] \in Nat
  BY PathTyped DEF DiskOK
<1>3. Skew \in Int
  BY ConstantsAssumption
<1> DEFINE b == birth[f] n == f[3]
<1>4. b \in Int /\ n \in Int
  BY <1>1, <1>2
<1> HIDE DEF b, n
<1>5. (IF b + Skew - 60 * n >= 0 THEN b + Skew - 60 * n ELSE -(b + Skew - 60 * n)) \in Nat
  BY <1>3, <1>4
<1> QED
  BY <1>5 DEF SkewOf, b, n

LEMMA HandleFileTyped ==
  ASSUME Typed, HandleFile
  PROVE  Typed'
<1>1. /\ todo # << >> /\ Running("file") /\ UNCHANGED <<disk, up, watched, feed, pending>>
      /\ compensationMinutes' =
           IF SkewOf(Subject) > 60 THEN SkewOf(Subject) \div 60 ELSE compensationMinutes
      /\ due' \subseteq due
      /\ todo' = Tail(todo) \/ todo' = <<Task("hash", Subject)>> \o Tail(todo)
  BY DEF HandleFile, Running
<1>2. Subject \in Files /\ Tail(todo) \in Seq(Tasks(made, Files))
  BY <1>1, HeadTyped
<1>3. compensationMinutes' \in Nat
  <2>1. SkewOf(Subject) \in Nat /\ compensationMinutes \in Nat
    BY <1>2, SkewTyped DEF Typed, HandlerOK
  <2> QED
    BY <1>1, <2>1
<1>4. <<Task("hash", Subject)>> \in Seq(Tasks(made, Files))
  <2>1. Task("hash", Subject) \in Tasks(made, Files)
    BY <1>2 DEF Task, Tasks
  <2> QED
    BY <2>1
<1>5. todo' \in Seq(Tasks(made, Files))
  BY <1>1, <1>2, <1>4, Then
<1> QED
  BY <1>1, <1>3, <1>5, Handled DEF Typed, HandlerOK

LEMMA HashTyped ==
  ASSUME Typed, Hash
  PROVE  Typed'
<1>1. /\ todo # << >> /\ todo' = Tail(todo)
      /\ feed' = feed \cup {[g \in Namesakes(Subject) |-> size[g]]}
      /\ UNCHANGED <<disk, up, watched, compensationMinutes, pending, due>>
  BY DEF Hash, Running
<1>2. Tail(todo) \in Seq(Tasks(made, Files))
  BY <1>1, HeadTyped
<1>3. \A t \in feed' \ feed : /\ DOMAIN t \subseteq Files /\ t \in [DOMAIN t -> 0..2]
                              /\ \A f \in DOMAIN t : t[f] <= size[f]
  <2>1. Namesakes(Subject) \subseteq Files /\ \A f \in Files : size[f] \in 0..2
    BY DEF Namesakes, Typed, DiskOK
  <2> QED
    BY <1>1, <2>1
<1> QED
  BY <1>1, <1>2, <1>3, Handled DEF Typed, HandlerOK

LEMMA TypedNext == Typed /\ [Next]_vars => Typed'
<1> SUFFICES ASSUME Typed, [Next]_vars PROVE Typed'
  OBVIOUS
<1>1. CASE UNCHANGED vars
  <2>1. UNCHANGED disk /\ UNCHANGED <<up, todo, watched, compensationMinutes, feed, pending, due>>
    BY <1>1 DEF vars, handler
  <2> QED
    BY <2>1, Handled DEF Typed, HandlerOK
<1> QED
  BY <1>1, MakeTyped, RotateTyped, FlushTyped, WriteTestTyped, TickTyped, StartStopTyped,
     NotifyTyped, DirectoryTyped, AddPathTyped, HandleFileTyped, HashTyped DEF Next, Handle

LEMMA Invariance == Spec => []Typed
BY TypedInit, TypedNext, PTL DEF Spec

\* Type correctness: what is left to handle exists, what is watched exists, and no
\* torrent was made of more of a file than there is.
THEOREM Typing == Spec => []TypeOK
<1>1. Typed => TypeOK
  <2> SUFFICES ASSUME Typed PROVE TypeOK
    OBVIOUS
  <2>1. \A k \in DOMAIN todo : todo[k] \in Tasks(made, Files)
    BY ElementTyped DEF Typed, HandlerOK
  <2>2. \A k \in DOMAIN todo : todo[k] \in [op : Op \ {"file", "hash"}, path : Directories]
                                         \cup [op : {"file", "hash"}, path : Files]
    BY <2>1 DEF Typed, DiskOK, Tasks
  <2>3. current \in Paths \cup {Nowhere}
    BY DEF Typed, DiskOK
  <2> QED
    BY <2>2, <2>3 DEF Typed, DiskOK, HandlerOK, FeedOK, TypeOK
<1> QED
  BY Invariance, <1>1, PTL

-----------------------------------------------------------------------------
(* Finished slots.                                                         *)

\* When files are created in the first minute of their slots, the initial
\* compensation is never replaced if btcaster's clock is close to the receiver's.
Estimate ==
  ~late => /\ \A f \in Files : birth[f] - 60 * f[3] \in 0..59
           /\ Skew \in -119..60 => compensationMinutes = 1

\* Line 188 adds the estimate, which line 177 made positive and line 180 rounded
\* down to minutes, to btcaster's clock: by so many seconds can the result then be
\* ahead of the receiver's, or behind it.
Offsets ==
  IF Skew < -119 THEN -118..0
  ELSE IF Skew <= 60 THEN {Skew + 60} ELSE (2 * Skew - 59)..(2 * Skew + 59)

LEMMA SkewKnown ==
  ASSUME DiskOK, Estimate, ~late, NEW f \in Files
  PROVE  \E e \in 0..59 : SkewOf(f) = IF e + Skew >= 0 THEN e + Skew ELSE -(e + Skew)
<1>1. birth[f] - 60 * f[3] \in 0..59 /\ birth[f] \in Nat /\ Skew \in Int
  BY ConstantsAssumption DEF Estimate, DiskOK
<1>2. f[3] \in Nat
  BY PathTyped DEF DiskOK
<1> DEFINE n == f[3] b == birth[f]
<1>3. n \in Nat /\ b \in Nat /\ b - 60 * n \in 0..59
  BY <1>1, <1>2
<1>4. SkewOf(f) = IF b + Skew - 60 * n >= 0 THEN b + Skew - 60 * n ELSE -(b + Skew - 60 * n)
  BY DEF SkewOf
<1> HIDE DEF n, b
<1>5. b + Skew - 60 * n = (b - 60 * n) + Skew
  BY <1>1, <1>3
<1> QED
  BY <1>3, <1>4, <1>5

LEMMA EstimateOff ==
  ASSUME NEW e \in 0..59, NEW k, k = IF e + Skew >= 0 THEN e + Skew ELSE -(e + Skew),
         NEW c \in Nat, Skew \in -119..60 => c = 1,
         NEW d, d = IF k > 60 THEN k \div 60 ELSE c
  PROVE  /\ d \in Nat /\ Skew + 60 * d \in Offsets
         /\ Skew \in -119..60 => d = 1
<1>1. Skew \in Int
  BY ConstantsAssumption
<1>2. CASE Skew < -119
  <2>1. k = -(e + Skew) /\ k > 60
    BY <1>1, <1>2
  <2>2. d = k \div 60 /\ k \in Nat
    BY <1>1, <2>1
  <2>3. 60 * d <= k /\ k <= 60 * d + 59 /\ d \in Nat
    BY <2>2
  <2>4. Skew + 60 * d \in -118..0
    BY <1>1, <2>1, <2>3
  <2> QED
    BY <1>1, <1>2, <2>3, <2>4 DEF Offsets
<1>3. CASE Skew \in -119..60
  <2>1. k \in 0..119 /\ c = 1
    BY <1>3
  <2>2. d = 1
    BY <2>1
  <2> QED
    BY <1>3, <2>2 DEF Offsets
<1>4. CASE Skew > 60
  <2>1. k = e + Skew /\ k > 60
    BY <1>1, <1>4
  <2>2. d = k \div 60 /\ k \in Nat
    BY <1>1, <2>1
  <2>3. 60 * d <= k /\ k <= 60 * d + 59 /\ d \in Nat
    BY <2>2
  <2>4. Skew + 60 * d \in (2 * Skew - 59)..(2 * Skew + 59)
    BY <1>1, <2>1, <2>3
  <2> QED
    BY <1>1, <1>4, <2>3, <2>4 DEF Offsets
<1> QED
  BY <1>1, <1>2, <1>3, <1>4

\* What handleFile then makes of the estimate.
LEMMA Estimated ==
  ASSUME Typed, Estimate, ~late, HandleFile
  PROVE  /\ compensationMinutes' \in Nat /\ Skew + 60 * compensationMinutes' \in Offsets
         /\ Skew \in -119..60 => compensationMinutes' = 1
<1>1. /\ todo # << >> /\ Running("file")
      /\ compensationMinutes' =
           IF SkewOf(Subject) > 60 THEN SkewOf(Subject) \div 60 ELSE compensationMinutes
  BY DEF HandleFile, Running
<1>2. PICK e \in 0..59 :
        SkewOf(Subject) = IF e + Skew >= 0 THEN e + Skew ELSE -(e + Skew)
  BY <1>1, HeadTyped, SkewKnown DEF Typed
<1>3. compensationMinutes \in Nat /\ (Skew \in -119..60 => compensationMinutes = 1)
  BY DEF Estimate, Typed, HandlerOK
<1> DEFINE k == SkewOf(Subject) d == compensationMinutes'
<1>4. d = IF k > 60 THEN k \div 60 ELSE compensationMinutes
  BY <1>1
<1> HIDE DEF k, d
<1>5. k = IF e + Skew >= 0 THEN e + Skew ELSE -(e + Skew)
  BY <1>2 DEF k
<1>6. d \in Nat /\ Skew + 60 * d \in Offsets /\ (Skew \in -119..60 => d = 1)
  <2>1. e \in 0..59
    BY <1>2
  <2>2. \A c \in Nat : /\ Skew \in -119..60 => c = 1
                      /\ d = (IF k > 60 THEN k \div 60 ELSE c)
                      => /\ d \in Nat /\ Skew + 60 * d \in Offsets
                         /\ Skew \in -119..60 => d = 1
    BY ONLY <2>1, <1>5, EstimateOff
  <2> QED
    BY ONLY <1>3, <1>4, <2>2
<1> QED
  BY <1>6 DEF d

LEMMA EstimateNext ==
  ASSUME Typed, Estimate, [Next]_vars
  PROVE  Estimate'
<1>same. ASSUME UNCHANGED <<birth, size, late, compensationMinutes>> PROVE Estimate'
  BY <1>same DEF Estimate, Files
<1>1. CASE Rotate
  <2>1. /\ late' = (late \/ Moments[now].minute # SlotPath[3])
        /\ birth' = [f \in Files \cup {SlotPath} |->
                       IF f = SlotPath THEN SecondOfDay(Moments[now]) ELSE birth[f]]
        /\ DOMAIN size' = Files \cup {SlotPath}
        /\ compensationMinutes' = compensationMinutes
    BY <1>1 DEF Rotate, handler
  <2>2. ASSUME ~late', NEW f \in Files' PROVE birth'[f] - 60 * f[3] \in 0..59
    <3>1. CASE f = SlotPath
      <4>1. Moments[now].minute = f[3] /\ birth'[f] = SecondOfDay(Moments[now])
        BY <2>1, <2>2, <3>1 DEF Files
      <4>2. Moments[now].minute \in 0..1439 /\ Moments[now].second \in 0..59
        BY MomentTyped DEF Typed, DiskOK
      <4> DEFINE m == Moments[now].minute s == Moments[now].second b == birth'[f] n == f[3]
      <4>3. b = 60 * m + s /\ n = m /\ m \in 0..1439 /\ s \in 0..59
        BY <4>1, <4>2 DEF SecondOfDay
      <4> HIDE DEF m, s, b, n
      <4>4. b - 60 * n \in 0..59
        BY <4>3
      <4> QED
        BY <4>4 DEF b, n
    <3>2. CASE f # SlotPath
      <4>1. f \in Files /\ birth'[f] = birth[f] /\ ~late
        BY <2>1, <2>2, <3>2 DEF Files
      <4> QED
        <5>1. birth[f] - 60 * f[3] \in 0..59
          BY <4>1, Zenon DEF Estimate
        <5> QED
          BY <4>1, <5>1
    <3> QED
      BY <3>1, <3>2
  <2> QED
    BY <2>1, <2>2 DEF Estimate
<1>2. CASE HandleFile
  <2>1. UNCHANGED <<birth, size, late>>
    BY <1>2 DEF HandleFile, disk
  <2>2. ~late => (Skew \in -119..60 => compensationMinutes' = 1)
    BY <1>2, Estimated
  <2> QED
    BY <2>1, <2>2 DEF Estimate, Files
<1>3. CASE Stop
  <2>1. UNCHANGED <<birth, size, late>> /\ compensationMinutes' = 1
    BY <1>3 DEF Stop, disk
  <2> QED
    BY <2>1 DEF Estimate, Files
<1>4. CASE Flush
  <2>1. UNCHANGED <<birth, late, compensationMinutes>> /\ DOMAIN size' = DOMAIN size
    BY <1>4 DEF Flush, handler
  <2> QED
    BY <2>1 DEF Estimate, Files
<1>5. CASE \E i \in 1..2 : MakeDirectory(SubSeq(SlotPath, 1, i))
  BY <1>5, <1>same DEF MakeDirectory, handler
<1>6. CASE WriteTest \/ Tick \/ Start \/ \E level \in 0..2 : Notify(level)
  BY <1>6, <1>same DEF WriteTest, Tick, Start, Notify, disk, handler
<1>7. CASE HandleStation \/ HandleYear \/ HandleDay \/ AddPath \/ Hash \/ UNCHANGED vars
  BY <1>7, <1>same DEF HandleStation, HandleYear, HandleDay, AddPath, Hash, vars, disk, handler
<1> QED
  BY <1>1, <1>2, <1>3, <1>4, <1>5, <1>6, <1>7 DEF Next, Handle

\* The slot taken for live is the receiver's of some seconds later, or before.
LEMMA LiveMisjudged ==
  ASSUME Typed, Estimate, ~late, HandleFile
  PROVE  \E o \in Offsets : LiveNumber' = NumberAt(SecondOfDay(Moments[now]) + o)
<1> DEFINE s == SecondOfDay(Moments[now]) c == compensationMinutes'
<1>1. s \in Int /\ Skew \in Int
  BY ConstantsAssumption, MomentTyped DEF Typed, DiskOK
<1>2. c \in Nat /\ Skew + 60 * c \in Offsets
  BY Estimated
<1>3. now' = now
  BY DEF HandleFile, disk
<1>4. LiveNumber' = NumberAt(s + Skew + 60 * c)
  BY <1>3 DEF LiveNumber, NumberAt, FileNumber, SecondOfDay
<1> HIDE DEF s, c
<1>5. s + Skew + 60 * c = s + (Skew + 60 * c)
  BY <1>1, <1>2
<1>6. LiveNumber' = NumberAt(s + (Skew + 60 * c))
  BY <1>4, <1>5
<1> QED
  BY <1>2, <1>6 DEF s

\* As long as files are created in the first minutes of their slots, handleFile
\* takes for live the slot at the receiver's time plus one of the Offsets: at most
\* two minutes behind if btcaster's clock is behind, a minute ahead if the clocks
\* agree, and if it is ahead by more than a minute, the skew is added a second time
\* instead of being taken away.
THEOREM LiveSlot ==
  Spec => [][~late /\ HandleFile
               => \E o \in Offsets :
                    LiveNumber' = NumberAt(SecondOfDay(Moments[now]) + o)]_vars
<1>1. Init => Estimate
  BY DEF Init, Estimate, Files
<1>2. Typed /\ Estimate /\ [Next]_vars => Estimate'
  BY EstimateNext
<1>3. Typed /\ Estimate
        => [~late /\ HandleFile
              => \E o \in Offsets :
                   LiveNumber' = NumberAt(SecondOfDay(Moments[now]) + o)]_vars
  BY LiveMisjudged
<1> QED
  BY <1>1, <1>2, <1>3, Invariance, PTL DEF Spec

\* A minute between the start of a slot and one of its minutes is of that slot.
LEMMA SameSlot ==
  ASSUME NEW m \in Nat, NEW q \in Nat, FileNumber(m) <= q, q <= m
  PROVE  FileNumber(q) = FileNumber(m)
<1> DEFINE D == Denominator j == q \div D k == m \div D
<1>1. D \in Nat \ {0}
  BY ConstantsAssumption
<1> HIDE DEF D
<1>2. \A x \in Nat, d \in Nat \ {0} :
        x \div d \in Nat /\ d * (x \div d) <= x /\ x < d * (x \div d) + d
  OBVIOUS
<1>3. j \in Nat /\ k \in Nat /\ D * j <= q /\ q < D * j + D /\ D * k <= m /\ m < D * k + D
  BY <1>1, <1>2
<1>4. D * k <= q
  BY DEF FileNumber, D
<1> HIDE DEF j, k
<1>5. \A d, x, y \in Nat : x + 1 <= y => d * x + d <= d * y
  <2> SUFFICES ASSUME NEW d \in Nat, NEW x \in Nat, NEW y \in Nat, x + 1 <= y
               PROVE  d * x + d <= d * y
    OBVIOUS
  <2>1. PICK z \in Nat : y = x + 1 + z
    <3>1. y - x - 1 \in Nat /\ y = x + 1 + (y - x - 1)
      OBVIOUS
    <3> QED BY <3>1
  <2>2. d * y = d * x + d + d * z /\ d * z \in Nat /\ d * x \in Nat
    BY <2>1
  <2> QED BY <2>2
<1>6. ~(j + 1 <= k)
  BY <1>1, <1>3, <1>4, <1>5
<1>7. ~(k + 1 <= j)
  BY <1>1, <1>3, <1>5
<1>8. j = k
  BY <1>3, <1>6, <1>7
<1> QED
  BY <1>8 DEF FileNumber, D, j, k

\* A clock behind by less than two minutes is in the same slot, from two minutes
\* into a slot on.
LEMMA StillInSlot ==
  ASSUME NEW m \in Nat, m < 1440, NEW s \in Nat, 60 * m <= s, s <= 60 * m + 59,
         s >= 60 * FileNumber(m) + 120,
         NEW o \in Int, -118 <= o, o <= 0, NEW t, t = s + o
  PROVE  NumberAt(t) = FileNumber(m)
<1> DEFINE n == FileNumber(m) q == t \div 60
<1>1. n \in Nat /\ s >= 60 * n + 120
  BY NumberTyped
<1> HIDE DEF n
<1>2. t \in Nat /\ t < 86400 /\ t >= 60 * n + 2 /\ t <= 60 * m + 59
  BY <1>1
<1>3. q \in Nat /\ 60 * q <= t /\ t <= 60 * q + 59
  BY <1>2
<1> HIDE DEF q
<1>4. n <= q /\ q <= m
  BY <1>1, <1>2, <1>3
<1>5. FileNumber(q) = n
  BY <1>3, <1>4, SameSlot DEF n
<1>6. t % 86400 = t
  BY <1>2
<1> QED
  BY <1>5, <1>6 DEF NumberAt, n, q

\* A btcaster whose clock is behind the receiver's by a minute or more, by any
\* number of seconds, lets no file through that has the name of the one being
\* written, once the receiver is two minutes into the slot and as long as files are
\* created in the first minutes of their slots.
THEOREM BehindIsSafe == Skew <= -60 => (Spec => LiveIsSkipped)
<1> SUFFICES ASSUME Skew <= -60 PROVE Spec => LiveIsSkipped
  OBVIOUS
<1>1. ASSUME Typed, ~late, Settled, HandleFile, Len(todo') = Len(todo),
             \E o \in Offsets : LiveNumber' = NumberAt(SecondOfDay(Moments[now]) + o)
      PROVE  SlotPath \notin Namesakes(Subject)
  <2>1. todo \in Seq(Tasks(made, Files)) /\ todo # << >>
    BY <1>1 DEF HandleFile, Running, Typed, HandlerOK
  <2>2. Len(Tail(todo)) # Len(todo)
    BY <2>1
  <2>3. LiveNumber' # Subject[3]
    BY <1>1, <2>2 DEF HandleFile
  <2>4. Offsets \subseteq -118..0
    BY ConstantsAssumption DEF Offsets
  <2>5. PICK o \in -118..0 : LiveNumber' = NumberAt(SecondOfDay(Moments[now]) + o)
    BY <1>1, <2>4
  <2> DEFINE m == Moments[now].minute s == SecondOfDay(Moments[now]) t == s + o
  <2>6. m \in 0..1439 /\ s \in Nat /\ 60 * m <= s /\ s <= 60 * m + 59
    <3>1. now \in DOMAIN Moments
      BY <1>1 DEF Typed, DiskOK
    <3> QED
      BY <3>1, MomentTyped
  <2>7. SlotPath[3] = FileNumber(m)
    BY DEF SlotPath, PathOf
  <2>8. s >= 60 * FileNumber(m) + 120
    BY <1>1, <2>7 DEF Settled
  <2>9. NumberAt(t) = FileNumber(m)
    <3>1. o \in -118..0 /\ t = s + o
      BY <2>5
    <3> HIDE DEF m, s, t
    <3> QED
      BY ONLY <2>6, <2>8, <3>1, StillInSlot
  <2> QED
    BY <2>3, <2>5, <2>7, <2>9 DEF Namesakes
<1>2. Typed
        => ([~late /\ HandleFile
               => \E o \in Offsets :
                    LiveNumber' = NumberAt(SecondOfDay(Moments[now]) + o)]_vars
              => [~late /\ Settled /\ HandleFile /\ Len(todo') = Len(todo)
                    => SlotPath \notin Namesakes(Subject)]_vars)
  BY <1>1
<1> QED
  BY <1>2, LiveSlot, Invariance, PTL DEF LiveIsSkipped

-----------------------------------------------------------------------------
(* No file is forgotten.                                                   *)

LEMMA DirectoriesTyped ==
  ASSUME NEW d \in Directories
  PROVE  d \in Seq(Nat) /\ Len(d) \in 0..2
<1>1. PICK p \in Paths, n \in 0..2 : d = SubSeq(p, 1, n)
  BY DEF Directories
<1>2. p \in Seq(Nat) /\ Len(p) = 3
  BY PathTyped
<1> QED BY <1>1, <1>2

\* The way from the station to a file goes through a year and a day.
LEMMA OnTheWay ==
  ASSUME NEW f \in Paths
  PROVE  /\ \A n \in 0..3 : Len(SubSeq(f, 1, n)) = n /\ IsPrefix(SubSeq(f, 1, n), f)
         /\ \A n \in 1..3 : SubSeq(f, 1, n) # Station
                              /\ Front(SubSeq(f, 1, n)) = SubSeq(f, 1, n - 1)
         /\ SubSeq(f, 1, 3) = f
<1>1. f \in Seq(Nat) /\ Len(f) = 3
  BY PathTyped
<1>2. ASSUME NEW n \in 0..3
      PROVE  /\ SubSeq(f, 1, n) \in Seq(Nat) /\ Len(SubSeq(f, 1, n)) = n
             /\ \A i \in 1..n : SubSeq(f, 1, n)[i] = f[i]
  <2>1. n = 0 \/ n = 1 \/ n = 2 \/ n = 3
    OBVIOUS
  <2>2. 1..n \subseteq 1..Len(f)
    BY <1>1, <2>1
  <2>3. \A i \in 1..n : f[i] \in Nat
    <3>1. \A i \in 1..Len(f) : i \in DOMAIN f
      BY <1>1
    <3> QED
      BY <1>1, <2>2, <3>1, ElementTyped
  <2>4. SubSeq(f, 1, n) = [i \in 1..n |-> f[i]]
    BY <1>1, <2>1, <2>2
  <2> QED
    BY <2>1, <2>3, <2>4
<1>3. SubSeq(f, 1, 3) = f
  BY <1>1
<1>4. ASSUME NEW n \in 0..3, NEW m \in 0..n
      PROVE  SubSeq(SubSeq(f, 1, n), 1, m) = SubSeq(f, 1, m)
  BY <1>1
<1>5. ASSUME NEW n \in 0..3 PROVE IsPrefix(SubSeq(f, 1, n), f)
  BY <1>1, <1>2, <1>4 DEF IsPrefix
<1>6. ASSUME NEW n \in 1..3
      PROVE  SubSeq(f, 1, n) # Station /\ Front(SubSeq(f, 1, n)) = SubSeq(f, 1, n - 1)
  <2>1. n \in 0..3 /\ n - 1 \in 0..n
    OBVIOUS
  <2>2. Len(SubSeq(f, 1, n)) = n
    BY <1>2, <2>1
  <2>3. SubSeq(f, 1, n) # << >>
    <3>1. Len(<< >>) = 0 /\ n # 0
      OBVIOUS
    <3> QED BY ONLY <2>2, <3>1
  <2> QED BY <2>1, <2>2, <2>3, <1>4 DEF Station, Front
<1> QED BY <1>2, <1>3, <1>5, <1>6

\* A path above a file is a part of the way.
LEMMA AboveFile ==
  ASSUME NEW f \in Paths, NEW d \in Seq(Nat), IsPrefix(d, f)
  PROVE  d = SubSeq(f, 1, Len(d))
<1>1. SubSeq(d, 1, Len(d)) = d
  OBVIOUS
<1> QED BY <1>1 DEF IsPrefix

\* A listing holds every entry of the directory and nothing else.
LEMMA ListingComplete ==
  ASSUME NEW paths, IsFiniteSet(paths), NEW dir, NEW s \in Listings(paths, dir)
  PROVE  /\ \A k \in 1..Len(s) : s[k] \in paths /\ s[k] # Station /\ Front(s[k]) = dir
         /\ \A p \in paths : p # Station /\ Front(p) = dir => \E k \in 1..Len(s) : s[k] = p
         /\ Len(s) \in Nat
<1> DEFINE S == {p \in paths : p # Station /\ Front(p) = dir}
<1>1. S \in SUBSET paths
  OBVIOUS
<1>2. IsFiniteSet(S)
  BY <1>1, FS_Subset
<1>3. Cardinality(S) \in Nat
  BY <1>2, FS_CardinalityType
<1> DEFINE D == 1..Cardinality(S)
<1>4. s \in [D -> S] /\ \A i, j \in D : i # j => s[i] # s[j]
  BY DEF Listings, SetToSeqs
<1>5. \A p \in S : p \in paths /\ p # Station /\ Front(p) = dir
  OBVIOUS
<1>6. \A p \in paths : p # Station /\ Front(p) = dir => p \in S
  OBVIOUS
<1> HIDE DEF S
<1>7. Cardinality(D) = Cardinality(S)
  BY <1>3, FS_Interval
<1>8. Len(s) = Cardinality(S)
  BY <1>3, <1>4
<1>9. D = 1..Len(s)
  BY <1>8
<1> HIDE DEF D
<1>10. s \in Injection(D, S)
  BY <1>4 DEF Injection, IsInjective
<1>11. s \in Surjection(D, S)
  BY <1>2, <1>7, <1>10, FS_Injection
<1>12. \A p \in S : \E k \in D : s[k] = p
  BY <1>11 DEF Surjection
<1> QED BY <1>3, <1>4, <1>5, <1>6, <1>8, <1>9, <1>12

LEMMA OrderComplete ==
  ASSUME NEW S, IsFiniteSet(S), NEW s \in SetToSeqs(S)
  PROVE  /\ \A k \in 1..Len(s) : s[k] \in S
         /\ \A p \in S : \E k \in 1..Len(s) : s[k] = p
         /\ Len(s) \in Nat
<1>1. Cardinality(S) \in Nat
  BY FS_CardinalityType
<1> DEFINE D == 1..Cardinality(S)
<1>2. s \in [D -> S] /\ \A i, j \in D : i # j => s[i] # s[j]
  BY DEF SetToSeqs
<1>3. Cardinality(D) = Cardinality(S)
  BY <1>1, FS_Interval
<1>4. Len(s) = Cardinality(S)
  BY <1>1, <1>2
<1>5. D = 1..Len(s)
  BY <1>4
<1> HIDE DEF D
<1>6. s \in Injection(D, S)
  BY <1>2 DEF Injection, IsInjective
<1>7. s \in Surjection(D, S)
  BY <1>3, <1>6, FS_Injection
<1> QED BY <1>1, <1>2, <1>4, <1>5, <1>7 DEF Surjection

\* The calls made for a listing.
LEMMA EachComplete ==
  ASSUME NEW op, NEW s, Len(s) \in Nat, NEW calls, calls = Each(op, s)
  PROVE  /\ \A k \in DOMAIN calls : \E i \in 1..Len(s) : calls[k] = Task(op, s[i])
         /\ \A i \in 1..Len(s) : \E k \in DOMAIN calls : calls[k] = Task(op, s[i])
BY DEF Each

LEMMA DiveComplete ==
  ASSUME NEW op, NEW s, Len(s) \in Nat, NEW calls, calls = DiveAndWatch(op, s)
  PROVE  /\ \A k \in DOMAIN calls : \E i \in 1..Len(s) :
              calls[k] \in {Task(op, s[i]), Task("watch", s[i])}
         /\ \A i \in 1..Len(s) : \E k \in DOMAIN calls :
              calls[k] = Task(op, s[i])
<1> DEFINE n == Len(s)
<1>n. n \in Nat
  OBVIOUS
<1>1. DOMAIN calls = 1..(2 * n)
  BY DEF DiveAndWatch
<1>2. \A k \in 1..(2 * n) :
        calls[k] = Task(IF k % 2 = 1 THEN op ELSE "watch", s[(k + 1) \div 2])
  BY DEF DiveAndWatch
<1> HIDE DEF n
<1>3. ASSUME NEW k \in 1..(2 * n)
      PROVE  \E i \in 1..n : calls[k] \in {Task(op, s[i]), Task("watch", s[i])}
  <2>1. (k + 1) \div 2 \in 1..n
    BY <1>n
  <2> QED BY <1>2, <2>1
<1>4. ASSUME NEW i \in 1..n
      PROVE  \E k \in 1..(2 * n) : calls[k] = Task(op, s[i])
  <2>1. 2 * i - 1 \in 1..(2 * n) /\ (2 * i - 1) % 2 = 1 /\ ((2 * i - 1) + 1) \div 2 = i
    BY <1>n
  <2> QED BY <1>2, <2>1
<1> QED BY <1>1, <1>3, <1>4 DEF n

\* The calls left when the first has been replaced by others.
Continued(s, t) == s \o Tail(t)

LEMMA Replaced ==
  ASSUME NEW T, NEW t \in Seq(T), t # << >>, NEW s \in Seq(T), NEW w, w = Continued(s, t)
  PROVE  /\ \A k \in DOMAIN s : \E j \in DOMAIN w : w[j] = s[k]
         /\ \A k \in DOMAIN t : t[k] = Head(t) \/ \E j \in DOMAIN w : w[j] = t[k]
         /\ \A j \in DOMAIN w : \/ \E k \in DOMAIN s : w[j] = s[k]
                                \/ \E k \in DOMAIN t : w[j] = t[k]
<1> DEFINE u == Tail(t)
<1>w. w = s \o u
  BY DEF Continued
<1>1. /\ u \in Seq(T) /\ Len(u) = Len(t) - 1 /\ \A i \in 1..Len(u) : u[i] = t[i + 1]
      /\ Head(t) = t[1] /\ Len(t) \in Nat /\ Len(t) >= 1 /\ Len(s) \in Nat /\ Len(u) \in Nat
      /\ DOMAIN t = 1..Len(t) /\ DOMAIN s = 1..Len(s)
  OBVIOUS
<1> HIDE DEF u
<1>2. /\ DOMAIN w = 1..(Len(s) + Len(u))
      /\ \A i \in 1..Len(s) : w[i] = s[i]
      /\ \A i \in 1..Len(u) : w[Len(s) + i] = u[i]
  BY <1>1, <1>w
<1>3. \A k \in DOMAIN s : k \in DOMAIN w /\ w[k] = s[k]
  BY <1>1, <1>2
<1>4. ASSUME NEW k \in DOMAIN t, k # 1 PROVE \E j \in DOMAIN w : w[j] = t[k]
  <2>1. k - 1 \in 1..Len(u) /\ Len(s) + (k - 1) \in DOMAIN w /\ (k - 1) + 1 = k
    BY <1>1, <1>2, <1>4
  <2>2. w[Len(s) + (k - 1)] = u[k - 1] /\ u[k - 1] = t[k]
    BY <1>1, <1>2, <2>1
  <2> QED BY <2>1, <2>2
<1>5. ASSUME NEW j \in DOMAIN w
      PROVE  (\E k \in DOMAIN s : w[j] = s[k]) \/ (\E k \in DOMAIN t : w[j] = t[k])
  <2>1. CASE j \in 1..Len(s)
    BY <1>1, <1>2, <2>1
  <2>2. CASE j > Len(s)
    <3>1. j - Len(s) \in 1..Len(u) /\ Len(s) + (j - Len(s)) = j
      BY <1>1, <1>2, <2>2
    <3>2. w[j] = u[j - Len(s)] /\ u[j - Len(s)] = t[(j - Len(s)) + 1]
      BY <1>1, <1>2, <3>1
    <3>3. (j - Len(s)) + 1 \in DOMAIN t
      BY <1>1, <3>1
    <3> QED BY <3>2, <3>3
  <2> QED BY <1>1, <1>2, <2>1, <2>2
<1> QED BY <1>1, <1>3, <1>4, <1>5

LEMMA FrontLength ==
  ASSUME NEW d \in Seq(Nat), d # << >>
  PROVE  Len(Front(d)) = Len(d) - 1
<1>1. d \in Seq(Nat) /\ Len(d) \in Nat /\ Len(d) # 0
  OBVIOUS
<1>2. Len(d) - 1 \in 0..Len(d)
  BY <1>1
<1>3. \A n \in 0..Len(d) : Len(SubSeq(d, 1, n)) = n
  OBVIOUS
<1> QED BY <1>2, <1>3 DEF Front

\* What is called for which level of the tree.
Levelled(task) ==
  /\ task.op = "station" => Len(task.path) = 0
  /\ task.op = "year" => Len(task.path) = 1
  /\ task.op = "day" => Len(task.path) = 2

\* The directories above a directory or a file exist.
Closed ==
  /\ \A d \in made : Len(d) = 2 => SubSeq(d, 1, 1) \in made
  /\ \A f \in Files : SubSeq(f, 1, 1) \in made /\ SubSeq(f, 1, 2) \in made

Calls ==
  /\ \A k \in DOMAIN todo : Levelled(todo[k])
  /\ ~up => todo = << >> /\ watched = {} /\ due = {}

\* Inductive, unlike NotForgotten alone: that a call leads on to a file depends on
\* the tree being complete above it, on the level the call is made for, and on the
\* file being complete when it is looked at.
Pursued == Closed /\ Calls /\ (\A f \in due : size[f] = 2) /\ NotForgotten

\* NotForgotten, of one file that exists.
Leads(task, f) ==
  \/ task.op \in {"station", "year", "day", "file"} /\ IsPrefix(task.path, f)
  \/ task.op = "hash" /\ f[3] = task.path[3]

Followed(f, torrents, calls, dirs) ==
  \/ \E t \in torrents : f \in DOMAIN t /\ t[f] = 2
  \/ \E k \in DOMAIN calls : Leads(calls[k], f)
  \/ \E dir \in dirs : IsPrefix(dir, f)

LEMMA Restated ==
  ASSUME Typed, Typed'
  PROVE  /\ NotForgotten <=> \A f \in due : Followed(f, feed, todo, pending)
         /\ NotForgotten' <=> \A f \in due' : Followed(f, feed', todo', pending')
<1>1. due \subseteq Files /\ due' \subseteq Files'
  BY DEF Typed, HandlerOK
<1>2. ASSUME NEW f \in Files, NEW task PROVE LeadsTo(task, f) <=> Leads(task, f)
  BY DEF LeadsTo, Leads, Namesakes
<1>3. NotForgotten <=> \A f \in due : Followed(f, feed, todo, pending)
  BY <1>1, <1>2 DEF NotForgotten, Followed, Listed
<1>4. NotForgotten' <=> \A f \in due' : Followed(f, feed', todo', pending')
  BY <1>1 DEF NotForgotten, Followed, Listed, LeadsTo, Leads, Namesakes
<1> QED BY <1>3, <1>4

LEMMA PursuedInit == Init => Pursued
BY DEF Init, Pursued, Closed, Calls, NotForgotten, Files, Station

\* The broker changes a directory.
LEMMA Change ==
  ASSUME Typed, Typed', Pursued, Closed', NEW dir, Changed(dir), UNCHANGED <<up, handler>>,
         \A f \in Files : size[f] = 2 => size'[f] = 2
  PROVE  Pursued'
<1>1. UNCHANGED <<up, todo, watched, feed>>
  BY DEF handler
<1>2. /\ pending' = IF dir \in watched THEN pending \cup {dir} ELSE pending
      /\ due' = IF dir \in watched
                THEN due \cup {f \in Files' : size'[f] = 2 /\ IsPrefix(dir, f)}
                ELSE due
  BY DEF Changed, Files
<1>3. Calls'
  BY <1>1, <1>2 DEF Pursued, Calls, Levelled
<1>4. \A f \in due' : size'[f] = 2
  BY <1>2 DEF Pursued, Typed, HandlerOK
<1>5. \A f \in due : Followed(f, feed, todo, pending)
  BY Restated DEF Pursued
<1>6. \A f \in due' : Followed(f, feed', todo', pending')
  <2> SUFFICES ASSUME NEW f \in due' PROVE Followed(f, feed', todo', pending')
    OBVIOUS
  <2>1. CASE f \in due
    BY <1>1, <1>2, <1>5, <2>1 DEF Followed
  <2>2. CASE dir \in watched /\ IsPrefix(dir, f)
    BY <1>2, <2>2 DEF Followed
  <2> QED BY <1>2, <2>1, <2>2
<1>7. NotForgotten'
  BY <1>6, Restated
<1> QED
  BY <1>3, <1>4, <1>7 DEF Pursued

LEMMA MakePursued ==
  ASSUME Typed, Typed', Pursued, NEW i \in 1..2, MakeDirectory(SubSeq(SlotPath, 1, i))
  PROVE  Pursued'
<1> DEFINE dir == SubSeq(SlotPath, 1, i)
<1>1. made' = made \cup {dir} /\ UNCHANGED <<size, up, handler>> /\ Changed(Front(dir))
      /\ Front(dir) \in made
  BY DEF MakeDirectory
<1>2. SlotPath \in Paths
  BY DEF Typed, DiskOK, SlotPath, Paths
<1>3. Len(dir) = i /\ Front(dir) = SubSeq(SlotPath, 1, i - 1)
  <2>1. i \in 0..3 /\ i \in 1..3
    OBVIOUS
  <2> QED BY <1>2, <2>1, OnTheWay
<1>4. Len(dir) = 2 => SubSeq(dir, 1, 1) \in made
  <2> SUFFICES ASSUME i = 2 PROVE SubSeq(dir, 1, 1) \in made
    BY <1>3
  <2>1. SubSeq(dir, 1, 1) = Front(dir)
    BY <1>3 DEF Front
  <2> QED BY <1>1, <2>1
<1>5. Files' = Files
  BY <1>1 DEF Files
<1> HIDE DEF dir
<1>6. Closed'
  BY <1>1, <1>4, <1>5 DEF Closed, Pursued
<1> QED
  BY <1>1, <1>6, Change

LEMMA RotatePursued ==
  ASSUME Typed, Typed', Pursued, Rotate
  PROVE  Pursued'
<1>1. /\ size' = [f \in Files \cup {SlotPath} |->
                    IF f = SlotPath THEN 0 ELSE IF f = current THEN 2 ELSE size[f]]
      /\ current # SlotPath /\ Front(SlotPath) \in made
      /\ UNCHANGED <<made, up, handler>> /\ Changed(Front(SlotPath))
  BY DEF Rotate
<1>2. SlotPath \in Paths /\ SlotPath \notin Files
  BY <1>1 DEF Typed, DiskOK, SlotPath, Paths
<1>3. Files' = Files \cup {SlotPath}
  BY <1>1 DEF Files
<1>4. SubSeq(SlotPath, 1, 1) \in made /\ SubSeq(SlotPath, 1, 2) \in made
  <2>1. SlotPath \in Seq(Nat) /\ Len(SlotPath) = 3
    BY <1>2, PathTyped
  <2> DEFINE p == SlotPath  d == SubSeq(p, 1, 2)
  <2> HIDE DEF p
  <2>2. Front(p) = d /\ Len(d) = 2 /\ SubSeq(d, 1, 1) = SubSeq(p, 1, 1)
    BY <2>1 DEF Front, p
  <2> HIDE DEF d
  <2>3. d \in made
    BY <1>1, <2>2 DEF p
  <2>4. SubSeq(d, 1, 1) \in made
    BY <2>2, <2>3 DEF Pursued, Closed
  <2> QED BY <2>2, <2>3, <2>4 DEF p, d
<1>5. Closed'
  <2>1. \A f \in Files' : SubSeq(f, 1, 1) \in made /\ SubSeq(f, 1, 2) \in made
    BY <1>3, <1>4 DEF Pursued, Closed
  <2> QED BY <1>1, <2>1 DEF Pursued, Closed
<1>6. \A f \in Files : size[f] = 2 => size'[f] = 2
  BY <1>1, <1>2
<1> QED
  BY <1>1, <1>5, <1>6, Change

\* Steps that bring no news.
LEMMA Quiet ==
  ASSUME Typed, Typed', Pursued, UNCHANGED <<made, up, todo, watched, pending, feed, due>>,
         Files' = Files, \A f \in due : size'[f] = size[f]
  PROVE  Pursued'
<1>1. Closed'
  BY DEF Pursued, Closed
<1>2. Calls'
  BY DEF Pursued, Calls, Levelled
<1>3. NotForgotten'
  BY Restated DEF Pursued
<1> QED
  BY <1>1, <1>2, <1>3 DEF Pursued

LEMMA DiskPursued ==
  ASSUME Typed, Typed', Pursued, Flush \/ WriteTest \/ Tick \/ UNCHANGED vars
  PROVE  Pursued'
<1>1. CASE Flush
  <2>1. /\ current \in Files /\ size[current] = 0 /\ size' = [size EXCEPT ![current] = 1]
        /\ UNCHANGED <<made, up, todo, watched, pending, feed, due>>
    BY <1>1 DEF Flush, Typed, DiskOK, handler
  <2>2. Files' = Files
    BY <2>1 DEF Files
  <2>3. \A f \in due : f # current /\ f \in DOMAIN size
    BY <2>1 DEF Pursued, Typed, HandlerOK, Files
  <2> QED BY <2>1, <2>2, <2>3, Quiet
<1>2. CASE WriteTest
  <2>1. UNCHANGED <<made, size, up, handler>> /\ Changed(Station)
    BY <1>2 DEF WriteTest, disk
  <2>2. Files' = Files
    BY <2>1 DEF Files
  <2>3. Closed'
    BY <2>1, <2>2 DEF Pursued, Closed
  <2> QED BY <2>1, <2>3, Change
<1>3. CASE Tick \/ UNCHANGED vars
  <2>1. UNCHANGED <<made, size, up, todo, watched, pending, feed, due>>
    BY <1>3 DEF Tick, vars, disk, handler
  <2> QED BY <2>1, Quiet DEF Files
<1> QED BY <1>1, <1>2, <1>3

\* A handler's first call is replaced by those it makes: if it led to a file, one of
\* them does, unless the file is listed now.
LEMMA Handling ==
  ASSUME Typed, Typed', Pursued, todo # << >>, UNCHANGED disk, up' = up, pending' = pending,
         due' \subseteq due, feed \subseteq feed',
         NEW s \in Seq(Tasks(made, Files)), todo' = s \o Tail(todo),
         \A k \in DOMAIN s : Levelled(s[k]),
         \A f \in due' : Leads(Head(todo), f) => Followed(f, feed', s, pending)
  PROVE  Pursued'
<1> DEFINE T == Tasks(made, Files)
<1>1. todo \in Seq(T)
  BY DEF Typed, HandlerOK
<1>2. UNCHANGED <<made, size>> /\ Files' = Files
  BY DEF disk, Files
<1> HIDE DEF T
<1>3. /\ \A k \in DOMAIN s : \E j \in DOMAIN todo' : todo'[j] = s[k]
      /\ \A k \in DOMAIN todo : todo[k] = Head(todo)
                                  \/ \E j \in DOMAIN todo' : todo'[j] = todo[k]
      /\ \A j \in DOMAIN todo' : \/ \E k \in DOMAIN s : todo'[j] = s[k]
                                 \/ \E k \in DOMAIN todo : todo'[j] = todo[k]
  <2> DEFINE t == todo  w == todo'
  <2>1. t \in Seq(T) /\ t # << >> /\ s \in Seq(T) /\ w = Continued(s, t)
    BY <1>1 DEF T, Continued
  <2> HIDE DEF t, w
  <2>2. /\ \A k \in DOMAIN s : \E j \in DOMAIN w : w[j] = s[k]
        /\ \A k \in DOMAIN t : t[k] = Head(t) \/ \E j \in DOMAIN w : w[j] = t[k]
        /\ \A j \in DOMAIN w : \/ \E k \in DOMAIN s : w[j] = s[k]
                               \/ \E k \in DOMAIN t : w[j] = t[k]
    BY ONLY <2>1, Replaced
  <2> QED BY ONLY <2>2 DEF t, w
<1>4. up
  BY DEF Pursued, Calls
<1>5. \A k \in DOMAIN todo' : Levelled(todo'[k])
  <2>1. \A k \in DOMAIN todo : Levelled(todo[k])
    BY DEF Pursued, Calls
  <2> QED BY <1>3, <2>1
<1>6. Calls'
  BY <1>4, <1>5 DEF Calls, Levelled
<1>7. Closed'
  BY <1>2 DEF Pursued, Closed
<1>8. \A f \in due' : size'[f] = 2
  BY <1>2 DEF Pursued
<1>9. ASSUME NEW f \in due' PROVE Followed(f, feed', todo', pending')
  <2>1. Followed(f, feed, todo, pending)
    BY Restated DEF Pursued
  <2>2. CASE \E t \in feed : f \in DOMAIN t /\ t[f] = 2
    BY <2>2 DEF Followed
  <2>3. CASE \E dir \in pending : IsPrefix(dir, f)
    BY <2>3 DEF Followed
  <2>4. CASE Leads(Head(todo), f)
    <3>1. Followed(f, feed', s, pending)
      BY <2>4
    <3> QED BY <1>3, <3>1 DEF Followed
  <2>5. ASSUME NEW k \in DOMAIN todo, Leads(todo[k], f), ~Leads(Head(todo), f)
        PROVE  Followed(f, feed', todo', pending')
    <3>1. PICK j \in DOMAIN todo' : todo'[j] = todo[k]
      BY <1>3, <2>5
    <3>2. Leads(todo'[j], f)
      BY <2>5, <3>1
    <3> QED BY <3>2 DEF Followed
  <2> QED BY <2>1, <2>2, <2>3, <2>4, <2>5 DEF Followed
<1>10. NotForgotten'
  BY <1>9, Restated
<1> QED
  BY <1>6, <1>7, <1>8, <1>10 DEF Pursued

\* The same, if the handler calls nothing.
LEMMA HandledLast ==
  ASSUME Typed, Typed', Pursued, todo # << >>, UNCHANGED disk, up' = up, pending' = pending,
         due' \subseteq due, feed \subseteq feed', todo' = Tail(todo),
         \A f \in due' : Leads(Head(todo), f) => \E t \in feed' : f \in DOMAIN t /\ t[f] = 2
  PROVE  Pursued'
<1> DEFINE s == << >>
<1>1. s \in Seq(Tasks(made, Files)) /\ DOMAIN s = {}
  OBVIOUS
<1>2. Tail(todo) \in Seq(Tasks(made, Files))
  BY HeadTyped
<1>3. todo' = s \o Tail(todo)
  BY <1>2
<1> HIDE DEF s
<1> QED
  BY <1>1, <1>3, Handling DEF Followed

\* The entry of a directory that is on the way to a file.
LEMMA Onward ==
  ASSUME Typed, Closed, NEW f \in Files, NEW d \in made, IsPrefix(d, f)
  PROVE  /\ Len(d) = 0 => SubSeq(f, 1, 1) \in made /\ Front(SubSeq(f, 1, 1)) = d
         /\ Len(d) = 1 => SubSeq(f, 1, 2) \in made /\ Front(SubSeq(f, 1, 2)) = d
         /\ Len(d) = 2 => Front(f) = d
         /\ \A n \in 1..3 : SubSeq(f, 1, n) # Station /\ IsPrefix(SubSeq(f, 1, n), f)
         /\ f # Station
<1>1. f \in Paths /\ d \in Directories
  BY DEF Typed, DiskOK
<1>2. d \in Seq(Nat) /\ Len(d) \in 0..2
  BY <1>1, DirectoriesTyped
<1>3. d = SubSeq(f, 1, Len(d))
  BY <1>1, <1>2, AboveFile
<1>4. \A n \in 1..3 : SubSeq(f, 1, n) # Station
                        /\ Front(SubSeq(f, 1, n)) = SubSeq(f, 1, n - 1)
                        /\ IsPrefix(SubSeq(f, 1, n), f)
  <2>1. \A n \in 1..3 : n \in 0..3
    OBVIOUS
  <2> QED BY <1>1, <2>1, OnTheWay
<1>5. SubSeq(f, 1, 3) = f
  BY <1>1, OnTheWay
<1>6. /\ Front(SubSeq(f, 1, 1)) = SubSeq(f, 1, 0) /\ Front(SubSeq(f, 1, 2)) = SubSeq(f, 1, 1)
      /\ Front(f) = SubSeq(f, 1, 2) /\ f # Station
  <2>1. 1 \in 1..3 /\ 2 \in 1..3 /\ 3 \in 1..3 /\ 1 - 1 = 0 /\ 2 - 1 = 1 /\ 3 - 1 = 2
    OBVIOUS
  <2>2. Front(SubSeq(f, 1, 3)) = SubSeq(f, 1, 2) /\ SubSeq(f, 1, 3) # Station
    BY <1>4, <2>1
  <2> QED BY <1>4, <1>5, <2>1, <2>2
<1>7. SubSeq(f, 1, 1) \in made /\ SubSeq(f, 1, 2) \in made
  BY DEF Closed
<1> QED BY <1>3, <1>4, <1>6, <1>7

\* An entry is one level down.
LEMMA EntryLength ==
  ASSUME Typed, NEW p \in made, p # Station
  PROVE  Len(p) = Len(Front(p)) + 1
<1>1. p \in Seq(Nat) /\ p # << >>
  BY DirectoriesTyped DEF Typed, DiskOK, Station
<1>2. Len(Front(p)) = Len(p) - 1 /\ Len(p) \in Nat
  BY <1>1, FrontLength
<1> QED BY <1>2

LEMMA DirectoryPursued ==
  ASSUME Typed, Typed', Pursued, HandleStation \/ HandleYear \/ HandleDay
  PROVE  Pursued'
<1>1. /\ todo # << >> /\ IsFiniteSet(made) /\ IsFiniteSet(Files)
      /\ UNCHANGED disk /\ UNCHANGED <<up, pending, due, feed>>
  BY DEF HandleStation, HandleYear, HandleDay, Running, Typed, DiskOK
<1>2. due' \subseteq Files /\ Closed /\ Levelled(Head(todo))
  <2>1. 1 \in DOMAIN todo /\ Head(todo) = todo[1]
    <3> DEFINE T == Tasks(made, Files)
    <3>1. todo \in Seq(T)
      BY DEF Typed, HandlerOK
    <3> HIDE DEF T
    <3> QED BY <1>1, <3>1
  <2> QED BY <1>1, <2>1 DEF Typed, HandlerOK, Pursued, Calls
<1>3. ASSUME NEW op \in {"year", "day"}, NEW n \in {0, 1}, op = "year" <=> n = 0,
             Subject \in made, Len(Subject) = n, Head(todo).op \notin {"file", "hash"},
             NEW s \in Listings(made, Subject), todo' = DiveAndWatch(op, s) \o Tail(todo)
      PROVE  Pursued'
  <2> DEFINE calls == DiveAndWatch(op, s)
  <2>1. calls \in Seq(Tasks(made, Files))
    BY <1>1, <1>3, ListingTyped, DiveTyped
  <2>2. /\ \A k \in 1..Len(s) : s[k] \in made /\ s[k] # Station /\ Front(s[k]) = Subject
        /\ \A p \in made : p # Station /\ Front(p) = Subject => \E k \in 1..Len(s) : s[k] = p
        /\ Len(s) \in Nat
    BY <1>1, <1>3, ListingComplete
  <2>3. /\ \A k \in DOMAIN calls : \E i \in 1..Len(s) :
             calls[k] \in {Task(op, s[i]), Task("watch", s[i])}
        /\ \A i \in 1..Len(s) : \E k \in DOMAIN calls : calls[k] = Task(op, s[i])
    <3>1. Len(s) \in Nat /\ calls = DiveAndWatch(op, s)
      BY <2>2
    <3> HIDE DEF calls
    <3> QED BY ONLY <3>1, DiveComplete
  <2> HIDE DEF calls
  <2>4. \A k \in DOMAIN calls : Levelled(calls[k])
    <3> SUFFICES ASSUME NEW k \in DOMAIN calls PROVE Levelled(calls[k])
      OBVIOUS
    <3>1. PICK i \in 1..Len(s) : calls[k] \in {Task(op, s[i]), Task("watch", s[i])}
      BY <2>3
    <3>2. Len(s[i]) = n + 1
      BY <1>3, <2>2, EntryLength
    <3>3. op = "year" => Len(s[i]) = 1
      BY <1>3, <3>2
    <3>4. op = "day" => Len(s[i]) = 2
      BY <1>3, <3>2
    <3> QED BY <3>1, <3>3, <3>4 DEF Levelled, Task
  <2>5. ASSUME NEW f \in due', Leads(Head(todo), f)
        PROVE  Followed(f, feed', calls, pending)
    <3>1. f \in Files /\ IsPrefix(Subject, f)
      BY <1>2, <1>3, <2>5 DEF Leads, Subject
    <3>2. SubSeq(f, 1, n + 1) \in made /\ Front(SubSeq(f, 1, n + 1)) = Subject
      <4>1. CASE n = 0
        BY <1>2, <1>3, <3>1, <4>1, Onward
      <4>2. CASE n = 1
        BY <1>2, <1>3, <3>1, <4>2, Onward
      <4> QED BY <4>1, <4>2
    <3>3. SubSeq(f, 1, n + 1) # Station /\ IsPrefix(SubSeq(f, 1, n + 1), f)
      <4>1. n + 1 \in 1..3
        BY <1>3
      <4> QED BY <1>2, <1>3, <3>1, <4>1, Onward
    <3>4. PICK i \in 1..Len(s) : s[i] = SubSeq(f, 1, n + 1)
      BY <2>2, <3>2, <3>3
    <3>5. PICK k \in DOMAIN calls : calls[k] = Task(op, s[i])
      BY <2>3
    <3>6. Leads(calls[k], f)
      BY <3>3, <3>4, <3>5 DEF Leads, Task
    <3> QED BY <3>6 DEF Followed
  <2>6. todo' = calls \o Tail(todo)
    BY <1>3 DEF calls
  <2> QED
    BY <1>1, <2>1, <2>4, <2>5, <2>6, Handling
<1>4. CASE HandleStation
  <2>1. Running("station") /\ \E s \in Listings(made, Subject) :
          todo' = DiveAndWatch("year", s) \o Tail(todo)
    BY <1>4 DEF HandleStation
  <2>2. Subject \in made /\ Len(Subject) = 0
    BY <1>1, <1>2, <2>1, HeadTyped DEF Levelled, Running, Subject
  <2> QED BY <1>3, <2>1, <2>2 DEF Running
<1>5. CASE HandleYear
  <2>1. Running("year") /\ \E s \in Listings(made, Subject) :
          todo' = DiveAndWatch("day", s) \o Tail(todo)
    BY <1>5 DEF HandleYear
  <2>2. Subject \in made /\ Len(Subject) = 1
    BY <1>1, <1>2, <2>1, HeadTyped DEF Levelled, Running, Subject
  <2> QED BY <1>3, <2>1, <2>2 DEF Running
<1>6. CASE HandleDay
  <2>1. Running("day")
    BY <1>6 DEF HandleDay
  <2>2. PICK s \in Listings(Files, Subject) : todo' = Each("file", s) \o Tail(todo)
    BY <1>6 DEF HandleDay
  <2>3. Subject \in made /\ Len(Subject) = 2
    BY <1>1, <1>2, <2>1, HeadTyped DEF Levelled, Running, Subject
  <2> DEFINE calls == Each("file", s)
  <2>4. calls \in Seq(Tasks(made, Files))
    BY <1>1, ListingTyped, EachTyped DEF Op
  <2>5. /\ \A p \in Files : p # Station /\ Front(p) = Subject => \E k \in 1..Len(s) : s[k] = p
        /\ Len(s) \in Nat
    BY <1>1, ListingComplete
  <2>6. /\ \A k \in DOMAIN calls : \E i \in 1..Len(s) : calls[k] = Task("file", s[i])
        /\ \A i \in 1..Len(s) : \E k \in DOMAIN calls : calls[k] = Task("file", s[i])
    <3>1. Len(s) \in Nat /\ calls = Each("file", s)
      BY <2>5
    <3> HIDE DEF calls
    <3> QED BY ONLY <3>1, EachComplete
  <2>7. todo' = calls \o Tail(todo)
    BY <2>2
  <2> HIDE DEF calls
  <2>8. \A k \in DOMAIN calls : Levelled(calls[k])
    BY <2>6 DEF Levelled, Task
  <2>9. ASSUME NEW f \in due', Leads(Head(todo), f)
        PROVE  Followed(f, feed', calls, pending)
    <3>1. f \in Files /\ IsPrefix(Subject, f)
      BY <1>2, <2>1, <2>9 DEF Leads, Subject, Running
    <3>2. Front(f) = Subject /\ f # Station
      BY <1>2, <2>3, <3>1, Onward
    <3>3. PICK i \in 1..Len(s) : s[i] = f
      BY <2>5, <3>1, <3>2
    <3>4. PICK k \in DOMAIN calls : calls[k] = Task("file", s[i])
      BY <2>6
    <3>5. IsPrefix(f, f)
      BY <3>1, PathTyped DEF IsPrefix, Typed, DiskOK
    <3>6. Leads(calls[k], f)
      BY <3>3, <3>4, <3>5 DEF Leads, Task
    <3> QED BY <3>6 DEF Followed
  <2> QED
    BY <1>1, <2>4, <2>7, <2>8, <2>9, Handling
<1> QED BY <1>4, <1>5, <1>6

LEMMA AddPathPursued ==
  ASSUME Typed, Typed', Pursued, AddPath
  PROVE  Pursued'
<1>1. /\ todo # << >> /\ Head(todo).op = "watch" /\ todo' = Tail(todo) /\ UNCHANGED disk
      /\ UNCHANGED <<up, pending, due, feed>>
  BY DEF AddPath, Running
<1>2. \A f \in due' : ~Leads(Head(todo), f)
  BY <1>1 DEF Leads
<1> QED BY <1>1, <1>2, HandledLast

\* A file that is not taken for live is hashed, being complete.
LEMMA FilePursued ==
  ASSUME Typed, Typed', Pursued, HandleFile
  PROVE  Pursued'
<1>1. /\ todo # << >> /\ Running("file") /\ UNCHANGED disk
      /\ UNCHANGED <<up, pending, feed>>
      /\ todo' = IF size[Subject] = 0 \/ LiveNumber' = Subject[3]
                 THEN Tail(todo)
                 ELSE <<Task("hash", Subject)>> \o Tail(todo)
      /\ due' = IF LiveNumber' = Subject[3] THEN due \ {Subject} ELSE due
  BY DEF HandleFile, Running
<1>2. Subject \in Files /\ due' \subseteq due /\ due \subseteq Files
  BY <1>1, HeadTyped DEF Typed, HandlerOK
<1>3. ASSUME NEW f \in due', Leads(Head(todo), f) PROVE f = Subject
  <2>1. IsPrefix(Subject, f)
    BY <1>1, <1>3 DEF Leads, Running, Subject
  <2>2. f \in Paths /\ Subject \in Seq(Nat) /\ Len(Subject) = 3
    BY <1>2, PathTyped DEF Typed, DiskOK
  <2>3. Subject = SubSeq(f, 1, 3)
    BY <2>1, <2>2, AboveFile
  <2> QED BY <2>2, <2>3, OnTheWay
<1>4. CASE size[Subject] = 0 \/ LiveNumber' = Subject[3]
  <2>1. \A f \in due' : f # Subject
    BY <1>1, <1>2, <1>4 DEF Pursued
  <2>2. \A f \in due' : ~Leads(Head(todo), f)
    BY <1>3, <2>1
  <2>3. todo' = Tail(todo) /\ feed \subseteq feed'
    BY <1>1, <1>4
  <2> QED BY <1>1, <1>2, <2>2, <2>3, HandledLast
<1>5. CASE ~(size[Subject] = 0 \/ LiveNumber' = Subject[3])
  <2> DEFINE s == <<Task("hash", Subject)>>
  <2>1. s \in Seq(Tasks(made, Files)) /\ DOMAIN s = {1} /\ s[1] = Task("hash", Subject)
    <3>1. Task("hash", Subject) \in Tasks(made, Files)
      BY <1>2 DEF Task, Tasks
    <3> QED BY <3>1
  <2>2. todo' = s \o Tail(todo) /\ feed \subseteq feed'
    BY <1>1, <1>5
  <2> HIDE DEF s
  <2>3. \A k \in DOMAIN s : Levelled(s[k])
    BY <2>1 DEF Levelled, Task
  <2>4. \A f \in due' : Leads(Head(todo), f) => Followed(f, feed', s, pending)
    <3>1. Leads(s[1], Subject)
      BY <2>1 DEF Leads, Task
    <3> QED BY <1>3, <2>1, <3>1 DEF Followed
  <2> QED BY <1>1, <1>2, <2>1, <2>2, <2>3, <2>4, Handling
<1> QED BY <1>4, <1>5

\* A torrent lists every file of the number, those that are due with what they hold.
LEMMA HashPursued ==
  ASSUME Typed, Typed', Pursued, Hash
  PROVE  Pursued'
<1>1. /\ todo # << >> /\ Head(todo).op = "hash" /\ todo' = Tail(todo) /\ UNCHANGED disk
      /\ UNCHANGED <<up, pending, due>>
      /\ feed' = feed \cup {[g \in Namesakes(Subject) |-> size[g]]}
  BY DEF Hash, Running
<1>2. ASSUME NEW f \in due', Leads(Head(todo), f)
      PROVE  \E t \in feed' : f \in DOMAIN t /\ t[f] = 2
  <2>1. f \in Files /\ size[f] = 2
    BY <1>1 DEF Typed, HandlerOK, Pursued
  <2>2. f \in Namesakes(Subject)
    BY <1>1, <1>2, <2>1 DEF Leads, Subject, Namesakes
  <2> DEFINE t == [g \in Namesakes(Subject) |-> size[g]]
  <2>3. t \in feed' /\ f \in DOMAIN t /\ t[f] = 2
    BY <1>1, <2>1, <2>2
  <2> QED BY <2>3
<1> QED BY <1>1, <1>2, HandledLast

LEMMA StartStopPursued ==
  ASSUME Typed, Typed', Pursued, Start \/ Stop
  PROVE  Pursued'
<1>1. UNCHANGED <<made, size>> /\ Files' = Files /\ due' = {}
  BY DEF Start, Stop, disk, Files, Pursued, Calls
<1>2. Closed'
  BY <1>1 DEF Pursued, Closed
<1>3. Calls'
  <2>1. CASE Start
    BY <2>1 DEF Start, Calls, Levelled, Task, Station
  <2>2. CASE Stop
    BY <1>1, <2>2 DEF Stop, Calls
  <2> QED BY <2>1, <2>2
<1>4. NotForgotten'
  BY <1>1 DEF NotForgotten
<1> QED
  BY <1>1, <1>2, <1>3, <1>4 DEF Pursued

\* The directories of one watcher are handled, each by the call of its level.
LEMMA NotifyPursued ==
  ASSUME Typed, Typed', Pursued, NEW level \in 0..2, Notify(level)
  PROVE  Pursued'
<1> DEFINE changed == {dir \in pending : Len(dir) = level}
<1>1. PICK order \in SetToSeqs(changed) : todo' = Each(Level[level + 1], order)
  BY DEF Notify
<1>2. /\ up /\ todo = << >> /\ pending' = pending \ changed
      /\ UNCHANGED disk /\ UNCHANGED <<up, feed, due>>
  BY DEF Notify
<1>3. IsFiniteSet(changed) /\ \A d \in pending : d \in changed <=> Len(d) = level
  <2>1. changed \in SUBSET made /\ IsFiniteSet(made)
    BY DEF Typed, HandlerOK, DiskOK
  <2> QED
    BY <2>1, FS_Subset
<1>4. \A d \in changed : Len(d) = level
  OBVIOUS
<1> HIDE DEF changed
<1>5. /\ \A k \in 1..Len(order) : order[k] \in changed
      /\ \A d \in changed : \E k \in 1..Len(order) : order[k] = d
      /\ Len(order) \in Nat
  BY <1>3, OrderComplete
<1> DEFINE op == Level[level + 1]  calls == todo'
<1>6. /\ \A k \in DOMAIN calls : \E i \in 1..Len(order) : calls[k] = Task(op, order[i])
      /\ \A i \in 1..Len(order) : \E k \in DOMAIN calls : calls[k] = Task(op, order[i])
  <2>1. Len(order) \in Nat /\ calls = Each(op, order)
    BY <1>1, <1>5
  <2> HIDE DEF op, calls
  <2> QED BY ONLY <2>1, EachComplete
<1>7. /\ op \in {"station", "year", "day"} /\ (op = "station" => level = 0)
      /\ (op = "year" => level = 1) /\ (op = "day" => level = 2)
  BY DEF Level
<1> HIDE DEF op
<1>8. \A k \in DOMAIN calls : Levelled(calls[k])
  <2> HIDE DEF calls
  <2> SUFFICES ASSUME NEW k \in DOMAIN calls PROVE Levelled(calls[k])
    OBVIOUS
  <2>1. PICK i \in 1..Len(order) : calls[k] = Task(op, order[i])
    BY <1>6
  <2>2. Len(order[i]) = level
    BY <1>4, <1>5
  <2>3. calls[k].op = op /\ calls[k].path = order[i]
    BY <2>1 DEF Task
  <2> QED BY <1>7, <2>2, <2>3 DEF Levelled
<1>9. Calls'
  BY <1>2, <1>8 DEF Calls, Levelled
<1>10. UNCHANGED <<made, size>> /\ Files' = Files
  BY <1>2 DEF disk, Files
<1>11. Closed' /\ \A f \in due' : size'[f] = 2
  BY <1>2, <1>10 DEF Pursued, Closed
<1>12. ASSUME NEW f \in due' PROVE Followed(f, feed', todo', pending')
  <2>1. Followed(f, feed, << >>, pending)
    BY <1>2, Restated DEF Pursued
  <2>2. ASSUME NEW d \in changed, IsPrefix(d, f)
        PROVE  Followed(f, feed', todo', pending')
    <3>1. PICK i \in 1..Len(order) : order[i] = d
      BY <1>5
    <3>2. PICK k \in DOMAIN calls : calls[k] = Task(op, d)
      BY <1>6, <3>1
    <3>3. Leads(calls[k], f)
      BY <1>7, <2>2, <3>2 DEF Leads, Task
    <3> QED BY <3>3 DEF Followed
  <2> QED BY <1>2, <2>1, <2>2 DEF Followed
<1>13. NotForgotten'
  BY <1>12, Restated
<1> QED
  BY <1>9, <1>11, <1>13 DEF Pursued

LEMMA PursuedNext == Typed /\ Typed' /\ Pursued /\ [Next]_vars => Pursued'
BY MakePursued, RotatePursued, DiskPursued, StartStopPursued, NotifyPursued,
   DirectoryPursued, AddPathPursued, FilePursued, HashPursued DEF Next, Handle

\* Through any interleaving of the broker's rotations, the notifications and the
\* handlers' calls, for all clocks and skews, a complete file below a watched
\* directory that changed stays within reach until it is listed or taken for live.
THEOREM NoneForgotten == Spec => []NotForgotten
<1>1. Init => Pursued
  BY PursuedInit
<1>2. Typed /\ Typed' /\ Pursued /\ [Next]_vars => Pursued'
  BY PursuedNext
<1>3. Pursued => NotForgotten
  BY DEF Pursued
<1> QED
  BY <1>1, <1>2, <1>3, Invariance, PTL DEF Spec

=============================================================================
