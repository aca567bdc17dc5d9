--------------------------- MODULE MailImport_proofs ---------------------------
(* Theorems about MailImport, for any number of jobs on the mailbox, every    *)
(* set of messages and labels, both policies and modes, every set of refused  *)
(* forms and every fault budget.                                              *)
EXTENDS MailImport, FiniteSetTheorems, SequenceTheorems, TLAPS

\* The paths of a message are those of different folders: none of its labels is
\* named like the folder of a system label it has, and no two of them are alike.
UniquePaths ==
  \A m \in Msgs : \A j, k \in DOMAIN Targets[m] : Targets[m][j] = Targets[m][k] => j = k

Walking == {"folder", "post", "refind"}
Unrecorded == {"attach", "patch", "record"}

\* Current and Cached, of a target and of the paths in a cache.
CurrentOf(t, D) == CHOOSE p \in PartsOf(t) \ D : Front(p) \in D \cup {<<>>}
Longest(p, t, D) ==
  p \in PartsOf(t) \cap D /\ \A q \in PartsOf(t) \cap D : Len(q) <= Len(p)

\* A cache tells the truth: a path is cached as the folder that has it, which
\* exists, and so is everything above it.
CacheOK(c, F) ==
  \A p \in DOMAIN c : p \in Paths /\ c[p] = p /\ p \in F \cup WellKnown /\ PartsOf(p) \subseteq DOMAIN c

\* A job is at a place of the walk that goes with its cache and the tenant.
PlaceOK(at, t, D, F) ==
  /\ at \in Walking => t \notin D
  /\ at \in {"post", "refind"} => CurrentOf(t, D) \notin WellKnown
  /\ at = "refind" => CurrentOf(t, D) \in F
  /\ at \in {"select", "insert"} => \E p \in PartsOf(t) : Longest(p, t, D)
  /\ at \in Unrecorded \cup {"import"} => t \in D

HandOK(at, h, n) == at \notin {"idle", "loop"} => h \in Msgs /\ n \in DOMAIN Targets[h]

JobOK(w) ==
  /\ HandOK(pc[w], hand[w], nth[w])
  /\ CacheOK(cache[w], folders)
  /\ PlaceOK(pc[w], Target(w), DOMAIN cache[w], folders)
Jobs ==
  /\ DOMAIN cache = Workers /\ DOMAIN nth = Workers
  /\ \A w \in Workers : JobOK(w)

\* One row for a path, at most, or one job about to insert it, unless it was raced for.
Inserting(w, p) == pc[w] = "insert" /\ Cached(w) = p
RowsUnique ==
  \A p \in Paths \ raced :
    /\ Count(p, rows) <= 1
    /\ \A v \in Workers : Inserting(v, p) => Count(p, rows) = 0
    /\ \A v, w \in Workers : Inserting(v, p) /\ Inserting(w, p) => v = w

\* A message no two jobs had in hand is in one job's hands at most, and that job is
\* past its primary folder when the message is done.
HandsApart ==
  \A m \in Msgs \ shared :
    /\ \A v, w \in Workers : hand[v] = m /\ hand[w] = m => v = w
    /\ \A w \in Workers : hand[w] = m => (status[m] = "done" <=> nth[w] # 1)

\* Its copies: in the primary folder, and in another one.
Recorded(m) == IF status[m] = "done" THEN 1 ELSE 0
Held(m) == \E w \in Workers : hand[w] = m /\ nth[w] = 1 /\ pc[w] \in Unrecorded
ToCome(m, k) ==
  \E w \in Workers : hand[w] = m /\ (nth[w] < k \/ (nth[w] = k /\ pc[w] \notin Unrecorded))
Lost(m, k) == Count(<<m, Targets[m][k]>>, orphaned)
Made(m, k) == Count(<<m, Targets[m][k]>>, copies)
CountOK(m, k) ==
  IF k = 1
  THEN Made(m, k) = Recorded(m) + Lost(m, k) + (IF Held(m) THEN 1 ELSE 0)
  ELSE /\ Made(m, k) <= Recorded(m) + Lost(m, k)
       /\ ToCome(m, k) => Made(m, k) <= Lost(m, k)
Counts == \A m \in Msgs \ shared : \A k \in DOMAIN Targets[m] : CountOK(m, k)

-----------------------------------------------------------------------------
(* Paths *)

Names == Seq(STRING)

\* The parts of a path are its beginnings, one of each length.
LEMMA IsPart ==
  ASSUME NEW t \in Names, NEW l \in 1..Len(t)
  PROVE  /\ SubSeq(t, 1, l) \in PartsOf(t)
         /\ SubSeq(t, 1, l) \in Names
         /\ Len(SubSeq(t, 1, l)) = l
<1>1. Len(t) \in Nat /\ \A i \in 1..l : t[i] \in STRING
  BY DEF Names
<1>2. SubSeq(t, 1, l) \in Names /\ Len(SubSeq(t, 1, l)) = l
  BY <1>1, SubSeqProperties DEF Names
<1>3. Len(<<>>) = 0 /\ l # 0 /\ l \in 0..Len(t)
  BY <1>1
<1>4. SubSeq(t, 1, l) # <<>>
  BY <1>2, <1>3
<1> QED
  BY <1>2, <1>3, <1>4 DEF PartsOf, Prefixes

LEMMA PartIs ==
  ASSUME NEW t \in Names, NEW p \in PartsOf(t)
  PROVE  /\ Len(p) \in 1..Len(t)
         /\ Len(p) \in Nat
         /\ p = SubSeq(t, 1, Len(p))
         /\ p \in Names
         /\ p # <<>>
<1>1. PICK l \in 0..Len(t) : p = SubSeq(t, 1, l)
  BY DEF PartsOf, Prefixes
<1>2. p # <<>>
  BY DEF PartsOf
<1>3. Len(t) \in Nat
  BY DEF Names
<1>4. l # 0
  <2> SUFFICES ASSUME l = 0 PROVE FALSE
    OBVIOUS
  <2>1. SubSeq(t, 1, 0) = <<>>
    BY SubSeqEmpty
  <2> QED
    BY <2>1, <1>1, <1>2
<1>5. l \in 1..Len(t)
  BY <1>3, <1>4
<1>6. p \in Names /\ Len(p) = l
  BY <1>1, <1>5, IsPart
<1> QED
  BY <1>1, <1>2, <1>3, <1>5, <1>6

\* A beginning of a beginning.
LEMMA PartsOfParts ==
  ASSUME NEW t \in Names, NEW q \in PartsOf(t)
  PROVE  PartsOf(q) = {p \in PartsOf(t) : Len(p) <= Len(q)}
<1> DEFINE j == Len(q)
<1>1. j \in 1..Len(t) /\ q = SubSeq(t, 1, j) /\ Len(t) \in Nat /\ q \in Names
  BY PartIs DEF Names
<1> HIDE DEF j
<1>2. ASSUME NEW n \in 1..j
      PROVE  SubSeq(q, 1, n) = SubSeq(t, 1, n)
  <2>1. 1 \in 1..Len(t) /\ n \in 1..j-1+1 /\ 1 \in 1..j-1+1
    BY <1>1
  <2>2. SubSeq(SubSeq(t, 1, j), 1, n) = SubSeq(t, 1 + 1 - 1, 1 + n - 1)
    BY <1>1, <2>1, SubSeqOfSubSeq DEF Names
  <2>3. 1 + 1 - 1 = 1 /\ 1 + n - 1 = n
    BY <1>1
  <2> QED
    BY <2>2, <2>3, <1>1
<1>3. ASSUME NEW p \in PartsOf(q)
      PROVE  p \in PartsOf(t) /\ Len(p) <= j
  <2>1. Len(p) \in 1..Len(q) /\ p = SubSeq(q, 1, Len(p))
    BY <1>1, PartIs
  <2>2. Len(p) \in 1..j
    BY <2>1 DEF j
  <2>3. p = SubSeq(t, 1, Len(p)) /\ Len(p) \in 1..Len(t) /\ Len(p) <= j
    BY <2>1, <2>2, <1>1, <1>2
  <2>4. SubSeq(t, 1, Len(p)) \in PartsOf(t)
    BY <2>3, IsPart
  <2> QED
    BY <2>3, <2>4
<1>4. ASSUME NEW p \in PartsOf(t), Len(p) <= j
      PROVE  p \in PartsOf(q)
  <2>1. Len(p) \in 1..Len(t) /\ p = SubSeq(t, 1, Len(p))
    BY PartIs
  <2>2. Len(p) \in 1..j
    BY <2>1, <1>1, <1>4
  <2>3. p = SubSeq(q, 1, Len(p))
    BY <2>1, <2>2, <1>2
  <2>4. SubSeq(q, 1, Len(p)) \in PartsOf(q)
    BY <2>2, <1>1, IsPart DEF j
  <2> QED
    BY <2>3, <2>4
<1>5. PartsOf(q) = {p \in PartsOf(t) : Len(p) <= j}
  BY <1>3, <1>4
<1> QED
  BY <1>5 DEF j

\* A part is what is in front of it with a name added, and its parts are those of
\* what is in front of it, and itself.
LEMMA FrontOfPart ==
  ASSUME NEW t \in Names, NEW p \in PartsOf(t)
  PROVE  /\ Append(Front(p), Last(p)) = p
         /\ Len(p) = 1 <=> Front(p) = <<>>
         /\ Len(p) # 1 => Front(p) \in PartsOf(t) /\ Len(Front(p)) = Len(p) - 1
         /\ PartsOf(p) = {p} \cup (IF Len(p) = 1 THEN {} ELSE PartsOf(Front(p)))
<1>1. p \in Names /\ p # <<>> /\ Len(p) \in Nat /\ Len(p) \in 1..Len(p)
  BY PartIs
<1>2. p = SubSeq(p, 1, Len(p)) /\ p \in PartsOf(p)
  <2>1. SubSeq(p, 1, Len(p)) = p
    BY <1>1, SubSeqFull DEF Names
  <2> QED
    BY <2>1, <1>1, IsPart
<1>3. PICK s \in Seq(STRING), e \in STRING : p = Append(s, e)
  BY <1>1, SequenceEmptyOrAppend DEF Names
<1>4. Len(p) = Len(s) + 1 /\ p[Len(s) + 1] = e /\ Len(s) \in Nat
  <2>1. Len(s) \in Nat
    BY <1>3
  <2>2. Len(Append(s, e)) = Len(s) + 1 /\ Append(s, e)[Len(s) + 1] = e
    BY <1>3, AppendProperties, Zenon
  <2> QED
    BY <2>1, <2>2, <1>3
<1>5. Last(p) = e
  BY <1>4 DEF Last
<1>6. Front(p) = s
  BY <1>3, <1>4 DEF Front
<1>7. CASE Len(p) = 1
  <2>1. \A q \in PartsOf(p) : q = p
    <3> SUFFICES ASSUME NEW q \in PartsOf(p) PROVE q = p
      OBVIOUS
    <3>1. Len(q) \in 1..Len(p) /\ q = SubSeq(p, 1, Len(q))
      BY <1>1, PartIs
    <3>2. Len(q) = Len(p)
      BY <3>1, <1>7
    <3> QED
      BY <3>1, <3>2, <1>2
  <2>2. s = <<>>
    <3>1. \A n \in Nat : 1 = n + 1 => n = 0
      OBVIOUS
    <3>2. Len(s) = 0
      BY <3>1, <1>4, <1>7
    <3> QED
      BY <3>2, EmptySeq
  <2>3. PartsOf(p) = {p}
    BY <2>1, <1>2
  <2> QED
    BY <2>2, <2>3, <1>3, <1>5, <1>6, <1>7
<1>8. CASE Len(p) # 1
  <2>1. Len(s) \in 1..Len(p) /\ Len(s) < Len(p)
    BY <1>1, <1>4, <1>8
  <2>2. s = SubSeq(p, 1, Len(s))
    BY <1>4, <1>6 DEF Front
  <2>3. s \in PartsOf(p)
    <3>1. SubSeq(p, 1, Len(s)) \in PartsOf(p)
      BY <2>1, <1>1, IsPart
    <3> QED
      BY <3>1, <2>2
  <2>4. PartsOf(s) = {q \in PartsOf(p) : Len(q) <= Len(s)} /\ s # <<>>
    BY <2>3, <1>1, PartsOfParts, PartIs
  <2>5. ASSUME NEW q \in PartsOf(p), q # p PROVE Len(q) <= Len(s)
    <3>1. Len(q) \in 1..Len(p) /\ q = SubSeq(p, 1, Len(q))
      BY <1>1, PartIs
    <3>2. Len(q) # Len(p)
      BY <3>1, <2>5, <1>2
    <3>3. \A a, b, c \in Nat : a \in 1..b /\ a # b /\ b = c + 1 => a <= c
      OBVIOUS
    <3>4. Len(q) \in Nat
      BY <1>1, PartIs
    <3> QED
      BY <3>1, <3>2, <3>3, <3>4, <1>1, <1>4
  <2>6. PartsOf(p) = {p} \cup PartsOf(s)
    BY <2>4, <2>5, <1>2
  <2>7. s \in PartsOf(t)
    BY <2>3, PartsOfParts
  <2>8. \A a, b \in Nat : a = b + 1 => b = a - 1
    OBVIOUS
  <2>9. Len(s) = Len(p) - 1
    BY <2>8, <1>1, <1>4
  <2> QED
    BY <2>4, <2>6, <2>7, <2>9, <1>3, <1>5, <1>6, <1>8
<1> QED
  BY <1>7, <1>8

\* A walk whose target is not cached has a next part: the beginnings that are not
\* cached cannot all be one longer than another of them.
LEMMA CurrentIs ==
  ASSUME NEW t \in Names, t # <<>>, NEW D, t \notin D
  PROVE  /\ CurrentOf(t, D) \in PartsOf(t) \ D
         /\ Front(CurrentOf(t, D)) \in D \cup {<<>>}
<1>1. \E p \in PartsOf(t) \ D : Front(p) \in D \cup {<<>>}
  <2> SUFFICES ASSUME \A p \in PartsOf(t) \ D : Front(p) \notin D /\ Front(p) # <<>>
               PROVE  FALSE
    OBVIOUS
  <2> DEFINE n == Len(t)
             A == {l \in 1..n : SubSeq(t, 1, l) \notin D}
             B == A \ {n}
             f == [l \in A |-> l - 1]
  <2>1. n \in Nat \ {0} /\ SubSeq(t, 1, n) = t
    BY EmptySeq, SubSeqFull DEF Names
  <2>2. ASSUME NEW l \in A PROVE l - 1 \in B
    <3> DEFINE p == SubSeq(t, 1, l)
    <3>1. p \in PartsOf(t) /\ Len(p) = l /\ p \notin D
      BY IsPart
    <3> HIDE DEF p
    <3>2. Front(p) \notin D /\ Front(p) # <<>>
      BY <3>1
    <3>3. l # 1 /\ Front(p) \in PartsOf(t) /\ Len(Front(p)) = l - 1
      BY <3>1, <3>2, FrontOfPart
    <3>4. Front(p) = SubSeq(t, 1, l - 1) /\ l - 1 \in 1..n
      BY <3>3, PartIs
    <3> QED
      BY <3>2, <3>4, <2>1
  <2>3. IsFiniteSet(A) /\ n \in A
    <3>1. IsFiniteSet(1..n)
      BY <2>1, FS_Interval
    <3>2. A \in SUBSET (1..n)
      OBVIOUS
    <3>3. n \in A
      <4>1. n \in 1..n
        BY <2>1
      <4>2. SubSeq(t, 1, n) \notin D
        BY <2>1
      <4> QED
        BY <4>1, <4>2
    <3> HIDE DEF A, n
    <3> QED
      BY <3>1, <3>2, <3>3, FS_Subset
  <2>4. f \in [A -> B] /\ \A l \in A : f[l] = l - 1 /\ l \in Nat
    BY <2>2, <2>1
  <2> HIDE DEF A, f, n
  <2>5. IsFiniteSet(B) /\ Cardinality(B) < Cardinality(A)
    <3>1. IsFiniteSet(B) /\ Cardinality(B) = Cardinality(A) - 1
      BY <2>3, FS_RemoveElement
    <3>2. Cardinality(A) \in Nat
      BY <2>3, FS_CardinalityType
    <3> QED
      BY <3>1, <3>2
  <2> HIDE DEF B
  <2>6. PICK x \in A, y \in A : x # y /\ f[x] = f[y]
    BY <2>3, <2>4, <2>5, FS_PigeonHole
  <2> QED
    BY <2>4, <2>6
<1> QED
  BY <1>1 DEF CurrentOf
-----------------------------------------------------------------------------
(* What a job looks at *)

\* One copy more, and nothing else, in a bag.
LEMMA OneMore ==
  ASSUME NEW bag, IsABag(bag), NEW e
  PROVE  /\ IsABag(bag (+) SetToBag({e}))
         /\ DOMAIN (bag (+) SetToBag({e})) = DOMAIN bag \cup {e}
         /\ \A x : Count(x, bag) \in Nat
         /\ \A x : Count(x, bag (+) SetToBag({e})) = Count(x, bag) + (IF x = e THEN 1 ELSE 0)
<1> DEFINE sum == bag (+) SetToBag({e})
<1>1. /\ DOMAIN sum = DOMAIN bag \cup {e}
      /\ \A x \in DOMAIN sum :
           sum[x] = (IF x \in DOMAIN bag THEN bag[x] ELSE 0) + (IF x = e THEN 1 ELSE 0)
      /\ sum = [x \in DOMAIN sum |-> sum[x]]
  BY DEF SetToBag, (+)
<1> HIDE DEF sum
<1>2. \A x \in DOMAIN bag : bag[x] \in Nat /\ bag[x] > 0
  BY DEF IsABag
<1>3. IsABag(sum)
  <2>1. \A x \in DOMAIN sum : sum[x] \in {n \in Nat : n > 0}
    BY <1>1, <1>2
  <2> QED
    BY <2>1, <1>1 DEF IsABag
<1>4. \A x : Count(x, bag) \in Nat
  BY <1>2 DEF Count, BagIn, BagToSet
<1>5. \A x : Count(x, sum) = Count(x, bag) + (IF x = e THEN 1 ELSE 0)
  BY <1>1, <1>2 DEF Count, BagIn, BagToSet
<1> QED
  BY <1>1, <1>3, <1>4, <1>5 DEF sum

\* The paths of the messages.
LEMMA TargetsAre ==
  /\ \A m \in Msgs : \A k \in DOMAIN Targets[m] :
       /\ Targets[m][k] \in Names /\ Targets[m][k] # <<>>
       /\ Targets[m][k] \in PartsOf(Targets[m][k])
       /\ PartsOf(Targets[m][k]) \subseteq Paths
       /\ k \in Nat \ {0} /\ k <= Len(Targets[m])
  /\ \A m \in Msgs : Len(Targets[m]) \in Nat /\ DOMAIN Targets[m] = 1..Len(Targets[m])
<1>1. ASSUME NEW m \in Msgs
      PROVE  Len(Targets[m]) \in Nat /\ DOMAIN Targets[m] = 1..Len(Targets[m])
  BY PathsAssumption
<1>2. ASSUME NEW m \in Msgs, NEW k \in DOMAIN Targets[m]
      PROVE  /\ Targets[m][k] \in Names /\ Targets[m][k] # <<>>
             /\ Targets[m][k] \in PartsOf(Targets[m][k])
             /\ PartsOf(Targets[m][k]) \subseteq Paths
  <2> DEFINE t == Targets[m][k]
  <2>1. t \in Names /\ t # <<>>
    BY PathsAssumption DEF Names
  <2>2. PartsOf(t) \subseteq Paths
    BY DEF Paths, ToSet
  <2> HIDE DEF t
  <2>3. SubSeq(t, 1, Len(t)) = t /\ Len(t) \in 1..Len(t)
    BY <2>1, SubSeqFull, EmptySeq DEF Names
  <2>4. t \in PartsOf(t)
    BY <2>1, <2>3, IsPart
  <2> QED
    BY <2>1, <2>2, <2>4 DEF t
<1> QED
  BY <1>1, <1>2
\* A job with a message in hand has one of the message's paths as its target.
LEMMA TargetIs ==
  ASSUME Jobs, NEW w \in Workers, pc[w] \notin {"idle", "loop"}
  PROVE  /\ hand[w] \in Msgs /\ nth[w] \in DOMAIN Targets[hand[w]]
         /\ Target(w) = Targets[hand[w]][nth[w]]
         /\ Target(w) \in Names /\ Target(w) # <<>>
         /\ Target(w) \in PartsOf(Target(w)) /\ PartsOf(Target(w)) \subseteq Paths
<1>1. hand[w] \in Msgs /\ nth[w] \in DOMAIN Targets[hand[w]]
  BY DEF Jobs, JobOK, HandOK
<1> QED
  BY <1>1, TargetsAre DEF Target

\* On its walk it has come to a part that is not cached below one that is, and asks
\* for the folder at just that path.
LEMMA WalkIs ==
  ASSUME Jobs, NEW w \in Workers, pc[w] \in Walking
  PROVE  /\ Current(w) = CurrentOf(Target(w), DOMAIN cache[w])
         /\ Current(w) \in PartsOf(Target(w)) /\ Current(w) \notin DOMAIN cache[w]
         /\ Current(w) \in Paths /\ FolderId(w) = Current(w)
         /\ Len(Current(w)) = 1 \/ Front(Current(w)) \in DOMAIN cache[w]
         /\ Front(Current(w)) \in DOMAIN cache[w] => Front(Current(w)) \in folders \cup WellKnown
<1>1. /\ Target(w) \in Names /\ Target(w) # <<>> /\ PartsOf(Target(w)) \subseteq Paths
      /\ Target(w) \notin DOMAIN cache[w] /\ CacheOK(cache[w], folders)
  BY TargetIs DEF Jobs, JobOK, PlaceOK, Walking
<1>2. Current(w) = CurrentOf(Target(w), DOMAIN cache[w])
  BY DEF Current, CurrentOf
<1>3. /\ Current(w) \in PartsOf(Target(w)) /\ Current(w) \notin DOMAIN cache[w]
      /\ Front(Current(w)) \in DOMAIN cache[w] \cup {<<>>}
  BY <1>1, <1>2, CurrentIs
<1>4. /\ Append(Front(Current(w)), Last(Current(w))) = Current(w)
      /\ Len(Current(w)) = 1 <=> Front(Current(w)) = <<>>
  BY <1>1, <1>3, FrontOfPart
<1>5. \A p \in DOMAIN cache[w] : cache[w][p] = p /\ p \in folders \cup WellKnown
  BY <1>1 DEF CacheOK
<1> HIDE DEF Current
<1>6. FolderId(w) = Current(w)
  BY <1>3, <1>4, <1>5 DEF FolderId
<1> QED
  BY <1>1, <1>2, <1>3, <1>4, <1>5, <1>6

\* When a row is due, it is that of a cached part of the target.
LEMMA CachedIs ==
  ASSUME Jobs, NEW w \in Workers, pc[w] \in {"select", "insert"}
  PROVE  Cached(w) \in Paths /\ Cached(w) \in folders \cup WellKnown
<1>1. PICK p : Longest(p, Target(w), DOMAIN cache[w])
  BY DEF Jobs, JobOK, PlaceOK
<1>2. Cached(w) \in DOMAIN cache[w]
  BY <1>1 DEF Cached, Longest
<1> QED
  BY <1>2 DEF Jobs, JobOK, CacheOK

\* When a message is sent, it is to its target, which is in the cache.
LEMMA CopyIs ==
  ASSUME Jobs, NEW w \in Workers, pc[w] \in Unrecorded \cup {"import"}
  PROVE  Target(w) \in DOMAIN cache[w] /\ Copy(w) = <<hand[w], Targets[hand[w]][nth[w]]>>
<1>1. Target(w) \in DOMAIN cache[w]
  BY DEF Jobs, JobOK, PlaceOK
<1>2. cache[w][Target(w)] = Target(w)
  BY <1>1 DEF Jobs, JobOK, CacheOK
<1> QED
  BY <1>1, <1>2 DEF Copy, Target

\* What the other jobs rely on stays: their locals, and the folders there are.
Others(w) ==
  /\ \A v \in Workers \ {w} : /\ pc'[v] = pc[v] /\ hand'[v] = hand[v] /\ nth'[v] = nth[v]
                              /\ cache'[v] = cache[v]
  /\ DOMAIN cache' = Workers /\ DOMAIN nth' = Workers
  /\ folders \subseteq folders'

LEMMA OthersKeep ==
  ASSUME Jobs, NEW w \in Workers, Others(w), JobOK(w)'
  PROVE  Jobs'
<1>1. ASSUME NEW v \in Workers, v # w PROVE JobOK(v)'
  <2>1. JobOK(v) /\ pc'[v] = pc[v] /\ hand'[v] = hand[v] /\ nth'[v] = nth[v] /\ cache'[v] = cache[v]
    BY <1>1 DEF Others, Jobs
  <2>2. Target(v)' = Target(v)
    BY <2>1 DEF Target
  <2> QED
    BY <2>1, <2>2 DEF Others, JobOK, HandOK, CacheOK, PlaceOK
<1> QED
  BY <1>1 DEF Others, Jobs
-----------------------------------------------------------------------------
(* Types, and the jobs' locals *)

Labelled == {"idle", "loop", "folder", "post", "refind", "select", "insert", "import",
             "attach", "patch", "record"}

\* Of the locals of a job, one step changes those of one job.
LocalTypes ==
  /\ pc \in [Workers -> Labelled]
  /\ hand \in [Workers -> Msgs \cup {"none"}]
  /\ form \in [Workers -> Forms \cup {"none"}]
  /\ \A w \in Workers : (hand[w] = "none") <=> (pc[w] \in {"idle", "loop"})

\* A job that turns to a folder of a message, to the next or past the last.
LEMMA TurnIs ==
  ASSUME LocalTypes, Jobs, NEW w \in Workers, NEW m \in Msgs, NEW k \in Nat \ {0},
         Turn(w, m, k), UNCHANGED <<cache, folders>>
  PROVE  /\ LocalTypes' /\ Jobs' /\ Others(w)
         /\ nth'[w] = k /\ hand'[w] \in {m, "none"} /\ pc'[w] \in {"import", "folder", "loop"}
         /\ hand'[w] = m => k \in DOMAIN Targets[m]
<1>1. /\ nth' = [nth EXCEPT ![w] = k] /\ nth'[w] = k /\ DOMAIN nth' = Workers
      /\ \A v \in Workers \ {w} : nth'[v] = nth[v]
  BY DEF Turn, Jobs
<1>2. CASE k <= Len(Targets[m])
  <2> DEFINE t == Targets[m][k]
             at == IF t \in DOMAIN cache[w] THEN "import" ELSE "folder"
  <2>1. k \in DOMAIN Targets[m]
    BY <1>2, TargetsAre
  <2>2. /\ pc' = [pc EXCEPT ![w] = at] /\ hand' = [hand EXCEPT ![w] = m]
        /\ form' = [form EXCEPT ![w] = FirstForm]
    <3>1. Len(Targets[m]) \in Nat
      BY TargetsAre
    <3> QED
      BY <1>2, <3>1 DEF Turn, Goto
  <2>3. /\ pc'[w] = at /\ hand'[w] = m
        /\ \A v \in Workers \ {w} : pc'[v] = pc[v] /\ hand'[v] = hand[v]
    BY <2>2 DEF LocalTypes
  <2>4. LocalTypes'
    BY <2>2, ImportAssumption DEF LocalTypes, Labelled, FirstForm, Forms
  <2>5. Others(w)
    BY <1>1, <2>3 DEF Others, Jobs
  <2>6. Target(w)' = t
    BY <1>1, <2>3 DEF Target
  <2>7. PlaceOK(at, t, DOMAIN cache[w], folders)
    BY DEF PlaceOK, Walking, Unrecorded
  <2>8. JobOK(w)'
    BY <1>1, <2>1, <2>3, <2>6, <2>7 DEF Jobs, JobOK, HandOK
  <2> HIDE DEF at
  <2> QED
    BY <1>1, <2>1, <2>3, <2>4, <2>5, <2>8, OthersKeep DEF at
<1>3. CASE ~(k <= Len(Targets[m]))
  <2>1. /\ pc' = [pc EXCEPT ![w] = "loop"] /\ hand' = [hand EXCEPT ![w] = "none"]
        /\ form' = [form EXCEPT ![w] = "none"]
    BY <1>3 DEF Turn, Goto
  <2>2. /\ pc'[w] = "loop" /\ hand'[w] = "none"
        /\ \A v \in Workers \ {w} : pc'[v] = pc[v] /\ hand'[v] = hand[v]
    BY <2>1 DEF LocalTypes
  <2>3. LocalTypes'
    BY <2>1 DEF LocalTypes, Labelled
  <2>4. Others(w)
    BY <1>1, <2>2 DEF Others, Jobs
  <2>5. JobOK(w)'
    BY <2>2 DEF Jobs, JobOK, HandOK, PlaceOK, Walking, Unrecorded
  <2> QED
    BY <1>1, <2>2, <2>3, <2>4, <2>5, OthersKeep, ImportAssumption
<1> QED
  BY <1>2, <1>3

\* A job that goes on without turning to another folder.
LEMMA GotoIs ==
  ASSUME LocalTypes, Jobs, NEW w \in Workers, NEW label \in Labelled \ {"idle", "loop"},
         pc[w] \notin {"idle", "loop"},
         Goto(w, label), UNCHANGED <<hand, nth>>, form' \in [Workers -> Forms \cup {"none"}],
         DOMAIN cache' = Workers, \A v \in Workers \ {w} : cache'[v] = cache[v],
         folders \subseteq folders',
         CacheOK(cache'[w], folders'),
         PlaceOK(label, Target(w), DOMAIN cache'[w], folders')
  PROVE  /\ LocalTypes' /\ Jobs' /\ Others(w)
         /\ pc'[w] = label
<1>1. /\ pc' = [pc EXCEPT ![w] = label] /\ pc'[w] = label
      /\ \A v \in Workers \ {w} : pc'[v] = pc[v]
  BY DEF Goto, LocalTypes
<1>2. LocalTypes'
  BY <1>1 DEF LocalTypes, Labelled
<1>3. Others(w)
  BY <1>1 DEF Others, Jobs
<1>4. JobOK(w)'
  <2>1. Target(w)' = Target(w)
    BY DEF Target
  <2> QED
    BY <1>1, <2>1 DEF Jobs, JobOK, HandOK
<1> QED
  BY <1>1, <1>2, <1>3, <1>4, OthersKeep
\* A job that raises gives up the message, whose row becomes failed, or turns to its
\* next folder when its primary copy is on record.
LEMMA RaiseIs ==
  ASSUME LocalTypes, Jobs, NEW w \in Workers, pc[w] \notin {"idle", "loop"}, Raise(w),
         UNCHANGED <<cache, folders>>
  PROVE  /\ LocalTypes' /\ Jobs' /\ Others(w)
         /\ pc'[w] \in {"import", "folder", "loop"}
         /\ \/ /\ nth[w] = 1 /\ hand'[w] = "none"
               /\ status' = [status EXCEPT ![hand[w]] = "failed"]
            \/ /\ nth[w] > 1 /\ nth'[w] = nth[w] + 1 /\ hand'[w] \in {hand[w], "none"}
               /\ status' = status
<1>1. /\ hand[w] \in Msgs /\ nth[w] \in Nat \ {0} /\ Len(Targets[hand[w]]) \in Nat
      /\ DOMAIN Targets[hand[w]] = 1..Len(Targets[hand[w]])
  BY TargetIs, TargetsAre
<1>2. CASE /\ nth[w] = 1 /\ status' = [status EXCEPT ![hand[w]] = "failed"]
           /\ Turn(w, hand[w], Len(Targets[hand[w]]) + 1)
  <2>1. Len(Targets[hand[w]]) + 1 \in Nat \ {0}
        /\ Len(Targets[hand[w]]) + 1 \notin DOMAIN Targets[hand[w]]
    BY <1>1
  <2>2. /\ LocalTypes' /\ Jobs' /\ Others(w)
        /\ hand'[w] \in {hand[w], "none"} /\ pc'[w] \in {"import", "folder", "loop"}
        /\ hand'[w] # hand[w]
    BY <1>1, <1>2, <2>1, TurnIs
  <2> QED
    BY <1>2, <2>2
<1>3. CASE nth[w] > 1 /\ Turn(w, hand[w], nth[w] + 1) /\ UNCHANGED status
  <2>1. nth[w] + 1 \in Nat \ {0}
    BY <1>1
  <2> QED
    BY <1>1, <1>3, <2>1, TurnIs
<1> QED
  BY <1>2, <1>3 DEF Raise

\* A job that has found the folder of a part has the part in its cache, as the
\* longest one of its target.
LEMMA FoundIs ==
  ASSUME LocalTypes, Jobs, NEW w \in Workers, pc[w] \in Walking, Found(w, Current(w)),
         folders \subseteq folders', Current(w) \in folders' \cup WellKnown
  PROVE  LocalTypes' /\ Jobs' /\ Others(w) /\ pc'[w] = "select"
<1> DEFINE c == Current(w)
           t == Target(w)
           D == DOMAIN cache[w]
<1>1. /\ c \in PartsOf(t) /\ c \notin D /\ c \in Paths
      /\ Len(c) = 1 \/ Front(c) \in D
  BY WalkIs
<1>2. t \in Names
  BY TargetIs DEF Walking
<1>3. CacheOK(cache[w], folders)
  BY DEF Jobs, JobOK
<1>4. /\ cache' = [cache EXCEPT ![w] =
                     [p \in DOMAIN cache[w] \cup {c} |-> IF p = c THEN c ELSE cache[w][p]]]
      /\ Goto(w, "select") /\ UNCHANGED <<hand, nth, form>>
  BY DEF Found
<1> HIDE DEF c, t
<1>5. /\ DOMAIN cache' = Workers /\ \A v \in Workers \ {w} : cache'[v] = cache[v]
      /\ cache'[w] = [p \in D \cup {c} |-> IF p = c THEN c ELSE cache[w][p]]
  BY <1>4 DEF Jobs
<1>6. /\ DOMAIN cache'[w] = D \cup {c}
      /\ cache'[w][c] = c /\ \A p \in D : cache'[w][p] = cache[w][p]
  BY <1>1, <1>5
<1>7. CacheOK(cache'[w], folders')
  <2>1. PartsOf(c) \subseteq D \cup {c}
    BY <1>1, <1>2, <1>3, FrontOfPart DEF CacheOK
  <2>2. \A p \in D : p \in Paths /\ cache[w][p] = p /\ p \in folders' \cup WellKnown
                     /\ PartsOf(p) \subseteq D
    BY <1>3 DEF CacheOK
  <2> QED
    BY <1>1, <1>6, <2>1, <2>2 DEF CacheOK, c
<1>8. Longest(c, t, D \cup {c})
  <2> SUFFICES ASSUME NEW q \in PartsOf(t), q \in D \cup {c} PROVE Len(q) <= Len(c)
    BY <1>1 DEF Longest
  <2>1. Len(q) \in Nat /\ Len(c) \in Nat
    BY <1>1, <1>2, PartIs
  <2>2. CASE q \in D
    <3>1. PartsOf(q) \subseteq D
      BY <2>2, <1>3 DEF CacheOK
    <3>2. ~(Len(c) <= Len(q))
      BY <3>1, <1>1, <1>2, PartsOfParts
    <3> QED
      BY <3>2, <2>1
  <2> QED
    BY <2>1, <2>2
<1>9. PlaceOK("select", t, DOMAIN cache'[w], folders')
  BY <1>1, <1>6, <1>8 DEF PlaceOK, Walking, Unrecorded
<1> QED
  <2>1. pc[w] \notin {"idle", "loop"} /\ "select" \in Labelled \ {"idle", "loop"}
        /\ form' \in [Workers -> Forms \cup {"none"}]
    BY <1>4 DEF Walking, Labelled, LocalTypes
  <2> QED
    BY <1>4, <1>5, <1>7, <1>9, <2>1, GotoIs DEF t
\* A job that tries the next form goes back to the import.
LEMMA TryNextIs ==
  ASSUME LocalTypes, Jobs, NEW w \in Workers, pc[w] \in {"import", "attach"},
         form[w] \in Forms \ {"reduced"}, TryNext(w), UNCHANGED <<cache, folders>>
  PROVE  LocalTypes' /\ Jobs' /\ Others(w) /\ pc'[w] = "import"
<1>1. form' \in [Workers -> Forms \cup {"none"}]
  BY DEF TryNext, LocalTypes, NextForm, Forms
<1>2. CacheOK(cache'[w], folders') /\ DOMAIN cache' = Workers
  BY DEF Jobs, JobOK
<1>3. PlaceOK("import", Target(w), DOMAIN cache'[w], folders')
  BY CopyIs DEF PlaceOK, Walking, Unrecorded
<1> QED
  BY <1>1, <1>2, <1>3, GotoIs DEF TryNext, Labelled

\* Whatever a job does, the types of the locals, its place and those of the others hold.
LEMMA StepIs ==
  ASSUME LocalTypes, Jobs, NEW w \in Workers, Step(w) \/ Crash(w)
  PROVE  LocalTypes' /\ Jobs' /\ Others(w)
<1>0. /\ CacheOK(cache[w], folders) /\ DOMAIN cache = Workers /\ DOMAIN nth = Workers
      /\ PlaceOK(pc[w], Target(w), DOMAIN cache[w], folders)
      /\ CacheOK(<<>>, folders) /\ DOMAIN <<>> = {}
  BY DEF Jobs, JobOK, CacheOK
<1> DEFINE Rests(label) == pc'[w] = label /\ hand'[w] = "none"
<1>1. ASSUME UNCHANGED <<hand, nth, form, folders>>, pc[w] \in {"idle", "loop"},
             NEW label \in {"idle", "loop"}, Goto(w, label),
             cache' = cache \/ cache' = [cache EXCEPT ![w] = <<>>]
      PROVE  LocalTypes' /\ Jobs' /\ Others(w)
  <2>1. /\ pc' = [pc EXCEPT ![w] = label] /\ pc'[w] = label
        /\ \A v \in Workers \ {w} : pc'[v] = pc[v]
    BY <1>1 DEF Goto, LocalTypes
  <2>2. /\ \A v \in Workers \ {w} : cache'[v] = cache[v]
        /\ DOMAIN cache' = Workers /\ CacheOK(cache'[w], folders')
    BY <1>0, <1>1
  <2>3. LocalTypes'
    BY <1>1, <2>1 DEF LocalTypes, Labelled
  <2>4. Others(w)
    BY <1>0, <1>1, <2>1, <2>2 DEF Others
  <2>5. JobOK(w)'
    BY <2>1, <2>2 DEF JobOK, HandOK, PlaceOK, Walking, Unrecorded
  <2> QED
    BY <2>3, <2>4, <2>5, OthersKeep
<1>2. CASE Start(w)
  BY <1>1, <1>2 DEF Start, tenant
<1>3. CASE Finish(w)
  BY <1>1, <1>3 DEF Finish, tenant
<1>4. CASE Crash(w)
  <2>1. /\ pc' = [pc EXCEPT ![w] = "idle"] /\ hand' = [hand EXCEPT ![w] = "none"]
        /\ nth' = [nth EXCEPT ![w] = 0] /\ form' = [form EXCEPT ![w] = "none"]
        /\ cache' = [cache EXCEPT ![w] = <<>>] /\ folders' = folders
    BY <1>4 DEF Crash, Goto, tenant
  <2>2. pc'[w] = "idle" /\ cache'[w] = <<>>
    BY <2>1, <1>0 DEF LocalTypes
  <2>3. LocalTypes'
    BY <2>1 DEF LocalTypes, Labelled
  <2>4. Others(w)
    BY <2>1, <1>0 DEF Others, LocalTypes
  <2>5. JobOK(w)'
    BY <2>1, <2>2, <1>0 DEF JobOK, HandOK, PlaceOK, Walking, Unrecorded
  <2> QED
    BY <2>3, <2>4, <2>5, OthersKeep
<1>5. ASSUME NEW m \in Msgs, SkipDone(w, m) PROVE LocalTypes' /\ Jobs' /\ Others(w)
  BY <1>5, <1>0 DEF SkipDone, tenant, LocalTypes, Jobs, JobOK, HandOK, CacheOK, PlaceOK, Target, Others
<1>6. ASSUME NEW m \in Msgs, Take(w, m) PROVE LocalTypes' /\ Jobs' /\ Others(w)
  <2>1. UNCHANGED <<cache, folders>> /\ Turn(w, m, 1) /\ 1 \in Nat \ {0}
    BY <1>6 DEF Take, tenant
  <2> QED
    BY <2>1, TurnIs
<1>7. CASE Resolve(w)
  <2>1. pc[w] \in Walking /\ Found(w, Current(w)) /\ folders' = folders
        /\ Current(w) \in WellKnown
    BY <1>7 DEF Resolve, tenant, Walking
  <2> QED
    BY <2>1, FoundIs
<1>8. CASE Find(w)
  <2>1. pc[w] \in Walking /\ pc[w] = "folder" /\ Current(w) \notin WellKnown /\ folders' = folders
    BY <1>8 DEF Find, tenant, Walking
  <2>2. FolderId(w) = Current(w) /\ Current(w) = CurrentOf(Target(w), DOMAIN cache[w])
    BY <2>1, WalkIs
  <2>3. CASE FolderId(w) \in folders /\ Found(w, FolderId(w))
    BY <2>1, <2>2, <2>3, FoundIs
  <2>4. CASE Goto(w, "post") /\ UNCHANGED <<cache, hand, nth, form>>
    <3>1. PlaceOK("post", Target(w), DOMAIN cache[w], folders)
      BY <1>0, <2>1, <2>2 DEF PlaceOK, Walking, Unrecorded
    <3> QED
      BY <2>1, <2>4, <3>1, <1>0, GotoIs DEF Labelled, LocalTypes
  <2> QED
    BY <1>8, <2>3, <2>4 DEF Find
<1>9. CASE Post(w)
  <2>1. pc[w] \in Walking /\ pc[w] = "post" /\ folders' = folders \cup {FolderId(w)}
    BY <1>9 DEF Post, Walking
  <2>2. FolderId(w) = Current(w)
    BY <2>1, WalkIs
  <2>3. CASE Found(w, FolderId(w))
    BY <2>1, <2>2, <2>3, FoundIs
  <2>4. CASE UNCHANGED <<pc, cache, hand, nth, form>>
    <3>1. LocalTypes' /\ Others(w)
      BY <2>1, <2>4, <1>0 DEF LocalTypes, Others
    <3>2. Target(w)' = Target(w)
      BY <2>4 DEF Target
    <3>3. JobOK(w)'
      BY <2>1, <2>4, <3>2 DEF Jobs, JobOK, HandOK, CacheOK, PlaceOK
    <3> QED
      BY <3>1, <3>3, OthersKeep
  <2> QED
    BY <1>9, <2>3, <2>4 DEF Post
<1>10. CASE Conflict(w)
  <2>1. /\ pc[w] \in Walking /\ pc[w] = "post" /\ FolderId(w) \in folders /\ Goto(w, "refind")
        /\ UNCHANGED <<cache, hand, nth, form, folders>>
    BY <1>10 DEF Conflict, Walking, tenant
  <2>2. FolderId(w) = Current(w) /\ Current(w) = CurrentOf(Target(w), DOMAIN cache[w])
    BY <2>1, WalkIs
  <2>3. PlaceOK("refind", Target(w), DOMAIN cache[w], folders)
    BY <1>0, <2>1, <2>2 DEF PlaceOK, Walking, Unrecorded
  <2> QED
    BY <2>1, <2>3, <1>0, GotoIs DEF Labelled, LocalTypes
<1>11. CASE FindAgain(w)
  <2>1. pc[w] \in Walking /\ pc[w] = "refind" /\ Found(w, FolderId(w)) /\ folders' = folders
    BY <1>11 DEF FindAgain, Walking, tenant
  <2>2. FolderId(w) = Current(w) /\ Current(w) \in folders
    BY <2>1, <1>0, WalkIs DEF PlaceOK
  <2> QED
    BY <2>1, <2>2, FoundIs
<1>12. CASE WalkFails(w)
  <2>1. pc[w] \notin {"idle", "loop"} /\ Raise(w) /\ UNCHANGED <<cache, folders>>
    BY <1>12 DEF WalkFails, tenant
  <2> QED
    BY <2>1, RaiseIs
<1>13. ASSUME pc[w] \in {"select", "insert"}, Along(w), UNCHANGED <<cache, folders>>
       PROVE  LocalTypes' /\ Jobs' /\ Others(w)
  <2> DEFINE label == IF Target(w) \in DOMAIN cache[w] THEN "import" ELSE "folder"
  <2>1. PlaceOK(label, Target(w), DOMAIN cache[w], folders) /\ label \in Labelled \ {"idle", "loop"}
    BY DEF PlaceOK, Walking, Unrecorded, Labelled
  <2>2. Goto(w, label) /\ UNCHANGED <<hand, nth, form>>
    BY <1>13 DEF Along
  <2> HIDE DEF label
  <2> QED
    BY <1>13, <2>1, <2>2, <1>0, GotoIs DEF LocalTypes
<1>14. CASE SelectRow(w)
  <2>1. pc[w] = "select" /\ UNCHANGED <<cache, folders>>
    BY <1>14 DEF SelectRow, tenant
  <2>2. CASE Goto(w, "insert") /\ UNCHANGED <<hand, nth, form>>
    <3>1. PlaceOK("insert", Target(w), DOMAIN cache[w], folders)
      BY <2>1, <1>0 DEF PlaceOK, Walking, Unrecorded
    <3> QED
      BY <2>1, <2>2, <3>1, <1>0, GotoIs DEF Labelled, LocalTypes
  <2>3. CASE Along(w)
    BY <2>1, <2>3, <1>13
  <2>4. CASE Raise(w)
    BY <2>1, <2>4, RaiseIs
  <2> QED
    BY <1>14, <2>2, <2>3, <2>4 DEF SelectRow
<1>15. CASE InsertRow(w)
  BY <1>13, <1>15 DEF InsertRow, tenant
<1>16. ASSUME pc[w] \in Unrecorded \cup {"import"}, NEW label \in Unrecorded, Goto(w, label),
              UNCHANGED <<hand, nth, form, cache, folders>>
       PROVE  LocalTypes' /\ Jobs' /\ Others(w)
  <2>1. PlaceOK(label, Target(w), DOMAIN cache[w], folders) /\ pc[w] \notin {"idle", "loop"}
        /\ label \in Labelled \ {"idle", "loop"}
    BY <1>16, <1>0 DEF PlaceOK, Walking, Unrecorded, Labelled
  <2> QED
    BY <1>16, <2>1, <1>0, GotoIs DEF LocalTypes
<1>17. CASE Create(w)
  <2>1. /\ pc[w] \in Unrecorded \cup {"import"} /\ UNCHANGED <<hand, nth, form, cache, folders>>
        /\ Goto(w, "attach") \/ Goto(w, "patch") \/ Goto(w, "record")
    BY <1>17 DEF Create, Complete
  <2> QED
    BY <2>1, <1>16 DEF Unrecorded
<1>18. CASE Refused(w)
  <2>1. pc[w] = "import" /\ TryNext(w) /\ UNCHANGED <<cache, folders>>
        /\ form[w] \in Refuses[hand[w]]
    BY <1>18 DEF Refused, tenant
  <2>2. form[w] \in Forms \ {"reduced"}
    BY <2>1, TargetIs, ImportAssumption
  <2> QED
    BY <2>1, <2>2, TryNextIs
<1>19. CASE CreateFails(w)
  <2>1. pc[w] = "import" /\ Raise(w) /\ UNCHANGED <<cache, folders>>
    BY <1>19 DEF CreateFails
  <2> QED
    BY <2>1, RaiseIs
<1>20. CASE Attach(w)
  <2>1. /\ pc[w] \in Unrecorded \cup {"import"} /\ UNCHANGED <<hand, nth, form, cache, folders>>
        /\ Goto(w, "patch") \/ Goto(w, "record")
    BY <1>20 DEF Attach, Complete, tenant, Unrecorded
  <2> QED
    BY <2>1, <1>16 DEF Unrecorded
<1>21. CASE AttachFails(w)
  <2>1. pc[w] = "attach" /\ UNCHANGED <<cache, folders>>
    BY <1>21 DEF AttachFails, tenant
  <2>2. CASE Raise(w)
    BY <2>1, <2>2, RaiseIs
  <2>3. CASE form[w] \in {"raw", "cleaned"} /\ TryNext(w)
    BY <2>1, <2>3, TryNextIs DEF Forms
  <2> QED
    BY <1>21, <2>2, <2>3 DEF AttachFails
<1>22. CASE Patch(w)
  BY <1>22, <1>16 DEF Patch, Unrecorded, tenant
<1>23. CASE Record(w)
  <2>1. /\ pc[w] \notin {"idle", "loop"} /\ Turn(w, hand[w], nth[w] + 1)
        /\ UNCHANGED <<cache, folders>>
    BY <1>23 DEF Record, tenant
  <2>2. hand[w] \in Msgs /\ nth[w] + 1 \in Nat \ {0}
    BY <2>1, TargetIs, TargetsAre
  <2> QED
    BY <2>1, <2>2, TurnIs
<1> QED
  BY <1>2, <1>3, <1>4, <1>5, <1>6, <1>7, <1>8, <1>9, <1>10, <1>11, <1>12, <1>14, <1>15,
     <1>17, <1>18, <1>19, <1>20, <1>21, <1>22, <1>23 DEF Step
\* What a step does to the stored data: to the copies, the rows, the bag of what was
\* cut off, the folders and the statuses.
LEMMA DataStep ==
  ASSUME TypeOK, Jobs, NEW w \in Workers, Step(w) \/ Crash(w)
  PROVE  /\ \/ copies' = copies
            \/ pc[w] = "import" /\ copies' = copies (+) SetToBag({Copy(w)})
         /\ \/ rows' = rows
            \/ pc[w] = "insert" /\ rows' = rows (+) SetToBag({Cached(w)})
         /\ orphaned' = orphaned \/ orphaned' = orphaned (+) SetToBag({Copy(w)})
         /\ \/ folders' = folders
            \/ /\ pc[w] = "post" /\ folders' = folders \cup {Current(w)}
         /\ status' \in [Msgs -> {"none", "failed", "done"}]
         /\ todo' \in [Workers -> SUBSET Msgs]
<1> USE DEF tenant, database
<1>1. /\ copies' = copies
         \/ (pc[w] = "import" /\ copies' = copies (+) SetToBag({Copy(w)}))
  BY DEF Step, Crash, Start, SkipDone, Take, Finish, Resolve, Find, Post, Conflict, FindAgain,
         WalkFails, SelectRow, InsertRow, Create, Refused, CreateFails, Attach, AttachFails,
         Patch, Record
<1>2. \/ rows' = rows
      \/ pc[w] = "insert" /\ rows' = rows (+) SetToBag({Cached(w)})
  BY DEF Step, Crash, Start, SkipDone, Take, Finish, Resolve, Find, Post, Conflict, FindAgain,
         WalkFails, SelectRow, InsertRow, Create, Refused, CreateFails, Attach, AttachFails,
         Patch, Record
<1>3. orphaned' = orphaned \/ orphaned' = orphaned (+) SetToBag({Copy(w)})
  BY DEF Step, Crash, Start, SkipDone, Take, Finish, Resolve, Find, Post, Conflict, FindAgain,
         WalkFails, SelectRow, InsertRow, Create, Refused, CreateFails, Attach, AttachFails,
         Patch, Record, Cut, observers
<1>4. \/ folders' = folders
      \/ pc[w] = "post" /\ folders' = folders \cup {Current(w)}
  <2>1. CASE Post(w)
    <3>1. pc[w] = "post" /\ folders' = folders \cup {FolderId(w)}
      BY <2>1 DEF Post
    <3> QED
      BY <3>1, WalkIs DEF Walking
  <2>2. CASE ~Post(w)
    BY <2>2 DEF Step, Crash, Start, SkipDone, Take, Finish, Resolve, Find, Conflict,
          FindAgain, WalkFails, SelectRow, InsertRow, Create, Refused, CreateFails, Attach,
          AttachFails, Patch, Record
  <2> QED
    BY <2>1, <2>2
<1>5. status' \in [Msgs -> {"none", "failed", "done"}]
  <2>1. \/ status' = status
        \/ \E s \in {"failed", "done"} : status' = [status EXCEPT ![hand[w]] = s]
    BY DEF Step, Crash, Start, SkipDone, Take, Finish, Resolve, Find, Post, Conflict,
           FindAgain, WalkFails, SelectRow, Along, InsertRow, Create, Refused, CreateFails,
           Attach, AttachFails, Patch, Record, Raise, TryNext
  <2> QED
    BY <2>1 DEF TypeOK
<1>6. todo' \in [Workers -> SUBSET Msgs]
  BY DEF TypeOK, Step, Crash, Start, SkipDone, Take, Finish, Resolve, Find, Post, Conflict,
         FindAgain, WalkFails, SelectRow, InsertRow, Create, Refused, CreateFails, Attach,
         AttachFails, Patch, Record
<1> QED
  BY <1>1, <1>2, <1>3, <1>4, <1>5, <1>6

LEMMA TypeStep ==
  ASSUME TypeOK, Jobs, NEW w \in Workers, Step(w) \/ Crash(w)
  PROVE  TypeOK' /\ Jobs' /\ Others(w)
<1>1. LocalTypes
  BY DEF TypeOK, LocalTypes, Labelled
<1>2. LocalTypes' /\ Jobs' /\ Others(w)
  BY <1>1, StepIs
<1>3. IsABag(copies) /\ IsABag(rows) /\ IsABag(orphaned) /\ DOMAIN rows \subseteq Paths
  BY DEF TypeOK
<1>4. IsABag(copies') /\ IsABag(orphaned')
  <2>1. IsABag(copies (+) SetToBag({Copy(w)})) /\ IsABag(orphaned (+) SetToBag({Copy(w)}))
    BY <1>3, OneMore
  <2>2. /\ copies' = copies \/ copies' = copies (+) SetToBag({Copy(w)})
        /\ orphaned' = orphaned \/ orphaned' = orphaned (+) SetToBag({Copy(w)})
    BY DataStep
  <2> QED
    BY <2>1, <2>2, <1>3
<1>5. IsABag(rows') /\ DOMAIN rows' \subseteq Paths
  <2>1. CASE rows' = rows
    BY <2>1, <1>3
  <2>2. CASE pc[w] = "insert" /\ rows' = rows (+) SetToBag({Cached(w)})
    <3>1. Cached(w) \in Paths
      BY <2>2, CachedIs
    <3>2. /\ IsABag(rows (+) SetToBag({Cached(w)}))
          /\ DOMAIN (rows (+) SetToBag({Cached(w)})) = DOMAIN rows \cup {Cached(w)}
      BY <1>3, OneMore
    <3> QED
      BY <3>1, <3>2, <2>2, <1>3
  <2> QED
    BY <2>1, <2>2, DataStep
<1>6. TypeOK'
  <2>1. /\ status' \in [Msgs -> {"none", "failed", "done"}]
        /\ todo' \in [Workers -> SUBSET Msgs]
    BY DataStep
  <2> QED
    BY <2>1, <1>2, <1>4, <1>5 DEF TypeOK, LocalTypes, Labelled
<1> QED
  BY <1>2, <1>6

\* In the first state every job is idle, with an empty cache, and nothing is stored.
LEMMA InitIs ==
  ASSUME Init
  PROVE  TypeOK /\ Jobs /\ \A x : Count(x, rows) = 0 /\ Count(x, copies) = 0 /\ Count(x, orphaned) = 0
<1>1. IsABag(EmptyBag) /\ DOMAIN EmptyBag = {} /\ \A x : Count(x, EmptyBag) = 0
  BY DEF EmptyBag, SetToBag, IsABag, Count, BagIn, BagToSet
<1>2. TypeOK
  BY <1>1 DEF Init, TypeOK
<1>3. Jobs
  <2>1. DOMAIN <<>> = {}
    OBVIOUS
  <2> QED
    BY <2>1 DEF Init, Jobs, JobOK, HandOK, CacheOK, PlaceOK, Walking, Unrecorded
<1> QED
  BY <1>1, <1>2, <1>3 DEF Init

LEMMA JobsStutter ==
  ASSUME TypeOK, Jobs, UNCHANGED vars
  PROVE  TypeOK' /\ Jobs'
BY DEF vars, tenant, database, locals, observers, TypeOK, Jobs, JobOK, HandOK, CacheOK, PlaceOK,
       Target

\* Every reachable state is well typed, and every job is at a place of its walk that
\* goes with its cache, the folders of the tenant and the message in its hands.
THEOREM TypeCorrect == Spec => [](TypeOK /\ Jobs)
<1>1. Init => TypeOK /\ Jobs
  BY InitIs
<1>2. TypeOK /\ Jobs /\ [Next]_vars => (TypeOK /\ Jobs)'
  BY TypeStep, JobsStutter DEF Next
<1> QED
  BY <1>1, <1>2, PTL DEF Spec
-----------------------------------------------------------------------------
(* Folders and rows *)

\* No copy is made in a folder its labels do not ask for, and no folder of the walk is
\* made at the wrong level, however the walks of the jobs mix.
THEOREM LandsInItsFolderHolds == Spec => []LandsInItsFolder
<1>1. Init => LandsInItsFolder
  BY DEF Init, LandsInItsFolder, EmptyBag, SetToBag, BagToSet
<1>2. TypeOK /\ Jobs /\ LandsInItsFolder /\ [Next]_vars => LandsInItsFolder'
  <2> SUFFICES ASSUME TypeOK, Jobs, LandsInItsFolder, [Next]_vars PROVE LandsInItsFolder'
    OBVIOUS
  <2>1. ASSUME NEW w \in Workers, Step(w) \/ Crash(w) PROVE LandsInItsFolder'
    <3>1. \A copy \in BagToSet(copies') : copy[2] \in ToSet(Targets[copy[1]])
      <4>1. CASE copies' = copies
        BY <4>1 DEF LandsInItsFolder
      <4>2. CASE pc[w] = "import" /\ copies' = copies (+) SetToBag({Copy(w)})
        <5>1. BagToSet(copies') = BagToSet(copies) \cup {Copy(w)}
          BY <4>2, OneMore DEF TypeOK, BagToSet
        <5>2. Copy(w)[2] \in ToSet(Targets[Copy(w)[1]])
          <6>1. Copy(w) = <<hand[w], Targets[hand[w]][nth[w]]>>
                /\ nth[w] \in DOMAIN Targets[hand[w]]
            BY <4>2, CopyIs, TargetIs
          <6> QED
            BY <6>1 DEF ToSet
        <5> QED
          BY <5>1, <5>2 DEF LandsInItsFolder
      <4> QED
        BY <2>1, <4>1, <4>2, DataStep
    <3>2. /\ folders' \subseteq Paths \ WellKnown
          /\ \A f \in folders' : Len(f) = 1 \/ Front(f) \in folders' \cup WellKnown
      <4>1. CASE folders' = folders
        BY <4>1 DEF LandsInItsFolder
      <4>2. CASE pc[w] = "post" /\ folders' = folders \cup {Current(w)}
        <5>1. /\ Current(w) = CurrentOf(Target(w), DOMAIN cache[w]) /\ Current(w) \in Paths
              /\ Len(Current(w)) = 1 \/ Front(Current(w)) \in folders \cup WellKnown
          BY <4>2, WalkIs DEF Walking
        <5>2. Current(w) \notin WellKnown
          BY <4>2, <5>1 DEF Jobs, JobOK, PlaceOK
        <5> QED
          BY <4>2, <5>1, <5>2 DEF LandsInItsFolder
      <4> QED
        BY <2>1, <4>1, <4>2, DataStep
    <3> QED
      BY <3>1, <3>2 DEF LandsInItsFolder
  <2>2. CASE UNCHANGED vars
    BY <2>2 DEF vars, tenant, LandsInItsFolder
  <2> QED
    BY <2>1, <2>2 DEF Next
<1> QED
  BY <1>1, <1>2, TypeCorrect, PTL DEF Spec

\* Only the selection that found no row makes a job insert one.
LEMMA ToInsert ==
  ASSUME TypeOK, Jobs, NEW w \in Workers, Step(w) \/ Crash(w), pc'[w] = "insert"
  PROVE  /\ pc[w] = "select" /\ Count(Cached(w), rows) = 0 /\ rows' = rows
         /\ \/ \A v \in Workers : ~Inserting(v, Cached(w))
            \/ Cached(w) \in raced'
         /\ hand'[w] = hand[w] /\ nth'[w] = nth[w] /\ cache'[w] = cache[w]
<1>1. /\ \A label : Goto(w, label) => pc'[w] = label
      /\ \A m \in Msgs : \A k : Turn(w, m, k) => pc'[w] # "insert"
      /\ pc[w] \notin {"idle", "loop"} => hand[w] \in Msgs
  BY DEF TypeOK, Goto, Turn
<1>2. pc[w] \notin {"idle", "loop"} /\ Raise(w) => pc'[w] # "insert"
  BY <1>1 DEF Raise
<1>3. Found(w, Current(w)) \/ Found(w, FolderId(w)) => pc'[w] # "insert"
  BY <1>1 DEF Found
<1>4. SelectRow(w)
  <2> USE <1>1, <1>2, <1>3
  <2>1. ~Start(w) /\ ~Finish(w) /\ ~Crash(w)
    BY DEF Start, Finish, Crash
  <2>2. \A m \in Msgs : ~SkipDone(w, m) /\ ~Take(w, m)
    BY DEF SkipDone, Take
  <2>3. ~Resolve(w) /\ ~Find(w) /\ ~Post(w) /\ ~Conflict(w) /\ ~FindAgain(w) /\ ~WalkFails(w)
    BY DEF Resolve, Find, Post, Conflict, FindAgain, WalkFails
  <2>4. ~InsertRow(w) /\ ~Create(w) /\ ~Refused(w) /\ ~CreateFails(w)
    BY DEF InsertRow, Along, Create, Complete, Refused, TryNext, CreateFails
  <2>5. ~Attach(w) /\ ~AttachFails(w) /\ ~Patch(w)
    BY DEF Attach, Complete, AttachFails, TryNext, Patch
  <2>6. ~Record(w)
    BY DEF Record
  <2> QED
    BY <2>1, <2>2, <2>3, <2>4, <2>5, <2>6 DEF Step
<1>5. pc[w] = "select" /\ rows' = rows /\ UNCHANGED cache /\ ~Along(w) /\ ~Raise(w)
  BY <1>1, <1>2, <1>4 DEF SelectRow, Along
<1> QED
  BY <1>4, <1>5 DEF SelectRow, RowsFound, Inserting
\* The part whose row is due is the same as long as the job stays where it is.
LEMMA CachedStays ==
  ASSUME NEW v, hand'[v] = hand[v], nth'[v] = nth[v], cache'[v] = cache[v]
  PROVE  Cached(v)' = Cached(v)
<1>1. Target(v)' = Target(v)
  BY DEF Target
<1> QED
  BY <1>1 DEF Cached

\* A path has one row at most, or one job that is about to insert it, unless two jobs
\* looked for its row at one time.
LEMMA RowsUniqueStep ==
  ASSUME TypeOK, Jobs, RowsUnique, NEW w \in Workers, Step(w) \/ Crash(w)
  PROVE  RowsUnique'
<1> SUFFICES ASSUME NEW p \in Paths, p \notin raced'
             PROVE  /\ Count(p, rows') <= 1
                    /\ \A v \in Workers : Inserting(v, p)' => Count(p, rows') = 0
                    /\ \A u, v \in Workers : Inserting(u, p)' /\ Inserting(v, p)' => u = v
  BY DEF RowsUnique
<1>1. raced \subseteq raced'
  BY DEF Step, Crash, Start, SkipDone, Take, Finish, Resolve, Find, Post, Conflict, FindAgain,
         WalkFails, SelectRow, InsertRow, Create, Refused, CreateFails, Attach, AttachFails,
         Patch, Record, observers
<1>2. /\ Count(p, rows) <= 1 /\ Count(p, rows) \in Nat
      /\ \A v \in Workers : Inserting(v, p) => Count(p, rows) = 0
      /\ \A u, v \in Workers : Inserting(u, p) /\ Inserting(v, p) => u = v
  BY <1>1, OneMore DEF RowsUnique, TypeOK
<1>3. ASSUME NEW v \in Workers, v # w PROVE Inserting(v, p)' <=> Inserting(v, p)
  <2>1. /\ pc'[v] = pc[v] /\ hand'[v] = hand[v] /\ nth'[v] = nth[v] /\ cache'[v] = cache[v]
    BY <1>3, TypeStep DEF Others
  <2> QED
    BY <2>1, CachedStays DEF Inserting
<1>4. CASE pc'[w] = "insert"
  <2>1. /\ pc[w] = "select" /\ Count(Cached(w), rows) = 0 /\ rows' = rows
        /\ \/ \A v \in Workers : ~Inserting(v, Cached(w))
           \/ Cached(w) \in raced'
        /\ Cached(w)' = Cached(w)
    BY <1>4, ToInsert, CachedStays
  <2>2. CASE Cached(w) = p
    <3>1. \A v \in Workers : ~Inserting(v, p)
      BY <2>1, <2>2
    <3> QED
      BY <2>1, <2>2, <3>1, <1>2, <1>3
  <2>3. CASE Cached(w) # p
    <3>1. ~Inserting(w, p)'
      BY <2>1, <2>3 DEF Inserting
    <3> QED
      BY <2>1, <3>1, <1>2, <1>3
  <2> QED
    BY <2>2, <2>3
<1>5. CASE pc'[w] # "insert"
  <2>1. ~Inserting(w, p)'
    BY <1>5 DEF Inserting
  <2>2. CASE rows' = rows
    BY <2>1, <2>2, <1>2, <1>3
  <2>3. CASE pc[w] = "insert" /\ rows' = rows (+) SetToBag({Cached(w)})
    <3>1. Count(p, rows') = Count(p, rows) + (IF p = Cached(w) THEN 1 ELSE 0)
      BY <2>3, OneMore DEF TypeOK
    <3>2. CASE Cached(w) = p
      <4>1. Inserting(w, p)
        BY <2>3, <3>2 DEF Inserting
      <4>2. \A v \in Workers : ~Inserting(v, p)'
        BY <4>1, <2>1, <1>2, <1>3
      <4> QED
        BY <4>1, <4>2, <3>1, <3>2, <1>2
    <3>3. CASE Cached(w) # p
      BY <3>1, <3>3, <2>1, <1>2, <1>3
    <3> QED
      BY <3>2, <3>3
  <2> QED
    BY <2>2, <2>3, DataStep
<1> QED
  BY <1>4, <1>5

\* Every row tells of a folder that exists, whatever failed after the folder or before
\* it; and two rows for one path come only of two jobs that looked at one time.
THEOREM RowsTellOfFoldersHolds == Spec => []RowsTellOfFolders
<1> DEFINE Exist == \A p \in DOMAIN rows : p \in folders \cup WellKnown
<1>1. Init => Exist /\ RowsUnique
  <2> SUFFICES ASSUME Init PROVE Exist /\ RowsUnique
    OBVIOUS
  <2>1. DOMAIN rows = {} /\ \A w \in Workers : pc[w] = "idle"
    BY DEF Init, EmptyBag, SetToBag
  <2>2. \A p : Count(p, rows) = 0 /\ \A w \in Workers : ~Inserting(w, p)
    BY <2>1, InitIs DEF Inserting
  <2> QED
    BY <2>1, <2>2 DEF RowsUnique
<1>2. TypeOK /\ Jobs /\ Exist /\ RowsUnique /\ [Next]_vars => Exist' /\ RowsUnique'
  <2> SUFFICES ASSUME TypeOK, Jobs, Exist, RowsUnique, [Next]_vars PROVE Exist' /\ RowsUnique'
    OBVIOUS
  <2>1. ASSUME NEW w \in Workers, Step(w) \/ Crash(w) PROVE Exist' /\ RowsUnique'
    <3>1. folders \subseteq folders'
      BY <2>1, DataStep
    <3>2. CASE rows' = rows
      BY <3>1, <3>2, <2>1, RowsUniqueStep
    <3>3. CASE pc[w] = "insert" /\ rows' = rows (+) SetToBag({Cached(w)})
      <4>1. DOMAIN rows' = DOMAIN rows \cup {Cached(w)}
        BY <3>3, OneMore DEF TypeOK
      <4>2. Cached(w) \in folders \cup WellKnown
        BY <3>3, CachedIs
      <4> QED
        BY <4>1, <4>2, <3>1, <2>1, RowsUniqueStep
    <3> QED
      BY <2>1, <3>2, <3>3, DataStep
  <2>2. CASE UNCHANGED vars
    BY <2>2 DEF vars, tenant, database, locals, observers, RowsUnique, Inserting, Cached, Target
  <2> QED
    BY <2>1, <2>2 DEF Next
<1>3. TypeOK /\ Exist /\ RowsUnique => RowsTellOfFolders
  <2> SUFFICES ASSUME TypeOK, Exist, RowsUnique, NEW p \in DOMAIN rows
               PROVE  p \in folders \cup WellKnown /\ (Count(p, rows) > 1 => p \in raced)
    BY DEF RowsTellOfFolders
  <2>1. p \in Paths /\ Count(p, rows) \in Nat
    BY OneMore DEF TypeOK
  <2>2. p \notin raced => Count(p, rows) <= 1
    BY <2>1 DEF RowsUnique
  <2> QED
    BY <2>1, <2>2
<1> QED
  BY <1>1, <1>2, <1>3, TypeCorrect, PTL DEF Spec
-----------------------------------------------------------------------------
(* Messages and their copies *)

\* The copy a job is about to make, or has made and not recorded.
Spot(w) == <<hand[w], Targets[hand[w]][nth[w]]>>
Out(w) == IF pc[w] \in Unrecorded THEN 1 ELSE 0

\* A step keeps account of the copies: one that is made is in the job's hands, and one
\* that leaves them is recorded (r = 1) or cut off.
Balance(w, r) ==
  \E x, y \in {0, 1} :
    /\ Out(w) + x = Out(w)' + y + r
    /\ \A c : Count(c, copies') = Count(c, copies) + (IF c = Spot(w) THEN x ELSE 0)
    /\ \A c : Count(c, orphaned') = Count(c, orphaned) + (IF c = Spot(w) THEN y ELSE 0)

\* What a step makes of the message in the job's hands.
Keeps(w) == hand'[w] = hand[w] /\ nth'[w] = nth[w] /\ status' = status /\ Balance(w, 0)
Drops(w) == hand'[w] = "none" /\ pc'[w] \notin Unrecorded /\ status' = status /\ Balance(w, 0)
Takes(w, m) ==
  /\ hand[w] = "none" /\ status[m] # "done" /\ hand'[w] \in {m, "none"} /\ nth'[w] = 1
  /\ (\E v \in Workers : hand[v] = m) => m \in shared'
  /\ pc'[w] \notin Unrecorded /\ status' = status /\ Balance(w, 0)
GivesUp(w) ==
  /\ hand[w] \in Msgs /\ nth[w] = 1 /\ hand'[w] = "none" /\ pc'[w] \notin Unrecorded
  /\ status' = [status EXCEPT ![hand[w]] = "failed"] /\ hand[w] \in hit' /\ Balance(w, 0)
GoesOn(w) ==
  /\ hand[w] \in Msgs /\ nth[w] > 1 /\ nth'[w] = nth[w] + 1 /\ hand'[w] \in {hand[w], "none"}
  /\ pc'[w] \notin Unrecorded /\ status' = status /\ Balance(w, 0)
Enters(w) ==
  /\ hand[w] \in Msgs /\ pc[w] \in Unrecorded /\ pc'[w] \notin Unrecorded
  /\ nth'[w] = nth[w] + 1 /\ hand'[w] \in {hand[w], "none"}
  /\ status' = IF nth[w] = 1 THEN [status EXCEPT ![hand[w]] = "done"] ELSE status
  /\ Balance(w, 1)

\* The four ways the two bags change with the place of the job.
LEMMA BalanceIs ==
  ASSUME TypeOK, Jobs, NEW w \in Workers, Step(w) \/ Crash(w)
  PROVE  /\ copies' = copies /\ orphaned' = orphaned /\ Out(w)' = Out(w) => Balance(w, 0)
         /\ copies' = copies /\ orphaned' = orphaned /\ Out(w) = 1 /\ Out(w)' = 0
              => Balance(w, 1)
         /\ pc[w] \in Unrecorded \cup {"import"} /\ copies' = copies
              /\ orphaned' = orphaned (+) SetToBag({Copy(w)}) /\ Out(w) = 1 /\ Out(w)' = 0
              => Balance(w, 0)
         /\ pc[w] \in Unrecorded \cup {"import"} /\ orphaned' = orphaned
              /\ copies' = copies (+) SetToBag({Copy(w)}) /\ Out(w) = 0 /\ Out(w)' = 1
              => Balance(w, 0)
         /\ pc[w] \in Unrecorded \cup {"import"} /\ copies' = copies (+) SetToBag({Copy(w)})
              /\ orphaned' = orphaned (+) SetToBag({Copy(w)}) /\ Out(w)' = Out(w)
              => Balance(w, 0)
<1>1. /\ \A c : Count(c, copies) \in Nat /\ Count(c, orphaned) \in Nat
      /\ \A e, c : Count(c, copies (+) SetToBag({e})) = Count(c, copies) + (IF c = e THEN 1 ELSE 0)
      /\ \A e, c : Count(c, orphaned (+) SetToBag({e})) = Count(c, orphaned) + (IF c = e THEN 1 ELSE 0)
  BY OneMore DEF TypeOK
<1>2. pc[w] \in Unrecorded \cup {"import"} => Copy(w) = Spot(w)
  BY CopyIs DEF Spot
<1>3. /\ \A c : Count(c, copies) = Count(c, copies) + (IF c = Spot(w) THEN 0 ELSE 0)
      /\ \A c : Count(c, orphaned) = Count(c, orphaned) + (IF c = Spot(w) THEN 0 ELSE 0)
      /\ Out(w) \in {0, 1} /\ Out(w)' \in {0, 1}
  BY <1>1 DEF Out
<1> HIDE DEF Count, Spot, Out, Copy
<1>4. ASSUME copies' = copies, orphaned' = orphaned, Out(w)' = Out(w) PROVE Balance(w, 0)
  <2>1. Out(w) + 0 = Out(w)' + 0 + 0
    BY <1>3, <1>4
  <2> QED
    BY <2>1, <1>3, <1>4 DEF Balance
<1>5. ASSUME copies' = copies, orphaned' = orphaned, Out(w) = 1, Out(w)' = 0 PROVE Balance(w, 1)
  <2>1. Out(w) + 0 = Out(w)' + 0 + 1
    BY <1>5
  <2> QED
    BY <2>1, <1>3, <1>5 DEF Balance
<1>6. ASSUME pc[w] \in Unrecorded \cup {"import"}, copies' = copies,
             orphaned' = orphaned (+) SetToBag({Copy(w)}), Out(w) = 1, Out(w)' = 0
      PROVE  Balance(w, 0)
  <2>1. Out(w) + 0 = Out(w)' + 1 + 0
    BY <1>6
  <2>2. \A c : Count(c, orphaned') = Count(c, orphaned) + (IF c = Spot(w) THEN 1 ELSE 0)
    <3>1. orphaned' = orphaned (+) SetToBag({Spot(w)})
      BY <1>2, <1>6
    <3> QED
      BY <3>1, <1>1
  <2> QED
    BY <2>1, <2>2, <1>3, <1>6 DEF Balance
<1>7. ASSUME pc[w] \in Unrecorded \cup {"import"}, orphaned' = orphaned,
             copies' = copies (+) SetToBag({Copy(w)}), Out(w) = 0, Out(w)' = 1
      PROVE  Balance(w, 0)
  <2>1. Out(w) + 1 = Out(w)' + 0 + 0
    BY <1>7
  <2>2. \A c : Count(c, copies') = Count(c, copies) + (IF c = Spot(w) THEN 1 ELSE 0)
    <3>1. copies' = copies (+) SetToBag({Spot(w)})
      BY <1>2, <1>7
    <3> QED
      BY <3>1, <1>1
  <2> QED
    BY <2>1, <2>2, <1>3, <1>7 DEF Balance
<1>8. ASSUME pc[w] \in Unrecorded \cup {"import"}, copies' = copies (+) SetToBag({Copy(w)}),
             orphaned' = orphaned (+) SetToBag({Copy(w)}), Out(w)' = Out(w)
      PROVE  Balance(w, 0)
  <2>1. Out(w) + 1 = Out(w)' + 1 + 0
    BY <1>3, <1>8
  <2>2. /\ \A c : Count(c, copies') = Count(c, copies) + (IF c = Spot(w) THEN 1 ELSE 0)
        /\ \A c : Count(c, orphaned') = Count(c, orphaned) + (IF c = Spot(w) THEN 1 ELSE 0)
    BY <1>1, <1>2, <1>8
  <2> QED
    BY <2>1, <2>2, <1>3, <1>8 DEF Balance
<1> QED
  BY <1>4, <1>5, <1>6, <1>7, <1>8
\* What any step is to the message in the job's hands.
LEMMA MessageStep ==
  ASSUME TypeOK, Jobs, NEW w \in Workers, Step(w) \/ Crash(w)
  PROVE  \/ Keeps(w) \/ Drops(w) \/ GivesUp(w) \/ GoesOn(w) \/ Enters(w)
         \/ \E m \in Msgs : Takes(w, m)
<1> DEFINE Goal == \/ Keeps(w) \/ Drops(w) \/ GivesUp(w) \/ GoesOn(w) \/ Enters(w)
                   \/ \E m \in Msgs : Takes(w, m)
<1>0. /\ LocalTypes
      /\ \A label : Goto(w, label) => pc'[w] = label
  BY DEF TypeOK, LocalTypes, Labelled, Goto
<1>1. ASSUME UNCHANGED <<hand, nth, status, copies, orphaned>>,
             pc[w] \in Unrecorded <=> pc'[w] \in Unrecorded
      PROVE  Keeps(w)
  BY <1>1, BalanceIs DEF Keeps, Out
<1>2. ASSUME pc[w] \notin {"idle", "loop"}, Raise(w), UNCHANGED <<cache, folders>>, Hit(w),
             pc'[w] \notin Unrecorded => Balance(w, 0)
      PROVE  GivesUp(w) \/ GoesOn(w)
  <2>1. pc'[w] \notin Unrecorded /\ hand[w] \in Msgs
    BY <1>0, <1>2, RaiseIs, TargetIs DEF Unrecorded
  <2> QED
    BY <1>0, <1>2, <2>1, RaiseIs DEF GivesUp, GoesOn, Hit
<1> HIDE DEF Goal
<1> USE DEF tenant, database
<1>3. CASE Start(w) \/ Finish(w) \/ (\E m \in Msgs : SkipDone(w, m))
  <2>1. /\ UNCHANGED <<hand, nth, status, copies, orphaned>>
        /\ pc[w] \notin Unrecorded /\ pc'[w] \notin Unrecorded
    BY <1>0, <1>3 DEF Start, Finish, SkipDone, observers, Unrecorded
  <2> QED
    BY <2>1, <1>1 DEF Goal
<1>4. CASE Crash(w)
  <2>1. /\ pc'[w] = "idle" /\ hand'[w] = "none" /\ status' = status /\ copies' = copies
        /\ IF pc[w] \in Unrecorded THEN Cut(w) ELSE orphaned' = orphaned
    BY <1>0, <1>4 DEF Crash, Unrecorded, TypeOK
  <2>2. Balance(w, 0) /\ pc'[w] \notin Unrecorded
    BY <2>1, BalanceIs DEF Cut, Out, Unrecorded
  <2> QED
    BY <2>1, <2>2 DEF Drops, Goal
<1>5. ASSUME NEW m \in Msgs, Take(w, m) PROVE Takes(w, m)
  <2>1. /\ Turn(w, m, 1) /\ 1 \in Nat \ {0} /\ UNCHANGED <<cache, folders, status, copies, orphaned>>
        /\ pc[w] = "loop" /\ status[m] # "done"
        /\ (\E v \in Workers : hand[v] = m) => m \in shared'
    BY <1>5 DEF Take, Pending
  <2>2. /\ nth'[w] = 1 /\ hand'[w] \in {m, "none"} /\ pc'[w] \in {"import", "folder", "loop"}
    BY <2>1, <1>0, TurnIs
  <2>3. Balance(w, 0) /\ hand[w] = "none" /\ pc'[w] \notin Unrecorded
    BY <2>1, <2>2, BalanceIs DEF Out, Unrecorded, TypeOK
  <2> QED
    BY <2>1, <2>2, <2>3 DEF Takes
<1>6. CASE Resolve(w) \/ Find(w) \/ Post(w) \/ Conflict(w) \/ FindAgain(w)
  <2>1. /\ UNCHANGED <<hand, nth, status, copies, orphaned>>
        /\ pc[w] \notin Unrecorded /\ pc'[w] \notin Unrecorded
    BY <1>0, <1>6 DEF Resolve, Find, Post, Conflict, FindAgain, Found, observers, Unrecorded
  <2> QED
    BY <2>1, <1>1 DEF Goal
<1>7. CASE WalkFails(w)
  <2>1. /\ pc[w] \notin {"idle", "loop"} /\ pc[w] \notin Unrecorded /\ Raise(w) /\ Hit(w)
        /\ UNCHANGED <<cache, folders, copies, orphaned>>
    BY <1>7 DEF WalkFails, Unrecorded
  <2> QED
    BY <2>1, <1>2, BalanceIs DEF Out, Goal
<1>8. CASE SelectRow(w)
  <2>1. /\ pc[w] = "select" /\ UNCHANGED <<cache, folders, copies, orphaned>>
        /\ \/ /\ Goto(w, "insert") \/ Along(w)
              /\ UNCHANGED <<hand, nth, status>>
           \/ Raise(w) /\ Hit(w)
    BY <1>8 DEF SelectRow, Along
  <2>2. CASE Raise(w) /\ Hit(w)
    BY <2>1, <2>2, <1>2, BalanceIs DEF Out, Unrecorded, Goal
  <2>3. CASE (Goto(w, "insert") \/ Along(w)) /\ UNCHANGED <<hand, nth, status>>
    <3>1. pc'[w] \notin Unrecorded /\ pc[w] \notin Unrecorded
      BY <1>0, <2>1, <2>3 DEF Along, Unrecorded
    <3> QED
      BY <2>1, <2>3, <3>1, <1>1 DEF Goal
  <2> QED
    BY <2>1, <2>2, <2>3
<1>9. CASE InsertRow(w)
  <2>1. /\ UNCHANGED <<hand, nth, status, copies, orphaned>>
        /\ pc[w] \notin Unrecorded /\ pc'[w] \notin Unrecorded
    BY <1>0, <1>9 DEF InsertRow, Along, observers, Unrecorded
  <2> QED
    BY <2>1, <1>1 DEF Goal
<1>10. CASE Create(w)
  <2>1. /\ UNCHANGED <<hand, nth, status, orphaned>> /\ pc[w] = "import"
        /\ copies' = copies (+) SetToBag({Copy(w)}) /\ pc'[w] \in Unrecorded
    BY <1>0, <1>10 DEF Create, Complete, observers, Unrecorded
  <2>2. Balance(w, 0)
    BY <2>1, BalanceIs DEF Out, Unrecorded
  <2> QED
    BY <2>1, <2>2 DEF Keeps, Goal
<1>11. CASE Refused(w)
  <2>1. /\ UNCHANGED <<hand, nth, status, copies, orphaned>>
        /\ pc[w] \notin Unrecorded /\ pc'[w] \notin Unrecorded
    BY <1>0, <1>11 DEF Refused, TryNext, observers, Unrecorded
  <2> QED
    BY <2>1, <1>1 DEF Goal
<1>12. CASE CreateFails(w)
  <2>1. /\ pc[w] = "import" /\ Raise(w) /\ Hit(w) /\ UNCHANGED <<cache, folders>>
        /\ \/ UNCHANGED <<copies, orphaned>>
           \/ copies' = copies (+) SetToBag({Copy(w)}) /\ orphaned' = orphaned (+) SetToBag({Copy(w)})
    BY <1>12 DEF CreateFails, Cut
  <2>2. pc'[w] \notin Unrecorded => Balance(w, 0)
    BY <2>1, BalanceIs DEF Out, Unrecorded
  <2> QED
    BY <2>1, <2>2, <1>2 DEF Goal
<1>13. CASE Attach(w) \/ Patch(w)
  <2>1. /\ UNCHANGED <<hand, nth, status, copies, orphaned>>
        /\ pc[w] \in Unrecorded /\ pc'[w] \in Unrecorded
    BY <1>0, <1>13 DEF Attach, Complete, Patch, observers, Unrecorded
  <2> QED
    BY <2>1, <1>1 DEF Goal
<1>14. CASE AttachFails(w)
  <2>1. /\ pc[w] = "attach" /\ Hit(w) /\ UNCHANGED <<cache, folders, copies>>
        /\ orphaned' = orphaned (+) SetToBag({Copy(w)})
        /\ Raise(w) \/ TryNext(w)
    BY <1>14 DEF AttachFails, Cut
  <2>2. pc'[w] \notin Unrecorded => Balance(w, 0)
    BY <2>1, BalanceIs DEF Out, Unrecorded
  <2>3. CASE Raise(w)
    BY <2>1, <2>2, <2>3, <1>2 DEF Goal
  <2>4. CASE TryNext(w)
    <3>1. pc'[w] = "import" /\ UNCHANGED <<hand, nth, status>>
      BY <1>0, <2>4 DEF TryNext
    <3> QED
      BY <2>2, <3>1 DEF Keeps, Unrecorded, Goal
  <2> QED
    BY <2>1, <2>3, <2>4
<1>15. CASE Record(w)
  <2>1. /\ pc[w] = "record" /\ Turn(w, hand[w], nth[w] + 1)
        /\ UNCHANGED <<cache, folders, copies, orphaned>>
        /\ status' = IF nth[w] = 1 THEN [status EXCEPT ![hand[w]] = "done"] ELSE status
    BY <1>15 DEF Record, observers
  <2>2. hand[w] \in Msgs /\ nth[w] + 1 \in Nat \ {0}
    BY <2>1, TargetIs, TargetsAre
  <2>3. /\ nth'[w] = nth[w] + 1 /\ hand'[w] \in {hand[w], "none"}
        /\ pc'[w] \in {"import", "folder", "loop"}
    BY <2>1, <2>2, <1>0, TurnIs
  <2>4. Balance(w, 1) /\ pc[w] \in Unrecorded /\ pc'[w] \notin Unrecorded
    BY <2>1, <2>3, BalanceIs DEF Out, Unrecorded
  <2> QED
    BY <2>1, <2>2, <2>3, <2>4 DEF Enters, Goal
<1> QED
  BY <1>3, <1>4, <1>5, <1>6, <1>7, <1>8, <1>9, <1>10, <1>11, <1>12, <1>13, <1>14, <1>15
     DEF Step, Goal
\* The observers only grow.
LEMMA ObserversGrow ==
  ASSUME NEW w \in Workers, Step(w) \/ Crash(w)
  PROVE  shared \subseteq shared' /\ hit \subseteq hit'
<1>1. shared \subseteq shared'
  BY DEF Step, Crash, Start, SkipDone, Take, Finish, Resolve, Find, Post, Conflict, FindAgain,
         WalkFails, SelectRow, InsertRow, Create, Refused, CreateFails, Attach, AttachFails,
         Patch, Record, observers
<1>2. hit \subseteq hit'
  BY DEF Step, Crash, Start, SkipDone, Take, Finish, Resolve, Find, Post, Conflict, FindAgain,
         WalkFails, SelectRow, InsertRow, Create, Refused, CreateFails, Attach, AttachFails,
         Patch, Record, observers, Hit
<1> QED
  BY <1>1, <1>2

\* A message fails only where a request for it failed or a row was not unique: not for
\* a conflict with a folder that is there by now, a refused form or its flags.
THEOREM FailsForAReasonHolds == Spec => []FailsForAReason
<1>1. Init => FailsForAReason
  BY DEF Init, FailsForAReason
<1>2. TypeOK /\ Jobs /\ FailsForAReason /\ [Next]_vars => FailsForAReason'
  <2> SUFFICES ASSUME TypeOK, Jobs, FailsForAReason, [Next]_vars PROVE FailsForAReason'
    OBVIOUS
  <2>1. ASSUME NEW w \in Workers, Step(w) \/ Crash(w) PROVE FailsForAReason'
    <3>1. hit \subseteq hit'
      BY <2>1, ObserversGrow
    <3>2. CASE status' = status
      BY <3>1, <3>2 DEF FailsForAReason
    <3>3. CASE GivesUp(w)
      BY <3>1, <3>3 DEF FailsForAReason, GivesUp, TypeOK
    <3>4. CASE Enters(w)
      BY <3>1, <3>4 DEF FailsForAReason, Enters, TypeOK
    <3> QED
      BY <2>1, <3>2, <3>3, <3>4, MessageStep DEF Keeps, Drops, Takes, GoesOn
  <2>2. CASE UNCHANGED vars
    BY <2>2 DEF vars, database, observers, FailsForAReason
  <2> QED
    BY <2>1, <2>2 DEF Next
<1> QED
  BY <1>1, <1>2, TypeCorrect, PTL DEF Spec

\* Of a message no two jobs had in hand, one job at most holds it, past its primary
\* folder exactly when the message is done.
LEMMA HandsApartStep ==
  ASSUME TypeOK, Jobs, HandsApart, NEW w \in Workers, Step(w) \/ Crash(w)
  PROVE  HandsApart'
<1> SUFFICES ASSUME NEW m \in Msgs, m \notin shared'
             PROVE  /\ \A u, v \in Workers : hand'[u] = m /\ hand'[v] = m => u = v
                    /\ \A v \in Workers : hand'[v] = m => (status'[m] = "done" <=> nth'[v] # 1)
  BY DEF HandsApart
<1>1. /\ m # "none"
      /\ \A u, v \in Workers : hand[u] = m /\ hand[v] = m => u = v
      /\ \A v \in Workers : hand[v] = m => (status[m] = "done" <=> nth[v] # 1)
  BY ObserversGrow, ImportAssumption DEF HandsApart
<1>2. \A v \in Workers : v # w => hand'[v] = hand[v] /\ nth'[v] = nth[v]
  BY TypeStep DEF Others
<1>3. ASSUME hand[w] \in Msgs PROVE nth[w] \in Nat \ {0}
  BY <1>3, TargetIs, TargetsAre, ImportAssumption DEF TypeOK
<1>4. CASE Keeps(w) \/ Drops(w)
  BY <1>1, <1>2, <1>4 DEF Keeps, Drops
<1>5. ASSUME NEW n \in Msgs, Takes(w, n)
      PROVE  /\ \A u, v \in Workers : hand'[u] = m /\ hand'[v] = m => u = v
             /\ \A v \in Workers : hand'[v] = m => (status'[m] = "done" <=> nth'[v] # 1)
  BY <1>1, <1>2, <1>5 DEF Takes
<1>6. CASE GivesUp(w)
  BY <1>1, <1>2, <1>6 DEF GivesUp, TypeOK
<1>7. CASE GoesOn(w)
  <2>1. nth'[w] # 1
    BY <1>3, <1>7 DEF GoesOn
  <2> QED
    BY <2>1, <1>1, <1>2, <1>3, <1>7 DEF GoesOn
<1>8. CASE Enters(w)
  <2>1. nth'[w] # 1 /\ nth[w] \in Nat \ {0}
    BY <1>3, <1>8 DEF Enters
  <2>2. status'[m] = IF m = hand[w] /\ nth[w] = 1 THEN "done" ELSE status[m]
    BY <1>8 DEF Enters, TypeOK
  <2> QED
    BY <2>1, <2>2, <1>1, <1>2, <1>8 DEF Enters
<1> QED
  BY <1>4, <1>5, <1>6, <1>7, <1>8, MessageStep

LEMMA HandsApartHolds == Spec => []HandsApart
<1>1. Init => HandsApart
  BY ImportAssumption DEF Init, HandsApart
<1>2. TypeOK /\ Jobs /\ HandsApart /\ [Next]_vars => HandsApart'
  <2>1. HandsApart /\ UNCHANGED vars => HandsApart'
    BY DEF vars, database, locals, observers, HandsApart
  <2> QED
    BY <2>1, HandsApartStep DEF Next
<1> QED
  BY <1>1, <1>2, TypeCorrect, PTL DEF Spec

\* A message that is done stays done, whatever fails later: only of a message two jobs
\* had in hand together can one job overwrite what the other has recorded.
THEOREM DoneStaysHolds == Spec => DoneStays
<1>1. TypeOK /\ Jobs /\ HandsApart /\ [Next]_vars =>
        [\A m \in Msgs \ shared : status[m] = "done" => status'[m] = "done"]_vars
  <2> SUFFICES ASSUME TypeOK, Jobs, HandsApart, NEW w \in Workers, Step(w) \/ Crash(w),
                      NEW m \in Msgs, m \notin shared, status[m] = "done"
               PROVE  status'[m] = "done"
    BY DEF Next
  <2>1. hand[w] = m => nth[w] # 1
    BY DEF HandsApart
  <2>2. CASE status' = status
    BY <2>2
  <2>3. CASE GivesUp(w)
    BY <2>1, <2>3 DEF GivesUp, TypeOK
  <2>4. CASE Enters(w)
    BY <2>4 DEF Enters, TypeOK
  <2> QED
    BY <2>2, <2>3, <2>4, MessageStep DEF Keeps, Drops, Takes, GoesOn
<1> QED
  BY <1>1, TypeCorrect, HandsApartHolds, PTL DEF Spec, DoneStays
\* A step of a job that does not hold the message leaves its counts alone.
LEMMA CountsOfOthers ==
  ASSUME TypeOK, Jobs, NEW w \in Workers, Step(w) \/ Crash(w),
         NEW m \in Msgs, m \notin shared', hand[w] # m, NEW k \in DOMAIN Targets[m], CountOK(m, k)
  PROVE  CountOK(m, k)'
<1>1. /\ Made(m, k)' = Made(m, k) /\ Lost(m, k)' = Lost(m, k)
      /\ Made(m, k) \in Nat /\ Lost(m, k) \in Nat
  <2>1. <<m, Targets[m][k]>> # Spot(w)
    BY DEF Spot
  <2>2. Balance(w, 0) \/ Balance(w, 1)
    BY MessageStep DEF Keeps, Drops, Takes, GivesUp, GoesOn, Enters
  <2>3. \A c : Count(c, copies) \in Nat /\ Count(c, orphaned) \in Nat
    BY OneMore DEF TypeOK
  <2>4. /\ \A c : c # Spot(w) => Count(c, copies') = Count(c, copies) + 0
        /\ \A c : c # Spot(w) => Count(c, orphaned') = Count(c, orphaned) + 0
    BY <2>2 DEF Balance
  <2> HIDE DEF Count
  <2> QED
    BY <2>1, <2>3, <2>4 DEF Made, Lost
<1>2. status'[m] = status[m]
  BY MessageStep DEF Keeps, Drops, Takes, GivesUp, GoesOn, Enters, TypeOK
<1>3. \A v \in Workers : v # w => hand'[v] = hand[v] /\ nth'[v] = nth[v] /\ pc'[v] = pc[v]
  BY TypeStep DEF Others
<1>4. hand'[w] = m => pc'[w] \notin Unrecorded /\ status[m] # "done"
  BY MessageStep, ImportAssumption DEF Keeps, Drops, Takes, GivesUp, GoesOn, Enters
<1>5. Held(m)' <=> Held(m)
  BY <1>3, <1>4 DEF Held
<1>6. ToCome(m, k)' => ToCome(m, k) \/ status[m] # "done"
  BY <1>3, <1>4 DEF ToCome
<1>7. Recorded(m)' = Recorded(m) /\ (status[m] # "done" => Recorded(m) = 0)
  BY <1>2 DEF Recorded
<1> HIDE DEF Made, Lost, Held, ToCome, Recorded
<1>8. CASE k = 1
  BY <1>1, <1>5, <1>7, <1>8 DEF CountOK
<1>9. CASE k # 1
  <2>1. Made(m, k) <= Recorded(m) + Lost(m, k) /\ (ToCome(m, k) => Made(m, k) <= Lost(m, k))
    BY <1>9 DEF CountOK
  <2>2. status[m] # "done" => Made(m, k) <= Lost(m, k)
    BY <2>1, <1>1, <1>7
  <2> QED
    BY <2>1, <2>2, <1>1, <1>6, <1>7, <1>9 DEF CountOK
<1> QED
  BY <1>8, <1>9
\* A step of the one job that holds the message: what it makes is in its hands, until
\* it is recorded, or cut off.
LEMMA CountsOfHolder ==
  ASSUME UniquePaths, TypeOK, Jobs, HandsApart, NEW w \in Workers, Step(w) \/ Crash(w),
         NEW m \in Msgs, m \notin shared', hand[w] = m, NEW k \in DOMAIN Targets[m], CountOK(m, k)
  PROVE  CountOK(m, k)'
<1> DEFINE out == IF pc[w] \in Unrecorded THEN 1 ELSE 0
           out1 == IF pc'[w] \in Unrecorded THEN 1 ELSE 0
<1>1. /\ nth[w] \in Nat \ {0} /\ nth[w] \in DOMAIN Targets[m] /\ k \in Nat \ {0} /\ m # "none"
      /\ status[m] = "done" <=> nth[w] # 1
      /\ \A v \in Workers : v # w => hand[v] # m /\ hand'[v] # m
  <2>1. pc[w] \notin {"idle", "loop"} /\ m # "none" /\ m \notin shared
    BY ImportAssumption, ObserversGrow DEF TypeOK
  <2>2. /\ \A v \in Workers : v # w => hand'[v] = hand[v]
        /\ \A v \in Workers : hand[v] = m => v = w
        /\ status[m] = "done" <=> nth[w] # 1
    BY <2>1, TypeStep DEF Others, HandsApart
  <2> QED
    BY <2>1, <2>2, TargetIs, TargetsAre
<1>2. /\ Held(m) <=> nth[w] = 1 /\ out = 1
      /\ ToCome(m, k) <=> nth[w] < k \/ (nth[w] = k /\ out = 0)
      /\ Held(m)' <=> hand'[w] = m /\ nth'[w] = 1 /\ out1 = 1
      /\ ToCome(m, k)' <=> hand'[w] = m /\ (nth'[w] < k \/ (nth'[w] = k /\ out1 = 0))
  BY <1>1 DEF Held, ToCome
<1>3. /\ Recorded(m) = (IF nth[w] = 1 THEN 0 ELSE 1)
      /\ Recorded(m)' = (IF status'[m] = "done" THEN 1 ELSE 0)
  BY <1>1 DEF Recorded
\* How the step goes on, with r for a copy that is recorded.
<1>4. PICK r \in {0, 1} :
        /\ Balance(w, r)
        /\ r = 1 => out = 1 /\ out1 = 0
        /\ r = 1 => Recorded(m)' = 1
        /\ r = 0 => Recorded(m)' = Recorded(m)
        /\ hand'[w] = m => \/ nth'[w] = nth[w] /\ r = 0
                           \/ nth'[w] = nth[w] + 1 /\ out1 = 0
        /\ hand'[w] # m => out1 = 0
  <2>1. CASE Keeps(w)
    BY <2>1, <1>1, <1>3 DEF Keeps
  <2>2. CASE Drops(w)
    BY <2>2, <1>1, <1>3 DEF Drops
  <2>3. CASE GivesUp(w)
    <3>1. status'[m] = "failed"
      BY <2>3 DEF GivesUp, TypeOK
    <3> QED
      BY <2>3, <3>1, <1>1, <1>3 DEF GivesUp
  <2>4. CASE GoesOn(w)
    BY <2>4, <1>1, <1>3 DEF GoesOn
  <2>5. CASE Enters(w)
    <3>1. status'[m] = "done"
      BY <2>5, <1>1 DEF Enters, TypeOK
    <3> QED
      BY <2>5, <3>1, <1>1, <1>3 DEF Enters
  <2> QED
    BY <2>1, <2>2, <2>3, <2>4, <2>5, <1>1, MessageStep DEF Takes
<1>5. PICK x \in {0, 1}, y \in {0, 1} :
        /\ out + x = out1 + y + r
        /\ Made(m, k)' = Made(m, k) + (IF nth[w] = k THEN x ELSE 0)
        /\ Lost(m, k)' = Lost(m, k) + (IF nth[w] = k THEN y ELSE 0)
  <2>1. PICK x \in {0, 1}, y \in {0, 1} :
          /\ Out(w) + x = Out(w)' + y + r
          /\ \A c : Count(c, copies') = Count(c, copies) + (IF c = Spot(w) THEN x ELSE 0)
          /\ \A c : Count(c, orphaned') = Count(c, orphaned) + (IF c = Spot(w) THEN y ELSE 0)
    BY <1>4 DEF Balance
  <2>2. <<m, Targets[m][k]>> = Spot(w) <=> nth[w] = k
    BY <1>1 DEF Spot, UniquePaths
  <2>3. out + x = out1 + y + r
    BY <2>1 DEF Out
  <2> HIDE DEF Count
  <2> QED
    BY <2>1, <2>2, <2>3 DEF Made, Lost
<1>6. Made(m, k) \in Nat /\ Lost(m, k) \in Nat /\ out \in {0, 1} /\ out1 \in {0, 1}
  BY OneMore DEF Made, Lost, TypeOK
<1> HIDE DEF Made, Lost, Held, ToCome, Recorded, out, out1
<1>7. CASE k = 1
  <2>1. Made(m, k) = Recorded(m) + Lost(m, k) + (IF nth[w] = 1 /\ out = 1 THEN 1 ELSE 0)
    BY <1>2, <1>7 DEF CountOK
  <2>2. Made(m, k)' = Recorded(m)' + Lost(m, k)' + (IF Held(m)' THEN 1 ELSE 0)
    <3>1. CASE nth[w] = 1
      <4>1. Held(m)' <=> out1 = 1
        BY <1>2, <1>4, <3>1
      <4>2. Recorded(m) = 0 /\ Recorded(m)' = r
        BY <1>3, <1>4, <3>1
      <4> QED
        BY <2>1, <3>1, <4>1, <4>2, <1>4, <1>5, <1>6, <1>7
    <3>2. CASE nth[w] # 1
      <4>1. ~Held(m)'
        BY <1>1, <1>2, <1>4, <3>2
      <4>2. Recorded(m) = 1 /\ Recorded(m)' = 1
        BY <1>3, <1>4, <3>2
      <4> QED
        BY <2>1, <3>2, <4>1, <4>2, <1>5, <1>6, <1>7
    <3> QED
      BY <3>1, <3>2
  <2> QED
    BY <2>2, <1>7 DEF CountOK
<1>8. CASE k # 1
  <2>1. /\ Made(m, k) <= Recorded(m) + Lost(m, k)
        /\ nth[w] < k \/ (nth[w] = k /\ out = 0) => Made(m, k) <= Lost(m, k)
    BY <1>2, <1>8 DEF CountOK
  <2>2. /\ Made(m, k)' <= Recorded(m)' + Lost(m, k)'
        /\ ToCome(m, k)' => Made(m, k)' <= Lost(m, k)'
    <3>1. CASE nth[w] = k
      <4>1. Recorded(m) = 1 /\ Recorded(m)' = 1
        BY <1>3, <1>4, <1>8, <3>1
      <4>2. ToCome(m, k)' => out1 = 0 /\ r = 0
        BY <1>1, <1>2, <1>4, <3>1
      <4>3. Made(m, k) <= Lost(m, k) + out
        BY <2>1, <3>1, <4>1, <1>6
      <4> QED
        BY <3>1, <4>1, <4>2, <4>3, <1>4, <1>5, <1>6
    <3>2. CASE nth[w] # k
      <4>1. Made(m, k)' = Made(m, k) /\ Lost(m, k)' = Lost(m, k)
        BY <3>2, <1>5, <1>6
      <4>2. ToCome(m, k)' => nth[w] < k
        BY <1>1, <1>2, <1>4, <3>2
      <4>3. Recorded(m) \in {0, 1} /\ (Recorded(m)' = Recorded(m) \/ Recorded(m)' = 1)
        BY <1>3, <1>4
      <4> QED
        BY <2>1, <4>1, <4>2, <4>3, <1>6
    <3> QED
      BY <3>1, <3>2
  <2> QED
    BY <2>2, <1>8 DEF CountOK
<1> QED
  BY <1>7, <1>8

\* The copies of a message no two jobs had in hand are accounted for in each of its
\* folders: what is there is recorded, in hand, or was cut off by a failure.
THEOREM CopiesAccountedHolds == ASSUME UniquePaths PROVE Spec => []CopiesAccounted
<1>1. Init => Counts
  <2> SUFFICES ASSUME Init, NEW m \in Msgs, NEW k \in DOMAIN Targets[m] PROVE CountOK(m, k)
    BY DEF Counts
  <2>1. Made(m, k) = 0 /\ Lost(m, k) = 0 /\ Recorded(m) = 0 /\ ~Held(m)
    BY InitIs, ImportAssumption DEF Made, Lost, Recorded, Held, Init
  <2> HIDE DEF Made, Lost, Recorded, Held
  <2> QED
    BY <2>1 DEF CountOK
<1>2. TypeOK /\ Jobs /\ HandsApart /\ Counts /\ [Next]_vars => Counts'
  <2> SUFFICES ASSUME TypeOK, Jobs, HandsApart, Counts, [Next]_vars PROVE Counts'
    OBVIOUS
  <2>1. ASSUME NEW w \in Workers, Step(w) \/ Crash(w) PROVE Counts'
    <3> SUFFICES ASSUME NEW m \in Msgs, m \notin shared', NEW k \in DOMAIN Targets[m]
                 PROVE  CountOK(m, k)'
      BY DEF Counts
    <3>1. CountOK(m, k)
      BY <2>1, ObserversGrow DEF Counts
    <3> QED
      BY <2>1, <3>1, CountsOfOthers, CountsOfHolder
  <2>2. CASE UNCHANGED vars
    BY <2>2 DEF vars, tenant, database, locals, observers, Counts, CountOK, Made, Lost, Recorded,
                Held, ToCome
  <2> QED
    BY <2>1, <2>2 DEF Next
<1>3. TypeOK /\ HandsApart /\ Counts => CopiesAccounted
  <2> SUFFICES ASSUME TypeOK, HandsApart, Counts, NEW m \in Msgs, m \notin shared,
                      NEW k \in DOMAIN Targets[m]
               PROVE  IF k = 1
                      THEN Made(m, k) = Recorded(m) + Lost(m, k) + Cardinality(InHand(m))
                      ELSE Made(m, k) <= Recorded(m) + Lost(m, k)
    BY DEF CopiesAccounted, Made, Recorded, Lost
  <2>1. CountOK(m, k)
    BY DEF Counts
  <2>2. Cardinality(InHand(m)) = IF Held(m) THEN 1 ELSE 0
    <3>1. CASE Held(m)
      <4>1. PICK w \in Workers : w \in InHand(m)
        BY <3>1 DEF Held, InHand, Unrecorded
      <4>2. InHand(m) = {w}
        BY <4>1 DEF InHand, HandsApart
      <4> QED
        BY <3>1, <4>2, FS_Singleton
    <3>2. CASE ~Held(m)
      <4>1. InHand(m) = {}
        BY <3>2 DEF Held, InHand, Unrecorded
      <4> QED
        BY <3>2, <4>1, FS_EmptySet
    <3> QED
      BY <3>1, <3>2
  <2> HIDE DEF Made, Lost, Recorded, Held, InHand
  <2> QED
    BY <2>1, <2>2 DEF CountOK
<1> QED
  BY <1>1, <1>2, <1>3, TypeCorrect, HandsApartHolds, PTL DEF Spec
=============================================================================
