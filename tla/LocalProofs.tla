----------------------------- MODULE LocalProofs -----------------------------
(***************************************************************************)
(* The components that stay within one program: LinkedAllocator, Logger,   *)
(* Scheduler and Steering.                                                 *)
(*                                                                         *)
(* LinkedAllocator, for every size of the heap and whatever is asked for   *)
(* and freed in whatever order: until the heap is spoiled its chunks fill  *)
(* it and those in use are the blocks handed out; and who frees in reverse *)
(* order gets the heap back.                                               *)
(*                                                                         *)
(* Logger, for every number of threads and interrupts, ring, queue and     *)
(* lengths of lines: what the sink is given is the line that was logged.   *)
(*                                                                         *)
(* Scheduler, for every set of tasks, whatever is in their counters: none  *)
(* is lost with another that ends, none is called after it ended.          *)
(*                                                                         *)
(* Steering, for every mounting angle, gain and angle of robot, wheel and  *)
(* stick: the errors the PIDs of the swerve see are right, the wheels turn *)
(* with what is selected, and the robot never turns the long way round.    *)
(***************************************************************************)
EXTENDS LinkedAllocator, Logger, Scheduler, Steering, WellFoundedInduction, TLAPS

(***************************************************************************)
(* Sequences that are joined, and those that lose an element.              *)
(***************************************************************************)
LEMMA Joined ==
  ASSUME NEW S, NEW a \in Seq(S), NEW b \in Seq(S)
  PROVE  /\ a \o b \in Seq(S) /\ Len(a \o b) = Len(a) + Len(b)
         /\ Len(a) \in Nat /\ Len(b) \in Nat
         /\ \A j \in 1..Len(a) : (a \o b)[j] = a[j]
         /\ \A j \in 1..Len(b) : (a \o b)[Len(a) + j] = b[j]
OBVIOUS

LEMMA RemovedAt ==
  ASSUME NEW S, NEW q \in Seq(S), NEW i \in 1..Len(q)
  PROVE  /\ RemoveAt(q, i) \in Seq(S) /\ Len(RemoveAt(q, i)) = Len(q) - 1
         /\ \A j \in 1..Len(q) - 1 : RemoveAt(q, i)[j] = IF j < i THEN q[j] ELSE q[j + 1]
<1> DEFINE a == SubSeq(q, 1, i - 1)
           b == SubSeq(q, i + 1, Len(q))
<1>1. /\ a \in Seq(S) /\ Len(a) = i - 1
      /\ \A j \in 1..i - 1 : a[j] = q[j]
  OBVIOUS
<1>2. /\ b \in Seq(S) /\ Len(b) = Len(q) - i
      /\ \A j \in 1..Len(q) - i : b[j] = q[i + j]
  OBVIOUS
<1>3. RemoveAt(q, i) = a \o b
  BY DEF RemoveAt
<1>4. Len(q) \in Nat /\ i \in Nat /\ 1 <= i /\ i <= Len(q)
  OBVIOUS
<1> HIDE DEF a, b
<1>5. a \o b \in Seq(S) /\ Len(a \o b) = Len(q) - 1
  <2>1. a \o b \in Seq(S) /\ Len(a \o b) = Len(a) + Len(b)
    BY <1>1, <1>2, Joined
  <2>2. Len(a) + Len(b) = Len(q) - 1
    BY <1>1, <1>2, <1>4
  <2> QED BY <2>1, <2>2
<1>6. ASSUME NEW j \in 1..Len(q) - 1
      PROVE  (a \o b)[j] = IF j < i THEN q[j] ELSE q[j + 1]
  <2>1. CASE j < i
    <3>1. (a \o b)[j] = a[j]
      <4>1. j \in 1..Len(a)
        BY <1>1, <1>4, <2>1
      <4> QED BY <1>1, <1>2, <4>1, Joined
    <3> QED BY <1>1, <1>4, <2>1, <3>1
  <2>2. CASE ~(j < i)
    <3>1. (a \o b)[j] = b[j - (i - 1)]
      <4>1. j - (i - 1) \in 1..Len(b) /\ j = Len(a) + (j - (i - 1))
        BY <1>1, <1>2, <1>4, <2>2
      <4>2. (a \o b)[Len(a) + (j - (i - 1))] = b[j - (i - 1)]
        BY <1>1, <1>2, <4>1, Joined
      <4> QED BY <4>1, <4>2
    <3>2. b[j - (i - 1)] = q[i + (j - (i - 1))]
      BY <1>2, <1>4, <2>2
    <3>3. i + (j - (i - 1)) = j + 1
      BY <1>4
    <3> QED BY <2>2, <3>1, <3>2, <3>3
  <2> QED BY <2>1, <2>2
<1> QED BY <1>3, <1>5, <1>6

(***************************************************************************)
(* Induction: what fails for some number fails for a least one.            *)
(***************************************************************************)
Less == {pair \in Nat \X Nat : pair[1] < pair[2]}

LEMMA LessWellFounded == IsWellFoundedOn(Less, Nat)
BY NatLessThanWellFounded DEF OpToRel, Less

LEMMA Least ==
  ASSUME NEW T \in SUBSET Nat, T # {}
  PROVE  \E m \in T : \A k \in T : m <= k
<1>1. PICK m \in T : \A k \in T : ~ (<<k, m>> \in Less)
  BY LessWellFounded, WFMin
<1>2. \A k \in T : k \in Nat /\ m \in Nat /\ ~(k < m)
  BY <1>1 DEF Less
<1> QED
  BY <1>2

(***************************************************************************)
(*                                                                         *)
(*                             LinkedAllocator                             *)
(*                                                                         *)
(***************************************************************************)
EndOf(m, c) == c + Header + m[c + 1].size

Layout(m, S) ==
  /\ S \subseteq Address /\ head \in S
  /\ \A c \in S : /\ m[c].word = "prev" /\ m[c + 1].word = "size"
                  /\ m[c + 1].size \in Nat /\ m[c + 1].freed \in BOOLEAN
  /\ \A c \in S : EndOf(m, c) \in S \cup {HeapSize}
  /\ \A c \in S : c # head => \E p \in S : EndOf(m, p) = c
  /\ \A c, d \in S : c < d => EndOf(m, c) <= d

\* Chunks have room for their header, and those behind are further up.
LEMMA Room ==
  ASSUME NEW m, NEW S, Layout(m, S), NEW c \in S
  PROVE  /\ c \in Nat /\ c + 1 \in Address /\ EndOf(m, c) \in Nat
         /\ c + 2 <= EndOf(m, c) /\ EndOf(m, c) <= HeapSize
         /\ EndOf(m, c) = c + 2 + m[c + 1].size /\ m[c + 1].size \in Nat
<1>1. HeapSize \in Nat
  BY HeapAssumption
<1>2. /\ c \in Address /\ m[c + 1].size \in Nat
      /\ EndOf(m, c) \in Address \cup {HeapSize}
  BY DEF Layout
<1>3. EndOf(m, c) = c + 2 + m[c + 1].size
  BY DEF EndOf, Header
<1> QED BY <1>1, <1>2, <1>3 DEF Address

(***************************************************************************)
(* The walk from the head meets the chunks of a layout, and no others.     *)
(***************************************************************************)
Onward(m, B) == B \cup ({EndOf(m, c) : c \in B} \cap Address)

Reaching(m, f, k) == f = [n \in 0..k |-> IF n = 0 THEN {head} ELSE Onward(m, f[n - 1])]

LEMMA ReachingOn ==
  ASSUME NEW m, NEW k \in Nat, NEW f, Reaching(m, f, k)
  PROVE  \E g : Reaching(m, g, k + 1)
<1> DEFINE g == [n \in 0..k + 1 |-> IF n = k + 1 THEN Onward(m, f[k]) ELSE f[n]]
<1>1. ASSUME NEW n \in 0..k + 1
      PROVE  g[n] = IF n = 0 THEN {head} ELSE Onward(m, g[n - 1])
  <2>1. CASE n = k + 1
    <3>1. n # 0 /\ n - 1 = k /\ k \in 0..k + 1 /\ k # k + 1
      BY <2>1
    <3>2. g[n - 1] = f[k] /\ g[n] = Onward(m, f[k])
      BY <2>1, <3>1
    <3> HIDE DEF g
    <3> QED BY <3>1, <3>2
  <2>2. CASE n # k + 1
    <3>1. n \in 0..k /\ g[n] = f[n]
      BY <2>2
    <3>2. n # 0 => n - 1 \in 0..k + 1 /\ n - 1 # k + 1
      BY <2>2
    <3>3. n # 0 => g[n - 1] = f[n - 1]
      BY <3>2
    <3> HIDE DEF g
    <3>4. f[n] = IF n = 0 THEN {head} ELSE Onward(m, f[n - 1])
      BY <3>1 DEF Reaching
    <3> QED BY <3>1, <3>3, <3>4
  <2> QED BY <2>1, <2>2
<1>2. g = [n \in 0..k + 1 |-> IF n = 0 THEN {head} ELSE Onward(m, g[n - 1])]
  <2>1. g = [n \in 0..k + 1 |-> g[n]]
    OBVIOUS
  <2> HIDE DEF g
  <2> QED BY <1>1, <2>1
<1> HIDE DEF g
<1> QED BY <1>2 DEF Reaching

LEMMA ReachingExists ==
  ASSUME NEW m, NEW k \in Nat
  PROVE  \E f : Reaching(m, f, k)
<1> DEFINE T == {n \in Nat : ~ \E f : Reaching(m, f, n)}
<1>1. \E f : Reaching(m, f, 0)
  <2> DEFINE f == [n \in 0..0 |-> {head}]
  <2>1. f = [n \in 0..0 |-> IF n = 0 THEN {head} ELSE Onward(m, f[n - 1])]
    OBVIOUS
  <2> QED BY <2>1 DEF Reaching
<1>2. 0 \notin T
  BY <1>1
<1>3. T = {}
  <2> SUFFICES ASSUME T # {} PROVE FALSE
    OBVIOUS
  <2>1. PICK n \in T : \A j \in T : n <= j
    BY Least
  <2>2. n # 0 /\ n \in Nat
    BY <1>2
  <2>3. n - 1 \in Nat /\ ~(n <= n - 1) /\ (n - 1) + 1 = n
    BY <2>2
  <2>4. n - 1 \notin T
    BY <2>1, <2>3
  <2>5. PICK f : Reaching(m, f, n - 1)
    BY <2>3, <2>4
  <2>6. \E g : Reaching(m, g, n)
    BY <2>3, <2>5, ReachingOn
  <2> QED BY <2>1, <2>6
<1> QED BY <1>3

LEMMA ReachesLayout ==
  ASSUME NEW m, NEW S, Layout(m, S), NEW f, Reaching(m, f, HeapSize)
  PROVE  f[HeapSize] = S
<1> DEFINE Good(n) == f[n] \subseteq S /\ \A c \in S : c <= n => c \in f[n]
           T == {n \in Nat : n <= HeapSize /\ ~Good(n)}
<1>1. HeapSize \in Nat
  BY HeapAssumption
<1>2. Good(0)
  <2>1. f[0] = {head}
    BY <1>1 DEF Reaching
  <2>2. \A c \in S : c <= 0 => c = head
    BY Room DEF head
  <2> QED BY <2>1, <2>2 DEF Layout
<1>3. ASSUME NEW n \in 1..HeapSize, Good(n - 1) PROVE Good(n)
  <2>1. f[n] = Onward(m, f[n - 1])
    <3>1. n \in 0..HeapSize /\ n # 0
      BY <1>1
    <3> QED BY <3>1 DEF Reaching
  <2>2. f[n] \subseteq S
    <3>1. \A c \in S : EndOf(m, c) \in Address => EndOf(m, c) \in S
      BY <1>1 DEF Layout, Address
    <3> QED BY <1>3, <2>1, <3>1 DEF Onward
  <2>3. ASSUME NEW c \in S, c <= n PROVE c \in f[n]
    <3>1. CASE c = head
      <4>1. head <= n - 1
        BY DEF head
      <4> QED BY <1>3, <2>1, <3>1, <4>1 DEF Onward
    <3>2. CASE c # head
      <4>1. PICK p \in S : EndOf(m, p) = c
        BY <3>2 DEF Layout
      <4>2. p \in Nat /\ c \in Nat /\ p + 2 <= c
        BY <4>1, Room
      <4>3. p <= n - 1
        BY <2>3, <4>2
      <4>4. p \in f[n - 1] /\ c \in Address
        BY <1>3, <4>3 DEF Layout
      <4> QED BY <2>1, <4>1, <4>4 DEF Onward
    <3> QED BY <3>1, <3>2
  <2> QED BY <2>2, <2>3
<1> HIDE DEF Good
<1>4. T = {}
  <2> SUFFICES ASSUME T # {} PROVE FALSE
    OBVIOUS
  <2>1. PICK n \in T : \A j \in T : n <= j
    BY Least
  <2>2. n # 0 /\ n \in Nat /\ n <= HeapSize /\ ~Good(n)
    BY <1>2, <2>1
  <2>3. n - 1 \in Nat /\ ~(n <= n - 1) /\ n - 1 <= HeapSize /\ n \in 1..HeapSize
    BY <1>1, <2>2
  <2>4. Good(n - 1)
    BY <2>1, <2>3
  <2> QED BY <1>3, <2>2, <2>3, <2>4
<1>5. Good(HeapSize)
  BY <1>1, <1>4
<1>6. \A c \in S : c <= HeapSize
  BY <1>1 DEF Layout, Address
<1> QED BY <1>5, <1>6 DEF Good

ChunksIn(m) ==
  LET reached[n \in 0..HeapSize] ==
        IF n = 0 THEN {head}
        ELSE LET before == reached[n - 1]
             IN  before \cup ({EndOf(m, c) : c \in before} \cap Address)
  IN  reached[HeapSize]

LEMMA ChunksInAre ==
  ASSUME NEW m, NEW S, Layout(m, S)
  PROVE  ChunksIn(m) = S
<1> DEFINE reached[n \in 0..HeapSize] ==
             IF n = 0 THEN {head}
             ELSE LET before == reached[n - 1]
                  IN  before \cup ({EndOf(m, c) : c \in before} \cap Address)
<1>1. PICK f : Reaching(m, f, HeapSize)
  BY HeapAssumption, ReachingExists
<1>2. f = [n \in 0..HeapSize |->
             IF n = 0 THEN {head}
             ELSE LET before == f[n - 1]
                  IN  before \cup ({EndOf(m, c) : c \in before} \cap Address)]
  BY <1>1 DEF Reaching, Onward
<1>3. reached = [n \in 0..HeapSize |->
                   IF n = 0 THEN {head}
                   ELSE LET before == reached[n - 1]
                        IN  before \cup ({EndOf(m, c) : c \in before} \cap Address)]
  BY <1>2
<1>4. Reaching(m, reached, HeapSize)
  BY <1>3 DEF Reaching, Onward
<1>5. reached[HeapSize] = S
  BY <1>4, ReachesLayout
<1> QED BY <1>5 DEF ChunksIn

LEMMA ChunksAre ==
  ASSUME NEW S
  PROVE  /\ Layout(mem, S) => Chunks = S
         /\ Layout(mem', S) => Chunks' = S
<1>1. Chunks = ChunksIn(mem) /\ Chunks' = ChunksIn(mem')
  BY DEF Chunks, ChunksIn, NextOf, SizeOf, EndOf
<1> QED BY <1>1, ChunksInAre

(***************************************************************************)
(* What the writes of the allocator do to a layout.                        *)
(***************************************************************************)
IsHeader(w1, w2) == /\ w1.word = "prev" /\ w2.word = "size"
                   /\ w2.size \in Nat /\ w2.freed \in BOOLEAN

\* The chunk is cut, and what is left of it is a chunk too.
Cut(m, n, S, c, need, rest) ==
  /\ need \in Nat /\ rest \in Nat /\ need + 2 <= m[c + 1].size /\ rest = c + 2 + need
  /\ \A d \in S : d # c => IsHeader(n[d], n[d + 1]) /\ n[d + 1].size = m[d + 1].size
  /\ IsHeader(n[c], n[c + 1]) /\ n[c + 1].size = need
  /\ IsHeader(n[rest], n[rest + 1]) /\ n[rest + 1].size = m[c + 1].size - need - 2

LEMMA CutLayout ==
  ASSUME NEW m, NEW S, Layout(m, S), NEW c \in S, NEW n, NEW need, NEW rest,
         Cut(m, n, S, c, need, rest)
  PROVE  /\ Layout(n, S \cup {rest}) /\ rest \notin S
         /\ EndOf(n, rest) = EndOf(m, c) /\ EndOf(n, c) = rest
         /\ \A d \in S : d # c => EndOf(n, d) = EndOf(m, d)
<1> USE DEF Cut
<1>1. HeapSize \in Nat
  BY HeapAssumption
<1>2. /\ c \in Nat /\ EndOf(m, c) <= HeapSize /\ EndOf(m, c) \in Nat
      /\ EndOf(m, c) = c + 2 + m[c + 1].size /\ m[c + 1].size \in Nat
  BY Room
<1>3. /\ EndOf(n, c) = rest /\ EndOf(n, rest) = EndOf(m, c)
      /\ c < rest /\ rest + 2 <= EndOf(m, c) /\ rest \in Address
  <2>1. EndOf(n, c) = c + 2 + need
    BY DEF EndOf, Header
  <2>2. EndOf(n, rest) = rest + 2 + (m[c + 1].size - need - 2)
    BY DEF EndOf, Header
  <2> QED BY <1>1, <1>2, <2>1, <2>2 DEF Address
<1>4. \A d \in S : d # c => EndOf(n, d) = EndOf(m, d)
  BY DEF EndOf
<1>5. \A d \in S : /\ d \in Nat /\ EndOf(m, d) \in Nat /\ d + 2 <= EndOf(m, d)
                   /\ d < c => EndOf(m, d) <= c
                   /\ c < d => EndOf(m, c) <= d
  BY Room DEF Layout
<1>6. rest \notin S
  BY <1>2, <1>3, <1>5
<1>7. EndOf(m, c) \in S \cup {HeapSize}
  BY DEF Layout
<1> DEFINE R == S \cup {rest}
<1>8. R \subseteq Address /\ head \in R
  BY <1>3 DEF Layout
<1>9. \A d \in R : IsHeader(n[d], n[d + 1])
  OBVIOUS
<1>10. \A d \in R : EndOf(n, d) \in R \cup {HeapSize}
  BY <1>3, <1>4, <1>7 DEF Layout
<1>11. ASSUME NEW d \in R, d # head PROVE \E p \in R : EndOf(n, p) = d
  <2>1. CASE d = rest
    BY <1>3, <2>1
  <2>2. CASE d # rest
    <3>1. PICK p \in S : EndOf(m, p) = d
      BY <1>11, <2>2 DEF Layout
    <3>2. CASE p = c
      BY <1>3, <3>1, <3>2
    <3>3. CASE p # c
      BY <1>4, <3>1, <3>3
    <3> QED BY <3>2, <3>3
  <2> QED BY <2>1, <2>2
<1>12. ASSUME NEW d \in R, NEW e \in R, d < e PROVE EndOf(n, d) <= e
  <2>1. CASE d = rest
    <3>1. e \in S /\ c < e
      BY <1>2, <1>3, <1>5, <1>12, <2>1
    <3> QED BY <1>3, <1>5, <2>1, <3>1
  <2>2. CASE d = c /\ e = rest
    BY <1>3, <2>2
  <2>3. CASE d = c /\ e # rest
    BY <1>2, <1>3, <1>5, <1>12, <2>3
  <2>4. CASE d \in S /\ d # c /\ e = rest
    <3>1. d < c
      BY <1>2, <1>3, <1>5, <1>12, <2>4
    <3> QED BY <1>2, <1>3, <1>4, <1>5, <2>4, <3>1
  <2>5. CASE d \in S /\ d # c /\ e # rest
    BY <1>4, <1>12, <2>5 DEF Layout
  <2> QED BY <2>1, <2>2, <2>3, <2>4, <2>5
<1> HIDE DEF R
<1>13. Layout(n, R)
  BY <1>8, <1>9, <1>10, <1>11, <1>12 DEF Layout, IsHeader
<1> QED BY <1>3, <1>4, <1>6, <1>13 DEF R

\* The sizes stay: so does the layout.
LEMMA SameLayout ==
  ASSUME NEW m, NEW S, Layout(m, S), NEW n,
         \A d \in S : IsHeader(n[d], n[d + 1]) /\ n[d + 1].size = m[d + 1].size
  PROVE  Layout(n, S) /\ \A d \in S : EndOf(n, d) = EndOf(m, d)
<1>1. \A d \in S : EndOf(n, d) = EndOf(m, d)
  BY DEF EndOf
<1> QED BY <1>1 DEF Layout, IsHeader

\* The chunks up to end become one with begin.
Joint(m, n, S, begin, end) ==
  /\ begin <= end
  /\ \A d \in S : d # begin => IsHeader(n[d], n[d + 1]) /\ n[d + 1].size = m[d + 1].size
  /\ IsHeader(n[begin], n[begin + 1])
  /\ n[begin + 1].size = end - begin + m[end + 1].size

LEMMA MergedLayout ==
  ASSUME NEW m, NEW S, Layout(m, S), NEW begin \in S, NEW end \in S, NEW n,
         Joint(m, n, S, begin, end)
  PROVE  /\ Layout(n, {d \in S : ~(begin < d /\ d <= end)})
         /\ EndOf(n, begin) = EndOf(m, end)
         /\ \A d \in S : d # begin => EndOf(n, d) = EndOf(m, d)
<1> USE DEF Joint
<1>1. HeapSize \in Nat
  BY HeapAssumption
<1>2. /\ begin \in Nat /\ end \in Nat /\ m[end + 1].size \in Nat
      /\ EndOf(m, end) = end + 2 + m[end + 1].size /\ EndOf(m, end) <= HeapSize
      /\ end + 2 <= EndOf(m, end)
  BY Room
<1>3. EndOf(n, begin) = EndOf(m, end)
  <2>1. EndOf(n, begin) = begin + 2 + (end - begin + m[end + 1].size)
    BY DEF EndOf, Header
  <2> QED BY <1>2, <2>1
<1>4. \A d \in S : d # begin => EndOf(n, d) = EndOf(m, d)
  BY DEF EndOf
<1>5. ASSUME NEW d \in S
      PROVE  /\ d \in Nat /\ EndOf(m, d) \in Nat /\ d + 2 <= EndOf(m, d)
             /\ d < begin => EndOf(m, d) <= begin
             /\ d < end => EndOf(m, d) <= end
             /\ end < d => EndOf(m, end) <= d
  BY Room DEF Layout
<1> DEFINE R == {d \in S : ~(begin < d /\ d <= end)}
<1>6. begin \in R
  BY <1>2
<1>7. R \subseteq Address /\ head \in R
  <2>1. ~(begin < head)
    BY <1>2 DEF head
  <2> QED BY <2>1 DEF Layout
<1>8. \A d \in R : IsHeader(n[d], n[d + 1])
  OBVIOUS
<1>9. ASSUME NEW d \in R PROVE EndOf(n, d) \in R \cup {HeapSize}
  <2>1. CASE d = begin
    <3>1. EndOf(m, end) \in S \cup {HeapSize}
      BY DEF Layout
    <3>2. ~(EndOf(m, end) <= end)
      BY <1>2, <1>5
    <3> QED BY <1>3, <2>1, <3>1, <3>2
  <2>2. CASE d # begin
    <3>1. EndOf(m, d) \in S \cup {HeapSize} /\ EndOf(n, d) = EndOf(m, d)
      BY <1>4, <2>2 DEF Layout
    <3>2. ~(begin < EndOf(m, d) /\ EndOf(m, d) <= end)
      <4>1. CASE d < begin
        BY <1>2, <1>5, <4>1
      <4>2. CASE ~(d < begin)
        BY <1>2, <1>5, <2>2, <4>2
      <4> QED BY <4>1, <4>2
    <3> QED BY <3>1, <3>2
  <2> QED BY <2>1, <2>2
<1>10. ASSUME NEW d \in R, d # head PROVE \E p \in R : EndOf(n, p) = d
  <2>1. PICK p \in S : EndOf(m, p) = d
    BY <1>10 DEF Layout
  <2>2. p \in Nat /\ d \in Nat /\ p + 2 <= d
    BY <1>5, <2>1
  <2>3. CASE d <= begin
    <3>1. p < begin
      BY <1>2, <2>2, <2>3
    <3>2. p \in R /\ p # begin
      BY <1>2, <2>2, <3>1
    <3> QED BY <1>4, <2>1, <3>2
  <2>4. CASE end < d /\ p <= end
    <3>1. ~(p < end)
      BY <1>2, <1>5, <2>1, <2>2, <2>4
    <3>2. p = end
      BY <1>2, <2>2, <2>4, <3>1
    <3> QED BY <1>3, <1>6, <2>1, <3>2
  <2>5. CASE end < d /\ end < p
    <3>1. p \in R /\ p # begin
      BY <1>2, <2>2, <2>5
    <3> QED BY <1>4, <2>1, <3>1
  <2>6. d <= begin \/ end < d
    BY <1>2, <2>2
  <2>7. p <= end \/ end < p
    BY <1>2, <2>2
  <2> QED BY <2>3, <2>4, <2>5, <2>6, <2>7
<1>11. ASSUME NEW d \in R, NEW e \in R, d < e PROVE EndOf(n, d) <= e
  <2>1. CASE d = begin
    <3>1. end < e
      BY <1>2, <1>5, <1>11, <2>1
    <3> QED BY <1>3, <1>5, <2>1, <3>1
  <2>2. CASE d # begin
    BY <1>4, <1>11, <2>2 DEF Layout
  <2> QED BY <2>1, <2>2
<1> HIDE DEF R
<1>12. Layout(n, R)
  <2>1. \A d \in R : EndOf(n, d) \in R \cup {HeapSize}
    BY <1>9
  <2> QED BY <1>7, <1>8, <1>10, <1>11, <2>1 DEF Layout, IsHeader
<1> QED BY <1>3, <1>4, <1>12 DEF R

(***************************************************************************)
(* The invariant.                                                          *)
(***************************************************************************)
Blocks == [at : Address, size : Nat]

\* The chunks in use are those that were handed out.
Handed(m, S, l) ==
  /\ l \in Seq(Blocks)
  /\ \A i, j \in 1..Len(l) : l[i].at = l[j].at => i = j
  /\ {c \in S : ~m[c + 1].freed} = {l[i].at : i \in 1..Len(l)}
  /\ \A i \in 1..Len(l) : m[l[i].at + 1].size = l[i].size

\* Those handed out lie one behind the other, and what is free behind them.
Top(m, l) == IF l = <<>> THEN head ELSE EndOf(m, l[Len(l)].at)

Stacked(m, S, l) ==
  /\ \A i \in 1..Len(l) : /\ l[i].at = IF i = 1 THEN head ELSE EndOf(m, l[i - 1].at)
                          /\ m[l[i].at].at = IF i = 1 THEN Null ELSE l[i - 1].at
  /\ \A c \in S : m[c + 1].freed => c = Top(m, l)
  /\ Top(m, l) \in S =>
       /\ m[Top(m, l) + 1].freed
       /\ EndOf(m, Top(m, l)) = HeapSize
       /\ m[Top(m, l)].at = IF l = <<>> THEN Null ELSE l[Len(l)].at

AllocInv ==
  /\ lifo \in BOOLEAN
  /\ lifo => spoiled # "stale"
  /\ spoiled = "no" =>
       /\ mem = [w \in Address |-> mem[w]]
       /\ Layout(mem, Chunks)
       /\ Handed(mem, Chunks, live)
       /\ lifo => Stacked(mem, Chunks, live)

LEMMA Extremes ==
  ASSUME NEW S, S \subseteq Address, S # {}
  PROVE  /\ Min(S) \in S
         /\ Max(S) \in S /\ \A x \in S : x <= Max(S)
<1>1. S \subseteq Nat /\ \A x \in S : x <= HeapSize /\ HeapSize \in Nat
  BY HeapAssumption DEF Address
<1>2. PICK least \in S : \A y \in S : least <= y
  BY <1>1, Least
<1>3. Min(S) \in S
  BY <1>2 DEF Min
<1> DEFINE T == {HeapSize - x : x \in S}
<1>4. T \subseteq Nat /\ T # {}
  BY <1>1
<1>5. PICK t \in T : \A y \in T : t <= y
  BY <1>4, Least
<1>6. PICK most \in S : t = HeapSize - most
  BY <1>5
<1>7. \A y \in S : y <= most
  <2> SUFFICES ASSUME NEW y \in S PROVE y <= most
    OBVIOUS
  <2>1. HeapSize - most <= HeapSize - y
    BY <1>5, <1>6
  <2>2. most \in Nat /\ y \in Nat /\ HeapSize \in Nat
    BY <1>1
  <2> QED BY <2>1, <2>2
<1>8. \A y \in S : most >= y
  BY <1>1, <1>7
<1>9. Max(S) \in S /\ \A y \in S : Max(S) >= y
  BY <1>8 DEF Max
<1>10. \A y \in S : y <= Max(S)
  BY <1>1, <1>9
<1> QED BY <1>3, <1>9, <1>10

LEMMA FoundIsChunk ==
  ASSUME Layout(mem, Chunks), NEW need \in Nat
  PROVE  FindWellAlignedChunk(need) \in Chunks
<1> DEFINE large == {c \in Chunks : IsFreed(c) /\ SizeOf(c) >= need}
           exact == {c \in large : SizeOf(c) = need}
           even  == {c \in large : IsPowerOf2(SizeOf(c) - (need + Header))}
<1>1. large \subseteq Chunks /\ exact \subseteq Chunks /\ even \subseteq Chunks
  OBVIOUS
<1>2. Chunks \subseteq Address /\ head \in Chunks
  BY DEF Layout
<1>3. FindWellAlignedChunk(need) =
        CASE exact # {} -> Min(exact)
          [] exact = {} /\ even # {} -> Min(even)
          [] exact = {} /\ even = {} /\ large # {} -> Max(large)
          [] OTHER -> head
  BY DEF FindWellAlignedChunk
<1> HIDE DEF large, exact, even
<1>4. exact # {} => Min(exact) \in Chunks
  BY <1>1, <1>2, Extremes
<1>5. even # {} => Min(even) \in Chunks
  BY <1>1, <1>2, Extremes
<1>6. large # {} => Max(large) \in Chunks
  BY <1>1, <1>2, Extremes
<1>7. CASE exact # {}
  BY <1>3, <1>4, <1>7
<1>8. CASE exact = {} /\ even # {}
  BY <1>3, <1>5, <1>8
<1>9. CASE exact = {} /\ even = {} /\ large # {}
  BY <1>3, <1>6, <1>9
<1>10. CASE exact = {} /\ even = {} /\ large = {}
  BY <1>2, <1>3, <1>10
<1> QED BY <1>7, <1>8, <1>9, <1>10

(***************************************************************************)
(* The words an allocation writes: its own block, and the header of what   *)
(* is left of the chunk.                                                   *)
(***************************************************************************)
LEMMA WordsOfOthers ==
  ASSUME NEW m, NEW S, Layout(m, S), NEW c \in S, NEW d \in S, d # c
  PROVE  /\ d \notin c..EndOf(m, c) - 1 /\ d + 1 \notin c..EndOf(m, c) - 1
         /\ d \in Address /\ d + 1 \in Address
<1>1. /\ c \in Nat /\ EndOf(m, c) \in Nat /\ c + 2 <= EndOf(m, c)
      /\ d \in Nat /\ EndOf(m, d) \in Nat /\ d + 2 <= EndOf(m, d)
      /\ d \in Address /\ d + 1 \in Address
  BY Room DEF Layout
<1>2. CASE d < c
  <2>1. EndOf(m, d) <= c
    BY <1>2 DEF Layout
  <2> QED BY <1>1, <2>1
<1>3. CASE c < d
  <2>1. EndOf(m, c) <= d
    BY <1>3 DEF Layout
  <2> QED BY <1>1, <2>1
<1> QED BY <1>1, <1>2, <1>3

Beside(b, n, c, need) ==
  /\ n = [w \in Address |-> n[w]]
  /\ \A w \in Address : w \notin c + 2..c + 1 + need => n[w] = b[w]

LEMMA ScribbledWords ==
  ASSUME NEW b, NEW c \in Nat, NEW need \in Nat
  PROVE  Beside(b, Scribbled(b, c, need), c, need)
<1> DEFINE n == Scribbled(b, c, need)
<1>1. n = [w \in Address |-> IF w \in c + 2..c + 2 + need - 1 THEN UserData ELSE b[w]]
  BY DEF Scribbled, Header
<1>2. c + 2 + need - 1 = c + 1 + need
  OBVIOUS
<1> HIDE DEF n
<1>3. Beside(b, n, c, need)
  BY <1>1, <1>2 DEF Beside
<1> QED BY <1>3 DEF n

Allocated(c, need) ==
  Scribbled(IF SizeOf(c) = need THEN [mem EXCEPT ![c + 1] = Meta(need, FALSE)]
                                ELSE Split(c, need), c, need)

Written(n, S, c, need) ==
  /\ n = [w \in Address |-> n[w]]
  /\ \A d \in S : d # c => n[d] = mem[d] /\ n[d + 1] = mem[d + 1]
  /\ n[c] = mem[c] /\ n[c + 1] = Meta(need, FALSE)
  /\ SizeOf(c) # need =>
       /\ n[c + 2 + need] = Pointer(c)
       /\ n[c + 2 + need + 1] = Meta(SizeOf(c) - need - 2, TRUE)

LEMMA AllocatedWords ==
  ASSUME mem = [w \in Address |-> mem[w]], NEW S, Layout(mem, S), NEW c \in S,
         NEW need \in Nat, need <= SizeOf(c), SizeOf(c) # need + 1
  PROVE  Written(Allocated(c, need), S, c, need)
<1> DEFINE n == Allocated(c, need)
<1>0. n = Scribbled(IF SizeOf(c) = need THEN [mem EXCEPT ![c + 1] = Meta(need, FALSE)]
                                        ELSE Split(c, need), c, need)
  BY DEF Allocated
<1> SUFFICES Written(n, S, c, need)
  OBVIOUS
<1> HIDE DEF n
<1> DEFINE size == SizeOf(c)
           far == EndOf(mem, c)
           rest == c + 2 + need
<1>1. /\ c \in Nat /\ c + 1 \in Address /\ c \in Address /\ size \in Nat
      /\ far \in Nat /\ far = c + 2 + size /\ far <= HeapSize /\ HeapSize \in Nat
  BY Room, HeapAssumption DEF SizeOf, Layout
<1>2. \A d \in S : d # c => /\ d \notin c..far - 1 /\ d + 1 \notin c..far - 1
                            /\ d \in Address /\ d + 1 \in Address
  BY WordsOfOthers
<1>3. need \in Nat /\ need <= size /\ size # need + 1
  OBVIOUS
<1>4. CASE size = need
  <2> DEFINE b == [mem EXCEPT ![c + 1] = Meta(need, FALSE)]
  <2>1. n = Scribbled(b, c, need)
    BY <1>0, <1>4
  <2>2. b = [w \in Address |-> b[w]]
    OBVIOUS
  <2>3. b[c + 1] = Meta(need, FALSE) /\ \A w \in Address : w # c + 1 => b[w] = mem[w]
    BY <1>1
  <2> HIDE DEF b
  <2>4. /\ n = [w \in Address |-> n[w]]
        /\ \A w \in Address : w \notin c + 2..c + 1 + need => n[w] = b[w]
    <3>1. c \in Nat
      BY <1>1
    <3>2. Beside(b, n, c, need)
      BY <2>1, <3>1, ScribbledWords
    <3> QED BY <3>2 DEF Beside
  <2> HIDE DEF size, far
  <2>5. ASSUME NEW w \in Address, w \notin c..far - 1 PROVE n[w] = mem[w]
    <3>1. w # c + 1 /\ w \notin c + 2..c + 1 + need
      BY <1>1, <1>4, <2>5
    <3> QED BY <2>3, <2>4, <3>1
  <2>6. c \notin c + 2..c + 1 + need /\ c + 1 \notin c + 2..c + 1 + need /\ c # c + 1
    BY <1>1, <1>3
  <2>7. n[c] = mem[c] /\ n[c + 1] = Meta(need, FALSE)
    BY <1>1, <2>3, <2>4, <2>6
  <2> QED BY <1>2, <1>4, <2>4, <2>5, <2>7 DEF size, Written
<1>5. CASE size # need
  <2> DEFINE b == Split(c, need)
             left == size - need - 2
  <2>1. n = Scribbled(b, c, need)
    BY <1>0, <1>5
  <2>2. SizeOf(c) - (need + Header) = left /\ c + Header + need = rest
    BY <1>1, <1>3 DEF Header
  <2>3. b = [w \in Address |-> CASE w = c + 1    -> Meta(need, FALSE)
                                 [] w = rest     -> Pointer(c)
                                 [] w = rest + 1 -> Meta(left, TRUE)
                                 [] OTHER        -> mem[w]]
    BY <2>2 DEF Split
  <2> HIDE DEF b, left, size, far
  <2>4. /\ rest \in Address /\ rest + 1 \in Address
        /\ c + 1 # rest /\ c + 1 # rest + 1 /\ rest # rest + 1 /\ c # c + 1
        /\ c # rest /\ c # rest + 1
        /\ rest \in c..far - 1 /\ rest + 1 \in c..far - 1 /\ c + 1 \in c..far - 1
        /\ \A w \in Address : w \notin c..far - 1 => w \notin c + 2..c + 1 + need
        /\ \A w \in {c, c + 1, rest, rest + 1} : w \notin c + 2..c + 1 + need
    <3>1. need + 2 <= size
      BY <1>1, <1>3, <1>5
    <3>2. rest + 2 <= far /\ rest = c + 2 + need
      BY <1>1, <1>3, <3>1 DEF rest
    <3> HIDE DEF rest
    <3>3. rest \in Nat
      BY <1>1, <1>3, <3>2
    <3>4. rest \in Address /\ rest + 1 \in Address
      BY <1>1, <3>2, <3>3 DEF Address
    <3>5. /\ c + 1 # rest /\ c + 1 # rest + 1 /\ rest # rest + 1 /\ c # c + 1
          /\ c # rest /\ c # rest + 1
      BY <1>1, <1>3, <3>2
    <3>6. rest \in c..far - 1 /\ rest + 1 \in c..far - 1 /\ c + 1 \in c..far - 1
      BY <1>1, <1>3, <3>2
    <3>7. ASSUME NEW w \in Address, w \notin c..far - 1 PROVE w \notin c + 2..c + 1 + need
      BY <1>1, <1>3, <3>2, <3>7
    <3>8. \A w \in {c, c + 1, rest, rest + 1} : w \notin c + 2..c + 1 + need
      BY <1>1, <1>3, <3>2
    <3> QED BY <3>4, <3>5, <3>6, <3>7, <3>8
  <2> HIDE DEF rest
  <2>5. /\ b = [w \in Address |-> b[w]]
        /\ b[c + 1] = Meta(need, FALSE)
        /\ b[rest] = Pointer(c)
        /\ b[rest + 1] = Meta(left, TRUE)
        /\ \A w \in Address : w \notin {c + 1, rest, rest + 1} => b[w] = mem[w]
    BY <1>1, <2>3, <2>4
  <2>6. /\ n = [w \in Address |-> n[w]]
        /\ \A w \in Address : w \notin c + 2..c + 1 + need => n[w] = b[w]
    <3>1. c \in Nat
      BY <1>1
    <3>2. Beside(b, n, c, need)
      BY <2>1, <3>1, ScribbledWords
    <3> QED BY <3>2 DEF Beside
  <2>7. ASSUME NEW w \in Address, w \notin c..far - 1 PROVE n[w] = mem[w]
    BY <2>4, <2>5, <2>6, <2>7
  <2>8. n[c] = mem[c] /\ n[c + 1] = Meta(need, FALSE)
    BY <1>1, <2>4, <2>5, <2>6
  <2>9. n[rest] = Pointer(c) /\ n[rest + 1] = Meta(left, TRUE)
    BY <2>4, <2>5, <2>6
  <2> QED BY <1>2, <2>6, <2>7, <2>8, <2>9 DEF rest, left, size, Written
<1> QED BY <1>4, <1>5

(***************************************************************************)
(* What is handed out, and in which order, when a block is added to it or  *)
(* taken from it.                                                          *)
(***************************************************************************)
LEMMA HandedAreUsed ==
  ASSUME NEW m, NEW S, NEW l, Handed(m, S, l)
  PROVE  \A i \in 1..Len(l) : /\ l[i] \in Blocks /\ l[i].at \in S
                              /\ ~m[l[i].at + 1].freed
<1>1. l \in Seq(Blocks) /\ {c \in S : ~m[c + 1].freed} = {l[i].at : i \in 1..Len(l)}
  BY DEF Handed
<1>2. \A i \in 1..Len(l) : l[i].at \in {c \in S : ~m[c + 1].freed}
  BY <1>1
<1>3. \A i \in 1..Len(l) : l[i] \in Blocks
  BY <1>1
<1> QED BY <1>2, <1>3

LEMMA OneMore ==
  ASSUME NEW l \in Seq(Blocks), NEW b \in Blocks
  PROVE  /\ Append(l, b) \in Seq(Blocks) /\ Len(Append(l, b)) = Len(l) + 1
         /\ Len(l) \in Nat
         /\ \A i \in 1..Len(l) : Append(l, b)[i] = l[i]
         /\ Append(l, b)[Len(l) + 1] = b
OBVIOUS

Takes(m, n, S, R, c, need) ==
  /\ S \subseteq Address /\ S \subseteq R /\ c \in S /\ m[c + 1].freed /\ need \in Nat
  /\ \A d \in S : n[d] = m[d] /\ (d # c => n[d + 1] = m[d + 1])
  /\ n[c + 1] = Meta(need, FALSE)
  /\ \A d \in R : d \notin S =>
       d = EndOf(n, c) /\ n[d + 1].freed /\ EndOf(n, d) = EndOf(m, c) /\ n[d].at = c
  /\ EndOf(n, c) \in S => EndOf(n, c) = EndOf(m, c)

LEMMA PushHanded ==
  ASSUME NEW m, NEW S, NEW l, Handed(m, S, l), NEW n, NEW R, NEW c, NEW need,
         Takes(m, n, S, R, c, need)
  PROVE  Handed(n, R, Append(l, [at |-> c, size |-> need]))
<1> DEFINE b == [at |-> c, size |-> need]
           a == Append(l, b)
           k == Len(l)
<1> USE DEF Takes
<1>1. b \in Blocks /\ b.at = c /\ b.size = need
  BY DEF Blocks
<1>2. l \in Seq(Blocks)
  BY DEF Handed
<1> HIDE DEF b
<1>3. /\ a \in Seq(Blocks) /\ Len(a) = k + 1 /\ k \in Nat
      /\ \A i \in 1..k : a[i] = l[i]
      /\ a[k + 1] = b
  BY <1>1, <1>2, OneMore
<1> HIDE DEF a, k
<1>4. n[c + 1].size = need /\ n[c + 1].freed = FALSE
  BY DEF Meta
<1>5. \A i \in 1..k : l[i].at \in S /\ ~m[l[i].at + 1].freed /\ l[i].at # c
  BY HandedAreUsed DEF k
<1>6. /\ \A i, j \in 1..k : l[i].at = l[j].at => i = j
      /\ {d \in S : ~m[d + 1].freed} = {l[i].at : i \in 1..k}
      /\ \A i \in 1..k : m[l[i].at + 1].size = l[i].size
  BY DEF Handed, k
<1>7. \A i \in 1..k + 1 : i \in 1..k \/ i = k + 1
  BY <1>3
<1>8. k + 1 \in 1..k + 1 /\ \A i \in 1..k : i \in 1..k + 1
  BY <1>3
<1>9. ASSUME NEW i \in 1..k + 1, NEW j \in 1..k + 1, a[i].at = a[j].at PROVE i = j
  <2>1. CASE i \in 1..k /\ j \in 1..k
    BY <1>3, <1>6, <1>9, <2>1
  <2>2. CASE i \in 1..k /\ j = k + 1
    BY <1>1, <1>3, <1>5, <1>9, <2>2
  <2>3. CASE i = k + 1 /\ j \in 1..k
    BY <1>1, <1>3, <1>5, <1>9, <2>3
  <2>4. CASE i = k + 1 /\ j = k + 1
    BY <2>4
  <2> QED BY <1>7, <2>1, <2>2, <2>3, <2>4
<1>10. ASSUME NEW d \in R, ~n[d + 1].freed PROVE \E i \in 1..k + 1 : a[i].at = d
  <2>1. CASE d = c
    BY <1>1, <1>3, <1>8, <2>1
  <2>2. CASE d # c
    <3>1. d \in S
      BY <1>10
    <3>2. ~m[d + 1].freed
      BY <1>10, <2>2, <3>1
    <3>3. PICK i \in 1..k : l[i].at = d
      BY <1>6, <3>1, <3>2
    <3> QED BY <1>3, <1>8, <3>3
  <2> QED BY <2>1, <2>2
<1>11. ASSUME NEW i \in 1..k + 1
       PROVE  /\ a[i].at \in R /\ ~n[a[i].at + 1].freed
              /\ n[a[i].at + 1].size = a[i].size
  <2>1. CASE i \in 1..k
    BY <1>3, <1>5, <1>6, <2>1
  <2>2. CASE i = k + 1
    BY <1>1, <1>3, <1>4, <2>2
  <2> QED BY <1>7, <2>1, <2>2
<1>12. {d \in R : ~n[d + 1].freed} = {a[i].at : i \in 1..k + 1}
  BY <1>10, <1>11
<1>13. Handed(n, R, a)
  BY <1>3, <1>9, <1>11, <1>12 DEF Handed
<1> QED BY <1>13 DEF a, b

LEMMA PushStacked ==
  ASSUME NEW m, NEW S, NEW l, Handed(m, S, l), Stacked(m, S, l), NEW n, NEW R, NEW c,
         NEW need, Takes(m, n, S, R, c, need)
  PROVE  Stacked(n, R, Append(l, [at |-> c, size |-> need]))
<1> DEFINE b == [at |-> c, size |-> need]
           a == Append(l, b)
           k == Len(l)
           t == EndOf(n, c)
<1> USE DEF Takes
<1>1. b \in Blocks /\ b.at = c
  BY DEF Blocks
<1>2. l \in Seq(Blocks)
  BY DEF Handed
<1> HIDE DEF b
<1>3. /\ a \in Seq(Blocks) /\ Len(a) = k + 1 /\ k \in Nat
      /\ \A i \in 1..k : a[i] = l[i]
      /\ a[k + 1] = b
  BY <1>1, <1>2, OneMore
<1>4. a # <<>> /\ (l = <<>> <=> k = 0)
  BY <1>2, <1>3
<1> HIDE DEF a, k
<1>5. c = Top(m, l)
  BY DEF Stacked
<1>6. EndOf(m, c) = HeapSize /\ m[c].at = IF l = <<>> THEN Null ELSE l[k].at
  BY <1>5 DEF Stacked, k
<1>0. /\ \A d \in R : d \in S \/ d = t
      /\ t \in R => n[t + 1].freed /\ EndOf(n, t) = HeapSize /\ n[t].at = c
  <2>1. HeapSize \notin S
    BY HeapAssumption DEF Address
  <2>2. t \notin S
    BY <1>6, <2>1
  <2> QED BY <1>6, <2>2
<1> HIDE DEF t
<1>7. \A i \in 1..k : l[i].at \in S /\ l[i].at # c
  BY HandedAreUsed DEF k
<1>8. \A i \in 1..k : EndOf(n, l[i].at) = EndOf(m, l[i].at)
  BY <1>7 DEF EndOf
<1>9. Top(n, a) = t
  BY <1>1, <1>3, <1>4 DEF Top, t
<1>10. ASSUME NEW i \in 1..k + 1
       PROVE  /\ a[i].at = IF i = 1 THEN head ELSE EndOf(n, a[i - 1].at)
              /\ n[a[i].at].at = IF i = 1 THEN Null ELSE a[i - 1].at
  <2>1. CASE i \in 1..k
    <3>1. /\ l[i].at = IF i = 1 THEN head ELSE EndOf(m, l[i - 1].at)
          /\ m[l[i].at].at = IF i = 1 THEN Null ELSE l[i - 1].at
      BY <2>1 DEF Stacked, k
    <3>2. i # 1 => i - 1 \in 1..k
      BY <1>3, <2>1
    <3> QED BY <1>3, <1>7, <1>8, <2>1, <3>1, <3>2
  <2>2. CASE i = k + 1 /\ k = 0
    <3>1. i = 1 /\ c = head /\ m[c].at = Null /\ a[i].at = c
      BY <1>1, <1>3, <1>4, <1>5, <1>6, <2>2 DEF Top
    <3> QED BY <3>1
  <2>3. CASE i = k + 1 /\ k # 0
    <3>1. i # 1 /\ i - 1 = k /\ k \in 1..k
      BY <1>3, <2>3
    <3>2. a[i - 1] = l[k] /\ a[i].at = c
      BY <1>1, <1>3, <2>3, <3>1
    <3>3. c = EndOf(m, l[k].at) /\ m[c].at = l[k].at
      BY <1>4, <1>5, <1>6, <2>3 DEF Top, k
    <3>4. EndOf(n, l[k].at) = c
      BY <1>8, <3>1, <3>3
    <3> QED BY <3>1, <3>2, <3>3, <3>4
  <2>4. i \in 1..k \/ i = k + 1
    BY <1>3
  <2> QED BY <2>1, <2>2, <2>3, <2>4
<1>11. ASSUME NEW d \in R, n[d + 1].freed PROVE d = t
  <2>1. n[c + 1].freed = FALSE
    BY DEF Meta
  <2>2. CASE d \in S /\ d # c
    BY <1>5, <1>11, <2>2 DEF Stacked
  <2> QED BY <1>0, <1>11, <2>1, <2>2
<1>12. t \in R => n[t].at = IF a = <<>> THEN Null ELSE a[k + 1].at
  BY <1>0, <1>1, <1>3, <1>4
<1>13. \A i \in 1..k + 1 : /\ a[i].at = IF i = 1 THEN head ELSE EndOf(n, a[i - 1].at)
                           /\ n[a[i].at].at = IF i = 1 THEN Null ELSE a[i - 1].at
  BY <1>10
<1>14. Stacked(n, R, a)
  BY <1>0, <1>3, <1>9, <1>11, <1>12, <1>13 DEF Stacked
<1> QED BY <1>14 DEF a, b

LEMMA PopHanded ==
  ASSUME NEW m, NEW S, NEW l, Handed(m, S, l), NEW i \in 1..Len(l), NEW c, c = l[i].at,
         NEW begin \in S, begin = c \/ m[begin + 1].freed, NEW n, NEW R, R \subseteq S,
         begin \in R, n[begin + 1].freed, c \in R => c = begin,
         \A d \in R : d # begin => n[d + 1] = m[d + 1],
         \A d \in S : d \notin R => d = c \/ m[d + 1].freed
  PROVE  Handed(n, R, RemoveAt(l, i))
<1> DEFINE r == RemoveAt(l, i)
           k == Len(l)
<1>1. l \in Seq(Blocks)
  BY DEF Handed
<1>2. /\ r \in Seq(Blocks) /\ Len(r) = k - 1
      /\ \A j \in 1..k - 1 : r[j] = IF j < i THEN l[j] ELSE l[j + 1]
  BY <1>1, RemovedAt
<1>3. k \in Nat /\ i \in 1..k
  BY <1>1
<1> HIDE DEF r
<1>4. \A j \in 1..k : l[j].at \in S /\ ~m[l[j].at + 1].freed
  BY HandedAreUsed
<1>5. /\ \A j, h \in 1..k : l[j].at = l[h].at => j = h
      /\ {d \in S : ~m[d + 1].freed} = {l[j].at : j \in 1..k}
      /\ \A j \in 1..k : m[l[j].at + 1].size = l[j].size
  BY DEF Handed
<1> HIDE DEF k
<1> DEFINE from(j) == IF j < i THEN j ELSE j + 1
<1>6. \A j \in 1..k - 1 : from(j) \in 1..k /\ from(j) # i
  BY <1>3
<1>7. \A j \in 1..k - 1 : r[j] = l[from(j)]
  BY <1>2
<1>8. \A j, h \in 1..k - 1 : from(j) = from(h) => j = h
  BY <1>3
<1>9. \A h \in 1..k : h # i => \E j \in 1..k - 1 : from(j) = h
  <2> SUFFICES ASSUME NEW h \in 1..k, h # i PROVE \E j \in 1..k - 1 : from(j) = h
    OBVIOUS
  <2>1. CASE h < i
    <3>1. h \in 1..k - 1 /\ from(h) = h
      BY <1>3, <2>1
    <3> QED BY <3>1
  <2>2. CASE ~(h < i)
    <3>1. h - 1 \in 1..k - 1 /\ from(h - 1) = h
      BY <1>3, <2>2
    <3> QED BY <3>1
  <2> QED BY <2>1, <2>2
<1> HIDE DEF from
<1>10. ASSUME NEW j \in 1..k - 1, NEW h \in 1..k - 1, r[j].at = r[h].at PROVE j = h
  <2>1. from(j) = from(h)
    BY <1>5, <1>6, <1>7, <1>10
  <2> QED BY <1>8, <2>1
<1>11. ASSUME NEW d \in S, ~m[d + 1].freed, d # c
       PROVE  d \in R /\ n[d + 1] = m[d + 1]
  BY <1>11
<1>12. ASSUME NEW j \in 1..k - 1
       PROVE  /\ r[j].at \in R /\ ~n[r[j].at + 1].freed
              /\ n[r[j].at + 1].size = r[j].size
  <2> DEFINE h == from(j)
  <2>1. h \in 1..k /\ h # i /\ r[j] = l[h]
    BY <1>6, <1>7
  <2> HIDE DEF h
  <2>2. l[h].at # c
    BY <1>3, <1>5, <2>1
  <2>3. l[h].at \in R /\ n[l[h].at + 1] = m[l[h].at + 1]
    BY <1>4, <1>11, <2>1, <2>2
  <2> QED BY <1>4, <1>5, <2>1, <2>3
<1>13. ASSUME NEW d \in R, ~n[d + 1].freed PROVE \E j \in 1..k - 1 : r[j].at = d
  <2>1. d \in S /\ ~m[d + 1].freed /\ d # c
    BY <1>13
  <2>2. PICK h \in 1..k : l[h].at = d
    BY <1>5, <2>1
  <2>3. h # i
    BY <2>1, <2>2
  <2>4. PICK j \in 1..k - 1 : from(j) = h
    BY <1>9, <2>3
  <2> QED BY <1>7, <2>2, <2>4
<1>14. {d \in R : ~n[d + 1].freed} = {r[j].at : j \in 1..k - 1}
  BY <1>12, <1>13
<1>15. Handed(n, R, r)
  BY <1>2, <1>10, <1>12, <1>14 DEF Handed, k
<1> QED BY <1>15 DEF r

LEMMA PopStacked ==
  ASSUME NEW m, NEW S, NEW l, Handed(m, S, l), Stacked(m, S, l), NEW k \in 1..Len(l),
         k = Len(l), NEW c, c = l[k].at, NEW n, NEW R, R \subseteq S, c \in R,
         \A d \in R : n[d].at = m[d].at /\ (d # c => n[d + 1] = m[d + 1]),
         n[c + 1].freed, EndOf(n, c) = HeapSize,
         \A d \in S : ~m[d + 1].freed => d \in R, Top(m, l) \in R => Top(m, l) = c
  PROVE  Stacked(n, R, RemoveAt(l, k))
<1> DEFINE r == RemoveAt(l, k)
<1>1. l \in Seq(Blocks) /\ \A i, j \in 1..k : l[i].at = l[j].at => i = j
  BY DEF Handed
<1>2. /\ r \in Seq(Blocks) /\ Len(r) = k - 1
      /\ \A j \in 1..k - 1 : r[j] = IF j < k THEN l[j] ELSE l[j + 1]
  <2>1. /\ r \in Seq(Blocks) /\ Len(r) = Len(l) - 1
        /\ \A j \in 1..Len(l) - 1 : r[j] = IF j < k THEN l[j] ELSE l[j + 1]
    <3>1. l \in Seq(Blocks) /\ k \in 1..Len(l)
      BY <1>1
    <3> QED BY ONLY <3>1, RemovedAt DEF r
  <2> HIDE DEF r
  <2> QED BY <2>1
<1> HIDE DEF r
<1>3. k \in Nat /\ k >= 1
  BY <1>1
<1>4. \A j \in 1..k - 1 : r[j] = l[j]
  BY <1>2, <1>3
<1>5. r = <<>> <=> k = 1
  BY <1>2, <1>3
<1>6. \A j \in 1..k : l[j].at \in R
  BY HandedAreUsed
<1>7. \A j \in 1..k - 1 : j \in 1..k /\ j # k
  BY <1>3
<1>8. \A j \in 1..k - 1 : l[j].at # c
  BY <1>1, <1>7
<1>9. \A j \in 1..k - 1 : EndOf(n, l[j].at) = EndOf(m, l[j].at)
  BY <1>6, <1>7, <1>8 DEF EndOf
<1>10. \A i \in 1..k : /\ l[i].at = IF i = 1 THEN head ELSE EndOf(m, l[i - 1].at)
                       /\ m[l[i].at].at = IF i = 1 THEN Null ELSE l[i - 1].at
  BY DEF Stacked
<1>11. Top(n, r) = c
  <2>1. CASE k = 1
    BY <1>5, <1>10, <2>1 DEF Top
  <2>2. CASE k # 1
    <3>1. k - 1 \in 1..k - 1 /\ k - 1 \in 1..k
      BY <1>3, <2>2
    <3>2. Top(n, r) = EndOf(n, l[k - 1].at)
      BY <1>2, <1>4, <1>5, <2>2, <3>1 DEF Top
    <3> QED BY <1>9, <1>10, <2>2, <3>1, <3>2
  <2> QED BY <2>1, <2>2
<1>12. ASSUME NEW i \in 1..k - 1
       PROVE  /\ r[i].at = IF i = 1 THEN head ELSE EndOf(n, r[i - 1].at)
              /\ n[r[i].at].at = IF i = 1 THEN Null ELSE r[i - 1].at
  <2>1. r[i] = l[i] /\ i \in 1..k /\ n[l[i].at].at = m[l[i].at].at
    BY <1>4, <1>6, <1>7
  <2>2. CASE i = 1
    BY <1>10, <2>1, <2>2
  <2>3. CASE i # 1
    <3>1. i - 1 \in 1..k - 1
      BY <1>3, <2>3
    <3>2. r[i - 1] = l[i - 1] /\ EndOf(n, l[i - 1].at) = EndOf(m, l[i - 1].at)
      BY <1>4, <1>9, <3>1
    <3> QED BY <1>10, <2>1, <2>3, <3>2
  <2> QED BY <2>2, <2>3
<1>13. ASSUME NEW d \in R, n[d + 1].freed PROVE d = c
  <2> SUFFICES ASSUME d # c PROVE FALSE
    OBVIOUS
  <2>1. d \in S /\ m[d + 1].freed
    BY <1>13
  <2>2. d = Top(m, l)
    BY <2>1 DEF Stacked
  <2> QED BY <1>13, <2>2
<1>14. n[c].at = IF r = <<>> THEN Null ELSE r[k - 1].at
  <2>1. CASE k = 1
    BY <1>5, <1>10, <2>1
  <2>2. CASE k # 1
    <3>1. k - 1 \in 1..k - 1 /\ k \in 1..k
      BY <1>3, <2>2
    <3> QED BY <1>4, <1>5, <1>10, <2>2, <3>1
  <2> QED BY <2>1, <2>2
<1>15. \A i \in 1..k - 1 : /\ r[i].at = IF i = 1 THEN head ELSE EndOf(n, r[i - 1].at)
                           /\ n[r[i].at].at = IF i = 1 THEN Null ELSE r[i - 1].at
  BY <1>12
<1>16. Stacked(n, R, r)
  BY <1>2, <1>11, <1>13, <1>14, <1>15 DEF Stacked
<1> QED BY <1>16 DEF r

(***************************************************************************)
(* Every operation keeps the invariant.                                    *)
(***************************************************************************)
LEMMA SpoiledKeeps ==
  ASSUME spoiled' # "no", lifo' \in BOOLEAN, lifo' => spoiled' # "stale"
  PROVE  AllocInv'
BY DEF AllocInv

LEMMA IntactKeeps ==
  ASSUME lifo' \in BOOLEAN, spoiled' = "no", mem' = [w \in Address |-> mem'[w]],
         NEW R, Layout(mem', R), Handed(mem', R, live'),
         lifo' => Stacked(mem', R, live')
  PROVE  AllocInv'
<1>1. Chunks' = R
  BY ChunksAre
<1>2. spoiled' # "stale"
  OBVIOUS
<1>3. /\ Layout(mem', Chunks') /\ Handed(mem', Chunks', live')
      /\ lifo' => Stacked(mem', Chunks', live')
  BY <1>1
<1> QED BY <1>2, <1>3 DEF AllocInv

LEMMA UnchangedKeeps ==
  ASSUME AllocInv, UNCHANGED allocVars
  PROVE  AllocInv'
<1>1. mem' = mem /\ live' = live /\ lifo' = lifo /\ spoiled' = spoiled
  BY DEF allocVars
<1>2. Chunks' = Chunks
  BY <1>1 DEF Chunks, NextOf, SizeOf
<1> QED BY <1>1, <1>2 DEF AllocInv

LEMMA AllocateKeeps ==
  ASSUME AllocInv, spoiled = "no", NEW bytes \in Requests, Allocate(bytes)
  PROVE  AllocInv'
<1> DEFINE need == RoundUpSize(bytes)
           c    == FindWellAlignedChunk(need)
           S    == Chunks
           n    == mem'
           size == SizeOf(c)
           b    == [at |-> c, size |-> need]
<1>1. /\ lifo \in BOOLEAN /\ lifo => Stacked(mem, S, live)
      /\ mem = [w \in Address |-> mem[w]] /\ Layout(mem, S) /\ Handed(mem, S, live)
  BY DEF AllocInv
<1>2. need \in Nat
  <2>1. bytes \in Nat
    BY HeapAssumption
  <2>2. (bytes + 3) \div 4 \in Nat
    BY <2>1
  <2> QED BY <2>2 DEF RoundUpSize
<1>3. c \in S
  BY <1>1, <1>2, FoundIsChunk
<1>4. CASE UNCHANGED allocVars
  BY <1>4, UnchangedKeeps
<1>5. CASE /\ size >= need
           /\ live' = Append(live, b)
           /\ mem' = Allocated(c, need)
           /\ spoiled' = CASE ~IsFreed(c) -> "exhausted"
                           [] IsFreed(c) /\ size = need + 1 -> "sliver"
                           [] OTHER -> spoiled
           /\ UNCHANGED lifo
  <2> HIDE DEF need, c, S, n
  <2>0. lifo' \in BOOLEAN
    <3>1. lifo' = lifo
      BY <1>5
    <3>2. lifo \in BOOLEAN
      BY DEF AllocInv
    <3> QED BY <3>1, <3>2
  <2>1. CASE ~IsFreed(c)
    <3>1. spoiled' = "exhausted" /\ lifo' = lifo
      BY <1>5, <2>1
    <3>2. spoiled' # "no" /\ spoiled' # "stale"
      BY <3>1
    <3> QED BY <2>0, <3>2, SpoiledKeeps
  <2>2. CASE IsFreed(c) /\ size = need + 1
    <3>1. spoiled' = "sliver" /\ lifo' = lifo
      BY <1>5, <2>2
    <3>2. spoiled' # "no" /\ spoiled' # "stale"
      BY <3>1
    <3> QED BY <2>0, <3>2, SpoiledKeeps
  <2>3. CASE IsFreed(c) /\ size # need + 1
    <3>1. spoiled' = "no" /\ lifo' = lifo
      BY <1>5, <2>3
    <3>2. size \in Nat /\ c \in Nat /\ EndOf(mem, c) = c + 2 + size
      BY <1>1, <1>3, Room DEF SizeOf
    <3>3. need <= size
      BY <1>2, <1>5, <3>2
    <3>4. Written(n, S, c, need)
      <4>1. Written(Allocated(c, need), S, c, need)
        BY <1>1, <1>2, <1>3, <2>3, <3>3, AllocatedWords
      <4> QED BY <1>5, <4>1 DEF n
    <3> DEFINE m == mem
               l == live
    <3>5. /\ Layout(m, S) /\ Handed(m, S, l) /\ S \subseteq Address
          /\ m[c + 1].freed /\ live' = Append(l, b) /\ (lifo => Stacked(m, S, l))
      BY <1>1, <1>3, <1>5, <2>3 DEF Layout, IsFreed
    <3>6. \A d \in S : /\ n[d] = m[d] /\ (d # c => n[d + 1] = m[d + 1])
                       /\ IsHeader(m[d], m[d + 1])
      BY <3>4, <3>5 DEF Layout, Written, IsHeader
    <3>7. /\ n[c + 1] = Meta(need, FALSE) /\ n[c + 1].size = need
          /\ IsHeader(n[c], n[c + 1])
      <4>1. n[c + 1] = Meta(need, FALSE)
        BY <3>4 DEF Written
      <4>2. n[c + 1].word = "size" /\ n[c + 1].size = need /\ n[c + 1].freed = FALSE
        BY <4>1 DEF Meta
      <4>3. n[c].word = "prev"
        BY <1>3, <3>6 DEF IsHeader
      <4> QED BY <1>2, <4>1, <4>2, <4>3 DEF IsHeader
    <3>8. size = m[c + 1].size
      BY DEF SizeOf
    <3>9. /\ n = [w \in Address |-> n[w]]
          /\ size # need => /\ n[c + 2 + need] = Pointer(c)
                            /\ n[c + 2 + need + 1] = Meta(size - need - 2, TRUE)
      BY <3>4 DEF Written
    <3> HIDE DEF m, l, size
    <3>10. \A d \in S : d # c => IsHeader(n[d], n[d + 1]) /\ n[d + 1].size = m[d + 1].size
      BY <3>6
    <3>11. \E R : Layout(n, R) /\ Takes(m, n, S, R, c, need)
      <4>1. CASE size = need
        <5>1. \A d \in S : IsHeader(n[d], n[d + 1]) /\ n[d + 1].size = m[d + 1].size
          BY <3>7, <3>8, <3>10, <4>1
        <5>2. Layout(n, S) /\ \A d \in S : EndOf(n, d) = EndOf(m, d)
          BY <3>5, <5>1, SameLayout
        <5>3. Takes(m, n, S, S, c, need)
          BY <1>2, <1>3, <3>5, <3>6, <3>7, <5>2 DEF Takes
        <5> QED BY <5>2, <5>3
      <4>2. CASE size # need
        <5> DEFINE rest == c + 2 + need
                   R == S \cup {rest}
        <5>1. /\ n[rest] = Pointer(c) /\ n[rest + 1] = Meta(size - need - 2, TRUE)
          BY <3>9, <4>2
        <5>2. rest \in Nat /\ need + 2 <= size /\ size - need - 2 \in Nat
          BY <1>2, <2>3, <3>2, <3>3, <4>2 DEF size
        <5>3. rest = c + 2 + need
          OBVIOUS
        <5> HIDE DEF rest
        <5>4. /\ n[rest].at = c /\ n[rest + 1].freed
              /\ n[rest + 1].size = size - need - 2
              /\ IsHeader(n[rest], n[rest + 1])
          BY <5>1, <5>2 DEF Pointer, Meta, IsHeader
        <5>5. Cut(m, n, S, c, need, rest)
          BY <1>2, <3>7, <3>8, <3>10, <5>2, <5>3, <5>4 DEF Cut
        <5>6. /\ Layout(n, R) /\ rest \notin S
              /\ EndOf(n, rest) = EndOf(m, c) /\ EndOf(n, c) = rest
          BY <1>3, <3>5, <5>5, CutLayout
        <5>7. Takes(m, n, S, R, c, need)
          BY <1>2, <1>3, <3>5, <3>6, <3>7, <5>4, <5>6 DEF Takes
        <5> QED BY <5>6, <5>7
      <4> QED BY <4>1, <4>2
    <3>12. PICK R : Layout(n, R) /\ Takes(m, n, S, R, c, need)
      BY <3>11
    <3>13. Handed(n, R, live')
      BY <3>5, <3>12, PushHanded
    <3>14. lifo' => Stacked(n, R, live')
      <4> SUFFICES ASSUME lifo' PROVE Stacked(n, R, live')
        OBVIOUS
      <4>1. Stacked(m, S, l)
        BY <3>1, <3>5
      <4> QED BY <3>5, <3>12, <4>1, PushStacked DEF b
    <3> QED BY <2>0, <3>1, <3>9, <3>12, <3>13, <3>14, IntactKeeps DEF n
  <2> QED BY <2>1, <2>2, <2>3
<1> QED BY <1>4, <1>5 DEF Allocate, Allocated

\* The blocks from the one freed back to begin and on to end become one.
LEMMA FreeKeeps ==
  ASSUME AllocInv, spoiled = "no", NEW i \in DOMAIN live, free(i)
  PROVE  AllocInv'
<1> DEFINE c == live[i].at
           S == Chunks
<1>1. /\ lifo \in BOOLEAN /\ lifo => Stacked(mem, S, live)
      /\ mem = [w \in Address |-> mem[w]] /\ Layout(mem, S) /\ Handed(mem, S, live)
  BY DEF AllocInv
<1>2. live \in Seq(Blocks) /\ i \in 1..Len(live)
  BY <1>1 DEF Handed
<1>3. c \in S /\ ~mem[c + 1].freed
  BY <1>1, <1>2, HandedAreUsed
<1>4. S \subseteq Address /\ HeapSize \in Nat /\ Null \notin Address /\ HeapSize \notin Address
  BY <1>1, HeapAssumption DEF Layout, Address, Null
<1>5. PICK back \in PrevFreed(c), ahead \in NextFreed(c) :
        LET begin == IF back THEN PrevOf(c) ELSE c
            end   == IF ahead THEN NextOf(c) ELSE c
        IN  /\ spoiled' = CASE ~InHeap(begin) \/ ~InHeap(end) -> "strayed"
                            [] InHeap(begin) /\ InHeap(end) /\ begin \notin {c, Before(c)} -> "stale"
                            [] OTHER -> spoiled
            /\ mem' = IF InHeap(begin) /\ InHeap(end) THEN Merged(begin, end) ELSE mem
  BY DEF free, Deallocate
<1>6. live' = RemoveAt(live, i) /\ lifo' = (lifo /\ i = Len(live))
  BY DEF free
<1> DEFINE begin == IF back THEN PrevOf(c) ELSE c
           end   == IF ahead THEN NextOf(c) ELSE c
<1>7. /\ lifo' \in BOOLEAN
      /\ lifo' => lifo /\ i = Len(live) /\ Stacked(mem, S, live)
  BY <1>1, <1>6
<1>8. /\ EndOf(mem, c) \in S \cup {HeapSize} /\ NextOf(c) = EndOf(mem, c)
      /\ c \in Nat /\ c + 2 <= EndOf(mem, c) /\ EndOf(mem, c) \in Nat
  BY <1>1, <1>3, Room DEF Layout, NextOf, SizeOf, EndOf
<1>9. \A d \in S : FreedBit(mem[d + 1]) = {mem[d + 1].freed}
  BY <1>1 DEF Layout, FreedBit
<1>10. InHeap(end) => end = c \/ (end = EndOf(mem, c) /\ end \in S /\ mem[end + 1].freed)
  <2> SUFFICES ASSUME InHeap(end), ahead PROVE end = EndOf(mem, c) /\ end \in S /\ mem[end + 1].freed
    OBVIOUS
  <2>1. end = NextOf(c) /\ InHeap(NextOf(c))
    OBVIOUS
  <2>2. end = EndOf(mem, c) /\ end \in S
    BY <1>4, <1>8, <2>1 DEF InHeap
  <2>3. ahead \in FreedBit(mem[end + 1])
    BY <2>1 DEF NextFreed
  <2> QED BY <1>9, <2>2, <2>3
<1>11. EndOf(mem, c) \in S /\ mem[EndOf(mem, c) + 1].freed => end = EndOf(mem, c)
  <2> SUFFICES ASSUME EndOf(mem, c) \in S, mem[EndOf(mem, c) + 1].freed PROVE ahead
    BY <1>8
  <2>1. ahead \in FreedBit(mem[EndOf(mem, c) + 1])
    BY <1>4, <1>8 DEF NextFreed, InHeap
  <2>2. ahead = mem[EndOf(mem, c) + 1].freed
    BY <1>9, <2>1
  <2> QED BY <2>2
<1>12. back /\ PrevOf(c) \in S => mem[PrevOf(c) + 1].freed
  <2> SUFFICES ASSUME back, PrevOf(c) \in S PROVE mem[PrevOf(c) + 1].freed
    OBVIOUS
  <2>1. back \in FreedBit(mem[PrevOf(c) + 1])
    BY <1>4 DEF PrevFreed
  <2> QED BY <1>9, <2>1
<1>13. Before(c) \in S => Before(c) < c /\ \A d \in S : d < c => d <= Before(c)
  <2> DEFINE here == {a \in S : a < c}
  <2>1. Before(c) = IF here = {} THEN Null ELSE Max(here)
    BY DEF Before
  <2>2. here \subseteq Address
    BY <1>4
  <2>3. here # {} => Max(here) \in here /\ \A d \in here : d <= Max(here)
    BY <2>2, Extremes
  <2>4. Null \notin S
    BY <1>4
  <2> HIDE DEF S
  <2> QED BY <2>1, <2>3, <2>4
<1>14. Before(c) \in S \cup {Null}
  <2> DEFINE here == {a \in S : a < c}
  <2>1. Before(c) = IF here = {} THEN Null ELSE Max(here)
    BY DEF Before
  <2>2. here # {} => Max(here) \in here
    BY <1>4, Extremes
  <2> HIDE DEF S
  <2> QED BY <2>1, <2>2
\* Who frees in reverse order finds the block before in use.
<1>15. ASSUME Stacked(mem, S, live), i = Len(live)
       PROVE  (back => begin = Null) /\ (EndOf(mem, c) \in S => mem[EndOf(mem, c) + 1].freed)
              /\ Top(mem, live) = EndOf(mem, c)
  <2>1. live # <<>>
    BY <1>2
  <2>2. Top(mem, live) = EndOf(mem, c)
    BY <1>15, <2>1 DEF Top
  <2>3. PrevOf(c) = IF i = 1 THEN Null ELSE live[i - 1].at
    BY <1>2, <1>15 DEF Stacked, PrevOf
  <2>4. ASSUME back PROVE begin = Null
    <3>1. CASE i = 1
      BY <2>3, <2>4, <3>1
    <3>2. CASE i # 1
      <4>1. i - 1 \in 1..Len(live)
        BY <1>2, <3>2
      <4>2. live[i - 1].at \in S /\ ~mem[live[i - 1].at + 1].freed
        BY <1>1, <4>1, HandedAreUsed
      <4> QED BY <1>12, <2>3, <2>4, <3>2, <4>2
    <3> QED BY <3>1, <3>2
  <2> QED BY <1>15, <2>2, <2>4 DEF Stacked
<1> HIDE DEF c, S, begin, end
<1>16. CASE ~InHeap(begin) \/ ~InHeap(end)
  <2>1. spoiled' = "strayed"
    BY <1>5, <1>16 DEF begin, end
  <2> QED BY <1>7, <2>1, SpoiledKeeps
<1>17. CASE InHeap(begin) /\ InHeap(end) /\ begin \notin {c, Before(c)}
  <2>1. spoiled' = "stale"
    BY <1>5, <1>17 DEF begin, end
  <2>2. ~lifo'
    <3> SUFFICES ASSUME lifo' PROVE FALSE
      OBVIOUS
    <3>1. back => begin = Null
      BY <1>7, <1>15
    <3>2. ~back => begin = c
      BY DEF begin
    <3> QED BY <1>4, <1>17, <3>1, <3>2 DEF InHeap
  <2> QED BY <1>7, <2>1, <2>2, SpoiledKeeps
<1>18. CASE InHeap(begin) /\ InHeap(end) /\ begin \in {c, Before(c)}
  <2>1. spoiled' = "no" /\ mem' = Merged(begin, end)
    <3>1. spoiled' = spoiled /\ mem' = Merged(begin, end)
      BY <1>5, <1>18 DEF begin, end
    <3> QED BY <3>1
  <2>2. /\ begin \in S /\ begin <= c
        /\ begin = c \/ mem[begin + 1].freed
        /\ \A d \in S : d < c => d <= begin
    <3>1. CASE begin = c
      <4>1. \A d \in S : d \in Nat
        BY <1>4 DEF Address
      <4> QED BY <1>3, <3>1, <4>1
    <3>2. CASE begin # c
      <4>1. begin = Before(c) /\ begin = PrevOf(c) /\ back
        BY <1>18, <3>2 DEF begin
      <4>2. begin \in S
        BY <1>4, <1>14, <1>18, <4>1 DEF InHeap
      <4>3. begin < c /\ \A d \in S : d < c => d <= begin
        BY <1>13, <4>1, <4>2
      <4>4. begin \in Nat
        BY <1>4, <4>2 DEF Address
      <4> QED BY <1>8, <1>12, <4>1, <4>2, <4>3, <4>4
    <3> QED BY <3>1, <3>2
  <2>3. /\ end \in S /\ c <= end
        /\ end = c \/ (end = EndOf(mem, c) /\ mem[end + 1].freed)
    BY <1>3, <1>8, <1>10, <1>18
  <2>4. begin \in Nat /\ end \in Nat /\ begin <= end
    BY <1>4, <1>8, <2>2, <2>3 DEF Address
  <2> DEFINE n == mem'
             m == mem
             l == live
             R == {d \in S : ~(begin < d /\ d <= end)}
  <2>5. /\ n = [w \in Address |-> n[w]]
        /\ n[begin + 1] = Meta(end - begin + SizeOf(end), TRUE)
        /\ \A w \in Address : w # begin + 1 => n[w] = m[w]
    <3>1. begin + 1 \in Address
      BY <1>1, <2>2, Room
    <3> QED BY <1>1, <2>1, <3>1 DEF Merged
  <2>6. /\ Layout(m, S) /\ Handed(m, S, l) /\ l \in Seq(Blocks) /\ i \in 1..Len(l)
        /\ live' = RemoveAt(l, i) /\ c = l[i].at
        /\ lifo' => i = Len(l) /\ Stacked(m, S, l)
    BY <1>1, <1>2, <1>6, <1>7 DEF c
  <2>7. \A d \in S : /\ n[d] = m[d]
                     /\ d # begin => n[d + 1] = m[d + 1]
                     /\ IsHeader(m[d], m[d + 1])
    <3> SUFFICES ASSUME NEW d \in S
                 PROVE  /\ n[d] = m[d]
                        /\ d # begin => n[d + 1] = m[d + 1]
                        /\ IsHeader(m[d], m[d + 1])
      OBVIOUS
    <3>1. IsHeader(m[d], m[d + 1])
      BY <2>6 DEF Layout, IsHeader
    <3>2. d \in Address /\ d + 1 \in Address /\ d \in Nat
      BY <1>4, <2>6, Room
    <3>3. d # begin + 1
      <4>1. CASE d = begin
        BY <2>4, <4>1
      <4>2. CASE d # begin
        <5>1. d \notin begin..EndOf(m, begin) - 1
          BY <2>2, <2>6, <4>2, WordsOfOthers
        <5>2. begin + 2 <= EndOf(m, begin) /\ EndOf(m, begin) \in Nat
          BY <2>2, <2>6, Room
        <5> QED BY <2>4, <3>2, <5>1, <5>2
      <4> QED BY <4>1, <4>2
    <3>4. d # begin => d + 1 # begin + 1
      BY <2>4, <3>2
    <3> QED BY <2>5, <3>1, <3>2, <3>3, <3>4
  <2>8. SizeOf(end) = m[end + 1].size /\ m[end + 1].size \in Nat
    BY <2>3, <2>6 DEF SizeOf, Layout
  <2> HIDE DEF n, m, l, R
  <2>9. /\ n[begin + 1].word = "size" /\ n[begin + 1].freed = TRUE
        /\ n[begin + 1].size = end - begin + m[end + 1].size
        /\ n[begin + 1].size \in Nat
    <3>1. end - begin + m[end + 1].size \in Nat
      BY <2>4, <2>8
    <3> QED BY <2>5, <2>8, <3>1 DEF Meta
  <2>10. IsHeader(n[begin], n[begin + 1])
    BY <2>2, <2>7, <2>9 DEF IsHeader
  <2>11. /\ Layout(n, R) /\ EndOf(n, begin) = EndOf(m, end)
    <3>1. \A d \in S : d # begin => IsHeader(n[d], n[d + 1]) /\ n[d + 1].size = m[d + 1].size
      BY <2>7 DEF IsHeader
    <3>2. Joint(m, n, S, begin, end)
      BY <2>4, <2>9, <2>10, <3>1 DEF Joint
    <3>3. begin \in S /\ end \in S /\ Layout(m, S)
      BY <2>2, <2>3, <2>6
    <3>4. /\ Layout(n, {d \in S : ~(begin < d /\ d <= end)})
          /\ EndOf(n, begin) = EndOf(m, end)
      BY ONLY <3>2, <3>3, MergedLayout
    <3> QED BY ONLY <3>4 DEF R
  <2>12. R \subseteq S /\ begin \in R
    BY <2>2, <2>4 DEF R
  <2>13. c \in R => c = begin
    <3> SUFFICES ASSUME c \in R, c # begin PROVE FALSE
      OBVIOUS
    <3>1. ~(begin < c /\ c <= end)
      BY DEF R
    <3> QED BY <1>8, <2>2, <2>3, <2>4, <3>1
  <2>14. ASSUME NEW d \in S, d \notin R PROVE d = c \/ m[d + 1].freed
    <3>1. begin < d /\ d <= end /\ d \in Nat
      BY <1>4, <2>14 DEF R, Address
    <3>2. CASE d < c
      BY <2>2, <2>4, <3>1, <3>2
    <3>3. CASE d = c
      BY <3>3
    <3>4. CASE c < d
      <4>1. EndOf(m, c) <= d
        BY <1>3, <2>6, <3>4 DEF Layout
      <4>2. end = EndOf(m, c) /\ m[end + 1].freed
        BY <1>8, <2>3, <3>1, <3>4 DEF m
      <4>3. d = end
        BY <2>4, <3>1, <4>1, <4>2
      <4> QED BY <4>2, <4>3
    <3>5. d < c \/ d = c \/ c < d
      BY <1>8, <3>1
    <3> QED BY <3>2, <3>3, <3>4, <3>5
  <2>15. Handed(n, R, live')
    <3>1. /\ begin = c \/ m[begin + 1].freed
          /\ n[begin + 1].freed
          /\ \A d \in R : d # begin => n[d + 1] = m[d + 1]
          /\ \A d \in S : d \notin R => d = c \/ m[d + 1].freed
      BY <2>2, <2>7, <2>9, <2>12, <2>14 DEF m
    <3> QED BY <2>2, <2>6, <2>12, <2>13, <3>1, PopHanded
  <2>16. ASSUME lifo' PROVE Stacked(n, R, live')
    <3>1. Stacked(m, S, l) /\ i = Len(l)
      BY <2>6, <2>16
    <3>2. (back => begin = Null) /\ (EndOf(m, c) \in S => m[EndOf(m, c) + 1].freed)
          /\ Top(m, l) = EndOf(m, c)
      BY <1>15, <3>1 DEF m, l
    <3>3. begin = c
      BY <1>4, <1>18, <3>2 DEF begin, InHeap
    <3>4. CASE EndOf(m, c) \in S
      <4>1. end = Top(m, l) /\ end # c
        <5>1. end = EndOf(m, c)
          BY <1>11, <3>2, <3>4 DEF m
        <5>2. EndOf(m, c) # c
          BY <1>8 DEF m
        <5> QED BY <3>2, <5>1, <5>2
      <4>2. EndOf(n, c) = HeapSize
        BY <2>11, <3>1, <3>2, <3>3, <3>4, <4>1 DEF Stacked
      <4>3. Top(m, l) \notin R
        BY <2>3, <2>4, <3>3, <4>1 DEF R
      <4> QED BY <2>6, <2>7, <2>9, <2>12, <2>14, <3>1, <3>3, <4>2, <4>3, PopStacked
    <3>5. CASE EndOf(m, c) \notin S
      <4>1. EndOf(m, c) = HeapSize /\ end = c
        BY <1>8, <2>3, <3>5 DEF m
      <4>2. EndOf(n, c) = HeapSize /\ Top(m, l) \notin R
        BY <2>11, <2>12, <3>2, <3>3, <3>5, <4>1
      <4> QED BY <2>6, <2>7, <2>9, <2>12, <2>14, <3>1, <3>3, <4>2, PopStacked
    <3> QED BY <3>4, <3>5
  <2> QED BY <1>7, <2>1, <2>5, <2>11, <2>15, <2>16, IntactKeeps DEF n
<1> QED BY <1>16, <1>17, <1>18

LEMMA AllocStarts == AllocInit => AllocInv
<1> SUFFICES ASSUME AllocInit PROVE AllocInv
  OBVIOUS
<1> DEFINE m == mem
           R == {head}
           size == HeapSize - Header
<1>1. HeapSize \in Nat /\ HeapSize >= 2
  BY HeapAssumption
<1>2. /\ m = [w \in Address |-> m[w]]
      /\ m[head] = Pointer(Null) /\ m[head + 1] = Meta(size, TRUE)
      /\ live = <<>> /\ lifo = TRUE /\ spoiled = "no"
  <2>1. head \in Address /\ head + 1 \in Address /\ head + 1 # head
    BY <1>1 DEF head, Address
  <2> QED BY <2>1 DEF AllocInit
<1>3. size \in Nat
  BY <1>1 DEF Header
<1>4. /\ m[head].word = "prev" /\ m[head].at = Null
      /\ m[head + 1].word = "size" /\ m[head + 1].size = size /\ m[head + 1].freed = TRUE
  BY <1>2 DEF Pointer, Meta
<1>5. EndOf(m, head) = HeapSize
  <2>1. EndOf(m, head) = head + Header + size
    BY <1>4 DEF EndOf
  <2> QED BY <1>1, <2>1 DEF head, Header
<1> HIDE DEF m, size
<1>6. Layout(m, R)
  <2>1. head \in Address /\ ~(head < head)
    BY <1>1 DEF head, Address
  <2> QED BY <1>3, <1>4, <1>5, <2>1 DEF Layout
<1>7. live \in Seq(Blocks) /\ Len(live) = 0 /\ \A i : i \notin 1..0
  BY <1>2
<1>8. Handed(m, R, live)
  <2>1. {c \in R : ~m[c + 1].freed} = {}
    BY <1>4
  <2>2. {live[i].at : i \in 1..0} = {}
    BY <1>7
  <2> HIDE DEF R
  <2> QED BY <1>7, <2>1, <2>2 DEF Handed
<1>9. Stacked(m, R, live)
  <2>1. Top(m, live) = head
    BY <1>2 DEF Top
  <2> QED BY <1>2, <1>4, <1>5, <1>7, <2>1 DEF Stacked
<1>10. Chunks = R
  BY <1>6, ChunksAre DEF m
<1> HIDE DEF R
<1> QED BY <1>2, <1>6, <1>8, <1>9, <1>10 DEF AllocInv, m

LEMMA AllocPreserved == AllocInv /\ [AllocNext]_allocVars => AllocInv'
<1> SUFFICES ASSUME AllocInv, [AllocNext]_allocVars PROVE AllocInv'
  OBVIOUS
<1>1. CASE UNCHANGED allocVars
  BY <1>1, UnchangedKeeps
<1>2. ASSUME spoiled = "no", NEW bytes \in Requests, Allocate(bytes) PROVE AllocInv'
  BY <1>2, AllocateKeeps
<1>3. ASSUME spoiled = "no", NEW i \in DOMAIN live, free(i) PROVE AllocInv'
  BY <1>3, FreeKeeps
<1>4. CASE FreeNull
  <2>1. spoiled' = "strayed" /\ lifo' = lifo /\ lifo \in BOOLEAN
    BY <1>4 DEF FreeNull, AllocInv
  <2> QED BY <2>1, SpoiledKeeps
<1> QED BY <1>1, <1>2, <1>3, <1>4 DEF AllocNext

LEMMA AllocSafety == AllocSpec => []AllocInv
<1>1. AllocInit => AllocInv
  BY AllocStarts
<1>2. AllocInv /\ [AllocNext]_allocVars => AllocInv'
  BY AllocPreserved
<1> QED BY <1>1, <1>2, PTL DEF AllocSpec

(***************************************************************************)
(* Whatever is asked for and freed in whatever order: until the heap is    *)
(* spoiled its chunks fill it, and those in use are the blocks handed out. *)
(***************************************************************************)
THEOREM HeapStaysIntact == AllocSpec => []HeapIntact
<1>1. AllocInv => HeapIntact
  <2> SUFFICES ASSUME AllocInv, spoiled = "no" PROVE HeapIntact
    BY DEF HeapIntact
  <2>1. Layout(mem, Chunks) /\ Handed(mem, Chunks, live)
    BY DEF AllocInv
  <2>2. \A c \in Chunks : /\ mem[c].word = "prev" /\ mem[c + 1].word = "size"
                          /\ NextOf(c) \in Chunks \cup {HeapSize}
    BY <2>1 DEF Layout, EndOf, NextOf, SizeOf
  <2>3. DOMAIN live = 1..Len(live)
    BY <2>1 DEF Handed
  <2>4. InUse = {live[i].at : i \in DOMAIN live}
    BY <2>1, <2>3 DEF Handed, InUse, IsFreed
  <2>5. /\ \A i, j \in DOMAIN live : live[i].at = live[j].at => i = j
        /\ \A i \in DOMAIN live : SizeOf(live[i].at) = live[i].size
    BY <2>1, <2>3 DEF Handed, SizeOf
  <2> QED BY <2>2, <2>4, <2>5 DEF HeapIntact
<1> QED BY <1>1, AllocSafety, PTL

(***************************************************************************)
(* Callers that free in reverse order get the heap back, and never meet a  *)
(* stale Prev.                                                             *)
(***************************************************************************)
THEOREM LifoGetsItBack == AllocSpec => []LifoRecovers
<1>1. AllocInv => LifoRecovers
  <2> SUFFICES ASSUME AllocInv, spoiled = "no", lifo
               PROVE  /\ \A i \in DOMAIN live :
                           live[i].at = IF i = 1 THEN head ELSE NextOf(live[i - 1].at)
                      /\ \A c, d \in Chunks \ InUse : c = d
    BY DEF LifoRecovers, AllocInv
  <2>1. Handed(mem, Chunks, live) /\ Stacked(mem, Chunks, live)
    BY DEF AllocInv
  <2>2. DOMAIN live = 1..Len(live)
    BY <2>1 DEF Handed
  <2>3. \A i \in DOMAIN live :
          live[i].at = IF i = 1 THEN head ELSE NextOf(live[i - 1].at)
    BY <2>1, <2>2 DEF Stacked, EndOf, NextOf, SizeOf
  <2>4. \A c \in Chunks \ InUse : c = Top(mem, live)
    BY <2>1 DEF Stacked, InUse, IsFreed
  <2> QED BY <2>3, <2>4
<1> QED BY <1>1, AllocSafety, PTL

(***************************************************************************)
(*                                                                         *)
(*                                 Logger                                  *)
(*                                                                         *)
(***************************************************************************)
Logging == [step : {"log"}, line : Nat]
Tagging == [step : {"tag", "between"}, line : Nat, tag : Nat, size : Nat]
Messaging == [step : {"message", "push"}, line : Nat, tag : Nat, size : Nat, msg : Nat]
Works == {Idle} \cup Logging \cup Tagging \cup Messaging

LogTypes ==
  /\ length \in Seq(Nat)
  /\ todo \in [Writers -> Seq(Nat)]
  /\ work \in [Writers -> Works]
  /\ scratch \in Nat
  /\ log_head \in Nat /\ reach \in Nat
  /\ log_queue \in Seq(Messaging)

(***************************************************************************)
(* Places in the ring.                                                     *)
(***************************************************************************)
LEMMA Multiple ==
  ASSUME NEW r \in Int, r > 0, NEW x \in Int
  PROVE  ~(0 < r * x /\ r * x < r)
<1>1. CASE x <= 0
  BY <1>1
<1>2. CASE x >= 1
  BY <1>2
<1> QED BY <1>1, <1>2

\* Less than a round apart is not in the same place.
LEMMA OtherPlace ==
  ASSUME NEW r \in Int, r > 0, NEW a \in Int, NEW b \in Int, a < b, b < a + r
  PROVE  a % r # b % r
<1> SUFFICES ASSUME a % r = b % r PROVE FALSE
  OBVIOUS
<1> DEFINE x == (b \div r) - (a \div r)
<1>1. /\ a = r * (a \div r) + (a % r)
      /\ b = r * (b \div r) + (b % r)
  BY SMT
<1>2. /\ a \div r \in Int /\ b \div r \in Int /\ x \in Int
      /\ a % r \in Int /\ b % r \in Int
  BY SMT
<1>3. r * x = (r * (b \div r)) - (r * (a \div r))
  BY <1>2
<1>4. r * (b \div r) \in Int /\ r * (a \div r) \in Int
  BY <1>2
<1>5. r * x = b - a
  BY <1>1, <1>2, <1>3, <1>4
<1>6. 0 < r * x /\ r * x < r
  BY <1>5
<1> QED BY <1>2, <1>6, Multiple

LEMMA RingAssumption == RingSize \in Int /\ RingSize > 0 /\ TagLength \in Nat
BY LoggerAssumption

LEMMA APlace ==
  ASSUME NEW k \in Nat
  PROVE  k % RingSize \in 0..RingSize - 1
BY RingAssumption, SMT

LEMMA OnlyOne ==
  ASSUME NEW i \in Nat
  PROVE  Max({i}) = i
BY DEF Max

LEMMA Furthest ==
  ASSUME NEW a \in Nat, NEW b \in Nat
  PROVE  Max({a, b}) \in Nat /\ Max({a, b}) >= a /\ Max({a, b}) >= b
<1>1. \E x \in {a, b} : \A y \in {a, b} : x >= y
  <2>1. CASE a >= b
    BY <2>1
  <2>2. CASE b >= a
    BY <2>2
  <2> QED BY <2>1, <2>2
<1>2. Max({a, b}) \in {a, b} /\ \A y \in {a, b} : Max({a, b}) >= y
  BY <1>1 DEF Max
<1> QED BY <1>2

(***************************************************************************)
(* What is pasted stands where it was pasted, if it is no longer than the  *)
(* ring, and what was pasted before it less than a round ago stays.        *)
(***************************************************************************)
LEMMA PastedRing ==
  ASSUME log_head \in Nat, reach \in Nat,
         NEW S, NEW start \in Nat, NEW text \in Seq(S), Pasted(start, text)
  PROVE  /\ log_head' = start + Len(text) /\ log_head' \in Nat
         /\ reach' \in Nat /\ reach' >= reach /\ reach' >= log_head'
         /\ Len(text) <= RingSize =>
              \A i \in 1..Len(text) : log_ring'[(start + i - 1) % RingSize] = text[i]
         /\ \A k \in Nat : k < start /\ start + Len(text) <= k + RingSize =>
              log_ring'[k % RingSize] = log_ring[k % RingSize]
<1> DEFINE size == Len(text)
           hits(p) == {i \in 1..size : (start + i - 1) % RingSize = p}
<1>1. size \in Nat
  OBVIOUS
<1>2. \A p \in 0..RingSize - 1 :
        log_ring'[p] = IF hits(p) = {} THEN log_ring[p] ELSE text[Max(hits(p))]
  BY DEF Pasted
<1>3. /\ log_head' = start + size
      /\ reach' = Max({reach, start + size})
  BY DEF Pasted
<1> HIDE DEF size
<1>4. start + size \in Nat
  BY <1>1
<1>5. reach' \in Nat /\ reach' >= reach /\ reach' >= start + size
  BY <1>3, <1>4, Furthest
<1>6. ASSUME size <= RingSize, NEW i \in 1..size
      PROVE  log_ring'[(start + i - 1) % RingSize] = text[i]
  <2> DEFINE p == (start + i - 1) % RingSize
  <2>1. p \in 0..RingSize - 1
    <3>1. start + i - 1 \in Nat
      BY <1>1
    <3> QED BY <3>1, APlace
  <2>2. ASSUME NEW j \in 1..size, (start + j - 1) % RingSize = p
        PROVE  j = i
    <3>1. /\ start + i - 1 \in Int /\ start + j - 1 \in Int
      BY <1>1
    <3>2. CASE j < i
      <4>1. /\ start + j - 1 < start + i - 1
            /\ start + i - 1 < (start + j - 1) + RingSize
        BY <1>1, <1>6, <3>2, RingAssumption
      <4> QED BY <2>2, <3>1, <4>1, OtherPlace, RingAssumption
    <3>3. CASE i < j
      <4>1. /\ start + i - 1 < start + j - 1
            /\ start + j - 1 < (start + i - 1) + RingSize
        BY <1>1, <1>6, <3>3, RingAssumption
      <4> QED BY <2>2, <3>1, <4>1, OtherPlace, RingAssumption
    <3> QED BY <1>1, <3>2, <3>3
  <2>3. hits(p) = {i}
    BY <2>2
  <2> HIDE DEF p, hits
  <2>4. log_ring'[p] = text[Max({i})]
    BY <1>2, <2>1, <2>3
  <2> QED BY <2>4, <1>1, OnlyOne DEF p
<1>7. ASSUME NEW k \in Nat, k < start, start + size <= k + RingSize
      PROVE  log_ring'[k % RingSize] = log_ring[k % RingSize]
  <2> DEFINE p == k % RingSize
  <2>1. p \in 0..RingSize - 1
    BY APlace
  <2>2. ASSUME NEW j \in 1..size
        PROVE  (start + j - 1) % RingSize # p
    <3>1. /\ start + j - 1 \in Int /\ k \in Int
          /\ k < start + j - 1 /\ start + j - 1 < k + RingSize
      BY <1>1, <1>7, RingAssumption
    <3> QED BY <3>1, OtherPlace, RingAssumption
  <2>3. hits(p) = {}
    BY <2>2
  <2> HIDE DEF hits, p
  <2> QED BY <1>2, <2>1, <2>3 DEF p
<1> QED BY <1>3, <1>4, <1>5, <1>6, <1>7 DEF size

(***************************************************************************)
(* The inductive invariant.  Types, and what every context knows.          *)
(***************************************************************************)
Known(l) == l.line \in 1..Len(length)

\* A thread has nothing to do with the ring, and only lines that were
\* formatted are at work, queued, read or printed.
Lines ==
  /\ length # <<>> => scratch \in 1..Len(length)
  /\ log_head <= reach
  /\ \A w \in Writers : Busy(w) =>
       Known(work[w]) /\ (~InNonWaitableContext(w) => work[w].step = "log")
  /\ \A i \in DOMAIN log_queue : Known(log_queue[i])
  /\ reader # Nothing =>
       reader.queued \in Messaging /\ reader.line = reader.queued.line /\ Known(reader)
  /\ \E S : printed \in Seq(S)
  /\ \A i \in DOMAIN printed : Known(printed[i])

Clean(l) == l.line \notin disturbed
End(l) == l.msg + l.size

\* No more than the ring holds was pasted since l was.
Whole(l) == reach <= l.tag + RingSize
TagIn(l) == \A i \in 1..TagLength :
              log_ring[(l.tag + i - 1) % RingSize] = <<l.line, "tag", i>>
MessageIn(l) == \A i \in 1..l.size :
                  log_ring[(l.msg + i - 1) % RingSize] = <<l.line, "msg", i>>
Placed(l) == l.msg = l.tag + TagLength /\ l.size = length[l.line]

\* Whatever is still to be pasted comes behind l.
Behind(l) ==
  /\ End(l) <= log_head
  /\ \A v \in Writers : /\ work[v].step = "tag" => End(l) <= work[v].tag
                        /\ work[v].step = "message" => End(l) <= work[v].msg

Queued(l) == Clean(l) =>
               Placed(l) /\ Behind(l) /\ (Whole(l) => TagIn(l) /\ MessageIn(l))

\* The record is named, so that what is known of it outlives its place.
AllQueued == \A i \in DOMAIN log_queue, l \in Messaging : l = log_queue[i] => Queued(l)

Reading == \A l \in Messaging : reader # Nothing /\ l = reader.queued =>
             Queued(l) /\ (Clean(l) /\ Whole(l) => reader.tag = Tag(l.line))

\* How far an undisturbed interrupt is with its line.
Stage(k) ==
  /\ k.step = "tag" => k.tag = log_head /\ k.size = length[k.line]
  /\ k.step = "between" =>
       /\ log_head = k.tag + TagLength /\ k.size = length[k.line]
       /\ Whole(k) => TagIn(k)
  /\ k.step = "message" =>
       /\ k.msg = log_head /\ Placed(k)
       /\ Whole(k) => TagIn(k)
  /\ k.step = "push" =>
       /\ End(k) = log_head /\ Placed(k)
       /\ Whole(k) => TagIn(k) /\ MessageIn(k)

StagesHold == \A w \in Writers, k \in Works :
  Busy(w) /\ k = work[w] /\ Clean(k) => scratch = k.line /\ Stage(k)

\* Of two interrupts at work both are disturbed.
Sole == \A w, v \in Writers :
  w # v /\ Busy(w) /\ Busy(v) /\ InNonWaitableContext(w) /\ InNonWaitableContext(v) =>
    work[w].line \in disturbed

LogInv == LogTypes /\ Lines /\ AllQueued /\ Reading /\ StagesHold /\ Sole /\ LinesIntact

(***************************************************************************)
(* Steps and records.                                                      *)
(***************************************************************************)
LEMMA StepOf ==
  ASSUME NEW k \in Works
  PROVE  /\ k = Idle <=> k.step = "idle"
         /\ k.step = "log" => k \in Logging
         /\ k.step \in {"tag", "between"} => k \in Tagging
         /\ k.step \in {"message", "push"} => k \in Messaging
         /\ k # Idle => k.line \in Nat
BY DEF Works, Idle, Logging, Tagging, Messaging

LEMMA Appended ==
  ASSUME NEW S, NEW s \in Seq(S), NEW e
  PROVE  /\ \E T : Append(s, e) \in Seq(T)
         /\ DOMAIN Append(s, e) = 1..Len(s) + 1
         /\ \A i \in 1..Len(s) : Append(s, e)[i] = s[i]
         /\ Append(s, e)[Len(s) + 1] = e
         /\ DOMAIN s = 1..Len(s) /\ Len(s) \in Nat
<1> DEFINE T == S \cup {e}
<1>1. s \in Seq(T)
  <2>1. S \subseteq T
    OBVIOUS
  <2>2. /\ Len(s) \in Nat /\ s = [i \in 1..Len(s) |-> s[i]]
        /\ \A i \in 1..Len(s) : s[i] \in S
    OBVIOUS
  <2>3. s \in [1..Len(s) -> T]
    BY <2>1, <2>2
  <2> QED BY <2>2, <2>3
<1>2. e \in T
  OBVIOUS
<1>3. Append(s, e) \in Seq(T)
  BY <1>1, <1>2
<1> QED BY <1>3

LEMMA Printing ==
  ASSUME \E S : printed \in Seq(S), NEW p, printed' = Append(printed, p)
  PROVE  /\ \E T : printed' \in Seq(T)
         /\ DOMAIN printed' = 1..Len(printed) + 1
         /\ \A i \in 1..Len(printed) : printed'[i] = printed[i]
         /\ printed'[Len(printed) + 1] = p
         /\ DOMAIN printed = 1..Len(printed) /\ Len(printed) \in Nat
<1>1. PICK S : printed \in Seq(S)
  OBVIOUS
<1> DEFINE q == Append(printed, p)
<1>2. /\ \E T : q \in Seq(T)
      /\ DOMAIN q = 1..Len(printed) + 1
      /\ \A i \in 1..Len(printed) : q[i] = printed[i]
      /\ q[Len(printed) + 1] = p
      /\ DOMAIN printed = 1..Len(printed) /\ Len(printed) \in Nat
  BY <1>1, Appended
<1>3. printed' = q
  OBVIOUS
<1> HIDE DEF q
<1> QED BY <1>2, <1>3

LEMMA TailOf ==
  ASSUME NEW S, NEW s \in Seq(S), s # <<>>
  PROVE  /\ Tail(s) \in Seq(S) /\ Head(s) = s[1] /\ s[1] \in S
         /\ DOMAIN Tail(s) = 1..Len(s) - 1 /\ DOMAIN s = 1..Len(s)
         /\ Len(s) \in Nat \ {0}
         /\ \A i \in 1..Len(s) - 1 : Tail(s)[i] = s[i + 1]
OBVIOUS

LEMMA TextOf ==
  ASSUME NEW n \in Nat, NEW size \in Nat, NEW kind
  PROVE  /\ [i \in 1..size |-> <<n, kind, i>>] \in Seq(Nat \X {kind} \X Nat)
         /\ Len([i \in 1..size |-> <<n, kind, i>>]) = size
         /\ \A i \in 1..size : [j \in 1..size |-> <<n, kind, j>>][i] = <<n, kind, i>>
<1> DEFINE C == Nat \X {kind} \X Nat
           text == [i \in 1..size |-> <<n, kind, i>>]
<1>1. \A i \in 1..size : <<n, kind, i>> \in C
  OBVIOUS
<1>2. text \in [1..size -> C]
  BY <1>1
<1> HIDE DEF C
<1>3. text \in Seq(C) /\ Len(text) = size
  <2> HIDE DEF text
  <2> QED BY <1>2
<1> QED BY <1>3 DEF C

(***************************************************************************)
(* Types.                                                                  *)
(***************************************************************************)
LEMMA TypesInit ==
  ASSUME LogInit
  PROVE  LogTypes /\ Lines
<1>1. LogTypes
  BY DEF LogInit, LogTypes, Works
<1>2. \A w \in Writers : ~Busy(w)
  BY DEF LogInit, Busy
<1>3. length = <<>> /\ log_head <= reach /\ reader = Nothing
  BY DEF LogInit
<1>4. printed \in Seq({}) /\ DOMAIN printed = {} /\ DOMAIN log_queue = {}
  BY DEF LogInit
<1> QED BY <1>1, <1>2, <1>3, <1>4 DEF Lines

LEMMA CallTypes ==
  ASSUME LogTypes, NEW w \in Writers, Log(w) \/ Hex(w)
  PROVE  LogTypes'
<1>1. \A k \in Lengths : <<k>> \in Seq(Nat)
  BY LoggerAssumption
<1>2. ASSUME NEW size \in HexSizes
      PROVE  [i \in 1..(size \div 16) + 1 |-> IF i <= size \div 16 THEN 16 ELSE size % 16]
               \in Seq(Nat)
  <2>1. size \in Nat
    BY LoggerAssumption
  <2>2. size \div 16 \in Nat /\ size % 16 \in Nat
    BY <2>1, SMT
  <2> DEFINE n == size \div 16
             rest == size % 16
  <2>3. n + 1 \in Nat /\ rest \in Nat
    BY <2>2
  <2> HIDE DEF n, rest
  <2>4. [i \in 1..n + 1 |-> IF i <= n THEN 16 ELSE rest] \in [1..n + 1 -> Nat]
    BY <2>3
  <2>5. [i \in 1..n + 1 |-> IF i <= n THEN 16 ELSE rest] \in Seq(Nat)
    BY <2>3, <2>4
  <2> QED BY <2>5 DEF n, rest
<1>3. todo' \in [Writers -> Seq(Nat)]
  <2>1. CASE Log(w)
    BY <1>1, <2>1 DEF Log, LogTypes
  <2>2. CASE Hex(w)
    <3>1. PICK size \in HexSizes :
            todo' = [todo EXCEPT ![w] =
                       [i \in 1..(size \div 16) + 1 |->
                          IF i <= size \div 16 THEN 16 ELSE size % 16]]
      BY <2>2 DEF Hex
    <3> DEFINE lines == [i \in 1..(size \div 16) + 1 |->
                           IF i <= size \div 16 THEN 16 ELSE size % 16]
    <3>2. lines \in Seq(Nat)
      BY <1>2
    <3>3. todo' = [todo EXCEPT ![w] = lines]
      BY <3>1
    <3> HIDE DEF lines
    <3> QED BY <3>2, <3>3 DEF LogTypes
  <2> QED BY <2>1, <2>2
<1>4. UNCHANGED <<length, work, scratch, ringVars, log_queue>>
  BY DEF Log, Hex
<1> QED BY <1>3, <1>4 DEF LogTypes, ringVars

LEMMA FormatTypes ==
  ASSUME LogTypes, NEW w \in Writers, Format(w)
  PROVE  LogTypes'
<1>1. /\ todo[w] \in Seq(Nat) /\ todo[w] # <<>>
      /\ length' = Append(length, Head(todo[w]))
      /\ todo' = [todo EXCEPT ![w] = Tail(@)]
      /\ work' = [work EXCEPT ![w] = [step |-> "log", line |-> Len(length) + 1]]
      /\ scratch' = Len(length) + 1
      /\ UNCHANGED <<ringVars, log_queue>>
  BY DEF Format, LogTypes
<1>2. Head(todo[w]) \in Nat /\ Tail(todo[w]) \in Seq(Nat)
  BY <1>1
<1>3. length' \in Seq(Nat) /\ Len(length) + 1 \in Nat
  BY <1>1, <1>2 DEF LogTypes
<1>4. [step |-> "log", line |-> Len(length) + 1] \in Works
  BY <1>3 DEF Works, Logging
<1>5. work' \in [Writers -> Works] /\ todo' \in [Writers -> Seq(Nat)]
  BY <1>1, <1>2, <1>4 DEF LogTypes
<1> QED BY <1>1, <1>3, <1>5 DEF LogTypes, ringVars

LEMMA WorkTypes ==
  ASSUME LogTypes, Lines, NEW w \in Writers,
         \/ LogDirectly(w) \/ BeginTag(w) \/ PasteTag(w)
         \/ BeginMessage(w) \/ PasteMessage(w) \/ PushLine(w)
  PROVE  LogTypes'
<1>1. work[w] \in Works /\ work \in [Writers -> Works] /\ log_queue \in Seq(Messaging)
      /\ log_head \in Nat /\ reach \in Nat
  BY DEF LogTypes
<1>2. UNCHANGED <<length, todo, scratch>>
  BY DEF LogDirectly, BeginTag, PasteTag, BeginMessage, PasteMessage, PushLine
<1>3. Idle \in Works
  BY DEF Works
<1>4. CASE LogDirectly(w)
  BY <1>1, <1>2, <1>3, <1>4 DEF LogDirectly, LogTypes, ringVars
<1>5. CASE BeginTag(w)
  <2>1. work[w].step = "log" /\ Known(work[w])
    BY <1>1, <1>5, StepOf DEF BeginTag, At, Lines, Busy
  <2>2. length # <<>>
    BY <2>1 DEF LogTypes, Known
  <2>3. length[scratch] \in Nat /\ work[w].line \in Nat
    BY <2>1, <2>2 DEF LogTypes, Lines, Known
  <2>4. [step |-> "tag", line |-> work[w].line, tag |-> log_head, size |-> length[scratch]]
           \in Works
    BY <1>1, <2>3 DEF Works, Tagging
  <2> QED BY <1>1, <1>2, <1>5, <2>4 DEF BeginTag, LogTypes, ringVars
<1>6. CASE PasteTag(w)
  <2>1. work[w] \in Tagging
    BY <1>1, <1>6, StepOf DEF PasteTag, At
  <2>2. [work[w] EXCEPT !.step = "between"] \in Works
    BY <2>1 DEF Works, Tagging
  <2>3. Tag(work[w].line) \in Seq(Nat \X {"tag"} \X Nat)
    BY <2>1, RingAssumption, TextOf DEF Tag, Tagging
  <2>4. work[w].tag \in Nat /\ Pasted(work[w].tag, Tag(work[w].line))
    BY <1>6, <2>1 DEF PasteTag, Tagging
  <2>5. log_head' \in Nat /\ reach' \in Nat
    BY <1>1, <2>3, <2>4, PastedRing
  <2>6. work' = [work EXCEPT ![w].step = "between"] /\ log_queue' = log_queue
    BY <1>6 DEF PasteTag
  <2> QED BY <1>1, <1>2, <2>2, <2>5, <2>6 DEF LogTypes
<1>7. CASE BeginMessage(w)
  <2>1. work[w] \in Tagging
    BY <1>1, <1>7, StepOf DEF BeginMessage, At
  <2>2. [step |-> "message", line |-> work[w].line, tag |-> work[w].tag,
         size |-> work[w].size, msg |-> log_head] \in Works
    BY <1>1, <2>1 DEF Works, Tagging, Messaging
  <2> QED BY <1>1, <1>2, <1>7, <2>2 DEF BeginMessage, LogTypes, ringVars
<1>8. CASE PasteMessage(w)
  <2>1. work[w] \in Messaging
    BY <1>1, <1>8, StepOf DEF PasteMessage, At
  <2>2. [work[w] EXCEPT !.step = "push"] \in Works
    BY <2>1 DEF Works, Messaging
  <2>3. [i \in 1..work[w].size |-> <<scratch, "msg", i>>] \in Seq(Nat \X {"msg"} \X Nat)
    BY <2>1, TextOf DEF Messaging, LogTypes
  <2>4. /\ work[w].msg \in Nat
        /\ Pasted(work[w].msg, [i \in 1..work[w].size |-> <<scratch, "msg", i>>])
    BY <1>8, <2>1 DEF PasteMessage, Messaging
  <2>5. log_head' \in Nat /\ reach' \in Nat
    BY <1>1, <2>3, <2>4, PastedRing
  <2>6. work' = [work EXCEPT ![w].step = "push"] /\ log_queue' = log_queue
    BY <1>8 DEF PasteMessage
  <2> QED BY <1>1, <1>2, <2>2, <2>5, <2>6 DEF LogTypes
<1>9. CASE PushLine(w)
  <2>1. work[w] \in Messaging
    BY <1>1, <1>9, StepOf DEF PushLine, At
  <2>2. log_queue' \in Seq(Messaging)
    BY <1>1, <1>9, <2>1 DEF PushLine
  <2>3. work' = [work EXCEPT ![w] = Idle] /\ UNCHANGED ringVars
    BY <1>9 DEF PushLine
  <2> QED BY <1>1, <1>2, <1>3, <2>2, <2>3 DEF LogTypes, ringVars
<1> QED BY <1>4, <1>5, <1>6, <1>7, <1>8, <1>9

LEMMA ProcessTypes ==
  ASSUME LogTypes, LoggerProcess
  PROVE  LogTypes'
<1>1. log_queue' \in Seq(Messaging)
  <2>1. CASE PopLine
    BY <2>1, TailOf DEF PopLine, HasLine, LogTypes
  <2>2. CASE PrintLine
    BY <2>2 DEF PrintLine, LogTypes
  <2> QED BY <2>1, <2>2 DEF LoggerProcess
<1>2. UNCHANGED <<length, todo, work, scratch, log_head, reach>>
  BY DEF LoggerProcess, PopLine, PrintLine, writerVars, ringVars
<1> QED BY <1>1, <1>2 DEF LogTypes

LEMMA TypesStep ==
  ASSUME LogTypes, Lines, LogNext
  PROVE  LogTypes'
BY CallTypes, FormatTypes, WorkTypes, ProcessTypes DEF LogNext, Proceed

(***************************************************************************)
(* Only lines that were formatted.                                         *)
(***************************************************************************)
Longer == Len(length) <= Len(length') /\ \A i \in 1..Len(length) : length'[i] = length[i]

LEMMA LongerAlways ==
  ASSUME LogTypes, LogNext
  PROVE  Longer
<1>1. length \in Seq(Nat)
  BY DEF LogTypes
<1>2. CASE \E w \in Writers : Format(w)
  <2>1. \E k : length' = Append(length, k)
    BY <1>2 DEF Format
  <2> QED BY <1>1, <2>1, Appended DEF Longer
<1>3. CASE ~\E w \in Writers : Format(w)
  <2>1. length' = length
    BY <1>3 DEF LogNext, Proceed, LoggerProcess, PopLine, PrintLine, Log, Hex, LogDirectly,
                BeginTag, PasteTag, BeginMessage, PasteMessage, PushLine, writerVars
  <2> QED BY <1>1, <2>1 DEF Longer
<1> QED BY <1>2, <1>3

LEMMA KnownStays ==
  ASSUME LogTypes, LogTypes', Longer, NEW l, l.line \in 1..Len(length)
  PROVE  l.line \in 1..Len(length')
BY DEF LogTypes, Longer

LEMMA CallLines ==
  ASSUME Lines, NEW w \in Writers, Log(w) \/ Hex(w)
  PROVE  Lines'
<1>1. UNCHANGED <<length, work, scratch, log_ring, log_head, reach, log_queue, reader,
                  printed, dropped, disturbed>>
  BY DEF Log, Hex, ringVars
<1> QED BY <1>1 DEF Lines, Busy, Known

LEMMA FormatLines ==
  ASSUME LogTypes, LogTypes', Lines, NEW w \in Writers, Format(w), Longer
  PROVE  Lines'
<1>1. /\ work' = [work EXCEPT ![w] = [step |-> "log", line |-> Len(length) + 1]]
      /\ scratch' = Len(length) + 1
      /\ \E k : length' = Append(length, k)
      /\ UNCHANGED <<log_head, reach, log_queue, reader, printed>>
  BY DEF Format, ringVars
<1>2. length \in Seq(Nat) /\ work \in [Writers -> Works] /\ work' \in [Writers -> Works]
  BY DEF LogTypes
<1>3. Len(length') = Len(length) + 1 /\ Len(length) \in Nat
  BY <1>1, <1>2, Appended, LogTypes' DEF LogTypes
<1>4. scratch' \in 1..Len(length')
  BY <1>1, <1>3
<1>5. log_head' <= reach' /\ (\E S : printed' \in Seq(S))
  BY <1>1 DEF Lines
<1>6. \A i \in DOMAIN log_queue' : Known(log_queue[i])'
  BY <1>1, KnownStays DEF Lines, Known
<1>7. \A i \in DOMAIN printed' : Known(printed[i])'
  BY <1>1, KnownStays DEF Lines, Known
<1>8. reader' # Nothing =>
        reader'.queued \in Messaging /\ reader'.line = reader'.queued.line /\ Known(reader)'
  BY <1>1, KnownStays DEF Lines, Known
<1>9. ASSUME NEW v \in Writers, Busy(v)'
      PROVE  Known(work[v])' /\ (~InNonWaitableContext(v) => work'[v].step = "log")
  <2>1. CASE v = w
    <3>1. work'[v] = [step |-> "log", line |-> Len(length) + 1]
      BY <1>1, <1>2, <2>1
    <3>2. work'[v].step = "log" /\ work'[v].line = Len(length) + 1
      BY <3>1
    <3> QED BY <1>3, <3>2 DEF Known
  <2>2. CASE v # w
    <3>1. work'[v] = work[v]
      BY <1>1, <1>2, <2>2
    <3>2. Busy(v)
      BY <1>9, <3>1 DEF Busy
    <3> QED BY <3>1, <3>2, KnownStays DEF Lines, Known
  <2> QED BY <2>1, <2>2
<1> QED BY <1>4, <1>5, <1>6, <1>7, <1>8, <1>9 DEF Lines, InNonWaitableContext

\* A writer that was at a line stays at it, or is done.
LEMMA WorkForm ==
  ASSUME LogTypes, LogTypes', Lines, NEW w \in Writers,
         \/ LogDirectly(w) \/ BeginTag(w) \/ PasteTag(w)
         \/ BeginMessage(w) \/ PasteMessage(w) \/ PushLine(w)
  PROVE  /\ Busy(w) /\ Known(work[w])
         /\ work'[w] = Idle \/ (work'[w].line = work[w].line /\ InNonWaitableContext(w))
         /\ \A v \in Writers : v # w => work'[v] = work[v]
         /\ LogDirectly(w) \/ InNonWaitableContext(w)
<1>1. work[w] \in Works /\ work \in [Writers -> Works] /\ work[w].step # "idle"
  BY DEF LogTypes, LogDirectly, BeginTag, PasteTag, BeginMessage, PasteMessage, PushLine, At
<1>2. Busy(w)
  BY <1>1, StepOf DEF Busy
<1>3. Known(work[w]) /\ (~InNonWaitableContext(w) => work[w].step = "log")
  BY <1>2 DEF Lines
<1>4. \A v \in Writers : v # w => work'[v] = work[v]
  BY <1>1 DEF LogDirectly, BeginTag, PasteTag, BeginMessage, PasteMessage, PushLine
<1>5. LogDirectly(w) \/ InNonWaitableContext(w)
  BY <1>3 DEF BeginTag, PasteTag, BeginMessage, PasteMessage, PushLine, At
<1>6. work'[w] = Idle \/ work'[w].line = work[w].line
  <2>1. CASE LogDirectly(w) \/ PushLine(w)
    BY <1>1, <2>1 DEF LogDirectly, PushLine
  <2>2. CASE BeginTag(w) \/ BeginMessage(w)
    BY <1>1, <2>2 DEF BeginTag, BeginMessage
  <2>3. CASE PasteTag(w)
    <3>1. work[w] \in Tagging
      BY <1>1, <2>3, StepOf DEF PasteTag, At
    <3>2. work'[w] = [work[w] EXCEPT !.step = "between"]
      BY <1>1, <2>3 DEF PasteTag
    <3> QED BY <3>1, <3>2 DEF Tagging
  <2>4. CASE PasteMessage(w)
    <3>1. work[w] \in Messaging
      BY <1>1, <2>4, StepOf DEF PasteMessage, At
    <3>2. work'[w] = [work[w] EXCEPT !.step = "push"]
      BY <1>1, <2>4 DEF PasteMessage
    <3> QED BY <3>1, <3>2 DEF Messaging
  <2> QED BY <2>1, <2>2, <2>3, <2>4
<1>7. LogDirectly(w) => work'[w] = Idle
  BY <1>1 DEF LogDirectly
<1> QED BY <1>2, <1>3, <1>4, <1>5, <1>6, <1>7

LEMMA HeadStep ==
  ASSUME LogTypes, Lines, NEW w \in Writers,
         \/ LogDirectly(w) \/ BeginTag(w) \/ PasteTag(w)
         \/ BeginMessage(w) \/ PasteMessage(w) \/ PushLine(w)
  PROVE  log_head' <= reach'
<1>1. log_head \in Nat /\ reach \in Nat /\ work[w] \in Works /\ scratch \in Nat
  BY DEF LogTypes
<1>2. CASE PasteTag(w)
  <2>1. work[w] \in Tagging
    BY <1>1, <1>2, StepOf DEF PasteTag, At
  <2>2. Tag(work[w].line) \in Seq(Nat \X {"tag"} \X Nat) /\ work[w].tag \in Nat
    BY <2>1, RingAssumption, TextOf DEF Tag, Tagging
  <2> QED BY <1>1, <1>2, <2>2, PastedRing DEF PasteTag
<1>3. CASE PasteMessage(w)
  <2>1. work[w] \in Messaging
    BY <1>1, <1>3, StepOf DEF PasteMessage, At
  <2>2. /\ [i \in 1..work[w].size |-> <<scratch, "msg", i>>] \in Seq(Nat \X {"msg"} \X Nat)
        /\ work[w].msg \in Nat
    BY <1>1, <2>1, TextOf DEF Messaging
  <2> QED BY <1>1, <1>3, <2>2, PastedRing DEF PasteMessage
<1>4. CASE ~PasteTag(w) /\ ~PasteMessage(w)
  <2>1. UNCHANGED ringVars
    BY <1>4 DEF LogDirectly, BeginTag, BeginMessage, PushLine
  <2> QED BY <2>1 DEF ringVars, Lines
<1> QED BY <1>2, <1>3, <1>4

LEMMA WorkLines ==
  ASSUME LogTypes, LogTypes', Lines, NEW w \in Writers,
         \/ LogDirectly(w) \/ BeginTag(w) \/ PasteTag(w)
         \/ BeginMessage(w) \/ PasteMessage(w) \/ PushLine(w)
  PROVE  Lines'
<1>1. /\ Busy(w) /\ Known(work[w])
      /\ work'[w] = Idle \/ (work'[w].line = work[w].line /\ InNonWaitableContext(w))
      /\ \A v \in Writers : v # w => work'[v] = work[v]
  BY WorkForm
<1>2. UNCHANGED <<length, scratch, reader>>
  BY DEF LogDirectly, BeginTag, PasteTag, BeginMessage, PasteMessage, PushLine
<1>3. ASSUME NEW v \in Writers, Busy(v)'
      PROVE  Known(work[v])' /\ (~InNonWaitableContext(v) => work'[v].step = "log")
  BY <1>1, <1>2, <1>3 DEF Lines, Busy, Known
<1>4. /\ \A i \in DOMAIN log_queue' : Known(log_queue[i])'
  <2>1. CASE PushLine(w) /\ log_queue' = Append(log_queue, work[w])
    <3>1. log_queue \in Seq(Messaging)
      BY DEF LogTypes
    <3>2. /\ DOMAIN log_queue' = 1..Len(log_queue) + 1
          /\ \A i \in 1..Len(log_queue) : log_queue'[i] = log_queue[i]
          /\ log_queue'[Len(log_queue) + 1] = work[w]
          /\ DOMAIN log_queue = 1..Len(log_queue) /\ Len(log_queue) \in Nat
      BY <2>1, <3>1, Appended
    <3> QED BY <1>1, <1>2, <3>2 DEF Lines, Known
  <2>2. CASE log_queue' = log_queue
    BY <1>2, <2>2 DEF Lines, Known
  <2> QED BY <2>1, <2>2 DEF LogDirectly, BeginTag, PasteTag, BeginMessage, PasteMessage,
                            PushLine
<1>5. (\E S : printed' \in Seq(S)) /\ \A i \in DOMAIN printed' : Known(printed[i])'
  <2>1. CASE LogDirectly(w)
    <3> DEFINE p == [line |-> work[w].line, late |-> FALSE,
                     text |-> Tag(work[w].line) \o Message(scratch)]
    <3>1. \E S : printed \in Seq(S)
      BY DEF Lines
    <3>2. printed' = Append(printed, p) /\ p.line = work[w].line
      BY <2>1 DEF LogDirectly
    <3> HIDE DEF p
    <3>3. /\ \E T : printed' \in Seq(T)
          /\ DOMAIN printed' = 1..Len(printed) + 1
          /\ \A i \in 1..Len(printed) : printed'[i] = printed[i]
          /\ printed'[Len(printed) + 1] = p
          /\ DOMAIN printed = 1..Len(printed) /\ Len(printed) \in Nat
      BY <3>1, <3>2, Printing
    <3> QED BY <1>1, <1>2, <3>2, <3>3 DEF Lines, Known
  <2>2. CASE printed' = printed
    BY <1>2, <2>2 DEF Lines, Known
  <2> QED BY <2>1, <2>2 DEF BeginTag, PasteTag, BeginMessage, PasteMessage, PushLine
<1>6. log_head' <= reach'
  BY HeadStep
<1>7. length' # <<>> => scratch' \in 1..Len(length')
  BY <1>2 DEF Lines
<1>8. reader' # Nothing =>
        reader'.queued \in Messaging /\ reader'.line = reader'.queued.line /\ Known(reader)'
  BY <1>2 DEF Lines, Known
<1> QED BY <1>3, <1>4, <1>5, <1>6, <1>7, <1>8 DEF Lines, InNonWaitableContext

LEMMA ProcessLines ==
  ASSUME LogTypes, Lines, LoggerProcess
  PROVE  Lines'
<1>1. UNCHANGED <<length, todo, work, scratch, log_head, reach>>
  BY DEF LoggerProcess, PopLine, PrintLine, writerVars, ringVars
<1>2. /\ length' # <<>> => scratch' \in 1..Len(length')
      /\ log_head' <= reach'
      /\ \A w \in Writers : Busy(w)' =>
           Known(work[w])' /\ (~InNonWaitableContext(w) => work'[w].step = "log")
  BY <1>1 DEF Lines, Busy, Known
<1>3. log_queue \in Seq(Messaging)
  BY DEF LogTypes
<1>4. CASE PopLine
  <2>1. /\ log_queue # <<>> /\ log_queue' = Tail(log_queue) /\ printed' = printed
        /\ reader' = [line |-> Head(log_queue).line, queued |-> Head(log_queue),
                      tag |-> UseLine(Head(log_queue).tag, TagLength)]
    BY <1>4 DEF PopLine, HasLine
  <2>2. /\ Head(log_queue) = log_queue[1] /\ log_queue[1] \in Messaging
        /\ Known(log_queue[1])
    BY <1>3, <2>1, TailOf DEF Lines
  <2>3. \A i \in DOMAIN log_queue' : Known(log_queue[i])'
    BY <1>1, <1>3, <2>1, TailOf DEF Lines, Known
  <2>4. reader'.queued \in Messaging /\ reader'.line = reader'.queued.line /\ Known(reader)'
    BY <1>1, <2>1, <2>2 DEF Known
  <2>5. (\E S : printed' \in Seq(S)) /\ \A i \in DOMAIN printed' : Known(printed[i])'
    BY <1>1, <2>1 DEF Lines, Known
  <2> QED BY <1>2, <2>3, <2>4, <2>5 DEF Lines, InNonWaitableContext
<1>5. CASE PrintLine
  <2>1. reader # Nothing /\ reader' = Nothing /\ log_queue' = log_queue
    BY <1>5 DEF PrintLine
  <2> DEFINE l == reader.queued
             p == [line |-> l.line, late |-> reach > l.tag + RingSize,
                   text |-> reader.tag \o UseLine(l.msg, l.size)]
  <2>2. \E S : printed \in Seq(S)
    BY DEF Lines
  <2>3. p.line = reader.line /\ Known(reader)
    BY <2>1 DEF Lines
  <2>8. printed' = Append(printed, p)
    BY <1>5 DEF PrintLine
  <2> HIDE DEF p, l
  <2>4. /\ \E T : printed' \in Seq(T)
        /\ DOMAIN printed' = 1..Len(printed) + 1
        /\ \A i \in 1..Len(printed) : printed'[i] = printed[i]
        /\ printed'[Len(printed) + 1] = p
        /\ DOMAIN printed = 1..Len(printed) /\ Len(printed) \in Nat
    BY <2>2, <2>8, Printing
  <2>5. \A i \in DOMAIN printed' : Known(printed[i])'
    BY <1>1, <2>3, <2>4 DEF Lines, Known
  <2>6. \A i \in DOMAIN log_queue' : Known(log_queue[i])'
    BY <1>1, <2>1 DEF Lines, Known
  <2> QED BY <1>2, <2>1, <2>4, <2>5, <2>6 DEF Lines, InNonWaitableContext
<1> QED BY <1>4, <1>5 DEF LoggerProcess

LEMMA LinesStep ==
  ASSUME LogTypes, Lines, LogNext
  PROVE  Lines' /\ LogTypes' /\ Longer
<1>1. LogTypes' /\ Longer
  BY TypesStep, LongerAlways
<1> QED BY <1>1, CallLines, FormatLines, WorkLines, ProcessLines DEF LogNext, Proceed

(***************************************************************************)
(* What is queued stays in the ring for as long as it is whole.            *)
(***************************************************************************)
LEMMA MoreDisturbed ==
  ASSUME LogNext
  PROVE  disturbed \subseteq disturbed'
BY DEF LogNext, Proceed, LoggerProcess, PopLine, PrintLine, Log, Hex, Format, LogDirectly,
       BeginTag, PasteTag, BeginMessage, PasteMessage, PushLine

LEMMA QuietRing ==
  ASSUME LogTypes, LogTypes', Longer, UNCHANGED ringVars, disturbed \subseteq disturbed',
         \A v \in Writers :
           \/ work'[v] = work[v]
           \/ /\ work'[v].step = "tag" => work'[v].tag = log_head
              /\ work'[v].step = "message" => work'[v].msg = log_head,
         NEW l \in Messaging, Known(l), Queued(l)
  PROVE  Queued(l)'
<1> SUFFICES ASSUME Clean(l)' PROVE (Placed(l) /\ Behind(l) /\ (Whole(l) => TagIn(l) /\ MessageIn(l)))'
  BY DEF Queued
<1>1. Placed(l) /\ Behind(l) /\ (Whole(l) => TagIn(l) /\ MessageIn(l))
  BY DEF Queued, Clean
<1>2. log_head' = log_head /\ log_ring' = log_ring /\ reach' = reach
  BY DEF ringVars
<1>3. Placed(l)'
  BY <1>1 DEF Placed, Known, Longer
<1>4. Behind(l)'
  BY <1>1, <1>2 DEF Behind, End
<1>5. (Whole(l) => TagIn(l) /\ MessageIn(l))'
  BY <1>1, <1>2 DEF Whole, TagIn, MessageIn
<1> QED BY <1>3, <1>4, <1>5

\* A text less than a round behind what is pasted stays.
LEMMA TextStays ==
  ASSUME log_head \in Nat, reach \in Nat,
         NEW S, NEW start \in Nat, NEW text \in Seq(S), Pasted(start, text),
         NEW a \in Nat, NEW n \in Nat, a + n <= start, log_head' <= a + RingSize
  PROVE  \A i \in 1..n : log_ring'[(a + i - 1) % RingSize] = log_ring[(a + i - 1) % RingSize]
<1> SUFFICES ASSUME NEW i \in 1..n
             PROVE  log_ring'[(a + i - 1) % RingSize] = log_ring[(a + i - 1) % RingSize]
  OBVIOUS
<1>1. /\ log_head' = start + Len(text)
      /\ \A k \in Nat : k < start /\ start + Len(text) <= k + RingSize =>
           log_ring'[k % RingSize] = log_ring[k % RingSize]
  BY PastedRing
<1> DEFINE k == a + i - 1
<1>2. k \in Nat /\ k < start /\ log_head' <= k + RingSize
  <2>1. Len(text) \in Nat
    OBVIOUS
  <2> QED BY <1>1, <2>1, RingAssumption
<1> HIDE DEF k
<1>3. log_ring'[k % RingSize] = log_ring[k % RingSize]
  BY <1>1, <1>2
<1> QED BY <1>3 DEF k

LEMMA PastedQueued ==
  ASSUME LogTypes, LogTypes', length' = length, disturbed' = disturbed,
         NEW S, NEW start \in Nat, NEW text \in Seq(S), Pasted(start, text),
         NEW w \in Writers,
         \/ work[w].step = "tag" /\ work[w].tag = start
         \/ work[w].step = "message" /\ work[w].msg = start,
         work'[w].step \notin {"tag", "message"},
         \A v \in Writers : v # w => work'[v] = work[v],
         NEW l \in Messaging, Queued(l)
  PROVE  Queued(l)'
<1> SUFFICES ASSUME Clean(l)' PROVE (Placed(l) /\ Behind(l) /\ (Whole(l) => TagIn(l) /\ MessageIn(l)))'
  BY DEF Queued
<1>1. Placed(l) /\ Behind(l) /\ (Whole(l) => TagIn(l) /\ MessageIn(l))
  BY DEF Queued, Clean
<1>2. log_head \in Nat /\ reach \in Nat /\ l.tag \in Nat /\ l.msg \in Nat /\ l.size \in Nat
  BY DEF LogTypes, Messaging
<1>3. Len(text) \in Nat
  OBVIOUS
<1>4. /\ log_head' = start + Len(text) /\ log_head' \in Nat
      /\ reach' \in Nat /\ reach' >= reach /\ reach' >= log_head'
  BY <1>2, PastedRing
<1>5. Placed(l)'
  BY <1>1 DEF Placed
<1>6. End(l) <= start
  BY <1>1 DEF Behind
<1>7. Behind(l)'
  <2>1. End(l) <= log_head'
    BY <1>2, <1>3, <1>4, <1>6 DEF End
  <2>2. ASSUME NEW v \in Writers
        PROVE  /\ work'[v].step = "tag" => End(l) <= work'[v].tag
               /\ work'[v].step = "message" => End(l) <= work'[v].msg
    BY <1>1 DEF Behind
  <2> QED BY <2>1, <2>2 DEF Behind, End
<1>8. ASSUME Whole(l)' PROVE TagIn(l)' /\ MessageIn(l)'
  <2>1. reach' <= l.tag + RingSize
    BY <1>8 DEF Whole
  <2>2. Whole(l)
    BY <1>2, <1>4, <2>1, RingAssumption DEF Whole
  <2>3. l.msg = l.tag + TagLength
    BY <1>1 DEF Placed
  <2>4. /\ l.tag + TagLength <= start /\ log_head' <= l.tag + RingSize
        /\ l.msg + l.size <= start /\ log_head' <= l.msg + RingSize
    <3> DEFINE tag == l.tag
               msg == l.msg
               size == l.size
               past == log_head'
               far == reach'
    <3>1. /\ tag \in Nat /\ msg \in Nat /\ size \in Nat /\ past \in Nat /\ far \in Nat
          /\ msg + size <= start /\ msg = tag + TagLength
          /\ far <= tag + RingSize /\ far >= past
      BY <1>2, <1>4, <1>6, <2>1, <2>3 DEF End
    <3> HIDE DEF tag, msg, size, past, far
    <3>2. /\ tag + TagLength <= start /\ past <= tag + RingSize
          /\ msg + size <= start /\ past <= msg + RingSize
      BY <3>1, RingAssumption
    <3> QED BY <3>2 DEF tag, msg, size, past, far
  <2>5. \A i \in 1..TagLength : log_ring'[(l.tag + i - 1) % RingSize]
                                  = log_ring[(l.tag + i - 1) % RingSize]
    BY <1>2, <2>4, TextStays, RingAssumption
  <2>6. \A i \in 1..l.size : log_ring'[(l.msg + i - 1) % RingSize]
                               = log_ring[(l.msg + i - 1) % RingSize]
    BY <1>2, <2>4, TextStays
  <2>7. TagIn(l)'
    BY <1>1, <2>2, <2>5 DEF TagIn
  <2>8. MessageIn(l)'
    BY <1>1, <2>2, <2>6 DEF MessageIn
  <2> QED BY <2>7, <2>8
<1> QED BY <1>5, <1>7, <1>8

LEMMA QueuedStays ==
  ASSUME LogTypes, LogTypes', Lines, LogNext, NEW l \in Messaging, Known(l), Queued(l)
  PROVE  Queued(l)'
<1>1. disturbed \subseteq disturbed' /\ Longer
  BY MoreDisturbed, LongerAlways
<1>2. work \in [Writers -> Works]
  BY DEF LogTypes
<1>3. CASE LoggerProcess \/ \E w \in Writers : Log(w) \/ Hex(w)
  <2>1. UNCHANGED ringVars /\ work' = work
    BY <1>3 DEF LoggerProcess, PopLine, PrintLine, Log, Hex, writerVars
  <2> QED BY <1>1, <2>1, QuietRing
<1>4. ASSUME NEW w \in Writers, Format(w) \/ LogDirectly(w) \/ PushLine(w)
      PROVE  Queued(l)'
  <2>1. UNCHANGED ringVars
    BY <1>4 DEF Format, LogDirectly, PushLine
  <2>2. /\ \A v \in Writers : v # w => work'[v] = work[v]
        /\ work'[w].step \in {"idle", "log"}
    BY <1>2, <1>4 DEF Format, LogDirectly, PushLine, Idle
  <2> QED BY <1>1, <2>1, <2>2, QuietRing
<1>5. ASSUME NEW w \in Writers, BeginTag(w) \/ BeginMessage(w)
      PROVE  Queued(l)'
  <2>1. UNCHANGED ringVars
    BY <1>5 DEF BeginTag, BeginMessage
  <2>2. \A v \in Writers : v # w => work'[v] = work[v]
    BY <1>2, <1>5 DEF BeginTag, BeginMessage
  <2>3. \/ work'[w].step = "tag" /\ work'[w].tag = log_head
        \/ work'[w].step = "message" /\ work'[w].msg = log_head
    BY <1>2, <1>5 DEF BeginTag, BeginMessage
  <2> QED BY <1>1, <2>1, <2>2, <2>3, QuietRing
<1>6. ASSUME NEW w \in Writers, PasteTag(w)
      PROVE  Queued(l)'
  <2>1. work[w].step = "tag" /\ work[w] \in Tagging
    BY <1>2, <1>6, StepOf DEF PasteTag, At
  <2>2. /\ Tag(work[w].line) \in Seq(Nat \X {"tag"} \X Nat)
        /\ work[w].tag \in Nat
        /\ Pasted(work[w].tag, Tag(work[w].line))
    BY <1>6, <2>1, TextOf, RingAssumption DEF PasteTag, Tag, Tagging
  <2>3. /\ \A v \in Writers : v # w => work'[v] = work[v]
        /\ work'[w].step = "between"
    BY <1>2, <1>6, <2>1 DEF PasteTag, Tagging
  <2>4. length' = length /\ disturbed' = disturbed
    BY <1>6 DEF PasteTag
  <2> QED BY <2>1, <2>2, <2>3, <2>4, PastedQueued
<1>7. ASSUME NEW w \in Writers, PasteMessage(w)
      PROVE  Queued(l)'
  <2>1. work[w].step = "message" /\ work[w] \in Messaging
    BY <1>2, <1>7, StepOf DEF PasteMessage, At
  <2>2. /\ [i \in 1..work[w].size |-> <<scratch, "msg", i>>] \in Seq(Nat \X {"msg"} \X Nat)
        /\ work[w].msg \in Nat
        /\ Pasted(work[w].msg, [i \in 1..work[w].size |-> <<scratch, "msg", i>>])
    BY <1>7, <2>1, TextOf DEF PasteMessage, Messaging, LogTypes
  <2>3. /\ \A v \in Writers : v # w => work'[v] = work[v]
        /\ work'[w].step = "push"
    BY <1>2, <1>7, <2>1 DEF PasteMessage, Messaging
  <2>4. length' = length /\ disturbed' = disturbed
    BY <1>7 DEF PasteMessage
  <2> QED BY <2>1, <2>2, <2>3, <2>4, PastedQueued
<1> QED BY <1>3, <1>4, <1>5, <1>6, <1>7 DEF LogNext, Proceed

(***************************************************************************)
(* Of two interrupts at work both are disturbed.                           *)
(***************************************************************************)
LEMMA FormatForm ==
  ASSUME LogTypes, NEW w \in Writers, Format(w)
  PROVE  /\ ~Busy(w)
         /\ work'[w] = [step |-> "log", line |-> Len(length) + 1]
         /\ scratch' = Len(length) + 1
         /\ \A v \in Writers : v # w => work'[v] = work[v]
         /\ \A v \in Writers : Busy(v) => work[v].line \in disturbed'
         /\ \A v \in Writers : Busy(v) /\ InNonWaitableContext(v) =>
              Len(length) + 1 \in disturbed'
<1>1. work \in [Writers -> Works] /\ work[w].step = "idle"
  BY DEF LogTypes, Format, At
<1>2. ~Busy(w)
  BY <1>1, StepOf DEF Busy
<1> QED BY <1>1, <1>2 DEF Format

LEMMA SoleStep ==
  ASSUME LogTypes, LogTypes', Lines, Sole, LogNext
  PROVE  Sole'
<1> SUFFICES ASSUME NEW a \in Writers, NEW b \in Writers, a # b, Busy(a)', Busy(b)',
                    InNonWaitableContext(a), InNonWaitableContext(b)
             PROVE  work'[a].line \in disturbed'
  BY DEF Sole, InNonWaitableContext
<1>1. disturbed \subseteq disturbed'
  BY MoreDisturbed
<1>2. CASE LoggerProcess \/ \E w \in Writers : Log(w) \/ Hex(w)
  <2>1. work' = work
    BY <1>2 DEF LoggerProcess, PopLine, PrintLine, Log, Hex, writerVars
  <2> QED BY <1>1, <2>1 DEF Sole, Busy
<1>3. ASSUME NEW w \in Writers, Format(w)
      PROVE  work'[a].line \in disturbed'
  <2>1. CASE a = w
    <3>1. work'[b] = work[b] /\ work'[a].line = Len(length) + 1
      BY <1>3, <2>1, FormatForm
    <3>2. Busy(b)
      BY <3>1 DEF Busy
    <3> QED BY <1>3, <3>1, <3>2, FormatForm
  <2>2. CASE a # w
    <3>1. work'[a] = work[a]
      BY <1>3, <2>2, FormatForm
    <3>2. Busy(a)
      BY <3>1 DEF Busy
    <3> QED BY <1>3, <3>1, <3>2, FormatForm
  <2> QED BY <2>1, <2>2
<1>4. ASSUME NEW w \in Writers,
             \/ LogDirectly(w) \/ BeginTag(w) \/ PasteTag(w)
             \/ BeginMessage(w) \/ PasteMessage(w) \/ PushLine(w)
      PROVE  work'[a].line \in disturbed'
  <2>1. /\ Busy(w)
        /\ work'[w] = Idle \/ work'[w].line = work[w].line
        /\ \A v \in Writers : v # w => work'[v] = work[v]
    BY <1>4, WorkForm
  <2>2. \A v \in {a, b} : Busy(v) /\ work'[v].line = work[v].line
    BY <2>1 DEF Busy
  <2> QED BY <1>1, <2>2 DEF Sole
<1> QED BY <1>2, <1>3, <1>4 DEF LogNext, Proceed

(***************************************************************************)
(* How far an undisturbed writer is.                                       *)
(***************************************************************************)
LEMMA QuietStage ==
  ASSUME UNCHANGED ringVars, length' = length, NEW k \in Works, Stage(k)
  PROVE  Stage(k)'
BY DEF ringVars, Stage, Whole, TagIn, MessageIn, Placed, End

LEMMA OthersStay ==
  ASSUME LogTypes, LogTypes', Lines, Sole, StagesHold, NEW w \in Writers,
         \/ LogDirectly(w) \/ BeginTag(w) \/ PasteTag(w)
         \/ BeginMessage(w) \/ PasteMessage(w) \/ PushLine(w),
         NEW v \in Writers, v # w, NEW k \in Works, Busy(v)', k = work'[v], Clean(k)'
  PROVE  (scratch = k.line /\ Stage(k))'
<1>1. /\ length' = length /\ scratch' = scratch /\ disturbed' = disturbed
  BY DEF LogDirectly, BeginTag, PasteTag, BeginMessage, PasteMessage, PushLine
<1>2. Busy(w) /\ work'[v] = work[v] /\ (LogDirectly(w) \/ InNonWaitableContext(w))
  BY WorkForm
<1>3. Busy(v) /\ k = work[v] /\ Clean(k)
  BY <1>1, <1>2 DEF Busy, Clean
<1>4. scratch = k.line /\ Stage(k)
  BY <1>3 DEF StagesHold
<1>5. CASE ~InNonWaitableContext(v)
  <2>1. k.step = "log"
    BY <1>3, <1>5 DEF Lines
  <2> QED BY <1>1, <1>4, <2>1 DEF Stage
<1>6. CASE InNonWaitableContext(v)
  <2>1. ~InNonWaitableContext(w)
    BY <1>2, <1>3, <1>6 DEF Sole, Clean
  <2>2. UNCHANGED ringVars
    BY <1>2, <2>1 DEF LogDirectly
  <2> QED BY <1>1, <1>4, <2>2, QuietStage
<1> QED BY <1>5, <1>6

LEMMA OwnTag ==
  ASSUME LogTypes, LogTypes', Lines, StagesHold, NEW w \in Writers, PasteTag(w),
         NEW m \in Works, m = work'[w], Clean(m)'
  PROVE  (scratch = m.line /\ Stage(m))'
<1> DEFINE k == work[w]
<1>1. k \in Tagging /\ k.step = "tag" /\ Busy(w)
  BY StepOf DEF PasteTag, At, LogTypes, Busy
<1>2. /\ m = [k EXCEPT !.step = "between"] /\ Pasted(k.tag, Tag(k.line))
      /\ length' = length /\ scratch' = scratch /\ disturbed' = disturbed
  BY DEF PasteTag, LogTypes
<1>3. m.step = "between" /\ m.line = k.line /\ m.tag = k.tag /\ m.size = k.size
  BY <1>1, <1>2 DEF Tagging
<1>4. scratch = k.line /\ k.tag = log_head /\ k.size = length[k.line]
  BY <1>1, <1>2, <1>3 DEF StagesHold, Stage, Clean, Works
<1>5. /\ Tag(k.line) \in Seq(Nat \X {"tag"} \X Nat) /\ Len(Tag(k.line)) = TagLength
      /\ \A i \in 1..TagLength : Tag(k.line)[i] = <<k.line, "tag", i>>
      /\ k.tag \in Nat
  BY <1>1, TextOf, RingAssumption DEF Tag, Tagging
<1> HIDE DEF k
<1>6. /\ log_head' = k.tag + TagLength /\ log_head' \in Nat
      /\ reach' \in Nat /\ reach' >= log_head'
      /\ TagLength <= RingSize =>
           \A i \in 1..TagLength : log_ring'[(k.tag + i - 1) % RingSize] = Tag(k.line)[i]
  <2> DEFINE text == Tag(k.line)
             start == k.tag
  <2>1. /\ Pasted(start, text) /\ start \in Nat /\ text \in Seq(Nat \X {"tag"} \X Nat)
        /\ log_head \in Nat /\ reach \in Nat /\ Len(text) = TagLength
    BY <1>2, <1>5 DEF LogTypes
  <2> HIDE DEF text, start
  <2>2. /\ log_head' = start + Len(text) /\ log_head' \in Nat
        /\ reach' \in Nat /\ reach' >= reach /\ reach' >= log_head'
        /\ Len(text) <= RingSize =>
             \A i \in 1..Len(text) : log_ring'[(start + i - 1) % RingSize] = text[i]
    BY <2>1, PastedRing
  <2> QED BY <2>1, <2>2 DEF text, start
<1>7. ASSUME Whole(m)' PROVE TagIn(m)'
  <2>1. reach' <= k.tag + RingSize
    BY <1>3, <1>7 DEF Whole
  <2>3. log_head' = k.tag + TagLength /\ log_head' \in Nat
        /\ reach' \in Nat /\ reach' >= log_head' /\ k.tag \in Nat
    BY <1>5, <1>6, Zenon
  <2>4. TagLength \in Nat /\ RingSize \in Nat
    BY RingAssumption
  <2>2. TagLength <= RingSize
    BY <2>1, <2>3, <2>4
  <2> QED BY <1>3, <1>5, <1>6, <2>2 DEF TagIn
<1>8. (log_head = m.tag + TagLength /\ m.size = length[m.line])'
  BY <1>2, <1>3, <1>4, <1>6
<1>9. Stage(m)'
  BY <1>3, <1>7, <1>8 DEF Stage
<1> QED BY <1>2, <1>3, <1>4, <1>9

LEMMA OwnMessage ==
  ASSUME LogTypes, LogTypes', Lines, StagesHold, NEW w \in Writers, PasteMessage(w),
         NEW m \in Works, m = work'[w], Clean(m)'
  PROVE  (scratch = m.line /\ Stage(m))'
<1> DEFINE k == work[w]
           text == [i \in 1..k.size |-> <<scratch, "msg", i>>]
<1>1. k \in Messaging /\ k.step = "message" /\ Busy(w)
  BY StepOf DEF PasteMessage, At, LogTypes, Busy
<1>2. /\ m = [k EXCEPT !.step = "push"] /\ Pasted(k.msg, text)
      /\ length' = length /\ scratch' = scratch /\ disturbed' = disturbed
  BY DEF PasteMessage, LogTypes
<1>3. /\ m.step = "push" /\ m.line = k.line /\ m.tag = k.tag /\ m.size = k.size
      /\ m.msg = k.msg
  BY <1>1, <1>2 DEF Messaging
<1>4. scratch = k.line /\ k.msg = log_head /\ Placed(k) /\ (Whole(k) => TagIn(k))
  BY <1>1, <1>2, <1>3 DEF StagesHold, Stage, Clean, Works
<1>5. /\ text \in Seq(Nat \X {"msg"} \X Nat) /\ Len(text) = k.size
      /\ \A i \in 1..k.size : text[i] = <<k.line, "msg", i>>
      /\ k.tag \in Nat /\ k.msg \in Nat /\ k.size \in Nat
  <2>1. k.tag \in Nat /\ k.msg \in Nat /\ k.size \in Nat /\ scratch \in Nat
    BY <1>1 DEF Messaging, LogTypes
  <2>2. /\ text \in Seq(Nat \X {"msg"} \X Nat) /\ Len(text) = k.size
        /\ \A i \in 1..k.size : text[i] = <<scratch, "msg", i>>
    <3> HIDE DEF k
    <3> QED BY <2>1, TextOf
  <2> HIDE DEF k, text
  <2> QED BY <1>4, <2>1, <2>2
<1> HIDE DEF k, text
<1>6. /\ log_head' = k.msg + k.size /\ log_head' \in Nat
      /\ reach' \in Nat /\ reach' >= log_head' /\ reach' >= reach /\ reach \in Nat
      /\ k.size <= RingSize =>
           \A i \in 1..k.size : log_ring'[(k.msg + i - 1) % RingSize] = text[i]
  <2> DEFINE start == k.msg
  <2>1. /\ Pasted(start, text) /\ start \in Nat /\ text \in Seq(Nat \X {"msg"} \X Nat)
        /\ log_head \in Nat /\ reach \in Nat /\ Len(text) = k.size
    BY <1>2, <1>5 DEF LogTypes
  <2> HIDE DEF start
  <2>2. /\ log_head' = start + Len(text) /\ log_head' \in Nat
        /\ reach' \in Nat /\ reach' >= reach /\ reach' >= log_head'
        /\ Len(text) <= RingSize =>
             \A i \in 1..Len(text) : log_ring'[(start + i - 1) % RingSize] = text[i]
    BY <2>1, PastedRing
  <2> QED BY <2>1, <2>2 DEF start
<1>7. ASSUME Whole(m)' PROVE TagIn(m)' /\ MessageIn(m)'
  <2> DEFINE tag == k.tag
             msg == k.msg
             size == k.size
             past == log_head'
             far == reach'
  <2>1. far <= tag + RingSize
    BY <1>3, <1>7 DEF Whole
  <2>2. /\ tag \in Nat /\ msg \in Nat /\ size \in Nat /\ past \in Nat /\ far \in Nat
        /\ past = msg + size /\ far >= past /\ msg = tag + TagLength
        /\ far >= reach /\ reach \in Nat
    BY <1>4, <1>5, <1>6 DEF Placed
  <2> HIDE DEF tag, msg, size, past, far
  <2>3. /\ size <= RingSize /\ past <= tag + RingSize /\ tag + TagLength <= msg
        /\ reach <= tag + RingSize
    BY <2>1, <2>2, RingAssumption
  <2> USE DEF tag, msg, size, past, far
  <2>4. MessageIn(m)'
    BY <1>3, <1>5, <1>6, <2>3 DEF MessageIn
  <2>5. TagIn(k)
    BY <1>4, <2>3 DEF Whole
  <2>6. log_head \in Nat
    BY DEF LogTypes
  <2>7. \A i \in 1..TagLength :
          log_ring'[(k.tag + i - 1) % RingSize] = log_ring[(k.tag + i - 1) % RingSize]
    <3>1. /\ Pasted(k.msg, text) /\ text \in Seq(Nat \X {"msg"} \X Nat)
          /\ k.tag \in Nat /\ k.msg \in Nat /\ k.tag + TagLength <= k.msg
          /\ log_head' <= k.tag + RingSize /\ reach \in Nat
      BY <1>2, <1>5, <1>6, <2>3
    <3> QED BY <2>6, <3>1, TextStays, RingAssumption
  <2>8. TagIn(m)'
    BY <1>3, <2>5, <2>7 DEF TagIn
  <2> QED BY <2>4, <2>8
<1>8. (End(m) = log_head /\ Placed(m))'
  BY <1>2, <1>3, <1>4, <1>6 DEF End, Placed
<1>9. Stage(m)'
  BY <1>3, <1>7, <1>8 DEF Stage
<1> QED BY <1>2, <1>3, <1>4, <1>9

LEMMA OwnBegin ==
  ASSUME LogTypes, LogTypes', Lines, StagesHold, NEW w \in Writers,
         BeginTag(w) \/ BeginMessage(w), NEW m \in Works, m = work'[w], Clean(m)'
  PROVE  (scratch = m.line /\ Stage(m))'
<1> DEFINE k == work[w]
<1>1. /\ k \in Works /\ work \in [Writers -> Works] /\ length' = length /\ scratch' = scratch
      /\ disturbed' = disturbed /\ UNCHANGED ringVars /\ k.step \in {"log", "between"}
  BY DEF BeginTag, BeginMessage, LogTypes, At
<1>2. Busy(w)
  BY <1>1, StepOf DEF Busy
<1>3. m.line = k.line
  BY <1>1 DEF BeginTag, BeginMessage
<1>4. scratch = k.line /\ Stage(k)
  BY <1>1, <1>2, <1>3 DEF StagesHold, Clean
<1>5. CASE BeginTag(w)
  <2>1. m.step = "tag" /\ m.tag = log_head /\ m.size = length[scratch]
    BY <1>1, <1>5 DEF BeginTag
  <2>2. Stage(m)'
    BY <1>1, <1>3, <1>4, <2>1 DEF Stage, ringVars
  <2> QED BY <1>1, <1>3, <1>4, <2>2
<1>6. CASE BeginMessage(w)
  <2>1. /\ m.step = "message" /\ m.tag = k.tag /\ m.size = k.size /\ m.msg = log_head
        /\ k.step = "between"
    BY <1>1, <1>6 DEF BeginMessage, At
  <2>2. log_head = k.tag + TagLength /\ k.size = length[k.line] /\ (Whole(k) => TagIn(k))
    BY <1>4, <2>1 DEF Stage
  <2>3. (m.msg = log_head /\ Placed(m))'
    BY <1>1, <1>3, <2>1, <2>2 DEF Placed, ringVars
  <2>4. (Whole(m) => TagIn(m))'
    BY <1>1, <1>3, <2>1, <2>2 DEF Whole, TagIn, ringVars
  <2>5. Stage(m)'
    BY <2>1, <2>3, <2>4 DEF Stage
  <2> QED BY <1>1, <1>3, <1>4, <2>5
<1> QED BY <1>5, <1>6

LEMMA StagesHoldStep ==
  ASSUME LogTypes, LogTypes', Lines, Sole, StagesHold, LogNext
  PROVE  StagesHold'
<1> SUFFICES ASSUME NEW v \in Writers, NEW k \in Works, Busy(v)', k = work'[v], Clean(k)'
             PROVE  (scratch = k.line /\ Stage(k))'
  BY DEF StagesHold
<1>1. work \in [Writers -> Works] /\ work' \in [Writers -> Works]
  BY DEF LogTypes
<1>2. CASE LoggerProcess \/ \E w \in Writers : Log(w) \/ Hex(w)
  <2>1. /\ UNCHANGED ringVars /\ work' = work /\ length' = length /\ scratch' = scratch
        /\ disturbed' = disturbed
    BY <1>2 DEF LoggerProcess, PopLine, PrintLine, Log, Hex, writerVars
  <2>2. scratch = k.line /\ Stage(k)
    BY <2>1 DEF StagesHold, Busy, Clean
  <2> QED BY <2>1, <2>2, QuietStage
<1>3. ASSUME NEW w \in Writers, Format(w)
      PROVE  (scratch = k.line /\ Stage(k))'
  <2>1. v = w
    <3> SUFFICES ASSUME v # w PROVE FALSE
      OBVIOUS
    <3>1. work'[v] = work[v]
      BY <1>3, FormatForm
    <3> QED BY <1>3, <3>1, FormatForm DEF Busy, Clean
  <2>2. k.step = "log" /\ scratch' = k.line
    BY <1>3, <2>1, FormatForm
  <2> QED BY <2>2 DEF Stage
<1>4. ASSUME NEW w \in Writers,
             \/ LogDirectly(w) \/ BeginTag(w) \/ PasteTag(w)
             \/ BeginMessage(w) \/ PasteMessage(w) \/ PushLine(w)
      PROVE  (scratch = k.line /\ Stage(k))'
  <2>1. CASE v # w
    BY <1>4, <2>1, OthersStay
  <2>2. CASE v = w
    <3>1. CASE LogDirectly(w) \/ PushLine(w)
      <4>1. work'[w] = Idle
        BY <1>1, <3>1 DEF LogDirectly, PushLine
      <4> QED BY <2>2, <4>1 DEF Busy
    <3>2. CASE ~(LogDirectly(w) \/ PushLine(w))
      BY <1>4, <2>2, <3>2, OwnTag, OwnMessage, OwnBegin
    <3> QED BY <3>1, <3>2
  <2> QED BY <2>1, <2>2
<1> QED BY <1>2, <1>3, <1>4 DEF LogNext, Proceed

(***************************************************************************)
(* What is queued, read and printed.                                       *)
(***************************************************************************)
LEMMA Pushed ==
  ASSUME LogTypes, Lines, Sole, StagesHold, NEW w \in Writers, PushLine(w),
         NEW k \in Messaging, k = work[w]
  PROVE  Queued(k)'
<1> SUFFICES ASSUME Clean(k)' PROVE (Placed(k) /\ Behind(k) /\ (Whole(k) => TagIn(k) /\ MessageIn(k)))'
  BY DEF Queued
<1>1. /\ work \in [Writers -> Works] /\ k.step = "push" /\ work' = [work EXCEPT ![w] = Idle]
      /\ length' = length /\ disturbed' = disturbed /\ UNCHANGED ringVars /\ k \in Works
  BY DEF LogTypes, PushLine, At, Works
<1>2. Busy(w) /\ Clean(k)
  BY <1>1, StepOf DEF Busy, Clean
<1>3. InNonWaitableContext(w)
  BY <1>1, <1>2 DEF Lines
<1>4. Stage(k)
  BY <1>1, <1>2 DEF StagesHold
<1>5. End(k) = log_head /\ Placed(k) /\ (Whole(k) => TagIn(k) /\ MessageIn(k))
  BY <1>1, <1>4 DEF Stage
<1>6. ASSUME NEW v \in Writers
      PROVE  work'[v].step \notin {"tag", "message"}
  <2>1. CASE v = w
    BY <1>1, <2>1 DEF Idle
  <2>2. CASE v # w
    <3> SUFFICES ASSUME work[v].step \in {"tag", "message"} PROVE FALSE
      BY <1>1, <2>2
    <3>1. Busy(v)
      BY <1>1, StepOf DEF Busy
    <3>2. InNonWaitableContext(v)
      BY <3>1 DEF Lines
    <3> QED BY <1>2, <1>3, <2>2, <3>1, <3>2 DEF Sole, Clean
  <2> QED BY <2>1, <2>2
<1>7. Placed(k)' /\ (Whole(k) => TagIn(k) /\ MessageIn(k))'
  BY <1>1, <1>5 DEF Placed, Whole, TagIn, MessageIn, ringVars
<1>8. End(k) <= log_head'
  <2>1. log_head' = log_head /\ log_head \in Nat
    BY <1>1 DEF ringVars, LogTypes
  <2> QED BY <1>5, <2>1
<1>9. Behind(k)'
  BY <1>6, <1>8 DEF Behind, End
<1> QED BY <1>7, <1>9

LEMMA AllQueuedStep ==
  ASSUME LogTypes, LogTypes', Lines, Sole, StagesHold, AllQueued, LogNext
  PROVE  AllQueued'
<1> SUFFICES ASSUME NEW i \in DOMAIN log_queue', NEW l \in Messaging, l = log_queue'[i]
             PROVE  Queued(l)'
  BY DEF AllQueued
<1>1. log_queue \in Seq(Messaging) /\ DOMAIN log_queue = 1..Len(log_queue)
      /\ Len(log_queue) \in Nat
  BY DEF LogTypes
<1>2. ASSUME NEW j \in DOMAIN log_queue, l = log_queue[j]
      PROVE  Queued(l)'
  <2>1. Queued(l) /\ Known(l)
    BY <1>2 DEF AllQueued, Lines
  <2> QED BY <2>1, QueuedStays
<1>3. CASE log_queue' = log_queue
  BY <1>2, <1>3
<1>4. CASE PopLine
  <2>1. log_queue # <<>> /\ log_queue' = Tail(log_queue)
    BY <1>4 DEF PopLine, HasLine
  <2>2. i + 1 \in DOMAIN log_queue /\ log_queue'[i] = log_queue[i + 1]
    BY <1>1, <2>1, TailOf
  <2> QED BY <1>2, <2>2
<1>5. ASSUME NEW w \in Writers, PushLine(w), log_queue' # log_queue
      PROVE  Queued(l)'
  <2> DEFINE k == work[w]
  <2>1. k \in Messaging /\ log_queue' = Append(log_queue, k)
    BY <1>5, StepOf DEF PushLine, At, LogTypes
  <2>2. /\ DOMAIN log_queue' = 1..Len(log_queue) + 1
        /\ \A j \in 1..Len(log_queue) : log_queue'[j] = log_queue[j]
        /\ log_queue'[Len(log_queue) + 1] = k
    <3> HIDE DEF k
    <3> QED BY <1>1, <2>1, Appended
  <2>3. CASE i \in 1..Len(log_queue)
    BY <1>1, <1>2, <2>2, <2>3
  <2>4. CASE i = Len(log_queue) + 1
    BY <1>5, <2>2, <2>4, Pushed
  <2> QED BY <1>1, <2>2, <2>3, <2>4
<1>6. \/ log_queue' = log_queue \/ PopLine \/ \E w \in Writers : PushLine(w)
  BY DEF LogNext, Proceed, LoggerProcess, PrintLine, Log, Hex, Format, LogDirectly,
         BeginTag, PasteTag, BeginMessage, PasteMessage
<1> QED BY <1>3, <1>4, <1>5, <1>6

LEMMA ReachGrows ==
  ASSUME LogTypes, LogNext
  PROVE  reach \in Nat /\ reach' \in Nat /\ reach' >= reach
<1>1. /\ reach \in Nat /\ log_head \in Nat /\ scratch \in Nat /\ work \in [Writers -> Works]
  BY DEF LogTypes
<1>2. ASSUME NEW w \in Writers, PasteTag(w)
      PROVE  reach' \in Nat /\ reach' >= reach
  <2>1. work[w] \in Tagging
    BY <1>1, <1>2, StepOf DEF PasteTag, At
  <2>2. Tag(work[w].line) \in Seq(Nat \X {"tag"} \X Nat) /\ work[w].tag \in Nat
    BY <2>1, RingAssumption, TextOf DEF Tag, Tagging
  <2> QED BY <1>1, <1>2, <2>2, PastedRing DEF PasteTag
<1>3. ASSUME NEW w \in Writers, PasteMessage(w)
      PROVE  reach' \in Nat /\ reach' >= reach
  <2>1. work[w] \in Messaging
    BY <1>1, <1>3, StepOf DEF PasteMessage, At
  <2>2. /\ [i \in 1..work[w].size |-> <<scratch, "msg", i>>] \in Seq(Nat \X {"msg"} \X Nat)
        /\ work[w].msg \in Nat
    BY <1>1, <2>1, TextOf DEF Messaging
  <2> QED BY <1>1, <1>3, <2>2, PastedRing DEF PasteMessage
<1>4. \/ reach' = reach \/ \E w \in Writers : PasteTag(w) \/ PasteMessage(w)
  BY DEF LogNext, Proceed, LoggerProcess, PopLine, PrintLine, Log, Hex, Format, LogDirectly,
         BeginTag, BeginMessage, PushLine, ringVars
<1> QED BY <1>1, <1>2, <1>3, <1>4

LEMMA ReadingStep ==
  ASSUME LogTypes, LogTypes', Lines, AllQueued, Reading, LogNext
  PROVE  Reading'
<1> SUFFICES ASSUME NEW l \in Messaging, reader' # Nothing, l = reader'.queued
             PROVE  Queued(l)' /\ (Clean(l)' /\ Whole(l)' => reader'.tag = Tag(l.line))
  BY DEF Reading, Tag
<1>1. Clean(l)' => Clean(l)
  BY MoreDisturbed DEF Clean
<1>2. Whole(l)' => Whole(l)
  <2>1. l.tag \in Nat
    BY DEF Messaging
  <2> QED BY <2>1, ReachGrows, RingAssumption DEF Whole
<1>3. CASE reader' = reader
  <2>1. Queued(l) /\ (Clean(l) /\ Whole(l) => reader.tag = Tag(l.line))
    BY <1>3 DEF Reading
  <2>2. Known(l)
    BY <1>3 DEF Lines, Known
  <2> QED BY <1>1, <1>2, <1>3, <2>1, <2>2, QueuedStays
<1>4. CASE PopLine
  <2>1. /\ log_queue # <<>> /\ l = Head(log_queue)
        /\ reader'.tag = UseLine(l.tag, TagLength)
    BY <1>4 DEF PopLine, HasLine
  <2>2. 1 \in DOMAIN log_queue /\ l = log_queue[1]
    BY <2>1, TailOf DEF LogTypes
  <2>3. Queued(l) /\ Known(l)
    BY <2>2 DEF AllQueued, Lines
  <2>4. ASSUME Clean(l), Whole(l) PROVE reader'.tag = Tag(l.line)
    <3>1. TagIn(l)
      BY <2>3, <2>4 DEF Queued
    <3> QED BY <2>1, <3>1 DEF TagIn, UseLine, Tag
  <2> QED BY <1>1, <1>2, <2>3, <2>4, QueuedStays
<1>5. CASE PrintLine
  BY <1>5 DEF PrintLine
<1>6. reader' = reader \/ PopLine \/ PrintLine
  BY DEF LogNext, Proceed, LoggerProcess, Log, Hex, Format, LogDirectly, BeginTag, PasteTag,
         BeginMessage, PasteMessage, PushLine
<1> QED BY <1>3, <1>4, <1>5, <1>6

LEMMA IntactStep ==
  ASSUME LogTypes, LogTypes', Lines, StagesHold, Reading, LinesIntact, LogNext
  PROVE  LinesIntact'
<1> DEFINE Right(p) == p.line \notin disturbed' /\ ~p.late => p.text = Tag(p.line) \o Message(p.line)
<1>1. disturbed \subseteq disturbed' /\ Longer
  BY MoreDisturbed, LongerAlways
<1>2. ASSUME NEW p, Known(p) PROVE Message(p.line)' = Message(p.line)
  BY <1>1, <1>2 DEF Known, Message, Longer
<1>3. \A i \in DOMAIN printed : Known(printed[i]) /\ Right(printed[i])
  BY <1>1 DEF LinesIntact, Lines
<1>4. \/ printed' = printed
      \/ \E p : printed' = Append(printed, p) /\ Known(p) /\ Right(p)
  <2>1. ASSUME NEW w \in Writers, LogDirectly(w)
        PROVE  \E p : printed' = Append(printed, p) /\ Known(p) /\ Right(p)
    <3> DEFINE k == work[w]
               p == [line |-> k.line, late |-> FALSE, text |-> Tag(k.line) \o Message(scratch)]
    <3>1. Busy(w) /\ Known(k) /\ k \in Works
      BY <2>1, WorkForm DEF LogTypes
    <3>2. k.line \notin disturbed => scratch = k.line
      BY <3>1 DEF StagesHold, Clean
    <3>3. Known(p)
      BY <3>1 DEF Known
    <3>4. Right(p)
      BY <1>1, <3>2
    <3>5. printed' = Append(printed, p)
      BY <2>1 DEF LogDirectly
    <3> QED BY <3>3, <3>4, <3>5
  <2>2. ASSUME PrintLine
        PROVE  \E p : printed' = Append(printed, p) /\ Known(p) /\ Right(p)
    <3> DEFINE l == reader.queued
               p == [line |-> l.line, late |-> reach > l.tag + RingSize,
                     text |-> reader.tag \o UseLine(l.msg, l.size)]
    <3>1. reader # Nothing /\ l \in Messaging /\ l.line = reader.line /\ Known(reader)
      BY <2>2 DEF PrintLine, Lines
    <3>2. Queued(l) /\ (Clean(l) /\ Whole(l) => reader.tag = Tag(l.line))
      BY <3>1 DEF Reading
    <3>3. Known(p)
      BY <3>1 DEF Known
    <3>4. ASSUME p.line \notin disturbed', ~p.late
          PROVE  p.text = Tag(p.line) \o Message(p.line)
      <4>1. Clean(l)
        BY <1>1, <3>4 DEF Clean
      <4>2. Whole(l)
        <5>1. l.tag \in Nat /\ reach \in Nat /\ ~(reach > l.tag + RingSize)
          BY <3>1, <3>4 DEF Messaging, LogTypes
        <5> QED BY <5>1, RingAssumption DEF Whole
      <4>3. l.size = length[l.line] /\ MessageIn(l) /\ reader.tag = Tag(l.line)
        BY <3>2, <4>1, <4>2 DEF Queued, Placed
      <4>4. UseLine(l.msg, l.size) = Message(l.line)
        BY <4>3 DEF UseLine, Message, MessageIn
      <4> QED BY <4>3, <4>4
    <3>5. printed' = Append(printed, p)
      BY <2>2 DEF PrintLine
    <3> QED BY <3>3, <3>4, <3>5
  <2>3. \/ printed' = printed \/ PrintLine \/ \E w \in Writers : LogDirectly(w)
    BY DEF LogNext, Proceed, LoggerProcess, PopLine, Log, Hex, Format, BeginTag, PasteTag,
           BeginMessage, PasteMessage, PushLine
  <2> QED BY <2>1, <2>2, <2>3
<1>5. \A i \in DOMAIN printed' : Known(printed'[i]) /\ Right(printed'[i])
  <2>1. CASE printed' = printed
    BY <1>3, <2>1
  <2>2. CASE \E p : printed' = Append(printed, p) /\ Known(p) /\ Right(p)
    <3>1. PICK p : printed' = Append(printed, p) /\ Known(p) /\ Right(p)
      BY <2>2
    <3>2. \E S : printed \in Seq(S)
      BY DEF Lines
    <3>3. /\ DOMAIN printed' = 1..Len(printed) + 1
          /\ \A i \in 1..Len(printed) : printed'[i] = printed[i]
          /\ printed'[Len(printed) + 1] = p
          /\ DOMAIN printed = 1..Len(printed) /\ Len(printed) \in Nat
      BY <3>1, <3>2, Printing
    <3> HIDE DEF Right
    <3> QED BY <1>3, <3>1, <3>3
  <2> QED BY <1>4, <2>1, <2>2
<1> DEFINE Sent(n) == [i \in 1..length'[n] |-> <<n, "msg", i>>]
<1>6. ASSUME NEW i \in DOMAIN printed', printed'[i].line \notin disturbed', ~printed'[i].late
      PROVE  printed'[i].text = Tag(printed'[i].line) \o Sent(printed'[i].line)
  <2>1. PICK p : p = printed'[i]
    OBVIOUS
  <2>2. Known(p) /\ p.text = Tag(p.line) \o Message(p.line)
    BY <1>5, <1>6, <2>1
  <2>3. Message(p.line) = Sent(p.line)
    BY <1>2, <2>2 DEF Message
  <2> QED BY <2>1, <2>2, <2>3
<1> QED BY <1>6, Zenon DEF LinesIntact, Tag, Message

(***************************************************************************)
(* A line reaches the sink whole, unless another context logged meanwhile  *)
(* or more than a ring of characters followed: for every number of threads *)
(* and interrupts, whatever their priorities.                              *)
(***************************************************************************)
THEOREM LinesAreWhole == LogSpec => []LinesIntact
<1>1. LogInit => LogInv
  <2> SUFFICES ASSUME LogInit PROVE LogInv
    OBVIOUS
  <2>1. LogTypes /\ Lines
    BY TypesInit
  <2>2. (\A w \in Writers : ~Busy(w)) /\ log_queue = <<>> /\ reader = Nothing /\ printed = <<>>
    BY DEF LogInit, Busy
  <2>3. AllQueued /\ Reading /\ StagesHold /\ Sole
    BY <2>2 DEF AllQueued, Reading, StagesHold, Sole
  <2>4. LinesIntact
    BY <2>2 DEF LinesIntact
  <2> QED BY <2>1, <2>3, <2>4 DEF LogInv
<1>2. LogInv /\ [LogNext]_logVars => LogInv'
  <2> SUFFICES ASSUME LogInv, [LogNext]_logVars PROVE LogInv'
    OBVIOUS
  <2>1. CASE LogNext
    <3>1. LogTypes' /\ Lines'
      BY <2>1, LinesStep DEF LogInv
    <3> QED BY <2>1, <3>1, SoleStep, StagesHoldStep, AllQueuedStep, ReadingStep, IntactStep
            DEF LogInv
  <2>2. CASE UNCHANGED logVars
    <3>1. UNCHANGED <<length, todo, work, scratch, log_ring, log_head, reach, log_queue,
                      reader, printed, disturbed>>
      BY <2>2 DEF logVars, writerVars, ringVars
    <3>2. LogTypes' /\ Lines'
      BY <3>1 DEF LogInv, LogTypes, Lines, Busy, Known, InNonWaitableContext
    <3>3. StagesHold' /\ Sole'
      BY <3>1 DEF LogInv, StagesHold, Sole, Busy, InNonWaitableContext, Clean, Stage, Whole,
                  TagIn, MessageIn, Placed, End
    <3>4. AllQueued' /\ Reading'
      BY <3>1 DEF LogInv, AllQueued, Reading, Queued, Clean, Whole, TagIn, MessageIn, Placed,
                  Behind, End, Tag
    <3>5. LinesIntact'
      BY <3>1 DEF LogInv, LinesIntact, Tag, Message
    <3> QED BY <3>2, <3>3, <3>4, <3>5 DEF LogInv
  <2> QED BY <2>1, <2>2
<1>3. LogInv => LinesIntact
  BY DEF LogInv
<1> QED BY <1>1, <1>2, <1>3, PTL DEF LogSpec

(***************************************************************************)
(*                                                                         *)
(*                                Scheduler                                *)
(*                                                                         *)
(* As long as nothing moved, no two tasks ended in one tick and no two     *)
(* threads met in the vector: one thread at most is inside emplace_back,   *)
(* with the task created last; the vector holds the other open tasks and,  *)
(* from its last run to its erasure, the one that has just ended.  What    *)
(* the loop goes over is a prefix of it, since others add behind.  The     *)
(* position to erase was visited, so that the loop does not meet the task  *)
(* that ended again.                                                       *)
(***************************************************************************)
SchedTypes ==
  /\ task \in Seq(Task) /\ tasks \in Seq(Nat) /\ seen \in Seq(Nat)
  /\ to_remove \in Seq(Nat) /\ index \in Nat
  /\ at \in {"off", "begin", "taking", "loop", "erase", "erasing"}
  /\ adding \in [Adders -> Nat]

Ordered ==
  /\ \A j \in 1..Len(tasks) : tasks[j] \in 1..Len(task)
  /\ \A i, j \in 1..Len(tasks) : i < j => tasks[i] < tasks[j]

Looping ==
  /\ at \in {"off", "begin", "taking"} => to_remove = <<>>
  /\ at = "erasing" => to_remove # <<>>
  /\ at = "loop" => /\ Len(seen) <= Len(tasks) /\ index <= Len(seen)
                    /\ \A j \in 1..Len(seen) : seen[j] = tasks[j]

Ending(j) == Len(to_remove) = 1 /\ j = to_remove[1] + 1

Removing ==
  /\ Len(to_remove) <= 1
  /\ Len(to_remove) = 1 =>
       to_remove[1] < Len(tasks) /\ (at = "loop" => to_remove[1] < index)

Unended(i) == task[i].disposed = FALSE

OnlyOpen == \A j \in 1..Len(tasks) : Unended(tasks[j]) <=> ~Ending(j)

AllOpen ==
  \A i \in 1..Len(task) :
    Unended(i) => BeingAdded(i) \/ \E j \in 1..Len(tasks) : tasks[j] = i

Newest == Unended(Len(task)) /\ \A j \in 1..Len(tasks) : tasks[j] < Len(task)

Alone ==
  \A a \in Adders :
    adding[a] # 0 =>
      adding[a] = Len(task) /\ Newest /\ \A b \in Adders : adding[b] # 0 => b = a

Good == /\ SchedTypes /\ ~aborted /\ Ordered /\ Looping /\ Removing /\ OnlyOpen
        /\ AllOpen /\ Alone

SchedInv == Undisturbed => Good

LEMMA Undone ==
  ASSUME SchedNext, Undisturbed'
  PROVE  Undisturbed
<1>1. ~moved' /\ ~several' /\ race' = "no"
  BY DEF Undisturbed
<1>2. ASSUME moved PROVE moved'
  BY <1>2, Zenon DEF SchedNext, Start, MainTask, BeginTick, TakeEnds, Visit, VisitMoved, EndLoop, BeginErase, Erase, Sleep,
                   AddTask, EmplaceBackEnds, Added, Overrun
<1>3. ASSUME several PROVE several'
  BY <1>3, Zenon DEF SchedNext, Start, MainTask, BeginTick, TakeEnds, Visit, VisitMoved, EndLoop, BeginErase, Erase, Sleep,
                   AddTask, EmplaceBackEnds, Added, Overrun, Skip, RunEmpty, Run
<1>4. \/ race' = race
      \/ race' = "now"
      \/ race' = IF race = "now" THEN "over" ELSE race
  <2>1. CASE Start \/ Overrun \/ MainTask
    BY <2>1, Zenon DEF Start, Overrun, MainTask, BeginTick, TakeEnds, Visit, VisitMoved, EndLoop, BeginErase, Erase, Sleep,
                     Meets, Leaves
  <2>2. CASE EmplaceBackEnds
    BY <2>2, Zenon DEF EmplaceBackEnds, Added, Leaves
  <2>3. ASSUME NEW a \in Adders, NEW t \in NewTasks, AddTask(a, t)
        PROVE  race' = race \/ race' = "now"
    BY <2>3, Zenon DEF AddTask, Meets
  <2> QED BY <2>1, <2>2, <2>3 DEF SchedNext
<1>5. race = "no"
  BY <1>1, <1>4
<1> QED BY <1>1, <1>2, <1>3, <1>5 DEF Undisturbed

\* The call begins: the thread is alone with the task it adds.
LEMMA AddGood ==
  ASSUME Good, NEW a \in Adders, NEW t \in NewTasks, AddTask(a, t), race' = "no"
  PROVE  Good'
<1>1. /\ task \in Seq(Task) /\ tasks \in Seq(Nat) /\ seen \in Seq(Nat)
      /\ to_remove \in Seq(Nat) /\ index \in Nat /\ adding \in [Adders -> Nat]
  BY DEF Good, SchedTypes
<1>2. t \in Task /\ t.disposed = FALSE
  <2>1. t \in Task /\ ~t.disposed
    BY TasksAssumption
  <2> QED BY <2>1 DEF Task
<1>3. /\ task' = Append(task, t) /\ adding' = [adding EXCEPT ![a] = Len(task')]
      /\ UNCHANGED <<tasks, seen, to_remove, index, at, aborted>>
  BY DEF AddTask, tickVars
<1>4. \A b \in Adders : adding[b] = 0
  <2>1. ~Adding
    BY DEF AddTask, Meets
  <2> QED BY <2>1 DEF Adding
<1>5. /\ task' \in Seq(Task) /\ Len(task') = Len(task) + 1 /\ Len(task) \in Nat
      /\ \A i \in 1..Len(task) : task'[i] = task[i]
      /\ task'[Len(task) + 1] = t
  BY <1>1, <1>2, <1>3
<1>6. /\ adding' \in [Adders -> Nat] /\ adding'[a] = Len(task) + 1
      /\ \A b \in Adders : b # a => adding'[b] = 0
  BY <1>1, <1>3, <1>4, <1>5
<1>7. SchedTypes' /\ ~aborted'
  BY <1>3, <1>5, <1>6 DEF Good, SchedTypes
<1>8. Ordered' /\ Looping' /\ Removing'
  <2>1. Ordered'
    BY <1>3, <1>5 DEF Good, Ordered
  <2>2. Looping'
    BY <1>3 DEF Good, Looping
  <2>3. Removing'
    BY <1>3 DEF Good, Removing
  <2> QED BY <2>1, <2>2, <2>3
<1>9. \A i \in 1..Len(task) : task'[i].disposed = task[i].disposed
  BY <1>5
<1>10. OnlyOpen'
  BY <1>3, <1>9 DEF Good, OnlyOpen, Ordered, Unended, Ending
<1>11. AllOpen'
  <2>1. ASSUME NEW i \in 1..Len(task) + 1, Unended(i)'
        PROVE  BeingAdded(i)' \/ \E j \in 1..Len(tasks) : tasks'[j] = i
    <3>1. CASE i \in 1..Len(task)
      <4>1. Unended(i) /\ ~BeingAdded(i)
        BY <1>4, <1>9, <2>1, <3>1 DEF Unended, BeingAdded
      <4> QED BY <1>3, <3>1, <4>1 DEF Good, AllOpen
    <3>2. CASE i = Len(task) + 1
      BY <1>6, <3>2 DEF BeingAdded
    <3> QED BY <1>5, <3>1, <3>2
  <2> QED BY <1>3, <1>5, <2>1 DEF AllOpen
<1>12. Alone'
  <2>1. Newest'
    <3>1. Unended(Len(task))'
      BY <1>2, <1>5 DEF Unended
    <3>2. ASSUME NEW j \in 1..Len(tasks) PROVE tasks[j] < Len(task) + 1
      BY <1>5 DEF Good, Ordered
    <3> QED BY <1>3, <1>5, <3>1, <3>2 DEF Newest
  <2> QED BY <1>5, <1>6, <2>1 DEF Alone
<1> QED BY <1>7, <1>8, <1>10, <1>11, <1>12 DEF Good

\* The call ends: what was created last comes last.
LEMMA AddedGood ==
  ASSUME Good, NEW a \in Adders, Added(a), race = "no"
  PROVE  Good'
<1>1. /\ task \in Seq(Task) /\ tasks \in Seq(Nat) /\ seen \in Seq(Nat)
      /\ to_remove \in Seq(Nat) /\ index \in Nat /\ adding \in [Adders -> Nat]
      /\ Len(task) \in Nat
  BY DEF Good, SchedTypes
<1>2. /\ adding[a] # 0 /\ adding' = [adding EXCEPT ![a] = 0]
      /\ UNCHANGED <<task, seen, to_remove, index, at, aborted>>
  BY DEF Added, tickVars
<1>3. /\ adding[a] = Len(task) /\ Newest
      /\ \A b \in Adders : b # a => adding[b] = 0
  BY <1>2 DEF Good, Alone
<1>4. tasks' = Append(tasks, Len(task))
  BY <1>3 DEF Added, Left
<1>5. /\ tasks' \in Seq(Nat) /\ Len(tasks') = Len(tasks) + 1 /\ Len(tasks) \in Nat
      /\ \A j \in 1..Len(tasks) : tasks'[j] = tasks[j]
      /\ tasks'[Len(tasks) + 1] = Len(task)
  BY <1>1, <1>4
<1>6. adding' \in [Adders -> Nat] /\ \A b \in Adders : adding'[b] = 0
  BY <1>1, <1>2, <1>3
<1>7. SchedTypes' /\ ~aborted'
  BY <1>2, <1>5, <1>6 DEF Good, SchedTypes
<1>8. Len(task) \in 1..Len(task)
  BY <1>1, <1>2, <1>3
<1>9. Ordered'
  <2>1. ASSUME NEW j \in 1..Len(tasks) + 1
        PROVE  /\ tasks'[j] \in 1..Len(task)
               /\ j <= Len(tasks) => tasks'[j] < Len(task)
    BY <1>3, <1>5, <1>8 DEF Good, Ordered, Newest
  <2>2. ASSUME NEW i \in 1..Len(tasks) + 1, NEW j \in 1..Len(tasks) + 1, i < j
        PROVE  tasks'[i] < tasks'[j]
    <3>1. CASE j \in 1..Len(tasks)
      <4>1. i \in 1..Len(tasks)
        BY <2>2, <3>1
      <4> QED BY <1>5, <2>2, <3>1, <4>1 DEF Good, Ordered
    <3>2. CASE j = Len(tasks) + 1
      BY <1>5, <2>1, <2>2, <3>2
    <3> QED BY <1>5, <3>1, <3>2
  <2> QED BY <1>2, <1>5, <2>1, <2>2 DEF Ordered
<1>10. Looping' /\ Removing'
  BY <1>1, <1>2, <1>5 DEF Good, Looping, Removing
<1>11. OnlyOpen'
  <2>1. ASSUME NEW j \in 1..Len(tasks) + 1
        PROVE  Unended(tasks[j])' <=> ~Ending(j)'
    <3>1. CASE j \in 1..Len(tasks)
      BY <1>2, <1>5, <3>1 DEF Good, OnlyOpen, Unended, Ending
    <3>2. CASE j = Len(tasks) + 1
      <4>1. ~Ending(j)'
        BY <1>1, <1>2, <1>5, <3>2 DEF Good, Removing, Ending
      <4>2. Unended(tasks[j])'
        BY <1>2, <1>3, <1>5, <3>2 DEF Newest, Unended
      <4> QED BY <4>1, <4>2
    <3> QED BY <1>5, <3>1, <3>2
  <2> QED BY <1>5, <2>1 DEF OnlyOpen
<1>12. AllOpen'
  <2>1. ASSUME NEW i \in 1..Len(task), Unended(i)
        PROVE  \E j \in 1..Len(tasks) + 1 : tasks'[j] = i
    <3>1. CASE BeingAdded(i)
      <4>1. PICK b \in Adders : adding[b] = i
        BY <3>1 DEF BeingAdded
      <4>2. i = Len(task)
        BY <1>3, <2>1, <4>1
      <4> QED BY <1>5, <4>2
    <3>2. CASE ~BeingAdded(i)
      <4>1. PICK j \in 1..Len(tasks) : tasks[j] = i
        BY <2>1, <3>2 DEF Good, AllOpen
      <4> QED BY <1>5, <4>1
    <3> QED BY <3>1, <3>2
  <2>2. \A i \in 1..Len(task) : Unended(i)' <=> Unended(i)
    BY <1>2 DEF Unended
  <2> QED BY <1>2, <1>5, <2>1, <2>2 DEF AllOpen
<1>13. Alone'
  BY <1>6 DEF Alone
<1> QED BY <1>7, <1>9, <1>10, <1>11, <1>12, <1>13 DEF Good

LEMMA CountedTask ==
  ASSUME NEW t \in Task, NEW ends \in BOOLEAN
  PROVE  /\ [Counted(t) EXCEPT !.disposed = ends] \in Task
         /\ [Counted(t) EXCEPT !.disposed = ends].disposed = ends
         /\ NeedDispose(Counted(t)) \in BOOLEAN
<1>1. Counted(t) \in Task
  <2>1. t.count_current_ + 1 \in Int
    BY DEF Task
  <2> QED BY <2>1 DEF Task, Counted
<1>2. NeedDispose(Counted(t)) \in BOOLEAN
  BY DEF NeedDispose
<1> QED BY <1>1, <1>2 DEF Task

\* The loop meets no task that has ended.
LEMMA VisitGood ==
  ASSUME Good, Visit, Undisturbed'
  PROVE  Good'
<1> DEFINE k == index + 1
           s == seen[k]
           t == task[s]
<1>1. /\ task \in Seq(Task) /\ tasks \in Seq(Nat) /\ seen \in Seq(Nat)
      /\ to_remove \in Seq(Nat) /\ index \in Nat /\ at = "loop" /\ index < Len(seen)
      /\ index' = index + 1
      /\ UNCHANGED <<adding, tasks, seen, at>>
  BY DEF Good, SchedTypes, Visit
<1>2. /\ Len(seen) \in Nat /\ Len(tasks) \in Nat /\ Len(task) \in Nat
      /\ Len(to_remove) \in Nat /\ Len(seen) <= Len(tasks)
      /\ \A j \in 1..Len(seen) : seen[j] = tasks[j]
  BY <1>1 DEF Good, Looping
<1>3. k \in 1..Len(seen) /\ k \in 1..Len(tasks) /\ index < Len(tasks)
  BY <1>1, <1>2
<1>4. s = tasks[k] /\ s \in 1..Len(task) /\ t \in Task
  BY <1>1, <1>2, <1>3 DEF Good, Ordered
<1>5. ~Ending(k)
  BY <1>1 DEF Good, Removing, Ending
<1>6. t.disposed = FALSE
  BY <1>3, <1>4, <1>5 DEF Good, OnlyOpen, Unended
<1>7. CASE Skip(t)
  <2>1. UNCHANGED <<task, tasks, seen, at, to_remove, aborted>>
    BY <1>1, <1>7 DEF Skip
  <2>2. SchedTypes' /\ ~aborted' /\ Ordered' /\ OnlyOpen' /\ AllOpen' /\ Alone'
    BY <1>1, <2>1 DEF Good, SchedTypes, Ordered, OnlyOpen, AllOpen, Unended, Ending, Alone, Newest,
                      BeingAdded
  <2>3. Looping' /\ Removing'
    BY <1>1, <1>2, <2>1 DEF Good, Looping, Removing
  <2> QED BY <2>2, <2>3 DEF Good
<1>8. CASE Run(t)
  <2> DEFINE ends == NeedDispose(Counted(t))
             u == [Counted(t) EXCEPT !.disposed = ends]
  <2>1. u \in Task /\ u.disposed = ends /\ ends \in BOOLEAN
    <3> HIDE DEF s, t
    <3>1. ends \in BOOLEAN
      BY <1>4, CountedTask
    <3> HIDE DEF ends
    <3> QED BY <1>4, <3>1, CountedTask
  <2>2. /\ task' = [task EXCEPT ![s] = u]
        /\ to_remove' = IF ends THEN Append(to_remove, index) ELSE to_remove
        /\ aborted' = aborted
    BY <1>8 DEF Run
  <2>3. several' = (several \/ Len(to_remove') > 1)
    BY <1>8 DEF Run
  <2>4. ~(Len(to_remove') > 1)
    BY <2>3, Zenon DEF Undisturbed
  <2> HIDE DEF s, t, k, ends, u
  <2>5. /\ task' \in Seq(Task) /\ Len(task') = Len(task) /\ task'[s] = u
        /\ \A i \in 1..Len(task) : i # s => task'[i] = task[i]
    BY <1>1, <1>4, <2>1, <2>2
  <2>51. Alone'
    <3>1. ASSUME Newest PROVE Newest'
      <4>1. s < Len(task)
        BY <1>3, <1>4, <3>1 DEF Newest
      <4>2. Len(task) \in 1..Len(task)
        BY <1>2, <1>4, <4>1
      <4>3. task'[Len(task)] = task[Len(task)]
        BY <1>4, <2>5, <4>1, <4>2
      <4> QED BY <1>1, <2>5, <3>1, <4>3 DEF Newest, Unended
    <3> QED BY <1>1, <2>5, <3>1 DEF Good, Alone
  <2>6. CASE ends = FALSE
    <3>1. to_remove' = to_remove
      BY <2>2, <2>6
    <3>2. \A i \in 1..Len(task) : task'[i].disposed = task[i].disposed
      BY <1>4, <1>6, <2>1, <2>5, <2>6 DEF t
    <3>3. SchedTypes' /\ ~aborted' /\ Ordered'
      BY <1>1, <2>2, <2>5, <3>1 DEF Good, SchedTypes, Ordered
    <3>4. Looping' /\ Removing'
      BY <1>1, <1>2, <3>1 DEF Good, Looping, Removing
    <3>5. OnlyOpen' /\ AllOpen'
      BY <1>1, <2>5, <3>1, <3>2 DEF Good, Ordered, OnlyOpen, AllOpen, Unended, Ending, BeingAdded
    <3> QED BY <2>51, <3>3, <3>4, <3>5 DEF Good
  <2>7. CASE ends = TRUE
    <3>1. to_remove' = Append(to_remove, index)
      BY <2>2, <2>7
    <3>2. /\ to_remove' \in Seq(Nat) /\ Len(to_remove') = Len(to_remove) + 1
          /\ to_remove'[Len(to_remove) + 1] = index
      BY <1>1, <3>1
    <3>3. Len(to_remove) = 0 /\ Len(to_remove') = 1 /\ to_remove'[1] = index
      BY <1>2, <2>4, <3>2
    <3>4. SchedTypes' /\ ~aborted' /\ Ordered'
      BY <1>1, <2>2, <2>5, <3>2 DEF Good, SchedTypes, Ordered
    <3>5. Looping' /\ Removing'
      BY <1>1, <1>2, <1>3, <3>3 DEF Good, Looping, Removing
    <3>6. ASSUME NEW j \in 1..Len(tasks)
          PROVE  Unended(tasks[j])' <=> ~Ending(j)'
      <4>1. Ending(j)' <=> j = k
        BY <1>1, <3>3 DEF Ending, k
      <4>2. ~Ending(j) /\ Unended(tasks[j]) /\ tasks[j] \in 1..Len(task)
        BY <3>3 DEF Good, OnlyOpen, Ordered, Ending
      <4>3. CASE j = k
        <5>1. tasks[j] = s
          BY <1>4, <4>3
        <5>2. task'[tasks[j]].disposed = TRUE
          BY <2>1, <2>5, <2>7, <5>1
        <5> QED BY <1>1, <4>1, <4>3, <5>2 DEF Unended
      <4>4. CASE j # k
        <5>1. tasks[j] # s
          BY <1>2, <1>3, <1>4, <4>2, <4>4 DEF Good, Ordered
        <5>2. task'[tasks[j]] = task[tasks[j]]
          BY <2>5, <4>2, <5>1
        <5> QED BY <1>1, <4>1, <4>2, <4>4, <5>2 DEF Unended
      <4> QED BY <4>3, <4>4
    <3>7. OnlyOpen'
      BY <1>1, <3>6 DEF OnlyOpen
    <3>8. AllOpen'
      <4>1. ASSUME NEW i \in 1..Len(task), Unended(i)'
            PROVE  BeingAdded(i) \/ \E j \in 1..Len(tasks) : tasks[j] = i
        <5>1. i # s
          BY <2>1, <2>5, <2>7, <4>1 DEF Unended
        <5>2. Unended(i)
          BY <2>5, <4>1, <5>1 DEF Unended
        <5> QED BY <5>2 DEF Good, AllOpen
      <4> QED BY <1>1, <2>5, <4>1 DEF AllOpen, BeingAdded
    <3> QED BY <2>51, <3>4, <3>5, <3>7, <3>8 DEF Good
  <2> QED BY <2>1, <2>6, <2>7
<1>9. ~RunEmpty(t)
  BY <1>6 DEF RunEmpty
<1> QED BY <1>7, <1>8, <1>9 DEF Visit

\* It is the task that ended which is erased.
LEMMA EraseGood ==
  ASSUME Good, Erase, race = "no"
  PROVE  Good'
<1>1. /\ tasks \in Seq(Nat) /\ to_remove \in Seq(Nat) /\ to_remove # <<>>
      /\ at = "erasing" /\ at' = "erase"
      /\ UNCHANGED <<task, adding, seen, index>> /\ to_remove' = Tail(to_remove)
  BY DEF Good, SchedTypes, Erase, Looping
<1>2. Len(to_remove) = 1 /\ Head(to_remove) = to_remove[1] /\ to_remove[1] \in Nat
  <2> DEFINE n == Len(to_remove)
  <2>1. n \in Nat /\ n # 0
    BY <1>1
  <2>2. n <= 1
    BY DEF Good, Removing
  <2> HIDE DEF n
  <2>3. n = 1
    BY <2>1, <2>2
  <2> QED BY <1>1, <2>3 DEF n
<1> DEFINE r == to_remove[1]
           i == r + 1
           old == tasks
<1>3. r < Len(tasks)
  BY <1>2 DEF Good, Removing
<1>4. tasks' = RemoveAt(tasks, i) /\ aborted' = aborted
  BY <1>1, <1>2, <1>3 DEF Erase, Erased, Left
<1>5. i \in 1..Len(tasks) /\ Len(tasks) \in Nat
  BY <1>1, <1>2, <1>3
<1> HIDE DEF r, i
<1>6. /\ tasks' \in Seq(Nat) /\ Len(tasks') = Len(tasks) - 1
      /\ \A j \in 1..Len(tasks) - 1 : tasks'[j] = IF j < i THEN tasks[j] ELSE tasks[j + 1]
  BY <1>1, <1>4, <1>5, RemovedAt
<1>7. to_remove' = <<>> /\ Len(to_remove') = 0
  BY <1>1, <1>2
<1>8. SchedTypes' /\ ~aborted'
  BY <1>1, <1>4, <1>6, <1>7 DEF Good, SchedTypes
<1>9. Looping' /\ Removing'
  <2>1. Looping'
    BY <1>1, <1>7 DEF Looping
  <2>2. Removing'
    <3> DEFINE n == Len(to_remove')
    <3>1. n = 0
      BY <1>7
    <3> HIDE DEF n
    <3>2. n <= 1 /\ ~(n = 1)
      BY <3>1
    <3> QED BY <3>2 DEF Removing, n
  <2> QED BY <2>1, <2>2
<1>10. \A j \in 1..Len(tasks) : Ending(j) <=> j = i
  BY <1>2 DEF Ending, i, r
<1>11. ASSUME NEW j \in 1..Len(tasks')
       PROVE  \E m \in 1..Len(tasks) : /\ m # i /\ tasks'[j] = tasks[m]
                                       /\ m = IF j < i THEN j ELSE j + 1
  BY <1>5, <1>6
<1>12. Ordered'
  <2>1. \A j \in 1..Len(tasks') : tasks'[j] \in 1..Len(task)
    BY <1>11 DEF Good, Ordered
  <2>2. ASSUME NEW j \in 1..Len(tasks'), NEW l \in 1..Len(tasks'), j < l
        PROVE  tasks'[j] < tasks'[l]
    <3>1. PICK m \in 1..Len(tasks) : tasks'[j] = tasks[m] /\ m = IF j < i THEN j ELSE j + 1
      BY <1>11
    <3>2. PICK n \in 1..Len(tasks) : tasks'[l] = tasks[n] /\ n = IF l < i THEN l ELSE l + 1
      BY <1>11
    <3>3. m < n
      BY <1>5, <2>2, <3>1, <3>2
    <3> QED BY <3>1, <3>2, <3>3 DEF Good, Ordered
  <2> QED BY <1>1, <2>1, <2>2 DEF Ordered
<1>13. OnlyOpen'
  <2>1. ASSUME NEW j \in 1..Len(tasks')
        PROVE  Unended(tasks[j])' /\ ~Ending(j)'
    <3>1. PICK m \in 1..Len(tasks) : m # i /\ tasks'[j] = tasks[m]
      BY <1>11
    <3>2. Unended(tasks[m])
      BY <1>10, <3>1 DEF Good, OnlyOpen
    <3>3. ~Ending(j)'
      BY <1>7 DEF Ending
    <3> QED BY <1>1, <3>1, <3>2, <3>3 DEF Unended
  <2> QED BY <2>1 DEF OnlyOpen
<1>14. AllOpen'
  <2>1. ASSUME NEW x \in 1..Len(task), Unended(x)
        PROVE  BeingAdded(x) \/ \E j \in 1..Len(tasks') : tasks'[j] = x
    <3>1. CASE BeingAdded(x)
      BY <3>1
    <3>2. CASE \E m \in 1..Len(tasks) : tasks[m] = x
      <4>1. PICK m \in 1..Len(tasks) : tasks[m] = x
        BY <3>2
      <4>2. m # i
        BY <1>10, <2>1, <4>1 DEF Good, OnlyOpen
      <4> DEFINE l == IF m < i THEN m ELSE m - 1
      <4>3. l \in 1..Len(tasks')
        BY <1>5, <1>6, <4>2
      <4>4. tasks'[l] = tasks[m]
        <5>1. CASE m < i
          BY <1>6, <4>3, <5>1
        <5>2. CASE ~(m < i)
          <6>1. l = m - 1 /\ ~(l < i) /\ l + 1 = m
            BY <1>5, <4>2, <5>2
          <6> HIDE DEF l
          <6> QED BY <1>6, <4>3, <6>1
        <5> QED BY <5>1, <5>2
      <4> QED BY <4>1, <4>3, <4>4
    <3> QED BY <2>1, <3>1, <3>2 DEF Good, AllOpen
  <2> QED BY <1>1, <2>1 DEF AllOpen, Unended, BeingAdded
<1>15. Alone'
  <2>1. ASSUME Newest PROVE Newest'
    BY <1>1, <1>11, <2>1 DEF Newest, Unended
  <2> QED BY <1>1, <2>1 DEF Good, Alone
<1> QED BY <1>8, <1>9, <1>12, <1>13, <1>14, <1>15 DEF Good

LEMMA OtherGood ==
  ASSUME Good, race = "no",
         Start \/ BeginTick \/ TakeEnds \/ EndLoop \/ BeginErase \/ Sleep
  PROVE  Good'
<1>1. UNCHANGED <<task, adding, tasks, aborted>>
  BY DEF Start, BeginTick, TakeEnds, EndLoop, BeginErase, Sleep
<1>2. tasks \in Seq(Nat) /\ to_remove \in Seq(Nat)
  BY DEF Good, SchedTypes
<1>3. to_remove' = to_remove
  BY DEF Start, BeginTick, TakeEnds, EndLoop, BeginErase, Sleep, Good, Looping
<1>4. seen' \in Seq(Nat) /\ index' \in Nat
  BY DEF Start, BeginTick, TakeEnds, EndLoop, BeginErase, Sleep, Good, SchedTypes, Left
<1>5. SchedTypes'
  BY <1>1, <1>3, <1>4 DEF Good, SchedTypes, Start, BeginTick, TakeEnds, EndLoop, BeginErase, Sleep
<1>6. ~aborted' /\ Ordered' /\ OnlyOpen' /\ AllOpen' /\ Alone'
  BY <1>1, <1>3 DEF Good, Ordered, OnlyOpen, AllOpen, Unended, Ending, Alone, Newest, BeingAdded
<1>7. CASE TakeEnds
  <2>1. at = "taking" /\ at' = "loop" /\ seen' = tasks /\ index' = 0
    BY <1>7 DEF TakeEnds, Left
  <2>2. to_remove = <<>> /\ Len(to_remove) = 0
    BY <2>1 DEF Good, Looping
  <2>3. Looping' /\ Removing'
    BY <1>1, <1>2, <1>3, <2>1, <2>2 DEF Looping, Removing
  <2> QED BY <1>5, <1>6, <2>3 DEF Good
<1>8. CASE Start \/ Sleep \/ BeginTick
  <2>1. at' \in {"begin", "taking"} /\ to_remove = <<>>
    BY <1>8 DEF Start, Sleep, BeginTick, Good, Looping
  <2>2. Looping' /\ Removing'
    BY <1>1, <1>3, <2>1 DEF Good, Looping, Removing
  <2> QED BY <1>5, <1>6, <2>2 DEF Good
<1>9. CASE EndLoop \/ BeginErase
  <2>1. at' = "erase" \/ (at' = "erasing" /\ to_remove # <<>>)
    BY <1>9 DEF EndLoop, BeginErase
  <2>2. Looping' /\ Removing'
    BY <1>1, <1>3, <2>1 DEF Good, Looping, Removing
  <2> QED BY <1>5, <1>6, <2>2 DEF Good
<1> QED BY <1>7, <1>8, <1>9

(***************************************************************************)
(* As long as no two tasks end in one tick, the vector does not move under *)
(* the loop and no two threads are in its fields at once: the thread does  *)
(* not trap, and between the ticks the vector holds the tasks that have    *)
(* not ended, in their order, whatever is added while a loop is under way. *)
(***************************************************************************)
THEOREM OpenTasksAreHeld == SchedSpec => []HoldsOpenTasks
<1>1. SchedInit => SchedInv
  <2> SUFFICES ASSUME SchedInit PROVE Good
    BY DEF SchedInv
  <2>1. /\ task = <<>> /\ tasks = <<>> /\ seen = <<>> /\ to_remove = <<>> /\ index = 0
        /\ at = "off" /\ aborted = FALSE /\ adding = [a \in Adders |-> 0]
    BY DEF SchedInit
  <2>2. SchedTypes /\ ~aborted
    BY <2>1 DEF SchedTypes
  <2>3. Ordered /\ Looping /\ Removing /\ OnlyOpen /\ AllOpen /\ Alone
    BY <2>1 DEF Ordered, Looping, Removing, OnlyOpen, AllOpen, Alone
  <2> QED BY <2>2, <2>3 DEF Good
<1>2. SchedInv /\ [SchedNext]_schedVars => SchedInv'
  <2> SUFFICES ASSUME SchedInv, [SchedNext]_schedVars, Undisturbed' PROVE Good'
    BY DEF SchedInv
  <2>1. CASE SchedNext
    <3>1. Undisturbed /\ Good
      BY <2>1, Undone DEF SchedInv
    <3>2. ~VisitMoved /\ ~Overrun /\ race = "no" /\ race' = "no"
      BY <3>1 DEF Undisturbed, VisitMoved, Overrun
    <3>3. ASSUME NEW a \in Adders, NEW t \in NewTasks, AddTask(a, t) PROVE Good'
      BY <3>1, <3>2, <3>3, AddGood
    <3>4. ASSUME NEW a \in Adders, Added(a) PROVE Good'
      BY <3>1, <3>2, <3>4, AddedGood
    <3> QED BY <2>1, <3>1, <3>2, <3>3, <3>4, VisitGood, EraseGood, OtherGood
            DEF SchedNext, MainTask, EmplaceBackEnds
  <2>2. CASE UNCHANGED schedVars
    <3>1. UNCHANGED <<task, adding, tasks, race, seen, to_remove, index, at, aborted, moved, several>>
      BY <2>2 DEF schedVars, tickVars
    <3>2. Good
      BY <3>1 DEF SchedInv, Undisturbed
    <3> QED BY <3>1, <3>2 DEF Good, SchedTypes, Ordered, Looping, Removing, OnlyOpen, AllOpen,
                              Unended, Ending, Alone, Newest, BeingAdded
  <2> QED BY <2>1, <2>2
<1>3. SchedInv => HoldsOpenTasks
  <2> SUFFICES ASSUME Good PROVE ~aborted /\ (at \in {"off", "begin"} => HoldsThoseOpen)
    BY DEF SchedInv, HoldsOpenTasks
  <2>1. /\ DOMAIN tasks = 1..Len(tasks) /\ DOMAIN task = 1..Len(task)
        /\ ToSet(tasks) = {tasks[j] : j \in 1..Len(tasks)}
    <3>1. DOMAIN tasks = 1..Len(tasks)
      BY DEF Good, SchedTypes
    <3>2. DOMAIN task = 1..Len(task)
      BY DEF Good, SchedTypes
    <3>3. ToSet(tasks) = {tasks[j] : j \in DOMAIN tasks}
      BY DEF ToSet
    <3> QED BY <3>1, <3>2, <3>3
  <2>2. \A i \in 1..Len(task) : Open(i) <=> Unended(i)
    <3>1. \A i \in 1..Len(task) : task[i] \in Task
      BY DEF Good, SchedTypes
    <3>2. \A i \in 1..Len(task) : task[i].disposed \in BOOLEAN
      BY <3>1 DEF Task
    <3> QED BY <3>2, Zenon DEF Open, Unended
  <2>3. ASSUME at \in {"off", "begin"} PROVE HoldsThoseOpen
    <3>1. \A j \in 1..Len(tasks) : ~Ending(j)
      BY <2>3 DEF Good, Looping, Ending
    <3>2. \A j \in 1..Len(tasks) : tasks[j] \in 1..Len(task) /\ Open(tasks[j])
      BY <2>2, <3>1 DEF Good, OnlyOpen, Ordered
    <3>21. ASSUME NEW j \in 1..Len(tasks) PROVE ~BeingAdded(tasks[j])
      <4> SUFFICES ASSUME NEW a \in Adders, adding[a] = tasks[j] PROVE FALSE
        BY DEF BeingAdded
      <4>1. adding[a] # 0
        BY <3>2
      <4>2. tasks[j] = Len(task) /\ tasks[j] < Len(task)
        BY <4>1 DEF Good, Alone, Newest
      <4> QED BY <3>2, <4>2
    <3>3. \A i \in 1..Len(task) :
            Open(i) /\ ~BeingAdded(i) => \E j \in 1..Len(tasks) : tasks[j] = i
      BY <2>2 DEF Good, AllOpen
    <3> QED BY <2>1, <3>2, <3>21, <3>3 DEF HoldsThoseOpen, Good, Ordered
  <2> QED BY <2>3 DEF Good
<1> QED BY <1>1, <1>2, <1>3, PTL DEF SchedSpec

(***************************************************************************)
(*                                                                         *)
(*                                Steering                                 *)
(*                                                                         *)
(***************************************************************************)
Marks == SUBSET {"offset", "reset"}
Normalizers == [input : Int, offset : Int, prev_input : Int, value : Int,
                output : Int, anew : Marks]

(***************************************************************************)
(* The sum is the last input that was added, but for full turns: it begins *)
(* with it and is reset with it.  So what a reset forgets of the output,   *)
(* the next input brings back.                                             *)
(***************************************************************************)
Sound(n) ==
  /\ n \in Normalizers
  /\ SameAngle(n.value, n.prev_input)
  /\ "offset" \notin n.anew => SameAngle(n.output, n.input + n.offset)

Plain(n) == Sound(n) /\ n.offset = 0 /\ "offset" \notin n.anew

WheelSound(w) ==
  /\ w \in [velocity : (-1..1) \X (-1..1), rotation : Int, drive_ : Int,
            goal : Normalizers, feedback : Normalizers]
  /\ Sound(w.goal)
  /\ Plain(w.feedback)

TurnSound(t) ==
  /\ t \in [rot_in : Normalizers, self_rot : Normalizers, gain : Nat,
            output_ : Int, selected_ : {0, 1}]
  /\ Plain(t.rot_in)
  /\ Plain(t.self_rot)

Kept ==
  /\ enabled \in BOOLEAN /\ angle_out \in Int
  /\ encoder \in [value : Int, inv_ : BOOLEAN]
  /\ WheelSound(wheel)
  /\ TurnSound(turn)
  /\ RotationFollows

(***************************************************************************)
(* Angles.                                                                 *)
(***************************************************************************)
LEMMA Shortening ==
  ASSUME NEW d \in Int
  PROVE  Shorter(d) \in Int /\ SameAngle(Shorter(d), d)
<1>1. CASE d > 180
  BY <1>1, SMT DEF Shorter, SameAngle
<1>2. CASE d < -180
  BY <1>2, SMT DEF Shorter, SameAngle
<1>3. CASE ~(d > 180) /\ ~(d < -180)
  BY <1>3, SMT DEF Shorter, SameAngle
<1> QED BY <1>1, <1>2, <1>3

LEMMA Summing ==
  ASSUME NEW value \in Int, NEW prev \in Int, NEW new \in Int, NEW step \in Int,
         SameAngle(value, prev), SameAngle(step, new - prev)
  PROVE  SameAngle(value + step, new)
BY SMT DEF SameAngle

LEMMA SmoothSound ==
  ASSUME NEW n \in Normalizers, SameAngle(n.value, n.prev_input)
  PROVE  /\ Sound(Smooth(n)) /\ "offset" \notin Smooth(n).anew
         /\ Smooth(n).input = n.input /\ Smooth(n).offset = n.offset
<1> DEFINE new == n.input + n.offset
           sum == n.value + Shorter(new - n.prev_input)
           out == IF new = 0 /\ sum % 360 = 0 THEN 0 ELSE sum
<1>1. new \in Int /\ n.prev_input \in Int /\ n.value \in Int
  BY DEF Normalizers
<1>2. sum \in Int /\ SameAngle(sum, new)
  <2> HIDE DEF new
  <2>1. new - n.prev_input \in Int
    BY <1>1
  <2> QED BY <1>1, <2>1, Shortening, Summing
<1>3. out \in Int /\ SameAngle(out, new)
  <2> HIDE DEF new, sum
  <2>1. CASE new = 0 /\ sum % 360 = 0
    BY <2>1, SMT DEF SameAngle
  <2>2. CASE ~(new = 0 /\ sum % 360 = 0)
    BY <2>2, <1>2
  <2> QED BY <2>1, <2>2
<1>4. Smooth(n) = [n EXCEPT !.prev_input = new, !.value = out, !.output = out, !.anew = {}]
  BY DEF Smooth
<1> HIDE DEF new, sum, out
<1>5. /\ Smooth(n) \in Normalizers
      /\ Smooth(n).prev_input = new /\ Smooth(n).value = out /\ Smooth(n).output = out
      /\ Smooth(n).anew = {} /\ Smooth(n).input = n.input /\ Smooth(n).offset = n.offset
  BY <1>1, <1>3, <1>4 DEF Normalizers, Marks
<1>6. new = n.input + n.offset
  BY DEF new
<1> QED BY <1>3, <1>5, <1>6 DEF Sound

LEMMA SetInputSound ==
  ASSUME NEW n, Sound(n), NEW x \in Int
  PROVE  /\ Sound(SetInput(n, x))
         /\ SetInput(n, x).input = x /\ SetInput(n, x).offset = n.offset
         /\ "offset" \notin n.anew => "offset" \notin SetInput(n, x).anew
<1>1. CASE x = n.input
  BY <1>1 DEF SetInput
<1>2. CASE x # n.input
  <2> DEFINE m == [n EXCEPT !.input = x]
  <2>1. /\ m \in Normalizers /\ SameAngle(m.value, m.prev_input)
        /\ m.input = x /\ m.offset = n.offset
    BY DEF Sound, Normalizers
  <2>2. SetInput(n, x) = Smooth(m)
    BY <1>2 DEF SetInput
  <2> HIDE DEF m
  <2> QED BY <2>1, <2>2, SmoothSound
<1> QED BY <1>1, <1>2

LEMMA SetInputPlain ==
  ASSUME NEW n, Plain(n), NEW x \in Int
  PROVE  Plain(SetInput(n, x)) /\ SetInput(n, x).input = x
BY SetInputSound DEF Plain

LEMMA Marking ==
  ASSUME NEW n \in Normalizers, NEW m \in {"offset", "reset"}
  PROVE  n.anew \cup {m} \in Marks /\ {} \in Marks
<1>1. n.anew \in Marks
  BY DEF Normalizers
<1> QED BY <1>1 DEF Marks

LEMMA ResetSound ==
  ASSUME NEW n, Sound(n)
  PROVE  Sound(Reset(n)) /\ (Plain(n) => Plain(Reset(n)))
<1>1. n \in Normalizers
  BY DEF Sound
<1> DEFINE marks == n.anew \cup {"reset"}
           zero == 0
<1>2. Reset(n) = [n EXCEPT !.prev_input = zero, !.value = zero, !.anew = marks]
  BY DEF Reset
<1>3. marks \in Marks /\ ("offset" \in marks <=> "offset" \in n.anew)
  BY <1>1, Marking
<1>4. zero \in Int /\ SameAngle(zero, zero)
  BY SMT DEF SameAngle
<1> HIDE DEF marks, zero
<1>5. /\ Reset(n) \in Normalizers
      /\ Reset(n).value = zero /\ Reset(n).prev_input = zero /\ Reset(n).anew = marks
      /\ Reset(n).output = n.output /\ Reset(n).input = n.input
      /\ Reset(n).offset = n.offset
  BY <1>1, <1>2, <1>3, <1>4 DEF Normalizers
<1> QED BY <1>3, <1>4, <1>5 DEF Sound, Plain

LEMMA SetOffsetSound ==
  ASSUME NEW n, Sound(n), NEW x \in Int
  PROVE  Sound(SetOffset(n, x))
<1>1. n \in Normalizers
  BY DEF Sound
<1>2. n.anew \cup {"offset"} \in Marks
  BY <1>1, Marking
<1> DEFINE marks == n.anew \cup {"offset"}
<1>3. SetOffset(n, x) = [n EXCEPT !.offset = x, !.anew = marks]
  BY DEF SetOffset
<1>4. "offset" \in marks
  OBVIOUS
<1> HIDE DEF marks
<1>5. marks \in Marks
  BY <1>2 DEF marks
<1>6. /\ SetOffset(n, x) \in Normalizers /\ SetOffset(n, x).anew = marks
      /\ SetOffset(n, x).value = n.value /\ SetOffset(n, x).prev_input = n.prev_input
  BY <1>1, <1>3, <1>5 DEF Normalizers
<1> QED BY <1>4, <1>6 DEF Sound

(***************************************************************************)
(* The direction of the wheel.                                             *)
(***************************************************************************)
LEMMA SinBounded ==
  ASSUME NEW a \in Int
  PROVE  Sin(a) \in -100..100
<1>1. ((a \div 45) % 8) + 1 \in 1..8
  BY SMT
<1> QED BY <1>1, SMT DEF Sin

LEMMA Directions ==
  ASSUME NEW x \in -1..1, NEW y \in -1..1
  PROVE  Direction(x, y) \in -180..180 /\ Opposite(Direction(x, y)) \in -180..180
<1>1. Direction(x, y) \in -180..180
  BY SMT DEF Direction
<1> QED BY <1>1, SMT DEF Opposite

\* The wheel is given a power and a goal within half a turn, and nothing else.
LEMMA UpdateForm ==
  ASSUME NEW w, WheelSound(w)
  PROVE  \E power \in Int, goal \in -180..180 :
           UpdateAnglePower(w) = [w EXCEPT !.drive_ = power, !.goal = SetInput(w.goal, goal)]
<1> DEFINE x == -w.velocity[2]
           y == -w.velocity[1]
           turned == w.rotation * Sin(angle_deg + Direction(x, y))
           factor == 27000 + turned
           strength == CASE x # 0 /\ y # 0 -> 141
                         [] x = 0 /\ y = 0 -> 0
                         [] OTHER -> 100
           power == (strength * (IF factor < 0 THEN -factor ELSE factor)) \div 27000
           goal == CASE power < 5 -> 0
                     [] power >= 5 /\ factor > 0 -> Direction(x, y)
                     [] OTHER -> Opposite(Direction(x, y))
<1>1. x \in -1..1 /\ y \in -1..1 /\ w.rotation \in Int
  BY DEF WheelSound
<1>2. Direction(x, y) \in -180..180 /\ Opposite(Direction(x, y)) \in -180..180
  BY <1>1, Directions
<1> HIDE DEF x, y
<1>3. angle_deg + Direction(x, y) \in Int
  <2>1. angle_deg \in Int
    BY SteeringAssumption
  <2>2. Direction(x, y) \in Int
    BY <1>2
  <2> HIDE DEF x, y
  <2> QED BY <2>1, <2>2
<1>4. Sin(angle_deg + Direction(x, y)) \in Int
  BY <1>3, SinBounded
<1>5. factor \in Int
  BY <1>1, <1>4
<1> HIDE DEF turned, factor
<1>6. power \in Int
  <2>1. strength \in {0, 100, 141}
    OBVIOUS
  <2> DEFINE size == IF factor < 0 THEN -factor ELSE factor
  <2>2. size \in Int
    BY <1>5
  <2>3. power = (strength * size) \div 27000
    OBVIOUS
  <2> HIDE DEF strength, size, power
  <2>4. strength * size \in Int
    BY <2>1, <2>2
  <2> QED BY <2>3, <2>4, SMT
<1> HIDE DEF power
<1>7. goal \in -180..180
  BY <1>2, <1>5, <1>6
<1>8. UpdateAnglePower(w) = [w EXCEPT !.drive_ = power, !.goal = SetInput(w.goal, goal)]
  BY DEF UpdateAnglePower, x, y, factor, turned, power
<1> HIDE DEF goal
<1> QED BY <1>6, <1>7, <1>8

LEMMA UpdateSound ==
  ASSUME NEW w, WheelSound(w)
  PROVE  WheelSound(UpdateAnglePower(w)) /\ UpdateAnglePower(w).rotation = w.rotation
<1>1. PICK power \in Int, goal \in -180..180 :
        UpdateAnglePower(w) = [w EXCEPT !.drive_ = power, !.goal = SetInput(w.goal, goal)]
  BY UpdateForm
<1>2. Sound(SetInput(w.goal, goal))
  BY SetInputSound DEF WheelSound
<1> QED BY <1>1, <1>2 DEF WheelSound, Sound

LEMMA VelocitySound ==
  ASSUME NEW w, WheelSound(w), NEW v \in (-1..1) \X (-1..1)
  PROVE  WheelSound(SetVelocity(w, v)) /\ SetVelocity(w, v).rotation = w.rotation
<1>1. /\ WheelSound([w EXCEPT !.velocity = v])
      /\ [w EXCEPT !.velocity = v].rotation = w.rotation
  BY DEF WheelSound
<1> QED BY <1>1, UpdateSound DEF SetVelocity

LEMMA RotationSound ==
  ASSUME NEW w, WheelSound(w), NEW r \in Int
  PROVE  WheelSound(SetRotation(w, r)) /\ SetRotation(w, r).rotation = r
<1>1. WheelSound([w EXCEPT !.rotation = r]) /\ [w EXCEPT !.rotation = r].rotation = r
  BY DEF WheelSound
<1> QED BY <1>1, UpdateSound DEF SetRotation

LEMMA Fresh == Plain(Normalizer)
<1>1. SameAngle(0, 0) /\ SameAngle(0, 0 + 0)
  BY SMT DEF SameAngle
<1>2. {} \in Marks
  BY DEF Marks
<1>3. Normalizer \in Normalizers
  BY <1>2 DEF Normalizer, Normalizers
<1> QED BY <1>1, <1>3 DEF Plain, Sound, Normalizer

(***************************************************************************)
(* What every input keeps.                                                 *)
(***************************************************************************)
LEMMA Starts == SteerInit => Kept
<1> SUFFICES ASSUME SteerInit PROVE Kept
  OBVIOUS
<1>1. WheelSound(wheel)
  BY Fresh DEF SteerInit, WheelSound, Plain, Sound
<1>2. TurnSound(turn)
  BY Fresh DEF SteerInit, TurnSound, Plain, Sound
<1>3. RotationFollows
  BY DEF SteerInit, RotationFollows, Rotation
<1>4. enabled \in BOOLEAN
  BY Zenon DEF SteerInit
<1>5. angle_out \in Int
  BY DEF SteerInit
<1>6. encoder \in [value : Int, inv_ : BOOLEAN]
  BY DEF SteerInit
<1> QED BY <1>1, <1>2, <1>3, <1>4, <1>5, <1>6 DEF Kept

\* A rotation is a number, whichever is selected.
LEMMA RotationTyped ==
  ASSUME NEW t, TurnSound(t)
  PROVE  Rotation(t) \in Int
BY DEF TurnSound, Rotation, Normalizers

LEMMA JoyStickKeeps ==
  ASSUME Kept, NEW v \in Sticks, JoyStick(v)
  PROVE  Kept'
<1>1. v \in (-1..1) \X (-1..1)
  BY SteeringAssumption
<1>2. WheelSound(wheel') /\ wheel'.rotation = wheel.rotation
  BY <1>1, VelocitySound DEF JoyStick, Kept
<1> QED BY <1>2 DEF JoyStick, Kept, RotationFollows

LEMMA AngleCtrlKeeps ==
  ASSUME WheelSound(wheel), TurnSound(turn), RotationFollows,
         NEW a \in Int, SetAngleCtrl(a)
  PROVE  WheelSound(wheel') /\ TurnSound(turn') /\ RotationFollows'
<1> DEFINE rot_in == SetInput(turn.rot_in, a)
<1>1. Plain(rot_in) /\ rot_in.input = a
  BY SetInputPlain DEF TurnSound
<1>2. turn' = [turn EXCEPT !.rot_in = rot_in]
  BY DEF SetAngleCtrl
<1> HIDE DEF rot_in
<1>3. TurnSound(turn')
  BY <1>1, <1>2 DEF TurnSound, Plain, Sound
<1>4. /\ turn'.selected_ = turn.selected_ /\ turn'.output_ = turn.output_
      /\ turn'.rot_in.input = a
  BY <1>1, <1>2 DEF TurnSound
<1>5. CASE turn.selected_ = 1
  <2>1. wheel' = SetRotation(wheel, a)
    BY <1>5 DEF SetAngleCtrl
  <2> QED BY <1>3, <1>4, <1>5, <2>1, RotationSound DEF RotationFollows, Rotation
<1>6. CASE turn.selected_ # 1
  <2>1. wheel' = wheel /\ turn.selected_ = 0
    BY <1>6 DEF SetAngleCtrl, TurnSound
  <2> QED BY <1>3, <1>4, <2>1 DEF RotationFollows, Rotation
<1> QED BY <1>5, <1>6

LEMMA ActionKeeps ==
  ASSUME Kept, NEW angle \in {-45, 45}, Action(angle)
  PROVE  Kept'
<1>1. angle_out' \in Int
  BY DEF Kept, Action
<1>2. WheelSound(wheel') /\ TurnSound(turn') /\ RotationFollows'
  BY <1>1, AngleCtrlKeeps DEF Kept, Action
<1> QED BY <1>1, <1>2 DEF Kept, Action

LEMMA BooleanKeeps ==
  ASSUME Kept, NEW on \in BOOLEAN, Boolean(on)
  PROVE  Kept'
<1>1. CASE on = enabled
  BY <1>1 DEF Kept, Boolean, RotationFollows
<1>2. CASE on # enabled
  <2> PICK chosen \in {0, 1} : Select(chosen)
    BY <1>2 DEF Boolean, SetAnglePID
  <2>1. TurnSound(turn')
    BY DEF Select, Kept, TurnSound
  <2>2. WheelSound(wheel') /\ wheel'.rotation = Rotation(turn')
    BY <2>1, RotationTyped, RotationSound DEF Select, Kept
  <2> QED BY <2>1, <2>2 DEF Kept, Boolean, RotationFollows
<1> QED BY <1>1, <1>2

LEMMA EncoderKeeps ==
  ASSUME Kept, NEW e \in [value : Int, inv_ : BOOLEAN], SetEncoder(e)
  PROVE  Kept'
<1> DEFINE feedback == SetInput(wheel.feedback, e.value)
<1>1. Plain(feedback)
  BY SetInputPlain DEF Kept, WheelSound
<1>2. wheel' = [wheel EXCEPT !.feedback = feedback]
  BY DEF SetEncoder
<1> HIDE DEF feedback
<1>3. WheelSound(wheel') /\ wheel'.rotation = wheel.rotation
  BY <1>1, <1>2 DEF Kept, WheelSound, Plain, Sound
<1> QED BY <1>3 DEF Kept, SetEncoder, RotationFollows

LEMMA ParseKeeps ==
  ASSUME Kept, NEW raw \in RawAngles, ParseEncoder(raw)
  PROVE  Kept'
<1> DEFINE value == raw + ZeroOf(WheelId) + (IF encoder.inv_ THEN 179 ELSE 0)
<1>1. ZeroOf(WheelId) \in Int
  BY SteeringAssumption DEF ZeroOf
<1>2. raw \in Int
  BY SteeringAssumption
<1>3. value \in Int
  BY <1>1, <1>2
<1> HIDE DEF value
<1>4. OnCircle(value) \in Int
  BY <1>3 DEF OnCircle
<1>5. SetEncoder([encoder EXCEPT !.value = OnCircle(value)])
  BY DEF ParseEncoder, value
<1>6. [encoder EXCEPT !.value = OnCircle(value)] \in [value : Int, inv_ : BOOLEAN]
  BY <1>4 DEF Kept
<1> QED BY <1>5, <1>6, EncoderKeeps

LEMMA ToggleKeeps ==
  ASSUME Kept, NEW inv \in BOOLEAN, ToggleInv(inv)
  PROVE  Kept'
<1>1. OnCircle(encoder.value + 179) \in Int
  BY DEF Kept, OnCircle
<1> QED BY <1>1, EncoderKeeps DEF ToggleInv

LEMMA GainsKeep ==
  ASSUME Kept, NEW p \in Gains, SetGains(p)
  PROVE  Kept'
<1>1. TurnSound(turn') /\ Rotation(turn') = Rotation(turn)
  BY SteeringAssumption DEF Kept, SetGains, TurnSound, Rotation
<1> QED BY <1>1 DEF Kept, SetGains, RotationFollows

LEMMA RobotAngleKeeps ==
  ASSUME Kept, NEW a \in RobotAngles, SetRobotAngle(a)
  PROVE  Kept'
<1> DEFINE self_rot == SetInput(turn.self_rot, a)
<1>1. a \in Int
  BY SteeringAssumption
<1>2. Plain(self_rot)
  BY <1>1, SetInputPlain DEF Kept, TurnSound
<1>3. turn' = [turn EXCEPT !.self_rot = self_rot]
  BY DEF SetRobotAngle
<1> HIDE DEF self_rot
<1>4. TurnSound(turn') /\ Rotation(turn') = Rotation(turn)
  BY <1>2, <1>3 DEF Kept, TurnSound, Rotation, Plain, Sound
<1> QED BY <1>4 DEF Kept, SetRobotAngle, RotationFollows

LEMMA UpdateKeeps ==
  ASSUME Kept, Update
  PROVE  Kept'
<1> DEFINE out == turn.gain * (turn.rot_in.output - turn.self_rot.output)
<1>1. out \in Int
  <2>1. turn.gain \in Int
    BY DEF Kept, TurnSound
  <2>2. turn.rot_in.output - turn.self_rot.output \in Int
    BY DEF Kept, TurnSound, Normalizers
  <2> QED BY <2>1, <2>2
<1>2. turn' = [turn EXCEPT !.output_ = out]
  BY DEF Update
<1> HIDE DEF out
<1>3. /\ TurnSound(turn') /\ turn'.output_ = out
      /\ turn'.selected_ = turn.selected_ /\ turn'.rot_in = turn.rot_in
  BY <1>1, <1>2 DEF Kept, TurnSound
<1>4. CASE turn.selected_ = 0
  <2>1. wheel' = SetRotation(wheel, out)
    BY <1>3, <1>4 DEF Update
  <2>2. WheelSound(wheel') /\ wheel'.rotation = out
    BY <1>1, <2>1, RotationSound DEF Kept
  <2> QED BY <1>3, <1>4, <2>2 DEF Kept, Update, RotationFollows, Rotation
<1>5. CASE turn.selected_ # 0
  BY <1>3, <1>5 DEF Kept, Update, RotationFollows, Rotation
<1> QED BY <1>4, <1>5

LEMMA ResetKeeps ==
  ASSUME Kept, ResetSwerve
  PROVE  Kept'
<1> DEFINE goal == Reset(wheel.goal)
           feedback == Reset(wheel.feedback)
           rot_in == Reset(turn.rot_in)
           self_rot == Reset(turn.self_rot)
<1>1. Sound(goal) /\ Plain(feedback) /\ Plain(rot_in) /\ Plain(self_rot)
  BY ResetSound DEF Kept, WheelSound, TurnSound, Plain
<1>2. rot_in.input = turn.rot_in.input
  BY DEF Reset, Kept, TurnSound, Normalizers
<1>3. /\ wheel' = [wheel EXCEPT !.goal = goal, !.feedback = feedback]
      /\ turn' = [turn EXCEPT !.rot_in = rot_in, !.self_rot = self_rot]
  BY DEF ResetSwerve
<1> HIDE DEF goal, feedback, rot_in, self_rot
<1>4. WheelSound(wheel') /\ wheel'.rotation = wheel.rotation
  BY <1>1, <1>3 DEF Kept, WheelSound, Plain, Sound
<1>5. TurnSound(turn') /\ Rotation(turn') = Rotation(turn)
  BY <1>1, <1>2, <1>3 DEF Kept, TurnSound, Rotation, Plain, Sound
<1> QED BY <1>4, <1>5 DEF Kept, ResetSwerve, RotationFollows

LEMMA InverseKeeps ==
  ASSUME Kept, InverseSteerMotor
  PROVE  Kept'
<1> DEFINE sum == wheel.goal.offset + 180
           new == IF sum > 180 THEN sum - 360 ELSE sum
           goal == SetOffset(wheel.goal, new)
<1>1. new \in Int
  BY DEF Kept, WheelSound, Normalizers
<1>2. wheel' = [wheel EXCEPT !.goal = goal]
  BY DEF InverseSteerMotor
<1> HIDE DEF new
<1>3. Sound(goal)
  BY <1>1, SetOffsetSound DEF Kept, WheelSound
<1> HIDE DEF goal
<1>4. WheelSound(wheel') /\ wheel'.rotation = wheel.rotation
  BY <1>2, <1>3 DEF Kept, WheelSound, Sound
<1> QED BY <1>4 DEF Kept, InverseSteerMotor, RotationFollows

LEMMA Preserved == Kept /\ [SteerNext]_steerVars => Kept'
<1> SUFFICES ASSUME Kept, [SteerNext]_steerVars PROVE Kept'
  OBVIOUS
<1>1. CASE UNCHANGED steerVars
  BY <1>1 DEF steerVars, Kept, RotationFollows
<1>2. CASE SteerNext
  BY <1>2, JoyStickKeeps, ActionKeeps, BooleanKeeps, ParseKeeps, ToggleKeeps,
     GainsKeep, RobotAngleKeeps, UpdateKeeps, ResetKeeps, InverseKeeps
     DEF SteerNext, Input
<1> QED BY <1>1, <1>2

(***************************************************************************)
(* The errors of the PIDs are those of the angles.                         *)
(***************************************************************************)
LEMMA Differences ==
  ASSUME NEW a \in Int, NEW b \in Int, NEW c \in Int, NEW d \in Int,
         SameAngle(a, c), SameAngle(b, d)
  PROVE  SameAngle(a - b, c - d)
BY SMT DEF SameAngle

LEMMA PlainFollows ==
  ASSUME NEW n, Plain(n)
  PROVE  n.output \in Int /\ n.input \in Int /\ SameAngle(n.output, n.input)
<1>1. n.output \in Int /\ n.input \in Int
  BY DEF Plain, Sound, Normalizers
<1>2. SameAngle(n.output, n.input + 0)
  BY DEF Plain, Sound
<1> QED BY <1>1, <1>2

LEMMA KeptIsRight == Kept => ErrorsAreRight
<1> SUFFICES ASSUME Kept PROVE ErrorsAreRight
  OBVIOUS
<1>1. "offset" \notin wheel.goal.anew =>
        SameAngle(wheel.goal.output, wheel.goal.input + wheel.goal.offset)
  BY DEF Kept, WheelSound, Sound
<1>2. SameAngle(wheel.feedback.output, wheel.feedback.input)
  BY PlainFollows DEF Kept, WheelSound
<1>3. SameAngle(turn.rot_in.output - turn.self_rot.output,
                turn.rot_in.input - turn.self_rot.input)
  BY PlainFollows, Differences DEF Kept, TurnSound
<1> QED BY <1>1, <1>2, <1>3 DEF ErrorsAreRight

(***************************************************************************)
(* Whatever is reset, inverted, fed or selected in whatever order, goal    *)
(* and feedback differ, but for full turns, by what the PIDs take for      *)
(* their error (AngleNormalizer, swerve.hpp).                              *)
(***************************************************************************)
THEOREM Errors == SteerSpec => []ErrorsAreRight
<1>1. SteerSpec => []Kept
  BY Starts, Preserved, PTL DEF SteerSpec
<1> QED BY <1>1, KeptIsRight, PTL

(***************************************************************************)
(* The rotation of the wheels is always the selected input of the muxer    *)
(* as it is now (Muxer, swerve.hpp).                                       *)
(***************************************************************************)
THEOREM Follows == SteerSpec => []RotationFollows
<1>1. SteerSpec => []Kept
  BY Starts, Preserved, PTL DEF SteerSpec
<1>2. Kept => RotationFollows
  BY DEF Kept
<1> QED BY <1>1, <1>2, PTL

(***************************************************************************)
(* No normalizer makes a wheel or the robot turn the long way round.       *)
(* Shortening takes one turn off a change, so that the changes must be     *)
(* less than a turn and a half: the goal and the gyro stay within a turn,  *)
(* an encoder, which adds its zero and half a turn and takes off at most   *)
(* one turn, within 502 degrees, and the angle asked for moves by 45.      *)
(***************************************************************************)
\* Fed since it was reset or got another offset.
Fed(n) == n.anew = {}

Even(n) == Fed(n) => n.output = n.value /\ n.prev_input = n.input + n.offset

Within(n, from, to) == Even(n) /\ n.input \in from..to

GoalNarrow(n) == Within(n, -180, 180)

Narrow ==
  /\ GoalNarrow(wheel.goal)
  /\ Within(wheel.feedback, 0, 502) /\ encoder.value \in 0..502
  /\ Within(turn.self_rot, 0, 360)
  /\ Even(turn.rot_in) /\ turn.rot_in.input = angle_out

WheelGently(w, next) == Gently(w.goal, next.goal) /\ Gently(w.feedback, next.feedback)
TurnGently(t, next) == Gently(t.rot_in, next.rot_in) /\ Gently(t.self_rot, next.self_rot)

\* What Shorter brings within half a turn.
Correctable == -540..540

LEMMA Shortest ==
  ASSUME NEW d \in Correctable
  PROVE  Shorter(d) \in -180..180
BY SMT DEF Shorter, Correctable

LEMMA Stays ==
  ASSUME NEW n \in Normalizers, NEW next, next.output = n.output
  PROVE  Gently(n, next)
<1>1. n.output \in Int
  BY DEF Normalizers
<1>2. next.output - n.output \in -180..180
  BY <1>1
<1> QED BY <1>2 DEF Gently

\* A step of the sum is the shortened change of the input.
LEMMA SmoothGently ==
  ASSUME NEW n \in Normalizers, Fed(n) => n.output = n.value,
         Fed(n) => (n.input + n.offset) - n.prev_input \in Correctable
  PROVE  Even(Smooth(n)) /\ Gently(n, Smooth(n))
<1> DEFINE new == n.input + n.offset
           step == Shorter(new - n.prev_input)
           sum == n.value + step
           out == IF new = 0 /\ sum % 360 = 0 THEN 0 ELSE sum
<1>1. new \in Int /\ n.prev_input \in Int /\ n.value \in Int
  BY DEF Normalizers
<1>2. new - n.prev_input \in Int
  BY <1>1
<1>3. step \in Int
  <2> HIDE DEF new
  <2> QED BY <1>2, Shortening
<1>4. Fed(n) => step \in -180..180
  <2> SUFFICES ASSUME Fed(n) PROVE step \in -180..180
    OBVIOUS
  <2>1. new - n.prev_input \in Correctable
    BY DEF new
  <2> HIDE DEF new
  <2> QED BY <2>1, Shortest
<1>5. Smooth(n) = [n EXCEPT !.prev_input = new, !.value = out, !.output = out, !.anew = {}]
  BY DEF Smooth
<1>6. new = n.input + n.offset
  OBVIOUS
<1> HIDE DEF new
<1>7. out = 0 \/ out = n.value + step
  OBVIOUS
<1> HIDE DEF step, out
<1>8. /\ Smooth(n).output = out /\ Smooth(n).value = out /\ Smooth(n).prev_input = new
      /\ Smooth(n).input = n.input /\ Smooth(n).offset = n.offset
  BY <1>5 DEF Normalizers
<1>9. Even(Smooth(n))
  BY <1>6, <1>8 DEF Even, Fed
<1>10. CASE Fed(n) /\ out # 0
  <2>1. Smooth(n).output - n.output = (n.value + step) - n.value
    BY <1>7, <1>8, <1>10
  <2>2. Smooth(n).output - n.output = step
    BY <1>1, <1>3, <2>1
  <2> QED BY <1>4, <1>9, <1>10, <2>2 DEF Gently, Fed
<1> QED BY <1>8, <1>9, <1>10 DEF Gently, Fed

LEMMA SetInputGently ==
  ASSUME NEW n \in Normalizers, Even(n), NEW x \in Int, x - n.input \in Correctable
  PROVE  /\ Even(SetInput(n, x)) /\ Gently(n, SetInput(n, x))
         /\ SetInput(n, x).input = x
<1>1. CASE x = n.input
  BY <1>1, Stays DEF SetInput
<1>2. CASE x # n.input
  <2> DEFINE m == [n EXCEPT !.input = x]
  <2>1. /\ m \in Normalizers /\ m.input = x /\ m.offset = n.offset /\ m.value = n.value
        /\ m.output = n.output /\ m.prev_input = n.prev_input /\ m.anew = n.anew
    BY DEF Normalizers
  <2>2. SetInput(n, x) = Smooth(m)
    BY <1>2 DEF SetInput
  <2> HIDE DEF m
  <2>3. Fed(n) => (m.input + m.offset) - m.prev_input \in Correctable
    <3> SUFFICES ASSUME Fed(n) PROVE (m.input + m.offset) - m.prev_input \in Correctable
      OBVIOUS
    <3>1. m.prev_input = n.input + n.offset
      BY <2>1 DEF Even, Fed
    <3>2. n.input \in Int /\ n.offset \in Int
      BY DEF Normalizers
    <3>3. (m.input + m.offset) - m.prev_input = x - n.input
      BY <2>1, <3>1, <3>2
    <3> QED BY <3>3
  <2>4. Even(Smooth(m)) /\ Gently(m, Smooth(m))
    BY <2>1, <2>3, SmoothGently DEF Even, Fed
  <2>5. Smooth(m).input = x
    BY <2>1 DEF Smooth, Normalizers
  <2> QED BY <2>1, <2>2, <2>4, <2>5 DEF Gently, Fed
<1> QED BY <1>1, <1>2

\* What is reset keeps its output.
LEMMA ResetGently ==
  ASSUME NEW n \in Normalizers
  PROVE  Even(Reset(n)) /\ Gently(n, Reset(n)) /\ Reset(n).input = n.input
<1> DEFINE marks == n.anew \cup {"reset"}
<1>1. marks # {}
  OBVIOUS
<1>2. Reset(n) = [n EXCEPT !.prev_input = 0, !.value = 0, !.anew = marks]
  BY DEF Reset
<1> HIDE DEF marks
<1>3. Reset(n).output = n.output /\ Reset(n).input = n.input /\ Reset(n).anew = marks
  BY <1>2 DEF Normalizers
<1> QED BY <1>1, <1>3, Stays DEF Even, Fed

LEMMA OffsetGently ==
  ASSUME NEW n \in Normalizers, NEW x \in Int
  PROVE  Even(SetOffset(n, x)) /\ Gently(n, SetOffset(n, x)) /\ SetOffset(n, x).input = n.input
<1> DEFINE marks == n.anew \cup {"offset"}
<1>1. marks # {}
  OBVIOUS
<1>2. SetOffset(n, x) = [n EXCEPT !.offset = x, !.anew = marks]
  BY DEF SetOffset
<1> HIDE DEF marks
<1>3. /\ SetOffset(n, x).output = n.output /\ SetOffset(n, x).input = n.input
      /\ SetOffset(n, x).anew = marks
  BY <1>2 DEF Normalizers
<1> QED BY <1>1, <1>3, Stays DEF Even, Fed

LEMMA UpdateGently ==
  ASSUME NEW w, WheelSound(w), GoalNarrow(w.goal)
  PROVE  /\ GoalNarrow(UpdateAnglePower(w).goal)
         /\ Gently(w.goal, UpdateAnglePower(w).goal)
         /\ UpdateAnglePower(w).feedback = w.feedback
<1>1. PICK power \in Int, goal \in -180..180 :
        UpdateAnglePower(w) = [w EXCEPT !.drive_ = power, !.goal = SetInput(w.goal, goal)]
  BY UpdateForm
<1>2. /\ UpdateAnglePower(w).goal = SetInput(w.goal, goal)
      /\ UpdateAnglePower(w).feedback = w.feedback
  BY <1>1 DEF WheelSound
<1>3. w.goal \in Normalizers /\ Even(w.goal)
  BY DEF GoalNarrow, Within, WheelSound
<1>4. w.goal.input \in -180..180
  BY DEF GoalNarrow, Within
<1>5. \A i \in -180..180 : goal - i \in Correctable
  BY DEF Correctable
<1>6. goal \in Int /\ goal - w.goal.input \in Correctable
  BY <1>4, <1>5
<1>7. /\ Even(SetInput(w.goal, goal)) /\ Gently(w.goal, SetInput(w.goal, goal))
      /\ SetInput(w.goal, goal).input = goal
  BY <1>3, <1>6, SetInputGently
<1> QED BY <1>2, <1>7 DEF GoalNarrow, Within

LEMMA VelocityGently ==
  ASSUME NEW w, WheelSound(w), GoalNarrow(w.goal), NEW v \in (-1..1) \X (-1..1)
  PROVE  /\ GoalNarrow(SetVelocity(w, v).goal) /\ Gently(w.goal, SetVelocity(w, v).goal)
         /\ SetVelocity(w, v).feedback = w.feedback
<1> DEFINE u == [w EXCEPT !.velocity = v]
<1>1. WheelSound(u) /\ u.goal = w.goal /\ u.feedback = w.feedback
  BY DEF WheelSound
<1>2. SetVelocity(w, v) = UpdateAnglePower(u)
  BY DEF SetVelocity
<1> HIDE DEF u
<1> QED BY <1>1, <1>2, UpdateGently

LEMMA RotationGently ==
  ASSUME NEW w, WheelSound(w), GoalNarrow(w.goal), NEW r \in Int
  PROVE  /\ GoalNarrow(SetRotation(w, r).goal) /\ Gently(w.goal, SetRotation(w, r).goal)
         /\ SetRotation(w, r).feedback = w.feedback
<1> DEFINE u == [w EXCEPT !.rotation = r]
<1>1. WheelSound(u) /\ u.goal = w.goal /\ u.feedback = w.feedback
  BY DEF WheelSound
<1>2. SetRotation(w, r) = UpdateAnglePower(u)
  BY DEF SetRotation
<1> HIDE DEF u
<1> QED BY <1>1, <1>2, UpdateGently

(***************************************************************************)
(* Each input leaves the normalizers narrow and moves them gently.         *)
(***************************************************************************)
Gentle == Narrow' /\ WheelGently(wheel, wheel') /\ TurnGently(turn, turn')

LEMMA Near ==
  ASSUME NEW x \in 0..502, NEW y \in 0..502
  PROVE  x \in Int /\ x - y \in Correctable
BY SMT DEF Correctable

LEMMA Encoded ==
  ASSUME NEW raw \in -360..360, NEW zero \in 91..323, NEW half \in 0..179
  PROVE  OnCircle(raw + zero + half) \in 0..502
<1>1. raw + zero + half \in -269..862
  BY SMT
<1> DEFINE value == raw + zero + half
<1> HIDE DEF value
<1>2. value \in -269..862
  BY <1>1 DEF value
<1>3. OnCircle(value) \in 0..502
  BY <1>2 DEF OnCircle
<1> QED BY <1>3 DEF value

LEMMA StillWheel ==
  ASSUME Kept
  PROVE  WheelGently(wheel, wheel)
BY Stays DEF Kept, WheelSound, WheelGently

LEMMA StillTurn ==
  ASSUME Kept
  PROVE  TurnGently(turn, turn)
BY Stays DEF Kept, TurnSound, TurnGently

LEMMA JoyStickGently ==
  ASSUME Kept, Narrow, NEW v \in Sticks, JoyStick(v)
  PROVE  Gentle
<1>1. v \in (-1..1) \X (-1..1)
  BY SteeringAssumption
<1>2. /\ GoalNarrow(wheel'.goal) /\ Gently(wheel.goal, wheel'.goal)
      /\ wheel'.feedback = wheel.feedback
  BY <1>1, VelocityGently DEF JoyStick, Kept, Narrow
<1> QED BY <1>2, StillWheel, StillTurn DEF JoyStick, Gentle, Narrow, WheelGently

\* The wheel either stays or is given a rotation.
LEMMA TurnedGently ==
  ASSUME Kept, Narrow, NEW r \in Int, wheel' = wheel \/ wheel' = SetRotation(wheel, r)
  PROVE  /\ GoalNarrow(wheel'.goal) /\ WheelGently(wheel, wheel')
         /\ wheel'.feedback = wheel.feedback
<1>1. CASE wheel' = wheel
  BY <1>1, StillWheel DEF Narrow
<1>2. CASE wheel' = SetRotation(wheel, r)
  BY <1>2, RotationGently, StillWheel DEF Kept, Narrow, WheelGently
<1> QED BY <1>1, <1>2

LEMMA ActionGently ==
  ASSUME Kept, Narrow, NEW angle \in {-45, 45}, Action(angle)
  PROVE  Gentle
<1> DEFINE rot_in == SetInput(turn.rot_in, angle_out')
<1>1. angle_out' \in Int /\ angle_out' = angle_out + angle
  BY DEF Kept, Action
<1>2. turn.rot_in \in Normalizers /\ turn.self_rot \in Normalizers
  BY DEF Kept, TurnSound
<1>3. angle_out' - turn.rot_in.input \in Correctable
  BY <1>1, <1>2 DEF Narrow, Correctable, Kept
<1>4. Even(rot_in) /\ Gently(turn.rot_in, rot_in) /\ rot_in.input = angle_out'
  BY <1>1, <1>2, <1>3, SetInputGently DEF Narrow
<1>5. turn' = [turn EXCEPT !.rot_in = rot_in]
  BY DEF Action, SetAngleCtrl
<1> HIDE DEF rot_in
<1>6. turn'.rot_in = rot_in /\ turn'.self_rot = turn.self_rot
  BY <1>5 DEF Kept, TurnSound
<1>7. TurnGently(turn, turn')
  BY <1>4, <1>6, StillTurn DEF TurnGently
<1>8. /\ GoalNarrow(wheel'.goal) /\ WheelGently(wheel, wheel')
      /\ wheel'.feedback = wheel.feedback
  BY <1>1, TurnedGently DEF Action, SetAngleCtrl
<1> QED BY <1>4, <1>6, <1>7, <1>8 DEF Action, Gentle, Narrow

LEMMA BooleanGently ==
  ASSUME Kept, Narrow, NEW on \in BOOLEAN, Boolean(on)
  PROVE  Gentle
<1>1. CASE on = enabled
  BY <1>1, StillWheel, StillTurn DEF Boolean, Gentle, Narrow
<1>2. CASE on # enabled
  <2> PICK chosen \in {0, 1} : Select(chosen)
    BY <1>2 DEF Boolean, SetAnglePID
  <2>1. /\ TurnSound(turn') /\ turn'.rot_in = turn.rot_in
        /\ turn'.self_rot = turn.self_rot
    BY DEF Select, Kept, TurnSound
  <2>2. Rotation(turn') \in Int
    BY <2>1, RotationTyped
  <2>3. /\ GoalNarrow(wheel'.goal) /\ WheelGently(wheel, wheel')
        /\ wheel'.feedback = wheel.feedback
    BY <2>2, TurnedGently DEF Select
  <2>4. TurnGently(turn, turn')
    BY <2>1, StillTurn DEF TurnGently
  <2> QED BY <2>1, <2>3, <2>4 DEF Boolean, Gentle, Narrow
<1> QED BY <1>1, <1>2

LEMMA EncoderGently ==
  ASSUME Kept, Narrow, NEW e \in [value : 0..502, inv_ : BOOLEAN], SetEncoder(e)
  PROVE  Gentle
<1> DEFINE feedback == SetInput(wheel.feedback, e.value)
<1>1. wheel.feedback \in Normalizers /\ Even(wheel.feedback)
  BY DEF Kept, WheelSound, Narrow, Within
<1>2. wheel.feedback.input \in 0..502
  BY DEF Narrow, Within
<1>3. e.value \in Int /\ e.value - wheel.feedback.input \in Correctable
  BY <1>2, Near
<1>4. /\ Even(feedback) /\ Gently(wheel.feedback, feedback)
      /\ feedback.input = e.value
  BY <1>1, <1>2, <1>3, SetInputGently
<1>5. wheel' = [wheel EXCEPT !.feedback = feedback]
  BY DEF SetEncoder
<1> HIDE DEF feedback
<1>6. wheel'.feedback = feedback /\ wheel'.goal = wheel.goal
  BY <1>5 DEF Kept, WheelSound
<1>7. WheelGently(wheel, wheel')
  BY <1>4, <1>6, StillWheel DEF WheelGently
<1>8. e.value \in 0..502
  OBVIOUS
<1> QED BY <1>4, <1>6, <1>7, <1>8, StillTurn DEF SetEncoder, Gentle, Narrow, Within

LEMMA ParseGently ==
  ASSUME Kept, Narrow, NEW raw \in RawAngles, ParseEncoder(raw)
  PROVE  Gentle
<1> DEFINE half == IF encoder.inv_ THEN 179 ELSE 0
           value == raw + ZeroOf(WheelId) + half
<1>1. ZeroOf(WheelId) \in 91..323
  BY SteeringAssumption DEF ZeroOf
<1>2. raw \in -360..360
  BY SteeringAssumption
<1>3. half \in 0..179
  OBVIOUS
<1> HIDE DEF half
<1>4. OnCircle(value) \in 0..502
  BY <1>1, <1>2, <1>3, Encoded
<1> HIDE DEF value
<1>5. SetEncoder([encoder EXCEPT !.value = OnCircle(value)])
  BY DEF ParseEncoder, value, half
<1>6. [encoder EXCEPT !.value = OnCircle(value)] \in [value : 0..502, inv_ : BOOLEAN]
  BY <1>4 DEF Kept
<1> QED BY <1>5, <1>6, EncoderGently

LEMMA ToggleGently ==
  ASSUME Kept, Narrow, NEW inv \in BOOLEAN, ToggleInv(inv)
  PROVE  Gentle
<1> DEFINE value == encoder.value + 179
<1>1. value \in 179..681
  BY DEF Narrow
<1> HIDE DEF value
<1>2. OnCircle(value) \in 0..502
  BY <1>1 DEF OnCircle
<1>3. SetEncoder([value |-> OnCircle(value), inv_ |-> inv])
  BY DEF ToggleInv, value
<1>4. [value |-> OnCircle(value), inv_ |-> inv] \in [value : 0..502, inv_ : BOOLEAN]
  BY <1>2
<1> QED BY <1>3, <1>4, EncoderGently

LEMMA GainsGently ==
  ASSUME Kept, Narrow, NEW p \in Gains, SetGains(p)
  PROVE  Gentle
<1>1. turn'.rot_in = turn.rot_in /\ turn'.self_rot = turn.self_rot
  BY DEF Kept, SetGains, TurnSound
<1> QED BY <1>1, StillWheel, StillTurn DEF SetGains, Gentle, Narrow, TurnGently

LEMMA RobotAngleGently ==
  ASSUME Kept, Narrow, NEW a \in RobotAngles, SetRobotAngle(a)
  PROVE  Gentle
<1> DEFINE self_rot == SetInput(turn.self_rot, a)
<1>1. turn.self_rot \in Normalizers /\ Even(turn.self_rot)
  BY DEF Kept, TurnSound, Narrow, Within
<1>2. a \in 0..360 /\ turn.self_rot.input \in 0..360
  BY SteeringAssumption DEF Narrow, Within
<1>3. a \in Int /\ a - turn.self_rot.input \in Correctable
  <2>1. a \in 0..502 /\ turn.self_rot.input \in 0..502
    BY <1>2
  <2> QED BY <2>1, Near
<1>4. Even(self_rot) /\ Gently(turn.self_rot, self_rot) /\ self_rot.input = a
  BY <1>1, <1>2, <1>3, SetInputGently
<1>5. turn' = [turn EXCEPT !.self_rot = self_rot]
  BY DEF SetRobotAngle
<1> HIDE DEF self_rot
<1>6. turn'.self_rot = self_rot /\ turn'.rot_in = turn.rot_in
  BY <1>5 DEF Kept, TurnSound
<1>7. TurnGently(turn, turn')
  BY <1>4, <1>6, StillTurn DEF TurnGently
<1> QED BY <1>2, <1>4, <1>6, <1>7, StillWheel DEF SetRobotAngle, Gentle, Narrow, Within

LEMMA UpdatedGently ==
  ASSUME Kept, Narrow, Update
  PROVE  Gentle
<1>1. Kept'
  BY UpdateKeeps
<1>2. turn'.output_ \in Int
  BY <1>1 DEF Kept, TurnSound
<1>3. turn'.rot_in = turn.rot_in /\ turn'.self_rot = turn.self_rot
  BY DEF Kept, Update, TurnSound
<1>4. /\ GoalNarrow(wheel'.goal) /\ WheelGently(wheel, wheel')
      /\ wheel'.feedback = wheel.feedback
  BY <1>2, TurnedGently DEF Update
<1> QED BY <1>3, <1>4, StillTurn DEF Update, Gentle, Narrow, TurnGently

LEMMA ResetsGently ==
  ASSUME Kept, Narrow, ResetSwerve
  PROVE  Gentle
<1> DEFINE goal == Reset(wheel.goal)
           feedback == Reset(wheel.feedback)
           rot_in == Reset(turn.rot_in)
           self_rot == Reset(turn.self_rot)
<1>1. /\ Even(goal) /\ Gently(wheel.goal, goal) /\ goal.input = wheel.goal.input
      /\ Even(feedback) /\ Gently(wheel.feedback, feedback)
      /\ feedback.input = wheel.feedback.input
      /\ Even(rot_in) /\ Gently(turn.rot_in, rot_in) /\ rot_in.input = turn.rot_in.input
      /\ Even(self_rot) /\ Gently(turn.self_rot, self_rot)
      /\ self_rot.input = turn.self_rot.input
  BY ResetGently DEF Kept, WheelSound, TurnSound
<1>2. /\ wheel' = [wheel EXCEPT !.goal = goal, !.feedback = feedback]
      /\ turn' = [turn EXCEPT !.rot_in = rot_in, !.self_rot = self_rot]
  BY DEF ResetSwerve
<1> HIDE DEF goal, feedback, rot_in, self_rot
<1>3. wheel'.goal = goal /\ wheel'.feedback = feedback
  BY <1>2 DEF Kept, WheelSound
<1>4. turn'.rot_in = rot_in /\ turn'.self_rot = self_rot
  BY <1>2 DEF Kept, TurnSound
<1>5. Narrow'
  BY <1>1, <1>3, <1>4 DEF ResetSwerve, Narrow, GoalNarrow, Within
<1>6. WheelGently(wheel, wheel')
  BY ONLY <1>1, <1>3 DEF WheelGently
<1>7. TurnGently(turn, turn')
  BY ONLY <1>1, <1>4 DEF TurnGently
<1> QED BY ONLY <1>5, <1>6, <1>7 DEF Gentle

LEMMA InverseGently ==
  ASSUME Kept, Narrow, InverseSteerMotor
  PROVE  Gentle
<1> DEFINE sum == wheel.goal.offset + 180
           new == IF sum > 180 THEN sum - 360 ELSE sum
           goal == SetOffset(wheel.goal, new)
<1>1. new \in Int
  BY DEF Kept, WheelSound, Normalizers
<1>2. wheel' = [wheel EXCEPT !.goal = goal]
  BY DEF InverseSteerMotor
<1> HIDE DEF new
<1>3. Even(goal) /\ Gently(wheel.goal, goal) /\ goal.input = wheel.goal.input
  BY <1>1, OffsetGently DEF Kept, WheelSound
<1> HIDE DEF goal
<1>4. wheel'.goal = goal /\ wheel'.feedback = wheel.feedback
  BY <1>2 DEF Kept, WheelSound
<1>5. WheelGently(wheel, wheel')
  BY <1>3, <1>4, StillWheel DEF WheelGently
<1>6. GoalNarrow(wheel'.goal)
  BY <1>3, <1>4 DEF Narrow, GoalNarrow, Within
<1> QED BY <1>4, <1>5, <1>6, StillTurn DEF InverseSteerMotor, Gentle, Narrow

LEMMA Gentles ==
  ASSUME Kept, Narrow, [SteerNext]_steerVars
  PROVE  Gentle
<1>1. CASE UNCHANGED steerVars
  BY <1>1, StillWheel, StillTurn DEF steerVars, Gentle, Narrow
<1>2. CASE SteerNext
  BY <1>2, JoyStickGently, ActionGently, BooleanGently, ParseGently, ToggleGently,
     GainsGently, RobotAngleGently, UpdatedGently, ResetsGently, InverseGently
     DEF SteerNext, Input
<1> QED BY <1>1, <1>2

LEMMA StartsNarrow == SteerInit => Narrow
<1> SUFFICES ASSUME SteerInit PROVE Narrow
  OBVIOUS
<1>1. Even(Normalizer) /\ Normalizer.input = 0
  BY DEF Even, Normalizer
<1>2. /\ wheel.goal = Normalizer /\ wheel.feedback = Normalizer
      /\ turn.rot_in = Normalizer /\ turn.self_rot = Normalizer
      /\ angle_out = 0 /\ encoder.value = 0
  BY DEF SteerInit
<1> QED BY <1>1, <1>2 DEF Narrow, GoalNarrow, Within

(***************************************************************************)
(* Whatever the stick, the encoders and the gyro say in whatever order, no *)
(* output moves by more than half a turn, but for resets, new offsets and  *)
(* the way back to zero (AngleNormalizer).                                 *)
(***************************************************************************)
THEOREM NeverTheLongWay == SteerSpec => ShortWay
<1>1. Kept /\ Narrow /\ [SteerNext]_steerVars => Kept' /\ Narrow'
  BY Preserved, Gentles DEF Gentle
<1>2. Kept /\ Narrow /\ [SteerNext]_steerVars =>
        [ /\ Gently(wheel.goal, wheel'.goal)
          /\ Gently(wheel.feedback, wheel'.feedback)
          /\ Gently(turn.rot_in, turn'.rot_in)
          /\ Gently(turn.self_rot, turn'.self_rot) ]_steerVars
  BY Gentles DEF Gentle, WheelGently, TurnGently
<1> QED BY <1>1, <1>2, Starts, StartsNarrow, PTL DEF SteerSpec, ShortWay
=============================================================================
