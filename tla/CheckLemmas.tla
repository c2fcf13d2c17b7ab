---------------------------- MODULE CheckLemmas ----------------------------
(* Lists: the least place, concatenations, and the lists of lists that the *)
(* requests of a check are made of, for lists of every length.             *)
EXTENDS CheckRun, WellFoundedInduction, TLAPS

-----------------------------------------------------------------------------
(* Induction: a set of numbers has a least one, so a set with zero and the *)
(* successor of everything in it has them all.                             *)

\* A set of numbers that is not empty has a least one.
LEMMA LeastNumber ==
    ASSUME NEW T \in SUBSET Nat, T # {}
    PROVE  \E m \in T : \A n \in T : m <= n
<1>1. PICK x \in T : \A y \in T : ~ (<<y, x>> \in OpToRel(<, Nat))
  BY NatLessThanWellFounded, WFMin
<1>2. ASSUME NEW y \in T, y < x
      PROVE  <<y, x>> \in OpToRel(<, Nat)
  <2>1. <<y, x>> \in Nat \X Nat /\ <<y, x>>[1] < <<y, x>>[2]
    BY <1>2
  <2> QED
    BY <2>1 DEF OpToRel
<1>3. \A y \in T : ~ (y < x)
  BY <1>1, <1>2
<1> QED
  BY <1>3

\* Min finds it.
LEMMA MinIsLeast ==
    ASSUME NEW T \in SUBSET Nat, T # {}
    PROVE  Min(T) \in T /\ \A n \in T : Min(T) <= n
<1>1. \E m \in T : \A n \in T : m =< n
  BY LeastNumber
<1> QED
  BY <1>1 DEF Min

\* What has zero, and with every number the next, has every number.
LEMMA EveryNumber ==
    ASSUME NEW T \in SUBSET Nat, 0 \in T, \A n \in T : n + 1 \in T
    PROVE  T = Nat
<1> SUFFICES ASSUME Nat \ T # {}
             PROVE  FALSE
  OBVIOUS
<1>1. PICK m \in Nat \ T : \A n \in Nat \ T : m <= n
  BY LeastNumber
<1>2. m # 0 /\ m - 1 \in Nat /\ m - 1 \in T
  BY <1>1
<1> QED
  BY <1>2

-----------------------------------------------------------------------------
(* Lists.                                                                  *)

IsList(q) == q \in Seq(Range(q))

\* A function on the first numbers is a list.
LEMMA Listing ==
    ASSUME NEW n \in Nat, NEW q, q = [i \in 1..n |-> q[i]]
    PROVE  IsList(q) /\ Len(q) = n /\ DOMAIN q = 1..n
<1>1. DOMAIN q = 1..n
  OBVIOUS
<1>2. q \in [1..n -> Range(q)]
  BY <1>1 DEF Range
<1>3. q \in Seq(Range(q)) /\ Len(q) = n
  BY <1>2
<1> QED
  BY <1>1, <1>3 DEF IsList

\* A sequence is a list, whatever it is a sequence of.
LEMMA SequenceIsList ==
    ASSUME NEW S, NEW q \in Seq(S)
    PROVE  IsList(q)
<1>1. Len(q) \in Nat /\ q = [i \in 1..Len(q) |-> q[i]]
  OBVIOUS
<1> QED
  BY <1>1, Listing

\* The elements of a concatenation.
LEMMA Concatenation ==
    ASSUME NEW p, NEW q, IsList(p), IsList(q)
    PROVE  /\ IsList(p \o q) /\ Len(p \o q) = Len(p) + Len(q)
           /\ \A i \in 1..Len(p) : (p \o q)[i] = p[i]
           /\ \A i \in 1..Len(q) : (p \o q)[Len(p) + i] = q[i]
           /\ \A i \in DOMAIN (p \o q) :
                 \/ i \in 1..Len(p) /\ (p \o q)[i] = p[i]
                 \/ i - Len(p) \in 1..Len(q) /\ (p \o q)[i] = q[i - Len(p)]
<1> DEFINE S == Range(p) \cup Range(q)
<1>1. p \in Seq(S) /\ q \in Seq(S)
  BY DEF IsList, Range
<1> HIDE DEF S
<1>2. /\ p \o q \in Seq(S) /\ Len(p \o q) = Len(p) + Len(q)
      /\ Len(p) \in Nat /\ Len(q) \in Nat
      /\ \A i \in 1..Len(p) : (p \o q)[i] = p[i]
      /\ \A i \in 1..Len(q) : (p \o q)[Len(p) + i] = q[i]
      /\ DOMAIN (p \o q) = 1..Len(p \o q)
      /\ \A i \in DOMAIN (p \o q) :
            \/ i \in 1..Len(p) /\ (p \o q)[i] = p[i]
            \/ i - Len(p) \in 1..Len(q) /\ (p \o q)[i] = q[i - Len(p)]
  BY <1>1
<1>3. IsList(p \o q)
  BY <1>2, SequenceIsList
<1> QED
  BY <1>2, <1>3

-----------------------------------------------------------------------------
(* Concatenations of lists of lists.                                       *)

\* The elements of flat are those of the first n lists of T in their order:
\* the i-th is at the place[i] of the list block[i].
LaidBy(T, n, flat, block, place) ==
    /\ \A i \in DOMAIN flat :
          /\ block[i] \in 1..n /\ place[i] \in DOMAIN T[block[i]]
          /\ flat[i] = T[block[i]][place[i]]
    /\ \A i, j \in DOMAIN flat :
          i < j => block[i] < block[j] \/ (block[i] = block[j] /\ place[i] < place[j])
    /\ \A a \in 1..n : \A x \in DOMAIN T[a] :
          \E i \in DOMAIN flat : block[i] = a /\ place[i] = x

LaidOut(T, n, flat) == IsList(flat) /\ \E block, place : LaidBy(T, n, flat, block, place)

\* One list is laid out by itself.
LEMMA LayingFirst ==
    ASSUME NEW T, IsList(T[1])
    PROVE  LaidOut(T, 1, T[1])
<1> DEFINE block == [i \in DOMAIN T[1] |-> 1]
           place == [i \in DOMAIN T[1] |-> i]
<1>1. DOMAIN T[1] \subseteq Nat
  BY DEF IsList
<1>2. LaidBy(T, 1, T[1], block, place)
  BY <1>1 DEF LaidBy
<1> QED
  BY <1>2 DEF LaidOut

\* The next list is laid out behind the others.
LEMMA LayingNext ==
    ASSUME NEW T, NEW n \in Nat, NEW flat, LaidOut(T, n, flat), IsList(T[n + 1])
    PROVE  LaidOut(T, n + 1, flat \o T[n + 1])
<1>1. PICK block, place : LaidBy(T, n, flat, block, place)
  BY DEF LaidOut
<1> DEFINE last == T[n + 1]
           whole == flat \o last
           b == [i \in DOMAIN whole |-> IF i <= Len(flat) THEN block[i] ELSE n + 1]
           p == [i \in DOMAIN whole |-> IF i <= Len(flat) THEN place[i] ELSE i - Len(flat)]
<1>2. IsList(flat) /\ IsList(last)
  BY DEF LaidOut
<1>3. /\ Len(flat) \in Nat /\ DOMAIN flat = 1..Len(flat)
      /\ Len(last) \in Nat /\ DOMAIN last = 1..Len(last)
  BY <1>2 DEF IsList
<1> HIDE DEF last
<1>4. /\ IsList(whole) /\ Len(whole) = Len(flat) + Len(last)
      /\ \A i \in 1..Len(flat) : whole[i] = flat[i]
      /\ \A i \in 1..Len(last) : whole[Len(flat) + i] = last[i]
  BY <1>2, Concatenation
<1>5. DOMAIN whole = 1..Len(flat) + Len(last)
  BY <1>3, <1>4 DEF IsList
<1> HIDE DEF whole
<1>6. \A i \in DOMAIN whole :
         /\ b[i] \in 1..n + 1 /\ p[i] \in DOMAIN T[b[i]] /\ whole[i] = T[b[i]][p[i]]
         /\ b[i] = n + 1 <=> i > Len(flat)
  <2> SUFFICES ASSUME NEW i \in DOMAIN whole
               PROVE  /\ b[i] \in 1..n + 1 /\ p[i] \in DOMAIN T[b[i]] /\ whole[i] = T[b[i]][p[i]]
                      /\ b[i] = n + 1 <=> i > Len(flat)
    OBVIOUS
  <2>1. CASE i <= Len(flat)
    <3>1. i \in DOMAIN flat /\ b[i] = block[i] /\ p[i] = place[i] /\ whole[i] = flat[i]
      BY <1>3, <1>4, <1>5, <2>1
    <3>2. /\ block[i] \in 1..n /\ place[i] \in DOMAIN T[block[i]]
          /\ flat[i] = T[block[i]][place[i]]
      BY <1>1, <3>1 DEF LaidBy
    <3>3. i \in Int /\ block[i] \in Int
      BY <1>5, <3>2
    <3> QED
      BY <1>3, <2>1, <3>1, <3>2, <3>3
  <2>2. CASE i > Len(flat)
    <3>1. i \in Int /\ b[i] = n + 1 /\ p[i] = i - Len(flat)
      BY <1>3, <1>5, <2>2
    <3>2. i - Len(flat) \in 1..Len(last)
      BY <1>3, <1>5, <2>2
    <3>3. whole[i] = last[i - Len(flat)]
      BY <1>3, <1>4, <3>1, <3>2
    <3> QED
      BY <1>3, <2>2, <3>1, <3>2, <3>3 DEF last
  <2> QED
    BY <1>3, <1>5, <2>1, <2>2
<1>7. ASSUME NEW i \in DOMAIN whole, NEW j \in DOMAIN whole, i < j
      PROVE  b[i] < b[j] \/ (b[i] = b[j] /\ p[i] < p[j])
  <2>0. i \in Int /\ j \in Int /\ Len(flat) \in Int
    BY <1>3, <1>5
  <2>1. CASE j <= Len(flat)
    <3>1. i \in DOMAIN flat /\ j \in DOMAIN flat
      BY <1>3, <1>5, <1>7, <2>1
    <3> QED
      BY <1>1, <1>3, <1>7, <2>0, <2>1, <3>1 DEF LaidBy
  <2>2. CASE i > Len(flat)
    BY <1>3, <1>7, <2>0, <2>2
  <2>3. CASE i <= Len(flat) /\ j > Len(flat)
    <3>1. b[j] = n + 1 /\ b[i] # n + 1 /\ b[i] \in 1..n + 1
      BY <1>6, <2>0, <2>3
    <3> QED
      BY <3>1
  <2> QED
    BY <2>0, <2>1, <2>2, <2>3
<1>8. ASSUME NEW a \in 1..n + 1, NEW x \in DOMAIN T[a]
      PROVE  \E i \in DOMAIN whole : b[i] = a /\ p[i] = x
  <2>1. CASE a # n + 1
    <3>1. a \in 1..n
      BY <2>1
    <3>2. PICK i \in DOMAIN flat : block[i] = a /\ place[i] = x
      BY <1>1, <3>1 DEF LaidBy
    <3>3. i \in DOMAIN whole /\ i <= Len(flat)
      BY <1>3, <1>5
    <3> QED
      BY <3>2, <3>3
  <2>2. CASE a = n + 1
    <3>1. x \in 1..Len(last)
      BY <1>3, <2>2 DEF last
    <3>2. Len(flat) + x \in DOMAIN whole
      BY <1>3, <1>5, <3>1
    <3>3. PICK i \in DOMAIN whole : i = Len(flat) + x
      BY <3>2
    <3>4. ~ (i <= Len(flat)) /\ i - Len(flat) = x
      BY <1>3, <3>1, <3>3
    <3>5. b[i] = a /\ p[i] = x
      BY <2>2, <3>4
    <3> QED
      BY <3>5
  <2> QED
    BY <2>1, <2>2
<1> HIDE DEF b, p
<1>9. LaidBy(T, n + 1, whole, b, p)
  BY <1>6, <1>7, <1>8 DEF LaidBy
<1> QED
  BY <1>4, <1>9 DEF LaidOut, whole, last

\* The partial concatenations of the first n lists of T.
PartsOf(T, n, f) == f = [i \in 1..n |-> IF i = 1 THEN T[i] ELSE f[i - 1] \o T[i]]

\* They exist, for every n.
LEMMA PartsExist ==
    ASSUME NEW T, NEW n \in Nat
    PROVE  \E f : PartsOf(T, n, f)
<1> DEFINE Done == {k \in Nat : \E f : PartsOf(T, k, f)}
<1>1. 0 \in Done
  <2>1. PartsOf(T, 0, [i \in 1..0 |-> <<>>])
    BY DEF PartsOf
  <2> QED
    BY <2>1
<1>2. ASSUME NEW k \in Done
      PROVE  k + 1 \in Done
  <2>1. PICK f : PartsOf(T, k, f)
    OBVIOUS
  <2> DEFINE Grown(g, i) == IF i = 1 THEN T[i] ELSE g[i - 1] \o T[i]
             g == [i \in 1..k + 1 |-> IF i <= k THEN f[i] ELSE Grown(f, i)]
  <2>2. k \in Nat /\ \A i \in 1..k : f[i] = Grown(f, i)
    BY <2>1 DEF PartsOf
  <2>3. \A i \in 1..k + 1 : (i <= k => g[i] = f[i]) /\ (~ (i <= k) => g[i] = Grown(f, i))
    OBVIOUS
  <2>4. \A i \in 1..k + 1 : i # 1 => i - 1 \in 1..k + 1 /\ i - 1 <= k
    BY <2>2
  <2>5. \A i \in 1..k + 1 : Grown(g, i) = Grown(f, i)
    <3> HIDE DEF g
    <3> QED
      BY <2>3, <2>4
  <2>6. \A i \in 1..k + 1 : i <= k => i \in 1..k
    BY <2>2
  <2>7. \A i \in 1..k + 1 : g[i] = Grown(g, i)
    <3> HIDE DEF g, Grown
    <3> QED
      BY <2>2, <2>3, <2>5, <2>6
  <2>8. PartsOf(T, k + 1, g)
    <3>1. g = [i \in 1..k + 1 |-> g[i]]
      OBVIOUS
    <3> HIDE DEF g
    <3> QED
      BY <2>7, <3>1 DEF PartsOf
  <2> QED
    BY <2>2, <2>8
<1> HIDE DEF Done
<1>3. Done = Nat
  BY <1>1, <1>2, EveryNumber DEF Done
<1> QED
  BY <1>3 DEF Done

\* The last of them is what FlattenSeq gives.
LEMMA FlattenUnfolds ==
    ASSUME NEW T, Len(T) \in Nat \ {0}
    PROVE  \E f : PartsOf(T, Len(T), f) /\ FlattenSeq(T) = f[Len(T)]
<1> DEFINE f == CHOOSE g : PartsOf(T, Len(T), g)
<1>1. PartsOf(T, Len(T), f)
  BY PartsExist
<1>2. FlattenSeq(T) = f[Len(T)]
  BY Zenon DEF FlattenSeq, PartsOf
<1> QED
  BY <1>1, <1>2

\* A concatenation of lists is laid out by them.
LEMMA FlattenKeepsOrder ==
    ASSUME NEW T, IsList(T), \A a \in DOMAIN T : IsList(T[a])
    PROVE  LaidOut(T, Len(T), FlattenSeq(T))
<1>1. Len(T) \in Nat /\ DOMAIN T = 1..Len(T)
  BY DEF IsList
<1>2. CASE Len(T) = 0
  <2>1. T = <<>> /\ FlattenSeq(T) = T
    BY <1>2 DEF FlattenSeq, IsList
  <2>2. LaidBy(T, 0, T, T, T) /\ IsList(T)
    BY <2>1 DEF LaidBy
  <2> QED
    BY <1>2, <2>1, <2>2 DEF LaidOut
<1>3. CASE Len(T) # 0
  <2>1. PICK f : PartsOf(T, Len(T), f) /\ FlattenSeq(T) = f[Len(T)]
    BY <1>1, <1>3, FlattenUnfolds
  <2>2. \A i \in 1..Len(T) : f[i] = IF i = 1 THEN T[i] ELSE f[i - 1] \o T[i]
    BY <2>1 DEF PartsOf
  <2> DEFINE Done == {k \in Nat : k + 1 \in 1..Len(T) => LaidOut(T, k + 1, f[k + 1])}
  <2>3. 0 \in Done
    <3>1. f[1] = T[1] /\ IsList(T[1])
      BY <1>1, <1>3, <2>2
    <3> QED
      BY <3>1, LayingFirst
  <2>4. ASSUME NEW k \in Done
        PROVE  k + 1 \in Done
    <3> SUFFICES ASSUME k + 1 + 1 \in 1..Len(T)
                 PROVE  LaidOut(T, k + 1 + 1, f[k + 1 + 1])
      OBVIOUS
    <3> DEFINE n == k + 1
    <3>1. n \in Nat /\ n \in 1..Len(T) /\ n + 1 \in 1..Len(T) /\ n + 1 # 1 /\ n + 1 - 1 = n
      BY <1>1
    <3>2. LaidOut(T, n, f[n])
      BY <3>1
    <3> HIDE DEF n
    <3>3. f[n + 1] = f[n] \o T[n + 1]
      <4>1. PICK m \in 1..Len(T) : m = n + 1
        BY <3>1
      <4>2. m # 1 /\ m - 1 = n
        BY <3>1, <4>1
      <4>3. f[m] = f[m - 1] \o T[m]
        BY <2>2, <4>2
      <4> QED
        BY <4>1, <4>2, <4>3
    <3>4. LaidOut(T, n + 1, f[n + 1])
      BY <1>1, <3>1, <3>2, <3>3, LayingNext
    <3> QED
      BY <3>4 DEF n
  <2> HIDE DEF Done
  <2>5. Done = Nat
    BY <2>3, <2>4, EveryNumber DEF Done
  <2>6. Len(T) - 1 \in Done /\ Len(T) - 1 + 1 = Len(T) /\ Len(T) \in 1..Len(T)
    BY <1>1, <1>3, <2>5
  <2>7. LaidOut(T, Len(T), f[Len(T)])
    BY <2>6 DEF Done
  <2> QED
    BY <2>1, <2>7
<1> QED
  BY <1>2, <1>3

\* The elements of flat are those of the lists of T, in their order.
Joins(T, flat) ==
    /\ \A i \in DOMAIN flat : \E a \in DOMAIN T : \E x \in DOMAIN T[a] : flat[i] = T[a][x]
    /\ \A i, j \in DOMAIN flat : i < j =>
          \E a, b \in DOMAIN T : \E x \in DOMAIN T[a], y \in DOMAIN T[b] :
             /\ flat[i] = T[a][x] /\ flat[j] = T[b][y]
             /\ a < b \/ (a = b /\ x < y)
    /\ \A a \in DOMAIN T : \A x \in DOMAIN T[a] : \E i \in DOMAIN flat : flat[i] = T[a][x]

\* What is laid out comes from the lists, all of it, in their order.
LEMMA Flattened ==
    ASSUME NEW T, IsList(T), \A a \in DOMAIN T : IsList(T[a])
    PROVE  IsList(FlattenSeq(T)) /\ Joins(T, FlattenSeq(T))
<1> DEFINE flat == FlattenSeq(T)
<1> HIDE DEF flat
<1>1. LaidOut(T, Len(T), flat)
  BY FlattenKeepsOrder DEF flat
<1>2. DOMAIN T = 1..Len(T)
  BY DEF IsList
<1>3. PICK block, place : LaidBy(T, Len(T), flat, block, place)
  BY <1>1 DEF LaidOut
<1>4. \A i \in DOMAIN flat :
         /\ block[i] \in DOMAIN T /\ place[i] \in DOMAIN T[block[i]]
         /\ flat[i] = T[block[i]][place[i]]
  BY <1>2, <1>3 DEF LaidBy
<1>5. ASSUME NEW i \in DOMAIN flat, NEW j \in DOMAIN flat, i < j
      PROVE  \E a, b \in DOMAIN T : \E x \in DOMAIN T[a], y \in DOMAIN T[b] :
                    /\ flat[i] = T[a][x] /\ flat[j] = T[b][y]
                    /\ a < b \/ (a = b /\ x < y)
  <2>1. block[i] < block[j] \/ (block[i] = block[j] /\ place[i] < place[j])
    BY <1>3, <1>5 DEF LaidBy
  <2> QED
    BY <1>4, <2>1
<1>6. ASSUME NEW a \in DOMAIN T, NEW x \in DOMAIN T[a]
      PROVE  \E i \in DOMAIN flat : flat[i] = T[a][x]
  <2>1. PICK i \in DOMAIN flat : block[i] = a /\ place[i] = x
    BY <1>2, <1>3 DEF LaidBy
  <2> QED
    BY <1>4, <2>1
<1> QED
  BY <1>1, <1>4, <1>5, <1>6 DEF LaidOut, Joins, flat

\* Short lists.
LEMMA ShortLists ==
    /\ IsList(<<>>) /\ Range(<<>>) = {}
    /\ \A u : IsList(<<u>>) /\ Range(<<u>>) = {u}
    /\ \A u, v : IsList(<<u, v>>) /\ Range(<<u, v>>) = {u, v} /\ DOMAIN <<u, v>> = {1, 2}
<1>1. /\ <<>> \in Seq({}) /\ \A u : <<u>> \in Seq({u})
      /\ \A u, v : <<u, v>> \in Seq({u, v})
  OBVIOUS
<1>2. /\ IsList(<<>>) /\ \A u : IsList(<<u>>)
      /\ \A u, v : IsList(<<u, v>>)
  BY <1>1, SequenceIsList, Zenon
<1>3. /\ Range(<<>>) = {} /\ \A u : Range(<<u>>) = {u}
      /\ \A u, v : Range(<<u, v>>) = {u, v} /\ DOMAIN <<u, v>> = {1, 2}
  BY DEF Range
<1> QED
  BY <1>2, <1>3

-----------------------------------------------------------------------------
(* The requests of the checks.                                             *)

\* The places of the lists that the checks spell out.
LEMMA GivenLists ==
    /\ IsList(Params) /\ IsList(Payloads) /\ IsList(Paths) /\ IsList(Logouts)
    /\ Len(Params) \in Nat /\ DOMAIN Params = 1..Len(Params)
    /\ Len(Payloads) \in Nat /\ DOMAIN Payloads = 1..Len(Payloads)
    /\ Len(Paths) \in Nat /\ DOMAIN Paths = 1..Len(Paths)
    /\ Len(Logouts) \in Nat /\ DOMAIN Logouts = 1..Len(Logouts)
BY OrdersAssumption, LogoutsAssumption DEF Order, IsList

\* A parameter with its baselines and its probes.
Baselines(p, samples) == [i \in DOMAIN samples |-> Baseline(p, samples[i])]
Probes(p) == [x \in DOMAIN Payloads |-> Probe(p, Payloads[x])]

ProbingBlocks(T, samples) ==
    /\ IsList(T) /\ DOMAIN T = DOMAIN Params
    /\ \A a \in DOMAIN T :
          /\ IsList(T[a])
          /\ \A x \in DOMAIN T[a] :
                \/ x <= Len(samples) /\ x \in DOMAIN samples
                      /\ T[a][x] = Baseline(Params[a], samples[x])
                \/ x > Len(samples) /\ x - Len(samples) \in DOMAIN Payloads
                      /\ T[a][x] = Probe(Params[a], Payloads[x - Len(samples)])

LEMMA ParameterBlocks ==
    ASSUME NEW samples, IsList(samples),
           NEW T, T = [a \in DOMAIN Params |-> Baselines(Params[a], samples) \o Probes(Params[a])]
    PROVE  ProbingBlocks(T, samples)
<1>1. IsList(T) /\ DOMAIN T = DOMAIN Params
  BY GivenLists, Listing
<1>2. Len(samples) \in Nat /\ DOMAIN samples = 1..Len(samples)
  BY DEF IsList
<1>3. ASSUME NEW a \in DOMAIN T
      PROVE  /\ IsList(T[a])
             /\ \A x \in DOMAIN T[a] :
                   \/ x <= Len(samples) /\ x \in DOMAIN samples
                         /\ T[a][x] = Baseline(Params[a], samples[x])
                   \/ x > Len(samples) /\ x - Len(samples) \in DOMAIN Payloads
                         /\ T[a][x] = Probe(Params[a], Payloads[x - Len(samples)])
  <2> DEFINE p == Params[a]
             bs == Baselines(p, samples)
             qs == Probes(p)
  <2>1. /\ IsList(bs) /\ Len(bs) = Len(samples)
        /\ \A x \in 1..Len(samples) : bs[x] = Baseline(p, samples[x])
    <3>1. bs = [i \in 1..Len(samples) |-> bs[i]] /\ \A x \in 1..Len(samples) : bs[x] = Baseline(p, samples[x])
      BY <1>2 DEF Baselines
    <3> HIDE DEF bs
    <3> QED
      BY <1>2, <3>1, Listing
  <2>2. /\ IsList(qs) /\ Len(qs) = Len(Payloads)
        /\ \A x \in 1..Len(Payloads) : qs[x] = Probe(p, Payloads[x])
    <3>1. qs = [i \in 1..Len(Payloads) |-> qs[i]] /\ \A x \in 1..Len(Payloads) : qs[x] = Probe(p, Payloads[x])
      BY GivenLists DEF Probes
    <3> HIDE DEF qs
    <3> QED
      BY GivenLists, <3>1, Listing
  <2>3. T[a] = bs \o qs
    BY <1>1
  <2> HIDE DEF bs, qs
  <2>4. /\ IsList(T[a])
        /\ \A x \in DOMAIN T[a] :
              \/ x \in 1..Len(bs) /\ T[a][x] = bs[x]
              \/ x - Len(bs) \in 1..Len(qs) /\ T[a][x] = qs[x - Len(bs)]
    <3>1. /\ IsList(bs \o qs)
          /\ \A x \in DOMAIN (bs \o qs) :
                \/ x \in 1..Len(bs) /\ (bs \o qs)[x] = bs[x]
                \/ x - Len(bs) \in 1..Len(qs) /\ (bs \o qs)[x] = qs[x - Len(bs)]
      BY <2>1, <2>2, Concatenation
    <3> QED
      BY <2>3, <3>1
  <2>5. DOMAIN T[a] \subseteq Int
    BY <2>4 DEF IsList
  <2>6. ASSUME NEW x \in DOMAIN T[a]
        PROVE  \/ x <= Len(samples) /\ x \in DOMAIN samples
                     /\ T[a][x] = Baseline(p, samples[x])
               \/ x > Len(samples) /\ x - Len(samples) \in DOMAIN Payloads
                     /\ T[a][x] = Probe(p, Payloads[x - Len(samples)])
    <3>1. CASE x \in 1..Len(bs) /\ T[a][x] = bs[x]
      BY <1>2, <2>1, <3>1
    <3>2. CASE x - Len(bs) \in 1..Len(qs) /\ T[a][x] = qs[x - Len(bs)]
      <4>1. x - Len(samples) \in 1..Len(Payloads) /\ T[a][x] = qs[x - Len(samples)]
        BY <2>1, <2>2, <3>2
      <4>2. x > Len(samples)
        BY <1>2, <2>5, <4>1
      <4> QED
        BY <2>2, <4>1, <4>2, GivenLists
    <3> QED
      BY <2>4, <3>1, <3>2
  <2> QED
    BY <2>4, <2>6
<1> QED
  BY <1>1, <1>3 DEF ProbingBlocks

\* Baselines and probes are told apart by what they carry.
LEMMA ProbingFields ==
    ASSUME NEW p, NEW x
    PROVE  /\ Baseline(p, x).at = p /\ Baseline(p, x).with[1] = "baseline"
           /\ Baseline(p, x).method = "GET" /\ Baseline(p, x) # Home
           /\ Probe(p, x).at = p /\ Probe(p, x).with[1] = "probe"
           /\ Probe(p, x).method = "GET" /\ Probe(p, x) # Home
BY DEF Baseline, Probe, Get, Request, Home

\* No baseline of a parameter comes after a probe of it.
BaselinesFirst(q) ==
    \A i, j \in DOMAIN q :
       i <= j /\ q[i].with[1] = "probe" => \A m : q[j] # Baseline(q[i].at, m)

LEMMA ParameterRequests ==
    ASSUME NEW samples, IsList(samples), NEW T, ProbingBlocks(T, samples),
           NEW flat, IsList(flat), Joins(T, flat)
    PROVE  BaselinesFirst(flat)
<1>1. IsList(T) /\ DOMAIN T = DOMAIN Params /\ \A a \in DOMAIN T : IsList(T[a])
  BY DEF ProbingBlocks
<1>2. \A a \in DOMAIN T : \A x \in DOMAIN T[a] :
         \/ x <= Len(samples) /\ x \in DOMAIN samples
               /\ T[a][x] = Baseline(Params[a], samples[x])
         \/ x > Len(samples) /\ x - Len(samples) \in DOMAIN Payloads
               /\ T[a][x] = Probe(Params[a], Payloads[x - Len(samples)])
  BY DEF ProbingBlocks
<1>3. /\ \A i \in DOMAIN flat : \E a \in DOMAIN T : \E x \in DOMAIN T[a] : flat[i] = T[a][x]
      /\ \A i, j \in DOMAIN flat : i < j =>
            \E a, b \in DOMAIN T : \E x \in DOMAIN T[a], y \in DOMAIN T[b] :
               /\ flat[i] = T[a][x] /\ flat[j] = T[b][y]
               /\ a < b \/ (a = b /\ x < y)
  BY DEF Joins
<1>5. ASSUME NEW i \in DOMAIN flat, NEW j \in DOMAIN flat, i <= j,
             flat[i].with[1] = "probe", NEW m, flat[j] = Baseline(flat[i].at, m)
      PROVE  FALSE
  <2>1. i # j
    BY <1>5, ProbingFields
  <2>2. i < j
    <3>1. i \in Int /\ j \in Int
      BY DEF IsList
    <3> QED
      BY <1>5, <2>1, <3>1
  <2>a. PICK a \in DOMAIN T, b \in DOMAIN T : \E x \in DOMAIN T[a], y \in DOMAIN T[b] :
           /\ flat[i] = T[a][x] /\ flat[j] = T[b][y]
           /\ a < b \/ (a = b /\ x < y)
    BY <1>3, <2>2
  <2>3. PICK x \in DOMAIN T[a], y \in DOMAIN T[b] :
           /\ flat[i] = T[a][x] /\ flat[j] = T[b][y]
           /\ a < b \/ (a = b /\ x < y)
    BY <2>a
  <2>4. x > Len(samples) /\ flat[i].at = Params[a]
    BY <1>2, <1>5, <2>3, ProbingFields
  <2>5. y <= Len(samples) /\ flat[j].at = Params[b] /\ flat[j].at = flat[i].at
    BY <1>2, <1>5, <2>3, ProbingFields
  <2>6. a = b
    BY <1>1, <2>4, <2>5, OrdersAssumption DEF Order, IsInjective
  <2>7. /\ a \in Int /\ b \in Int /\ x \in Int /\ y \in Int /\ Len(samples) \in Int
    BY <1>1 DEF IsList
  <2> QED
    BY <2>3, <2>4, <2>5, <2>6, <2>7
<1> QED
  BY <1>5 DEF BaselinesFirst

-----------------------------------------------------------------------------
(* What is in the lists.                                                   *)

LEMMA RangeOfConcatenation ==
    ASSUME NEW p, NEW q, IsList(p), IsList(q)
    PROVE  IsList(p \o q) /\ Range(p \o q) = Range(p) \cup Range(q)
<1> DEFINE whole == p \o q
<1>1. /\ IsList(whole) /\ Len(whole) = Len(p) + Len(q)
      /\ \A i \in 1..Len(p) : whole[i] = p[i]
      /\ \A i \in 1..Len(q) : whole[Len(p) + i] = q[i]
      /\ \A i \in DOMAIN whole :
            \/ i \in 1..Len(p) /\ whole[i] = p[i]
            \/ i - Len(p) \in 1..Len(q) /\ whole[i] = q[i - Len(p)]
  BY Concatenation
<1> HIDE DEF whole
<1>2. /\ Len(p) \in Nat /\ DOMAIN p = 1..Len(p) /\ Len(q) \in Nat /\ DOMAIN q = 1..Len(q)
      /\ DOMAIN whole = 1..Len(p) + Len(q)
  BY <1>1 DEF IsList
<1>3. \A i \in 1..Len(p) : i \in DOMAIN whole
  BY <1>2
<1>4. \A i \in 1..Len(q) : Len(p) + i \in DOMAIN whole
  BY <1>2
<1>5. Range(p) \subseteq Range(whole)
  BY <1>1, <1>2, <1>3 DEF Range
<1>6. Range(q) \subseteq Range(whole)
  BY <1>1, <1>2, <1>4 DEF Range
<1>7. Range(whole) \subseteq Range(p) \cup Range(q)
  BY <1>1, <1>2 DEF Range
<1> QED
  BY <1>1, <1>5, <1>6, <1>7 DEF whole

LEMMA RangeOfFlatten ==
    ASSUME NEW T, IsList(T), \A a \in DOMAIN T : IsList(T[a])
    PROVE  /\ IsList(FlattenSeq(T))
           /\ \A r : r \in Range(FlattenSeq(T)) <=> \E a \in DOMAIN T : r \in Range(T[a])
<1> DEFINE flat == FlattenSeq(T)
<1>1. IsList(flat) /\ Joins(T, flat)
  BY Flattened
<1> HIDE DEF flat
<1>2. \A r : r \in Range(flat) <=> \E a \in DOMAIN T : r \in Range(T[a])
  BY <1>1 DEF Joins, Range
<1> QED
  BY <1>1, <1>2 DEF flat

\* What every discover() may ask for.
Tries(samples) ==
    {Baseline(p, i) : p \in Range(Params), i \in samples}
    \cup {Probe(p, x) : p \in Range(Params), x \in Range(Payloads)}

PathRequests(F(_)) == {F(p) : p \in Range(Paths)}

\* Those of the check that logs out, as whom it tests.
LogoutRequests(name) ==
    {As(name, Before(p)) : p \in Range(Paths)}
    \cup {As(name, Logout(l)) : l \in Range(Logouts)}
    \cup UNION {{As(name, After(p, l)) : p \in Range(Paths)} : l \in Range(Logouts)}

MapRequests ==
    {Home} \cup {Source(n) : n \in Tags} \cup {SourceMap(n) : n \in Tags}
    \cup PathRequests(CommonMap)

Asked(check, s) ==
    CASE check \in {"sqli-time-based", "command-injection"} -> Tries(Samples)
      [] check = "path-traversal" -> Tries({First})
      [] check = "xss-reflected" ->
            {Home} \cup {Get(p, <<"canary">>) : p \in Range(Params) \cup {Linked}}
            \cup PathRequests(Json)
      [] check = "ssrf" -> {Home} \cup {Callback(m, p) : m \in {"GET", "POST"}, p \in Range(Params)}
      [] check = "bola-idor" ->
            {SentAs(s.ps, i, r) : i \in DOMAIN s.ps, r \in Range(BolaResources)}
      [] check = "bfla" -> {As(s.ps[1], Get(p, <<"admin page">>)) : p \in Range(Paths)}
      [] check = "bfla-behavior" ->
            IF NonAdmins(s.ids) = {} THEN {}
            ELSE {Get(p, <<"admin function">>) : p \in Range(Paths)}
      [] check = "session-invalidation" ->
            IF Authenticated(s.ids) = {} THEN {}
            ELSE LogoutRequests(s.ids[Min(Authenticated(s.ids))].name)
      [] check = "mass-assignment" -> {Get(p, <<"profile">>) : p \in Range(Paths)}
      [] check \in {"security-headers", "plugin"} -> {Home}
      [] check = "cors-policy" -> PathRequests(Preflight) \cup PathRequests(Crossing)
      [] check = "http-methods" ->
            PathRequests(Options) \cup {Direct(m, p) : m \in {"DELETE", "TRACE"}, p \in Range(Paths)}
      [] check = "information-disclosure" ->
            {Home} \cup PathRequests(Debug) \cup PathRequests(Backup)
      [] check = "source-map-exposure" -> MapRequests
      [] check = "open-redirect-indicator" -> {Home} \cup PathRequests(Probed) \cup {SignOut}
      [] check = "graphql" -> PathRequests(Introspection) \cup PathRequests(TypeQuery)
      [] check = "session-cookie" -> {Home} \cup {Canary(p) : p \in Range(Params)}

\* The requests of the two checks that time their probes, and of the one that
\* compares them.
LEMMA ProbingLists ==
    ASSUME NEW T2, T2 = [a \in DOMAIN Params |-> Baselines(Params[a], <<First, Second>>) \o Probes(Params[a])],
           NEW T1, T1 = [a \in DOMAIN Params |-> Baselines(Params[a], <<First>>) \o Probes(Params[a])]
    PROVE  /\ SqliRequests = FlattenSeq(T2) /\ CmdiRequests = FlattenSeq(T2)
           /\ TraversalRequests = FlattenSeq(T1)
<1>1. \A p : /\ Baselines(p, <<First, Second>>) = <<Baseline(p, First), Baseline(p, Second)>>
             /\ Baselines(p, <<First>>) = <<Baseline(p, First)>>
  BY DEF Baselines
<1> DEFINE Q(p) == <<Baseline(p, First), Baseline(p, Second)>>
                      \o [x \in DOMAIN Payloads |-> Probe(p, Payloads[x])]
           R(p) == <<Baseline(p, First)>> \o [x \in DOMAIN Payloads |-> Probe(p, Payloads[x])]
<1>2. SqliRequests = FlattenSeq([a \in DOMAIN Params |-> Q(Params[a])])
  BY DEF SqliRequests, Each
<1>3. TraversalRequests = FlattenSeq([a \in DOMAIN Params |-> R(Params[a])])
  BY DEF TraversalRequests, Each
<1>4. CmdiRequests = FlattenSeq([a \in DOMAIN Params |-> Q(Params[a])])
  BY DEF CmdiRequests, Each
<1>5. \A p : Q(p) = Baselines(p, <<First, Second>>) \o Probes(p) /\ R(p) = Baselines(p, <<First>>) \o Probes(p)
  BY <1>1 DEF Probes
<1> HIDE DEF Q, R
<1> QED
  BY <1>2, <1>3, <1>4, <1>5

LEMMA TriesAreAsked ==
    ASSUME NEW samples, IsList(samples),
           NEW T, T = [a \in DOMAIN Params |-> Baselines(Params[a], samples) \o Probes(Params[a])]
    PROVE  IsList(FlattenSeq(T)) /\ Range(FlattenSeq(T)) = Tries(Range(samples))
<1>1. IsList(T) /\ DOMAIN T = DOMAIN Params /\ \A a \in DOMAIN T : IsList(T[a])
  BY ParameterBlocks DEF ProbingBlocks
<1>2. /\ IsList(FlattenSeq(T))
      /\ \A r : r \in Range(FlattenSeq(T)) <=> \E a \in DOMAIN T : r \in Range(T[a])
  BY <1>1, RangeOfFlatten
<1>3. ASSUME NEW a \in DOMAIN T
      PROVE  Range(T[a]) = {Baseline(Params[a], i) : i \in Range(samples)}
                           \cup {Probe(Params[a], x) : x \in Range(Payloads)}
  <2> DEFINE bs == Baselines(Params[a], samples)
             qs == Probes(Params[a])
  <2>1. IsList(bs) /\ Range(bs) = {Baseline(Params[a], i) : i \in Range(samples)}
    <3>1. Len(samples) \in Nat /\ DOMAIN samples = 1..Len(samples)
      BY DEF IsList
    <3>2. bs = [i \in 1..Len(samples) |-> bs[i]] /\ DOMAIN bs = DOMAIN samples
      BY <3>1 DEF Baselines
    <3>3. \A i \in DOMAIN samples : bs[i] = Baseline(Params[a], samples[i])
      BY DEF Baselines
    <3> HIDE DEF bs
    <3>4. IsList(bs)
      BY <3>1, <3>2, Listing
    <3> QED
      BY <3>2, <3>3, <3>4 DEF Range
  <2>2. IsList(qs) /\ Range(qs) = {Probe(Params[a], x) : x \in Range(Payloads)}
    <3>1. qs = [i \in 1..Len(Payloads) |-> qs[i]] /\ DOMAIN qs = DOMAIN Payloads
      BY GivenLists DEF Probes
    <3>2. \A i \in DOMAIN Payloads : qs[i] = Probe(Params[a], Payloads[i])
      BY DEF Probes
    <3> HIDE DEF qs
    <3>3. IsList(qs)
      BY <3>1, GivenLists, Listing
    <3> QED
      BY <3>1, <3>2, <3>3 DEF Range
  <2>3. T[a] = bs \o qs
    BY <1>1
  <2> HIDE DEF bs, qs
  <2>4. Range(bs \o qs) = Range(bs) \cup Range(qs)
    BY <2>1, <2>2, RangeOfConcatenation
  <2> QED
    BY <2>1, <2>2, <2>3, <2>4
<1> DEFINE Here(a) == {Baseline(Params[a], i) : i \in Range(samples)}
                      \cup {Probe(Params[a], x) : x \in Range(Payloads)}
<1>4. \A a \in DOMAIN T : Range(T[a]) = Here(a)
  BY <1>3
<1>5. \A r : r \in Tries(Range(samples)) <=> \E a \in DOMAIN Params : r \in Here(a)
  <2>1. Range(Params) = {Params[a] : a \in DOMAIN Params}
    BY DEF Range
  <2> QED
    BY <2>1 DEF Tries
<1> HIDE DEF Here
<1>6. \A r : r \in Range(FlattenSeq(T)) <=> \E a \in DOMAIN Params : r \in Here(a)
  BY <1>1, <1>2, <1>4
<1> QED
  BY <1>2, <1>5, <1>6

\* The lists of the three checks that compare probes with baselines.
LEMMA ProbingChecks ==
    /\ IsList(SqliRequests) /\ Range(SqliRequests) = Tries(Samples)
    /\ IsList(CmdiRequests) /\ Range(CmdiRequests) = Tries(Samples)
    /\ IsList(TraversalRequests) /\ Range(TraversalRequests) = Tries({First})
    /\ BaselinesFirst(SqliRequests) /\ BaselinesFirst(CmdiRequests)
    /\ BaselinesFirst(TraversalRequests)
<1> DEFINE Both == [a \in DOMAIN Params |-> Baselines(Params[a], <<First, Second>>) \o Probes(Params[a])]
           One == [a \in DOMAIN Params |-> Baselines(Params[a], <<First>>) \o Probes(Params[a])]
<1>1. /\ SqliRequests = FlattenSeq(Both) /\ CmdiRequests = FlattenSeq(Both)
      /\ TraversalRequests = FlattenSeq(One)
  BY ProbingLists
<1>2. /\ IsList(<<First>>) /\ Range(<<First>>) = {First}
      /\ IsList(<<First, Second>>) /\ Range(<<First, Second>>) = Samples
  BY ShortLists DEF Samples
<1>3. ProbingBlocks(Both, <<First, Second>>) /\ ProbingBlocks(One, <<First>>)
  BY <1>2, ParameterBlocks
<1>4. /\ IsList(FlattenSeq(Both)) /\ Range(FlattenSeq(Both)) = Tries(Samples)
      /\ IsList(FlattenSeq(One)) /\ Range(FlattenSeq(One)) = Tries({First})
  BY <1>2, TriesAreAsked
<1> HIDE DEF Both, One
<1>5. Joins(Both, FlattenSeq(Both)) /\ Joins(One, FlattenSeq(One))
  BY <1>3, Flattened DEF ProbingBlocks
<1>6. BaselinesFirst(FlattenSeq(Both)) /\ BaselinesFirst(FlattenSeq(One))
  BY <1>2, <1>3, <1>4, <1>5, ParameterRequests
<1> QED
  BY <1>1, <1>4, <1>6

\* A list made of another one, element by element.
LEMMA MadeOf ==
    ASSUME NEW q, IsList(q), NEW f, f = [i \in DOMAIN q |-> f[i]]
    PROVE  IsList(f) /\ DOMAIN f = DOMAIN q
<1>1. Len(q) \in Nat /\ DOMAIN q = 1..Len(q)
  BY DEF IsList
<1> QED
  BY <1>1, Listing

\* The checks that send one kind of request to every path.
LEMMA PathChecks ==
    ASSUME NEW s
    PROVE  /\ IsList(BflaRequests(s.ps))
           /\ Range(BflaRequests(s.ps)) = {As(s.ps[1], Get(p, <<"admin page">>)) : p \in Range(Paths)}
           /\ IsList(AssignmentRequests)
           /\ Range(AssignmentRequests) = {Get(p, <<"profile">>) : p \in Range(Paths)}
           /\ IsList(BehaviorRequests(s.ids))
           /\ Range(BehaviorRequests(s.ids)) =
                 IF NonAdmins(s.ids) = {} THEN {}
                 ELSE {Get(p, <<"admin function">>) : p \in Range(Paths)}
<1> DEFINE pages == BflaRequests(s.ps)
           functions == [i \in DOMAIN Paths |-> Get(Paths[i], <<"admin function">>)]
<1>1. IsList(pages) /\ Range(pages) = {As(s.ps[1], Get(p, <<"admin page">>)) : p \in Range(Paths)}
  <2>1. pages = [i \in DOMAIN Paths |-> pages[i]]
    BY DEF BflaRequests
  <2>2. \A i \in DOMAIN Paths : pages[i] = As(s.ps[1], Get(Paths[i], <<"admin page">>))
    BY DEF BflaRequests
  <2> HIDE DEF pages
  <2>3. IsList(pages) /\ DOMAIN pages = DOMAIN Paths
    BY <2>1, GivenLists, MadeOf
  <2> QED
    BY <2>2, <2>3 DEF Range
<1>2. /\ IsList(AssignmentRequests)
      /\ Range(AssignmentRequests) = {Get(p, <<"profile">>) : p \in Range(Paths)}
  <2>1. AssignmentRequests = [i \in DOMAIN Paths |-> AssignmentRequests[i]]
    BY DEF AssignmentRequests
  <2>2. \A i \in DOMAIN Paths : AssignmentRequests[i] = Get(Paths[i], <<"profile">>)
    BY DEF AssignmentRequests
  <2>3. IsList(AssignmentRequests) /\ DOMAIN AssignmentRequests = DOMAIN Paths
    BY <2>1, GivenLists, MadeOf
  <2> QED
    BY <2>2, <2>3 DEF Range
<1>3. IsList(functions) /\ Range(functions) = {Get(p, <<"admin function">>) : p \in Range(Paths)}
  <2>1. functions = [i \in DOMAIN Paths |-> functions[i]]
    OBVIOUS
  <2>2. \A i \in DOMAIN Paths : functions[i] = Get(Paths[i], <<"admin function">>)
    OBVIOUS
  <2> HIDE DEF functions
  <2>3. IsList(functions) /\ DOMAIN functions = DOMAIN Paths
    BY <2>1, GivenLists, MadeOf
  <2> QED
    BY <2>2, <2>3 DEF Range
<1>4. IsList(BehaviorRequests(s.ids)) /\ Range(BehaviorRequests(s.ids)) =
                 IF NonAdmins(s.ids) = {} THEN {} ELSE Range(functions)
  <2>1. BehaviorRequests(s.ids) = IF NonAdmins(s.ids) = {} THEN <<>> ELSE functions
    BY DEF BehaviorRequests
  <2> HIDE DEF functions
  <2> QED
    BY <1>3, <2>1, ShortLists
<1> QED
  BY <1>1, <1>2, <1>3, <1>4

\* The checks that begin with the home page.
LEMMA HomeChecks ==
    /\ IsList(HeadersRequests) /\ Range(HeadersRequests) = {Home}
    /\ IsList(<<Home>>) /\ Range(<<Home>>) = {Home}
    /\ IsList(RedirectRequests)
    /\ Range(RedirectRequests) = {Home} \cup PathRequests(Probed) \cup {SignOut}
    /\ IsList(DisclosureRequests)
    /\ Range(DisclosureRequests) = {Home} \cup PathRequests(Debug) \cup PathRequests(Backup)
    /\ IsList(MapsRequests)
    /\ Range(MapsRequests) = MapRequests
    /\ IsList(CookieRequests)
    /\ Range(CookieRequests) = {Home} \cup {Canary(p) : p \in Range(Params)}
    /\ IsList(SsrfRequests)
    /\ Range(SsrfRequests) = {Home} \cup {Callback(m, p) : m \in {"GET", "POST"}, p \in Range(Params)}
<1>1. IsList(<<Home>>) /\ Range(<<Home>>) = {Home}
  BY ShortLists
<1>2. \A f : f = [i \in DOMAIN Paths |-> f[i]] => IsList(f) /\ DOMAIN f = DOMAIN Paths
  BY GivenLists, MadeOf
<1>3. \A f : f = [i \in DOMAIN Params |-> f[i]] => IsList(f) /\ DOMAIN f = DOMAIN Params
  BY GivenLists, MadeOf
<1>4. HeadersRequests = <<Home>>
  BY DEF HeadersRequests
<1>5. /\ IsList(RedirectRequests)
      /\ Range(RedirectRequests) = {Home} \cup PathRequests(Probed) \cup {SignOut}
  <2> DEFINE q == AtPaths(Probed)
  <2>1. q = [i \in DOMAIN Paths |-> q[i]] /\ \A i \in DOMAIN Paths : q[i] = Probed(Paths[i])
    BY DEF AtPaths
  <2>2. RedirectRequests = <<Home>> \o q \o <<SignOut>>
    BY DEF RedirectRequests
  <2> HIDE DEF q
  <2>3. IsList(q) /\ Range(q) = PathRequests(Probed)
    BY <1>2, <2>1 DEF Range, PathRequests
  <2>4. IsList(<<Home>> \o q) /\ Range(<<Home>> \o q) = {Home} \cup PathRequests(Probed)
    BY <1>1, <2>3, RangeOfConcatenation
  <2>5. IsList(<<SignOut>>) /\ Range(<<SignOut>>) = {SignOut}
    BY ShortLists
  <2> QED
    BY <2>2, <2>4, <2>5, RangeOfConcatenation
<1>6. /\ IsList(DisclosureRequests)
      /\ Range(DisclosureRequests) = {Home} \cup PathRequests(Debug) \cup PathRequests(Backup)
  <2> DEFINE q == AtPaths(Debug)
             b == AtPaths(Backup)
  <2>1. q = [i \in DOMAIN Paths |-> q[i]] /\ \A i \in DOMAIN Paths : q[i] = Debug(Paths[i])
    BY DEF AtPaths
  <2>2. b = [i \in DOMAIN Paths |-> b[i]] /\ \A i \in DOMAIN Paths : b[i] = Backup(Paths[i])
    BY DEF AtPaths
  <2>3. DisclosureRequests = <<Home>> \o q \o b
    BY DEF DisclosureRequests
  <2> HIDE DEF q, b
  <2>4. IsList(q) /\ Range(q) = PathRequests(Debug)
    BY <1>2, <2>1 DEF Range, PathRequests
  <2>5. IsList(b) /\ Range(b) = PathRequests(Backup)
    BY <1>2, <2>2 DEF Range, PathRequests
  <2>6. IsList(<<Home>> \o q) /\ Range(<<Home>> \o q) = {Home} \cup PathRequests(Debug)
    BY <1>1, <2>4, RangeOfConcatenation
  <2> QED
    BY <2>3, <2>5, <2>6, RangeOfConcatenation
<1>7. /\ IsList(MapsRequests)
      /\ Range(MapsRequests) = MapRequests
  <2> DEFINE q == AtPaths(CommonMap)
             t == [n \in Tags |-> Source(n)]
             m == [n \in Tags |-> SourceMap(n)]
  <2>1. q = [i \in DOMAIN Paths |-> q[i]] /\ \A i \in DOMAIN Paths : q[i] = CommonMap(Paths[i])
    BY DEF AtPaths
  <2>2. MapsRequests = <<Home>> \o t \o m \o q
    BY DEF MapsRequests
  <2>3. \A n \in Tags : t[n] = Source(n) /\ m[n] = SourceMap(n)
    OBVIOUS
  <2>4. t = [n \in Tags |-> t[n]] /\ m = [n \in Tags |-> m[n]]
    OBVIOUS
  <2> HIDE DEF q, t, m
  <2>5. IsList(q) /\ Range(q) = PathRequests(CommonMap)
    BY <1>2, <2>1 DEF Range, PathRequests
  <2>6. IsList(t) /\ DOMAIN t = Tags /\ IsList(m) /\ DOMAIN m = Tags
    <3>1. t \in Seq(Range(t)) /\ m \in Seq(Range(m)) /\ DOMAIN t = Tags /\ DOMAIN m = Tags
      BY <2>4 DEF Tags, Range
    <3> QED
      BY <3>1 DEF IsList
  <2>7. Range(t) = {Source(n) : n \in Tags} /\ Range(m) = {SourceMap(n) : n \in Tags}
    BY <2>3, <2>6 DEF Range
  <2>8. IsList(<<Home>> \o t) /\ Range(<<Home>> \o t) = {Home} \cup Range(t)
    BY <1>1, <2>6, RangeOfConcatenation
  <2>9. IsList(<<Home>> \o t \o m) /\ Range(<<Home>> \o t \o m) = {Home} \cup Range(t) \cup Range(m)
    BY <2>6, <2>8, RangeOfConcatenation
  <2>10. IsList(MapsRequests)
         /\ Range(MapsRequests) = {Home} \cup Range(t) \cup Range(m) \cup PathRequests(CommonMap)
    BY <2>2, <2>5, <2>9, RangeOfConcatenation
  <2> QED
    BY <2>7, <2>10 DEF MapRequests
<1>8. IsList(CookieRequests) /\ Range(CookieRequests) = {Home} \cup {Canary(p) : p \in Range(Params)}
  <2> DEFINE q == [i \in DOMAIN Params |-> Canary(Params[i])]
  <2>1. q = [i \in DOMAIN Params |-> q[i]] /\ \A i \in DOMAIN Params : q[i] = Canary(Params[i])
    OBVIOUS
  <2>2. CookieRequests = <<Home>> \o q
    BY DEF CookieRequests
  <2> HIDE DEF q
  <2>3. IsList(q) /\ Range(q) = {Canary(p) : p \in Range(Params)}
    BY <1>3, <2>1 DEF Range
  <2> QED
    BY <1>1, <2>2, <2>3, RangeOfConcatenation
<1>9. /\ IsList(SsrfRequests)
      /\ Range(SsrfRequests) = {Home} \cup {Callback(m, p) : m \in {"GET", "POST"}, p \in Range(Params)}
  <2> DEFINE q == [i \in DOMAIN Params |-> Callback("GET", Params[i])]
             b == [i \in DOMAIN Params |-> Callback("POST", Params[i])]
  <2>1. q = [i \in DOMAIN Params |-> q[i]] /\ \A i \in DOMAIN Params : q[i] = Callback("GET", Params[i])
    OBVIOUS
  <2>2. b = [i \in DOMAIN Params |-> b[i]] /\ \A i \in DOMAIN Params : b[i] = Callback("POST", Params[i])
    OBVIOUS
  <2>3. SsrfRequests = <<Home>> \o q \o b
    BY DEF SsrfRequests
  <2> HIDE DEF q, b
  <2>4. IsList(q) /\ Range(q) = {Callback("GET", p) : p \in Range(Params)}
    BY <1>3, <2>1 DEF Range
  <2>5. IsList(b) /\ Range(b) = {Callback("POST", p) : p \in Range(Params)}
    BY <1>3, <2>2 DEF Range
  <2>6. IsList(<<Home>> \o q) /\ Range(<<Home>> \o q) = {Home} \cup Range(q)
    BY <1>1, <2>4, RangeOfConcatenation
  <2>7. IsList(SsrfRequests) /\ Range(SsrfRequests) = {Home} \cup Range(q) \cup Range(b)
    BY <2>3, <2>5, <2>6, RangeOfConcatenation
  <2> QED
    BY <2>4, <2>5, <2>7
<1> QED
  BY <1>1, <1>4, <1>5, <1>6, <1>7, <1>8, <1>9

\* The canary goes to every parameter, then to every path.
LEMMA XssCheck ==
    /\ IsList(XssRequests)
    /\ Range(XssRequests) = {Home} \cup {Get(p, <<"canary">>) : p \in Range(Params) \cup {Linked}}
                            \cup PathRequests(Json)
<1> DEFINE names == Append(Params, Linked)
           q == [i \in 1..Len(Params) + 1 |-> Get(names[i], <<"canary">>)]
           b == [i \in DOMAIN Paths |-> Json(Paths[i])]
<1>1. IsList(<<Home>>) /\ Range(<<Home>>) = {Home}
  BY ShortLists
<1>2. q = [i \in 1..Len(Params) + 1 |-> q[i]] /\ \A i \in 1..Len(Params) + 1 : q[i] = Get(names[i], <<"canary">>)
  OBVIOUS
<1>3. b = [i \in DOMAIN Paths |-> b[i]] /\ \A i \in DOMAIN Paths : b[i] = Json(Paths[i])
  OBVIOUS
<1>4. XssRequests = <<Home>> \o q \o b
  BY DEF XssRequests
<1>5. /\ \A i \in 1..Len(Params) : names[i] = Params[i]
      /\ names[Len(Params) + 1] = Linked
  BY OrdersAssumption DEF Order
<1> HIDE DEF q, b, names
<1>6. IsList(b) /\ Range(b) = PathRequests(Json)
  <2>1. IsList(b) /\ DOMAIN b = DOMAIN Paths
    BY <1>3, GivenLists, MadeOf
  <2> QED
    BY <1>3, <2>1 DEF Range, PathRequests
<1>7. IsList(q) /\ DOMAIN q = 1..Len(Params) + 1
  BY <1>2, GivenLists, Listing
<1>8. Range(q) = {Get(p, <<"canary">>) : p \in Range(Params) \cup {Linked}}
  <2>1. \A i \in 1..Len(Params) + 1 : i \in DOMAIN Params \/ i = Len(Params) + 1
    BY GivenLists
  <2>2. /\ \A i \in DOMAIN Params : i \in DOMAIN q /\ q[i] = Get(Params[i], <<"canary">>)
        /\ Len(Params) + 1 \in DOMAIN q /\ q[Len(Params) + 1] = Get(Linked, <<"canary">>)
    <3>1. \A i \in DOMAIN Params : i \in 1..Len(Params) + 1
      BY GivenLists
    <3>2. Len(Params) + 1 \in 1..Len(Params) + 1
      BY GivenLists
    <3> QED
      BY <1>2, <1>5, <1>7, <3>1, <3>2, GivenLists
  <2>3. \A r : r \in Range(q) <=> \E i \in DOMAIN q : r = q[i]
    BY DEF Range
  <2>4. \A r : r \in Range(q) <=>
           (\E i \in DOMAIN Params : r = Get(Params[i], <<"canary">>)) \/ r = Get(Linked, <<"canary">>)
    BY <1>7, <2>1, <2>2, <2>3
  <2> QED
    BY <2>4 DEF Range
<1>9. IsList(<<Home>> \o q) /\ Range(<<Home>> \o q) = {Home} \cup Range(q)
  BY <1>1, <1>7, RangeOfConcatenation
<1> QED
  BY <1>4, <1>6, <1>8, <1>9, RangeOfConcatenation

-----------------------------------------------------------------------------
(* The checks that send several requests to every path, one path after the *)
(* other.                                                                  *)

\* Two requests for every path.
Pairing(F, G) == FlattenSeq([i \in DOMAIN Paths |-> <<F[Paths[i]], G[Paths[i]]>>])

\* What such a list comes to: none of the first kind comes after the one of
\* the second kind for the same path.
Paired(F, G, flat) ==
    /\ IsList(flat)
    /\ Range(flat) = {F[p] : p \in Range(Paths)} \cup {G[p] : p \in Range(Paths)}
    /\ \A i, j \in DOMAIN flat : i < j =>
          \E p, q \in Range(Paths) :
             /\ flat[i] \in {F[p], G[p]} /\ flat[j] \in {F[q], G[q]}
             /\ p = q => flat[i] = F[p] /\ flat[j] = G[p]

LEMMA PairsOfRequests ==
    ASSUME NEW F, NEW G
    PROVE  Paired(F, G, Pairing(F, G))
<1> DEFINE flat == Pairing(F, G)
<1> DEFINE T == [i \in DOMAIN Paths |-> <<F[Paths[i]], G[Paths[i]]>>]
<1>0. T = [i \in DOMAIN Paths |-> T[i]] /\ \A a \in DOMAIN Paths : T[a] = <<F[Paths[a]], G[Paths[a]]>>
  OBVIOUS
<1>f. flat = FlattenSeq(T)
  BY DEF Pairing
<1> HIDE DEF T, flat
<1>1. IsList(T) /\ DOMAIN T = DOMAIN Paths
  BY <1>0, GivenLists, MadeOf
<1>2. \A a \in DOMAIN T :
         /\ IsList(T[a]) /\ DOMAIN T[a] = {1, 2} /\ T[a][1] = F[Paths[a]] /\ T[a][2] = G[Paths[a]]
         /\ Range(T[a]) = {F[Paths[a]], G[Paths[a]]}
  <2>1. \A u, v : /\ IsList(<<u, v>>) /\ DOMAIN <<u, v>> = {1, 2} /\ <<u, v>>[1] = u /\ <<u, v>>[2] = v
                  /\ Range(<<u, v>>) = {u, v}
    BY ShortLists
  <2> SUFFICES ASSUME NEW a \in DOMAIN T
               PROVE  /\ IsList(T[a]) /\ DOMAIN T[a] = {1, 2}
                      /\ T[a][1] = F[Paths[a]] /\ T[a][2] = G[Paths[a]]
                      /\ Range(T[a]) = {F[Paths[a]], G[Paths[a]]}
    OBVIOUS
  <2>2. T[a] = <<F[Paths[a]], G[Paths[a]]>>
    BY <1>0, <1>1
  <2> QED
    BY <2>1, <2>2
<1>3. /\ IsList(flat) /\ \A r : r \in Range(flat) <=> \E a \in DOMAIN T : r \in Range(T[a])
      /\ Joins(T, flat)
  BY <1>f, <1>1, <1>2, RangeOfFlatten, Flattened
<1>4. Range(flat) = {F[p] : p \in Range(Paths)} \cup {G[p] : p \in Range(Paths)}
  <2>1. \A r : r \in Range(flat) <=> \E a \in DOMAIN Paths : r = F[Paths[a]] \/ r = G[Paths[a]]
    BY <1>1, <1>2, <1>3
  <2>2. \A r : r \in Range(flat) <=> \E p \in Range(Paths) : r = F[p] \/ r = G[p]
    BY <2>1 DEF Range
  <2> QED
    BY <2>2
<1>5. ASSUME NEW i \in DOMAIN flat, NEW j \in DOMAIN flat, i < j
      PROVE  \E p, q \in Range(Paths) :
                /\ flat[i] \in {F[p], G[p]} /\ flat[j] \in {F[q], G[q]}
                /\ p = q => flat[i] = F[p] /\ flat[j] = G[p]
  <2>1. PICK a \in DOMAIN T, b \in DOMAIN T : \E x \in DOMAIN T[a], y \in DOMAIN T[b] :
           /\ flat[i] = T[a][x] /\ flat[j] = T[b][y]
           /\ a < b \/ (a = b /\ x < y)
    BY <1>3, <1>5 DEF Joins
  <2>2. PICK x \in {1, 2}, y \in {1, 2} :
           /\ flat[i] = T[a][x] /\ flat[j] = T[b][y]
           /\ a < b \/ (a = b /\ x < y)
    BY <1>2, <2>1
  <2>3. /\ Paths[a] \in Range(Paths) /\ Paths[b] \in Range(Paths)
        /\ flat[i] \in {F[Paths[a]], G[Paths[a]]} /\ flat[j] \in {F[Paths[b]], G[Paths[b]]}
    BY <1>1, <1>2, <2>2 DEF Range
  <2>4. Paths[a] = Paths[b] => a = b
    BY <1>1, OrdersAssumption DEF Order, IsInjective
  <2>5. a = b => x = 1 /\ y = 2
    <3>1. a \in Int /\ b \in Int
      BY <1>1, GivenLists
    <3> QED
      BY <2>2, <3>1
  <2>6. Paths[a] = Paths[b] => flat[i] = F[Paths[a]] /\ flat[j] = G[Paths[a]]
    BY <1>2, <2>2, <2>4, <2>5
  <2> QED
    BY <2>3, <2>6
<1>6. Paired(F, G, flat)
  BY <1>3, <1>4, <1>5 DEF Paired
<1> QED
  BY <1>6 DEF flat

LEMMA CorsAndGraphql ==
    /\ IsList(CorsRequests)
    /\ Range(CorsRequests) = PathRequests(Preflight) \cup PathRequests(Crossing)
    /\ IsList(GraphqlRequests)
    /\ Range(GraphqlRequests) = PathRequests(Introspection) \cup PathRequests(TypeQuery)
    /\ \A i, j \in DOMAIN GraphqlRequests :
          i <= j /\ GraphqlRequests[i] = TypeQuery(GraphqlRequests[i].at) =>
             GraphqlRequests[j] # Introspection(GraphqlRequests[i].at)
<1> DEFINE P == [p \in Range(Paths) |-> Preflight(p)]
           C == [p \in Range(Paths) |-> Crossing(p)]
           I == [p \in Range(Paths) |-> Introspection(p)]
           Q == [p \in Range(Paths) |-> TypeQuery(p)]
<1>1. \A i \in DOMAIN Paths : Paths[i] \in Range(Paths)
  BY DEF Range
<1>2. CorsRequests = Pairing(P, C)
  <2>1. CorsRequests = FlattenSeq([i \in DOMAIN Paths |-> <<Preflight(Paths[i]), Crossing(Paths[i])>>])
    BY DEF CorsRequests, Each
  <2> QED
    BY <1>1, <2>1 DEF Pairing
<1>3. GraphqlRequests = Pairing(I, Q)
  <2>1. GraphqlRequests = FlattenSeq([i \in DOMAIN Paths |-> <<Introspection(Paths[i]), TypeQuery(Paths[i])>>])
    BY DEF GraphqlRequests, Each
  <2> QED
    BY <1>1, <2>1 DEF Pairing
<1>4. \A p \in Range(Paths) :
         P[p] = Preflight(p) /\ C[p] = Crossing(p) /\ I[p] = Introspection(p) /\ Q[p] = TypeQuery(p)
  OBVIOUS
<1> HIDE DEF P, C, I, Q
<1>5. Paired(P, C, CorsRequests) /\ Paired(I, Q, GraphqlRequests)
  BY <1>2, <1>3, PairsOfRequests
<1>6. /\ IsList(CorsRequests)
      /\ Range(CorsRequests) = {P[p] : p \in Range(Paths)} \cup {C[p] : p \in Range(Paths)}
      /\ IsList(GraphqlRequests)
      /\ Range(GraphqlRequests) = {I[p] : p \in Range(Paths)} \cup {Q[p] : p \in Range(Paths)}
      /\ \A i, j \in DOMAIN GraphqlRequests : i < j =>
            \E p, q \in Range(Paths) :
               /\ GraphqlRequests[i] \in {I[p], Q[p]} /\ GraphqlRequests[j] \in {I[q], Q[q]}
               /\ p = q => GraphqlRequests[i] = I[p] /\ GraphqlRequests[j] = Q[p]
  BY <1>5 DEF Paired
<1>7. /\ {P[p] : p \in Range(Paths)} = PathRequests(Preflight)
      /\ {C[p] : p \in Range(Paths)} = PathRequests(Crossing)
      /\ {I[p] : p \in Range(Paths)} = PathRequests(Introspection)
      /\ {Q[p] : p \in Range(Paths)} = PathRequests(TypeQuery)
  BY <1>4 DEF PathRequests
<1>8. \A p : /\ Introspection(p).at = p /\ TypeQuery(p).at = p
             /\ Introspection(p).with = <<"__schema">> /\ TypeQuery(p).with = <<"__type">>
  BY DEF Introspection, TypeQuery, Request
<1>9. <<"__schema">> # <<"__type">>
  OBVIOUS
<1>10. ASSUME NEW i \in DOMAIN GraphqlRequests, NEW j \in DOMAIN GraphqlRequests, i <= j,
              GraphqlRequests[i] = TypeQuery(GraphqlRequests[i].at),
              GraphqlRequests[j] = Introspection(GraphqlRequests[i].at)
       PROVE  FALSE
  <2>1. i # j
    BY <1>8, <1>9, <1>10
  <2>2. i < j
    <3>1. i \in Int /\ j \in Int
      BY <1>6 DEF IsList
    <3> QED
      BY <1>10, <2>1, <3>1
  <2>3. PICK p \in Range(Paths), q \in Range(Paths) :
           /\ GraphqlRequests[i] \in {I[p], Q[p]} /\ GraphqlRequests[j] \in {I[q], Q[q]}
           /\ p = q => GraphqlRequests[i] = I[p] /\ GraphqlRequests[j] = Q[p]
    BY <1>6, <2>2
  <2>4. GraphqlRequests[i].at = p /\ GraphqlRequests[j].at = q
    BY <1>4, <1>8, <2>3
  <2>5. p = q
    BY <1>8, <1>10, <2>4
  <2>6. GraphqlRequests[i] = Introspection(p)
    BY <1>4, <2>3, <2>5
  <2> QED
    BY <1>8, <1>9, <1>10, <2>6
<1> QED
  BY <1>6, <1>7, <1>10

\* Every path is asked for its methods, then for each of them.
LEMMA MethodsCheck ==
    /\ IsList(MethodsRequests)
    /\ Range(MethodsRequests) =
          PathRequests(Options) \cup {Direct(m, p) : m \in {"DELETE", "TRACE"}, p \in Range(Paths)}
<1> DEFINE tail(p) == [i \in DOMAIN Dangerous |-> Direct(Dangerous[i], p)]
           T == [i \in DOMAIN Paths |-> <<Options(Paths[i])>> \o tail(Paths[i])]
<1>1. MethodsRequests = FlattenSeq(T)
  BY DEF MethodsRequests, Each
<1>2. \A p : IsList(tail(p)) /\ Range(tail(p)) = {Direct("DELETE", p), Direct("TRACE", p)}
  <2>1. \A p : tail(p) = <<Direct("DELETE", p), Direct("TRACE", p)>>
    BY DEF Dangerous
  <2> HIDE DEF tail
  <2>2. \A u, v : IsList(<<u, v>>) /\ Range(<<u, v>>) = {u, v}
    BY ShortLists
  <2> QED
    BY <2>1, <2>2
<1>3. T = [i \in DOMAIN Paths |-> T[i]] /\ \A a \in DOMAIN Paths : T[a] = <<Options(Paths[a])>> \o tail(Paths[a])
  OBVIOUS
<1> HIDE DEF T, tail
<1>4. IsList(T) /\ DOMAIN T = DOMAIN Paths
  BY <1>3, GivenLists, MadeOf
<1>5. \A u : IsList(<<u>>) /\ Range(<<u>>) = {u}
  BY ShortLists
<1>6. \A a \in DOMAIN T :
         /\ IsList(T[a])
         /\ Range(T[a]) = {Options(Paths[a])} \cup {Direct("DELETE", Paths[a]), Direct("TRACE", Paths[a])}
  <2> SUFFICES ASSUME NEW a \in DOMAIN T
               PROVE  /\ IsList(T[a])
                      /\ Range(T[a]) = {Options(Paths[a])}
                                       \cup {Direct("DELETE", Paths[a]), Direct("TRACE", Paths[a])}
    OBVIOUS
  <2> DEFINE head == <<Options(Paths[a])>>
  <2>1. IsList(head) /\ Range(head) = {Options(Paths[a])}
    BY <1>5
  <2>2. T[a] = head \o tail(Paths[a])
    BY <1>3, <1>4
  <2> HIDE DEF head
  <2> QED
    BY <1>2, <2>1, <2>2, RangeOfConcatenation
<1>7. /\ IsList(FlattenSeq(T))
      /\ \A r : r \in Range(FlattenSeq(T)) <=> \E a \in DOMAIN T : r \in Range(T[a])
  BY <1>4, <1>6, RangeOfFlatten
<1>8. \A r : r \in Range(MethodsRequests) <=>
         \E a \in DOMAIN Paths : r \in {Options(Paths[a]), Direct("DELETE", Paths[a]), Direct("TRACE", Paths[a])}
  BY <1>1, <1>4, <1>6, <1>7
<1>9. \A r : r \in Range(MethodsRequests) <=>
         \E p \in Range(Paths) : r \in {Options(p), Direct("DELETE", p), Direct("TRACE", p)}
  BY <1>8 DEF Range
<1> QED
  BY <1>1, <1>7, <1>9 DEF PathRequests

-----------------------------------------------------------------------------
(* The check that compares principals, and the one that logs out.          *)

\* The resources are told apart by where they are and how they are named.
LEMMA ResourcesDiffer ==
    /\ IsList(BolaResources)
    /\ Range(BolaResources) = {Get(p, <<"path id">>) : p \in Range(Paths)}
                              \cup {Get(p, <<"query id">>) : p \in Range(Paths)}
    /\ \A a, b \in DOMAIN BolaResources :
          BolaResources[a].at = BolaResources[b].at /\ BolaResources[a].with[1] = BolaResources[b].with[1]
             => a = b
<1> DEFINE one == [i \in DOMAIN Paths |-> Get(Paths[i], <<"path id">>)]
           two == [i \in DOMAIN Paths |-> Get(Paths[i], <<"query id">>)]
           n == Len(Paths)
<1>1. one = [i \in DOMAIN Paths |-> one[i]] /\ \A i \in DOMAIN Paths : one[i] = Get(Paths[i], <<"path id">>)
  OBVIOUS
<1>2. two = [i \in DOMAIN Paths |-> two[i]] /\ \A i \in DOMAIN Paths : two[i] = Get(Paths[i], <<"query id">>)
  OBVIOUS
<1>3. BolaResources = one \o two
  BY DEF BolaResources
<1> HIDE DEF one, two, n
<1>4. /\ IsList(one) /\ DOMAIN one = DOMAIN Paths /\ IsList(two) /\ DOMAIN two = DOMAIN Paths
  BY <1>1, <1>2, GivenLists, MadeOf
<1>5. n \in Nat /\ DOMAIN Paths = 1..n
  BY GivenLists DEF n
<1>6. Len(one) = n /\ Len(two) = n
  BY <1>4, <1>5 DEF IsList
<1>7. /\ IsList(BolaResources)
      /\ \A a \in DOMAIN BolaResources :
            \/ a \in 1..n /\ BolaResources[a] = one[a]
            \/ a - n \in 1..n /\ BolaResources[a] = two[a - n]
  <2>1. /\ IsList(one \o two)
        /\ \A a \in DOMAIN (one \o two) :
              \/ a \in 1..Len(one) /\ (one \o two)[a] = one[a]
              \/ a - Len(one) \in 1..Len(two) /\ (one \o two)[a] = two[a - Len(one)]
    BY <1>4, Concatenation
  <2> QED
    BY <1>3, <1>6, <2>1
<1>8. \A p : /\ Get(p, <<"path id">>).at = p /\ Get(p, <<"path id">>).with[1] = "path id"
             /\ Get(p, <<"query id">>).at = p /\ Get(p, <<"query id">>).with[1] = "query id"
  BY DEF Get, Request
<1>9. \A a \in DOMAIN BolaResources :
         \/ a \in 1..n /\ BolaResources[a].at = Paths[a] /\ BolaResources[a].with[1] = "path id"
         \/ a - n \in 1..n /\ BolaResources[a].at = Paths[a - n] /\ BolaResources[a].with[1] = "query id"
  <2> SUFFICES ASSUME NEW a \in DOMAIN BolaResources
               PROVE  \/ /\ a \in 1..n /\ BolaResources[a].at = Paths[a]
                         /\ BolaResources[a].with[1] = "path id"
                      \/ /\ a - n \in 1..n /\ BolaResources[a].at = Paths[a - n]
                         /\ BolaResources[a].with[1] = "query id"
    OBVIOUS
  <2>1. CASE a \in 1..n /\ BolaResources[a] = one[a]
    <3>1. BolaResources[a] = Get(Paths[a], <<"path id">>)
      BY <1>1, <1>5, <2>1
    <3> QED
      BY <1>8, <2>1, <3>1
  <2>2. CASE a - n \in 1..n /\ BolaResources[a] = two[a - n]
    <3>1. BolaResources[a] = Get(Paths[a - n], <<"query id">>)
      BY <1>2, <1>5, <2>2
    <3> QED
      BY <1>8, <2>2, <3>1
  <2> QED
    BY <1>7, <2>1, <2>2
<1>10. \A i, j \in 1..n : Paths[i] = Paths[j] => i = j
  BY <1>5, OrdersAssumption DEF Order, IsInjective
<1>11. \A a, b \in DOMAIN BolaResources :
          BolaResources[a].at = BolaResources[b].at /\ BolaResources[a].with[1] = BolaResources[b].with[1]
             => a = b
  <2> SUFFICES ASSUME NEW a \in DOMAIN BolaResources, NEW b \in DOMAIN BolaResources,
                      BolaResources[a].at = BolaResources[b].at,
                      BolaResources[a].with[1] = BolaResources[b].with[1]
               PROVE  a = b
    OBVIOUS
  <2>0. /\ \/ a \in 1..n /\ BolaResources[a].at = Paths[a] /\ BolaResources[a].with[1] = "path id"
           \/ /\ a - n \in 1..n /\ BolaResources[a].at = Paths[a - n]
              /\ BolaResources[a].with[1] = "query id"
        /\ \/ b \in 1..n /\ BolaResources[b].at = Paths[b] /\ BolaResources[b].with[1] = "path id"
           \/ /\ b - n \in 1..n /\ BolaResources[b].at = Paths[b - n]
              /\ BolaResources[b].with[1] = "query id"
    BY <1>9
  <2>1. CASE a \in 1..n /\ b \in 1..n /\ Paths[a] = Paths[b]
    BY <1>10, <2>1
  <2>2. CASE a - n \in 1..n /\ b - n \in 1..n /\ Paths[a - n] = Paths[b - n]
    <3>1. a - n = b - n
      BY <1>10, <2>2
    <3>2. a \in Int /\ b \in Int
      BY <1>7 DEF IsList
    <3> QED
      BY <1>5, <3>1, <3>2
  <2> QED
    BY <2>0, <2>1, <2>2, Zenon
<1>12. Range(BolaResources) = {Get(p, <<"path id">>) : p \in Range(Paths)}
                               \cup {Get(p, <<"query id">>) : p \in Range(Paths)}
  <2>1. Range(BolaResources) = Range(one) \cup Range(two)
    BY <1>3, <1>4, RangeOfConcatenation
  <2>2. Range(one) = {Get(p, <<"path id">>) : p \in Range(Paths)}
    BY <1>1, <1>4 DEF Range
  <2>3. Range(two) = {Get(p, <<"query id">>) : p \in Range(Paths)}
    BY <1>2, <1>4 DEF Range
  <2> QED
    BY <2>1, <2>2, <2>3
<1> QED
  BY <1>7, <1>11, <1>12

\* The fields of a request sent as the principal at the place x.
LEMMA SentFields ==
    ASSUME NEW ps, NEW x, NEW r
    PROVE  /\ SentAs(ps, x, r).at = r.at /\ SentAs(ps, x, r).with[1] = r.with[1]
           /\ SentAs(ps, x, r).with[2] = x /\ SentAs(ps, x, r).by = ps[x]
           /\ SentAs(ps, x, r).method = "GET"
           /\ OfOwner(ps, SentAs(ps, x, r)) = SentAs(ps, 1, r)
BY DEF SentAs, OfOwner, As, Get, Request

\* The owner of a resource is asked before the others.
OwnersFirst(ps, q) ==
    \A i, j \in DOMAIN q : i <= j /\ q[i].with[2] # 1 => q[j] # OfOwner(ps, q[i])

LEMMA BolaCheck ==
    ASSUME NEW ps, IsList(ps)
    PROVE  /\ IsList(BolaRequests(ps))
           /\ Range(BolaRequests(ps)) =
                 {SentAs(ps, i, r) : i \in DOMAIN ps, r \in Range(BolaResources)}
           /\ OwnersFirst(ps, BolaRequests(ps))
<1> DEFINE T == [a \in DOMAIN BolaResources |-> [i \in DOMAIN ps |-> SentAs(ps, i, BolaResources[a])]]
           flat == BolaRequests(ps)
<1>1. flat = FlattenSeq(T)
  BY DEF BolaRequests, Each
<1>2. T = [a \in DOMAIN BolaResources |-> T[a]]
  OBVIOUS
<1>3. \A a \in DOMAIN BolaResources :
         /\ T[a] = [i \in DOMAIN ps |-> T[a][i]]
         /\ \A i \in DOMAIN ps : T[a][i] = SentAs(ps, i, BolaResources[a])
  OBVIOUS
<1> HIDE DEF T, flat
<1>4. IsList(T) /\ DOMAIN T = DOMAIN BolaResources
  BY <1>2, ResourcesDiffer, MadeOf
<1>5. \A a \in DOMAIN T : IsList(T[a]) /\ DOMAIN T[a] = DOMAIN ps
  BY <1>3, <1>4, MadeOf
<1>6. /\ IsList(flat) /\ Joins(T, flat)
      /\ \A r : r \in Range(flat) <=> \E a \in DOMAIN T : r \in Range(T[a])
  BY <1>1, <1>4, <1>5, Flattened, RangeOfFlatten
<1>7. Range(flat) = {SentAs(ps, i, r) : i \in DOMAIN ps, r \in Range(BolaResources)}
  <2>1. \A r : r \in Range(flat) <=>
           \E a \in DOMAIN BolaResources : \E i \in DOMAIN ps : r = SentAs(ps, i, BolaResources[a])
    <3>1. \A a \in DOMAIN BolaResources : \A r :
             r \in Range(T[a]) <=> \E i \in DOMAIN ps : r = SentAs(ps, i, BolaResources[a])
      <4> SUFFICES ASSUME NEW a \in DOMAIN BolaResources, NEW r
                   PROVE  r \in Range(T[a]) <=> \E i \in DOMAIN ps : r = SentAs(ps, i, BolaResources[a])
        OBVIOUS
      <4>1. r \in Range(T[a]) <=> \E i \in DOMAIN ps : r = T[a][i]
        BY <1>4, <1>5 DEF Range
      <4>2. \A i \in DOMAIN ps : T[a][i] = SentAs(ps, i, BolaResources[a])
        BY <1>3
      <4> QED
        BY <4>1, <4>2
    <3> QED
      BY <1>4, <1>6, <3>1
  <2> QED
    BY <2>1 DEF Range
<1>8. ASSUME NEW i \in DOMAIN flat, NEW j \in DOMAIN flat, i <= j, flat[i].with[2] # 1,
             flat[j] = OfOwner(ps, flat[i])
      PROVE  FALSE
  <2>0. DOMAIN ps \subseteq Nat \ {0} /\ DOMAIN T \subseteq Int /\ i \in Int /\ j \in Int
    BY <1>4, <1>6 DEF IsList
  <2>2. i # j
    <3>1. \E x, r : flat[i] = SentAs(ps, x, r)
      BY <1>7 DEF Range
    <3>2. OfOwner(ps, flat[i]).with[2] = 1
      BY <3>1, SentFields
    <3> QED
      BY <1>8, <3>2
  <2>3. i < j
    BY <1>8, <2>0, <2>2
  <2>4. PICK a \in DOMAIN T, b \in DOMAIN T : \E x \in DOMAIN T[a], y \in DOMAIN T[b] :
           /\ flat[i] = T[a][x] /\ flat[j] = T[b][y]
           /\ a < b \/ (a = b /\ x < y)
    BY <1>6, <2>3 DEF Joins
  <2>5. PICK x \in DOMAIN ps, y \in DOMAIN ps :
           /\ flat[i] = T[a][x] /\ flat[j] = T[b][y]
           /\ a < b \/ (a = b /\ x < y)
    BY <1>5, <2>4
  <2>6. flat[i] = SentAs(ps, x, BolaResources[a]) /\ flat[j] = SentAs(ps, y, BolaResources[b])
    BY <1>3, <1>4, <2>5
  <2>7. flat[j] = SentAs(ps, 1, BolaResources[a])
    BY <1>8, <2>6, SentFields
  <2>8. y = 1 /\ BolaResources[b].at = BolaResources[a].at /\ BolaResources[b].with[1] = BolaResources[a].with[1]
    <3>1. /\ flat[j].with[2] = y /\ flat[j].at = BolaResources[b].at
          /\ flat[j].with[1] = BolaResources[b].with[1]
      BY <2>6, SentFields
    <3>2. /\ flat[j].with[2] = 1 /\ flat[j].at = BolaResources[a].at
          /\ flat[j].with[1] = BolaResources[a].with[1]
      BY <2>7, SentFields
    <3> QED
      BY <3>1, <3>2
  <2>9. a = b
    BY <1>4, <2>8, ResourcesDiffer
  <2> QED
    BY <2>0, <2>5, <2>8, <2>9
<1> QED
  BY <1>6, <1>7, <1>8 DEF OwnersFirst, flat

\* The fields of the requests that look for a live session.
LEMMA SessionFields ==
    ASSUME NEW p, NEW l
    PROVE  /\ Before(p).with[1] = "before" /\ Before(p).at = p /\ Before(p).method = "GET"
           /\ Logout(l).with[1] = "logout" /\ Logout(l).at = l /\ Logout(l).method = "POST"
           /\ After(p, l).with[1] = "after" /\ After(p, l).with[2] = l /\ After(p, l).at = p
           /\ After(p, l).method = "GET"
BY DEF Before, Logout, After, Get, Request

\* Logging out, then looking again, for one logout path after the other.
Rounds == FlattenSeq([a \in DOMAIN Logouts |->
              <<Logout(Logouts[a])>> \o [i \in DOMAIN Paths |-> After(Paths[i], Logouts[a])]])

LEMMA RoundsOfLogouts ==
    /\ IsList(Rounds)
    /\ Range(Rounds) = {Logout(l) : l \in Range(Logouts)}
                       \cup UNION {{After(p, l) : p \in Range(Paths)} : l \in Range(Logouts)}
    /\ \A i, j \in DOMAIN Rounds :
          i <= j /\ Rounds[i].with[1] = "after" => Rounds[j] # Logout(Rounds[i].with[2])
<1> DEFINE head(a) == <<Logout(Logouts[a])>>
           tail(a) == [i \in DOMAIN Paths |-> After(Paths[i], Logouts[a])]
           T == [a \in DOMAIN Logouts |-> head(a) \o tail(a)]
<1>1. Rounds = FlattenSeq(T)
  BY DEF Rounds
<1>2. T = [a \in DOMAIN Logouts |-> T[a]] /\ \A a \in DOMAIN Logouts : T[a] = head(a) \o tail(a)
  OBVIOUS
<1>3. \A a : /\ tail(a) = [i \in DOMAIN Paths |-> tail(a)[i]]
             /\ \A i \in DOMAIN Paths : tail(a)[i] = After(Paths[i], Logouts[a])
  OBVIOUS
<1>4. \A a : IsList(head(a)) /\ Len(head(a)) = 1 /\ head(a)[1] = Logout(Logouts[a])
  BY ShortLists
<1>5. \A a : Range(head(a)) = {Logout(Logouts[a])}
  BY ShortLists
<1> HIDE DEF head, tail, T
<1>6. \A a : IsList(tail(a)) /\ DOMAIN tail(a) = DOMAIN Paths
  BY <1>3, GivenLists, MadeOf
<1>7. IsList(T) /\ DOMAIN T = DOMAIN Logouts
  BY <1>2, GivenLists, MadeOf
<1>8. \A a \in DOMAIN T :
         /\ IsList(T[a])
         /\ Range(T[a]) = Range(head(a)) \cup Range(tail(a))
         /\ \A x \in DOMAIN T[a] : \/ x = 1 /\ T[a][x] = Logout(Logouts[a])
                                   \/ x > 1 /\ x - 1 \in DOMAIN Paths /\ T[a][x] = After(Paths[x - 1], Logouts[a])
  <2> SUFFICES ASSUME NEW a \in DOMAIN T
               PROVE  /\ IsList(T[a])
                      /\ Range(T[a]) = Range(head(a)) \cup Range(tail(a))
                      /\ \A x \in DOMAIN T[a] :
                            \/ x = 1 /\ T[a][x] = Logout(Logouts[a])
                            \/ /\ x > 1 /\ x - 1 \in DOMAIN Paths
                               /\ T[a][x] = After(Paths[x - 1], Logouts[a])
    OBVIOUS
  <2>1. T[a] = head(a) \o tail(a)
    BY <1>2, <1>7
  <2>2. IsList(head(a) \o tail(a)) /\ Range(head(a) \o tail(a)) = Range(head(a)) \cup Range(tail(a))
    BY <1>4, <1>6, RangeOfConcatenation
  <2>3. \A x \in DOMAIN (head(a) \o tail(a)) :
           \/ x \in 1..Len(head(a)) /\ (head(a) \o tail(a))[x] = head(a)[x]
           \/ /\ x - Len(head(a)) \in 1..Len(tail(a))
              /\ (head(a) \o tail(a))[x] = tail(a)[x - Len(head(a))]
    BY <1>4, <1>6, Concatenation
  <2>4. 1..Len(tail(a)) = DOMAIN Paths /\ DOMAIN (head(a) \o tail(a)) \subseteq Int
    BY <1>6, <2>2 DEF IsList
  <2>5. ASSUME NEW x \in DOMAIN T[a]
        PROVE  \/ x = 1 /\ T[a][x] = Logout(Logouts[a])
               \/ x > 1 /\ x - 1 \in DOMAIN Paths /\ T[a][x] = After(Paths[x - 1], Logouts[a])
    <3>1. CASE x \in 1..1 /\ T[a][x] = head(a)[x]
      BY <1>4, <3>1
    <3>2. CASE x - 1 \in DOMAIN Paths /\ T[a][x] = tail(a)[x - 1]
      <4>1. x \in Int /\ x - 1 >= 1
        BY <2>1, <2>4, <3>2, GivenLists
      <4> QED
        BY <1>3, <3>2, <4>1
    <3> QED
      BY <1>4, <2>1, <2>3, <2>4, <3>1, <3>2
  <2> QED
    BY <2>1, <2>2, <2>5
<1>9. /\ IsList(Rounds) /\ Joins(T, Rounds)
      /\ \A r : r \in Range(Rounds) <=> \E a \in DOMAIN T : r \in Range(T[a])
  BY <1>1, <1>7, <1>8, Flattened, RangeOfFlatten
<1>10. Range(Rounds) = {Logout(l) : l \in Range(Logouts)}
                       \cup UNION {{After(p, l) : p \in Range(Paths)} : l \in Range(Logouts)}
  <2>1. ASSUME NEW a \in DOMAIN T
        PROVE  Range(T[a]) = {Logout(Logouts[a])} \cup {After(p, Logouts[a]) : p \in Range(Paths)}
    <3>1. Range(tail(a)) = {After(p, Logouts[a]) : p \in Range(Paths)}
      BY <1>3, <1>6 DEF Range
    <3> QED
      BY <1>5, <1>8, <3>1
  <2>2. \A r : r \in Range(Rounds) <=>
           \E a \in DOMAIN Logouts : r \in {Logout(Logouts[a])} \cup {After(p, Logouts[a]) : p \in Range(Paths)}
    BY <1>7, <1>9, <2>1
  <2> QED
    BY <2>2 DEF Range
<1>11. ASSUME NEW i \in DOMAIN Rounds, NEW j \in DOMAIN Rounds, i <= j, Rounds[i].with[1] = "after",
              Rounds[j] = Logout(Rounds[i].with[2])
       PROVE  FALSE
  <2>1. i # j
    BY <1>11, SessionFields
  <2>2. i < j
    <3>1. i \in Int /\ j \in Int
      BY <1>9 DEF IsList
    <3> QED
      BY <1>11, <2>1, <3>1
  <2>3. PICK a \in DOMAIN T, b \in DOMAIN T : \E x \in DOMAIN T[a], y \in DOMAIN T[b] :
           /\ Rounds[i] = T[a][x] /\ Rounds[j] = T[b][y]
           /\ a < b \/ (a = b /\ x < y)
    BY <1>9, <2>2 DEF Joins
  <2>4. PICK x \in DOMAIN T[a], y \in DOMAIN T[b] :
           /\ Rounds[i] = T[a][x] /\ Rounds[j] = T[b][y]
           /\ a < b \/ (a = b /\ x < y)
    BY <2>3
  <2>5. x > 1 /\ Rounds[i].with[2] = Logouts[a]
    BY <1>8, <1>11, <2>4, SessionFields
  <2>6. y = 1 /\ Rounds[j] = Logout(Logouts[b])
    BY <1>8, <1>11, <2>4, SessionFields
  <2>7. Logouts[a] = Logouts[b]
    BY <1>11, <2>5, <2>6, SessionFields
  <2>8. a = b
    BY <1>7, <2>7, LogoutsAssumption DEF Order, IsInjective
  <2>9. a \in Int /\ x \in Int
    BY <1>7, <1>8 DEF IsList
  <2> QED
    BY <2>4, <2>5, <2>6, <2>8, <2>9
<1> QED
  BY <1>9, <1>10, <1>11

\* No page is looked at for the first time once a logout was tried, and no
\* logout is tried once its pages were looked at.
LooksFirst(q) ==
    \A i, j \in DOMAIN q : i <= j =>
       /\ q[i].with[1] \in {"logout", "after"} => q[j].with[1] # "before"
       /\ q[i].with[1] = "after" => q[j] # As(q[i].by, Logout(q[i].with[2]))

LEMMA InvalidationCheck ==
    ASSUME NEW ids
    PROVE  /\ IsList(InvalidationRequests(ids))
           /\ Range(InvalidationRequests(ids)) =
                 IF Authenticated(ids) = {} THEN {}
                 ELSE LogoutRequests(ids[Min(Authenticated(ids))].name)
           /\ LooksFirst(InvalidationRequests(ids))
<1> DEFINE name == ids[Min(Authenticated(ids))].name
           first == [i \in DOMAIN Paths |-> Before(Paths[i])]
           all == first \o Rounds
           q == [i \in DOMAIN all |-> As(name, all[i])]
<1>1. InvalidationRequests(ids) = IF Authenticated(ids) = {} THEN <<>> ELSE q
  <2>1. Rounds = Each(Logouts, LAMBDA l :
                    <<Logout(l)>> \o [i \in DOMAIN Paths |-> After(Paths[i], l)])
    BY DEF Rounds, Each
  <2> QED
    BY <2>1 DEF InvalidationRequests, InvalidationOf
<1>2. first = [i \in DOMAIN Paths |-> first[i]] /\ \A i \in DOMAIN Paths : first[i] = Before(Paths[i])
  OBVIOUS
<1>3. q = [i \in DOMAIN all |-> q[i]] /\ \A i \in DOMAIN all : q[i] = As(name, all[i])
  OBVIOUS
<1> HIDE DEF first, q, name
<1>4. /\ IsList(first) /\ DOMAIN first = DOMAIN Paths /\ IsList(Rounds)
      /\ Range(first) = {Before(p) : p \in Range(Paths)}
  <2>1. IsList(first) /\ DOMAIN first = DOMAIN Paths
    BY <1>2, GivenLists, MadeOf
  <2> QED
    BY <1>2, <2>1, RoundsOfLogouts DEF Range
<1>5. /\ IsList(all)
      /\ \A i \in DOMAIN all : \/ i \in 1..Len(first) /\ all[i] = first[i]
                               \/ i - Len(first) \in 1..Len(Rounds) /\ all[i] = Rounds[i - Len(first)]
      /\ Range(all) = Range(first) \cup Range(Rounds)
  BY <1>4, Concatenation, RangeOfConcatenation
<1> HIDE DEF all
<1>6. IsList(q) /\ DOMAIN q = DOMAIN all
  BY <1>3, <1>5, MadeOf
<1>7. /\ Len(first) \in Nat /\ DOMAIN first = 1..Len(first)
      /\ Len(Rounds) \in Nat /\ DOMAIN Rounds = 1..Len(Rounds)
  BY <1>4 DEF IsList
<1>8. Range(q) = LogoutRequests(name)
  <2>1. \A r : r \in Range(q) <=> \E t \in Range(all) : r = As(name, t)
    BY <1>3, <1>6 DEF Range
  <2> DEFINE rest == {Logout(l) : l \in Range(Logouts)}
                     \cup UNION {{After(p, l) : p \in Range(Paths)} : l \in Range(Logouts)}
  <2>2. Range(all) = {Before(p) : p \in Range(Paths)} \cup rest
    BY <1>4, <1>5, RoundsOfLogouts
  <2>3. \A r : r \in LogoutRequests(name) <=>
           \/ \E p \in Range(Paths) : r = As(name, Before(p))
           \/ \E l \in Range(Logouts) : r = As(name, Logout(l))
           \/ \E l \in Range(Logouts) : \E p \in Range(Paths) : r = As(name, After(p, l))
    BY DEF LogoutRequests
  <2> QED
    BY <2>1, <2>2, <2>3
<1>9. \A r : /\ As(name, r).with = r.with /\ As(name, r).at = r.at
  BY DEF As
<1>10. \A p, l : /\ As(name, Before(p)).by = name /\ As(name, Logout(l)).by = name
                 /\ As(name, After(p, l)).by = name
  BY DEF As, Before, Logout, After, Get, Request
<1>11. \A r \in Range(first) : r.with[1] = "before"
  BY <1>4, SessionFields
<1>12. \A r \in Range(Rounds) : r.with[1] \in {"logout", "after"}
  <2>1. \A r \in Range(Rounds) : (\E l : r = Logout(l)) \/ (\E p, l : r = After(p, l))
    BY RoundsOfLogouts
  <2> QED
    BY <2>1, SessionFields
<1>13. \A i \in DOMAIN all :
          \/ i <= Len(first) /\ all[i].with[1] = "before"
          \/ /\ i > Len(first) /\ i - Len(first) \in DOMAIN Rounds /\ all[i] = Rounds[i - Len(first)]
             /\ all[i].with[1] \in {"logout", "after"}
  <2> SUFFICES ASSUME NEW i \in DOMAIN all
               PROVE  \/ i <= Len(first) /\ all[i].with[1] = "before"
                      \/ /\ i > Len(first) /\ i - Len(first) \in DOMAIN Rounds
                         /\ all[i] = Rounds[i - Len(first)]
                         /\ all[i].with[1] \in {"logout", "after"}
    OBVIOUS
  <2>1. CASE i \in 1..Len(first) /\ all[i] = first[i]
    BY <1>7, <1>11, <2>1 DEF Range
  <2>2. CASE i - Len(first) \in 1..Len(Rounds) /\ all[i] = Rounds[i - Len(first)]
    <3>1. i \in Int
      BY <1>5 DEF IsList
    <3>2. Rounds[i - Len(first)] \in Range(Rounds)
      BY <1>7, <2>2 DEF Range
    <3> QED
      BY <1>7, <1>12, <2>2, <3>1, <3>2
  <2> QED
    BY <1>5, <2>1, <2>2
<1>14. ASSUME NEW i \in DOMAIN q, NEW j \in DOMAIN q, i <= j
       PROVE  /\ q[i].with[1] \in {"logout", "after"} => q[j].with[1] # "before"
              /\ q[i].with[1] = "after" => q[j] # As(q[i].by, Logout(q[i].with[2]))
  <2>1. /\ i \in DOMAIN all /\ j \in DOMAIN all /\ i \in Int /\ j \in Int
        /\ q[i] = As(name, all[i]) /\ q[j] = As(name, all[j])
        /\ q[i].with = all[i].with /\ q[j].with = all[j].with
    BY <1>3, <1>6, <1>9 DEF IsList
  <2>2. ASSUME q[i].with[1] \in {"logout", "after"}
        PROVE  /\ i - Len(first) \in DOMAIN Rounds /\ j - Len(first) \in DOMAIN Rounds
               /\ all[i] = Rounds[i - Len(first)] /\ all[j] = Rounds[j - Len(first)]
               /\ all[j].with[1] \in {"logout", "after"}
    BY <1>7, <1>13, <1>14, <2>1, <2>2
  <2>3. ASSUME q[i].with[1] = "after", q[j] = As(q[i].by, Logout(q[i].with[2]))
        PROVE  FALSE
    <3>1. PICK x \in DOMAIN Rounds, y \in DOMAIN Rounds :
             x <= y /\ all[i] = Rounds[x] /\ all[j] = Rounds[y]
      <4>1. i - Len(first) <= j - Len(first)
        BY <1>7, <1>14, <2>1
      <4> QED
        BY <2>2, <2>3, <4>1
    <3>2. Rounds[x].with[1] = "after" /\ Rounds[y] # Logout(Rounds[x].with[2])
      BY <2>1, <2>3, <3>1, RoundsOfLogouts
    <3>3. \/ \E l \in Range(Logouts) : Rounds[y] = Logout(l)
          \/ \E l \in Range(Logouts) : \E p \in Range(Paths) : Rounds[y] = After(p, l)
      BY RoundsOfLogouts DEF Range
    <3>4. q[j].with[1] = "logout" /\ q[j].at = q[i].with[2]
      <4>1. \A r, n : As(n, r).with = r.with /\ As(n, r).at = r.at
        BY DEF As
      <4> QED
        BY <2>3, <4>1, SessionFields
    <3>5. Rounds[y].with[1] = "logout" /\ Rounds[y].at = q[i].with[2]
      BY <1>9, <2>1, <3>1, <3>4
    <3>6. Rounds[y] = Logout(Rounds[x].with[2])
      BY <2>1, <3>1, <3>3, <3>5, SessionFields
    <3> QED
      BY <3>2, <3>6
  <2> QED
    BY <2>2, <2>3, <2>1
<1>15. LooksFirst(q)
  BY <1>14 DEF LooksFirst
<1>16. CASE Authenticated(ids) = {}
  <2>1. LooksFirst(<<>>)
    BY DEF LooksFirst
  <2> QED
    BY <1>1, <1>16, <2>1, ShortLists
<1>17. CASE Authenticated(ids) # {}
  BY <1>1, <1>6, <1>8, <1>15, <1>17 DEF name
<1> QED
  BY <1>16, <1>17

-----------------------------------------------------------------------------
(* All checks.                                                             *)

\* What a check may ask for is in its list, and nothing else is.
LEMMA RequestsAsked ==
    ASSUME NEW check \in CheckNames, NEW s, IsList(s.ps)
    PROVE  IsList(RequestsOf(check, s)) /\ Range(RequestsOf(check, s)) = Asked(check, s)
<1> DEFINE Lists(q, S) == IsList(q) /\ Range(q) = S
<1>1. /\ Lists(SqliRequests, Asked("sqli-time-based", s))
      /\ Lists(CmdiRequests, Asked("command-injection", s))
      /\ Lists(TraversalRequests, Asked("path-traversal", s))
  BY ProbingChecks DEF Asked
<1>2. Lists(XssRequests, Asked("xss-reflected", s))
  BY XssCheck DEF Asked
<1>3. /\ Lists(SsrfRequests, Asked("ssrf", s))
      /\ Lists(HeadersRequests, Asked("security-headers", s))
      /\ Lists(DisclosureRequests, Asked("information-disclosure", s))
      /\ Lists(MapsRequests, Asked("source-map-exposure", s))
      /\ Lists(RedirectRequests, Asked("open-redirect-indicator", s))
      /\ Lists(CookieRequests, Asked("session-cookie", s))
      /\ Lists(<<Home>>, Asked("plugin", s))
  BY HomeChecks DEF Asked
<1>4. Lists(BolaRequests(s.ps), Asked("bola-idor", s))
  BY BolaCheck DEF Asked
<1>5. /\ Lists(BflaRequests(s.ps), Asked("bfla", s))
      /\ Lists(BehaviorRequests(s.ids), Asked("bfla-behavior", s))
      /\ Lists(AssignmentRequests, Asked("mass-assignment", s))
  <2>1. /\ Asked("bfla", s) = {As(s.ps[1], Get(p, <<"admin page">>)) : p \in Range(Paths)}
        /\ Asked("mass-assignment", s) = {Get(p, <<"profile">>) : p \in Range(Paths)}
        /\ Asked("bfla-behavior", s) =
              IF NonAdmins(s.ids) = {} THEN {} ELSE {Get(p, <<"admin function">>) : p \in Range(Paths)}
    BY DEF Asked
  <2> QED
    BY <2>1, PathChecks
<1>6. Lists(InvalidationRequests(s.ids), Asked("session-invalidation", s))
  BY InvalidationCheck DEF Asked
<1>7. /\ Lists(CorsRequests, Asked("cors-policy", s))
      /\ Lists(GraphqlRequests, Asked("graphql", s))
  BY CorsAndGraphql DEF Asked
<1>8. Lists(MethodsRequests, Asked("http-methods", s))
  BY MethodsCheck DEF Asked
<1> HIDE DEF Lists
<1>9. Lists(RequestsOf(check, s), Asked(check, s))
  BY <1>1, <1>2, <1>3, <1>4, <1>5, <1>6, <1>7, <1>8, ZenonT(60)
     DEF RequestsOf, CheckNames, Passive, Gated, Ungated
<1> QED
  BY <1>9 DEF Lists

\* The checks that compare probes with baselines.
Comparing == {"sqli-time-based", "command-injection", "path-traversal"}

\* The requests whose answers decide whether r is sent and what it tells.
RestsOn(check, s, r) ==
    CASE check \in Comparing /\ r.with[1] = "probe" -> {Baseline(r.at, i) : i \in Samples}
      [] check = "bola-idor" /\ r.with[2] # 1 -> {OfOwner(s.ps, r)}
      [] check = "graphql" /\ r = TypeQuery(r.at) -> {Introspection(r.at)}
      [] check = "session-invalidation" /\ r.with[1] = "logout" ->
            {As(r.by, Before(p)) : p \in Range(Paths)}
      [] check = "session-invalidation" /\ r.with[1] = "after" ->
            {As(r.by, Before(p)) : p \in Range(Paths)} \cup {As(r.by, Logout(r.with[2]))}
      [] OTHER -> {}

\* They do not come after r.
InOrder(check, s, q) == \A i, j \in DOMAIN q : i <= j => q[j] \notin RestsOn(check, s, q[i])

LEMMA RequestsInOrder ==
    ASSUME NEW check \in CheckNames, NEW s, IsList(s.ps)
    PROVE  InOrder(check, s, RequestsOf(check, s))
<1>1. CASE check \in Comparing
  <2> DEFINE q == RequestsOf(check, s)
  <2>1. BaselinesFirst(q)
    BY <1>1, ProbingChecks DEF RequestsOf, Comparing
  <2>2. \A r : r.with[1] # "probe" => RestsOn(check, s, r) = {}
    BY <1>1 DEF RestsOn, Comparing
  <2>3. \A r : r.with[1] = "probe" => RestsOn(check, s, r) = {Baseline(r.at, i) : i \in Samples}
    BY <1>1 DEF RestsOn, Comparing
  <2> HIDE DEF q
  <2>4. ASSUME NEW i \in DOMAIN q, NEW j \in DOMAIN q, i <= j, q[j] \in RestsOn(check, s, q[i])
        PROVE  FALSE
    <3>1. q[i].with[1] = "probe" /\ \E m : q[j] = Baseline(q[i].at, m)
      BY <2>2, <2>3, <2>4
    <3> QED
      BY <2>1, <2>4, <3>1 DEF BaselinesFirst
  <2> QED
    BY <2>4 DEF InOrder, q
<1>2. CASE check = "bola-idor"
  <2>1. OwnersFirst(s.ps, BolaRequests(s.ps)) /\ RequestsOf(check, s) = BolaRequests(s.ps)
    BY <1>2, BolaCheck DEF RequestsOf
  <2>2. \A r : RestsOn(check, s, r) = IF r.with[2] # 1 THEN {OfOwner(s.ps, r)} ELSE {}
    BY <1>2 DEF RestsOn, Comparing
  <2> QED
    BY <2>1, <2>2 DEF OwnersFirst, InOrder
<1>3. CASE check = "graphql"
  <2>1. /\ RequestsOf(check, s) = GraphqlRequests
        /\ \A r : RestsOn(check, s, r) = IF r = TypeQuery(r.at) THEN {Introspection(r.at)} ELSE {}
    BY <1>3 DEF RequestsOf, RestsOn, Comparing
  <2> QED
    BY <2>1, CorsAndGraphql DEF InOrder
<1>4. CASE check = "session-invalidation"
  <2> DEFINE q == InvalidationRequests(s.ids)
  <2>1. LooksFirst(q) /\ RequestsOf(check, s) = q
    BY <1>4, InvalidationCheck DEF RequestsOf
  <2>2. \A n, p : As(n, Before(p)).with[1] = "before"
    BY DEF As, Before, Get, Request
  <2> HIDE DEF q
  <2>3. ASSUME NEW r, NEW t \in RestsOn(check, s, r)
        PROVE  \/ r.with[1] \in {"logout", "after"} /\ t.with[1] = "before"
               \/ r.with[1] = "after" /\ t = As(r.by, Logout(r.with[2]))
    BY <1>4, <2>2, <2>3, Zenon DEF RestsOn, Comparing
  <2> QED
    BY <2>1, <2>3 DEF LooksFirst, InOrder
<1>5. CASE check \notin Comparing \cup {"bola-idor", "graphql", "session-invalidation"}
  <2>1. \A r : RestsOn(check, s, r) = {}
    BY <1>5 DEF RestsOn
  <2> QED
    BY <2>1 DEF InOrder
<1> QED
  BY <1>1, <1>2, <1>3, <1>4, <1>5

\* The lists of some checks.
LEMMA AskedByCheck ==
    ASSUME NEW s
    PROVE  /\ Asked("sqli-time-based", s) = Tries(Samples) /\ Asked("command-injection", s) = Tries(Samples)
           /\ Asked("path-traversal", s) = Tries({First})
           /\ Asked("bfla", s) = {As(s.ps[1], Get(p, <<"admin page">>)) : p \in Range(Paths)}
           /\ Asked("bfla-behavior", s) =
                 (IF NonAdmins(s.ids) = {} THEN {}
                  ELSE {Get(p, <<"admin function">>) : p \in Range(Paths)})
<1>1. /\ Asked("sqli-time-based", s) = Tries(Samples) /\ Asked("command-injection", s) = Tries(Samples)
      /\ Asked("path-traversal", s) = Tries({First})
  BY DEF Asked
<1>2. Asked("bfla", s) = {As(s.ps[1], Get(p, <<"admin page">>)) : p \in Range(Paths)}
  BY DEF Asked
<1>3. Asked("bfla-behavior", s) =
         (IF NonAdmins(s.ids) = {} THEN {}
          ELSE {Get(p, <<"admin function">>) : p \in Range(Paths)})
  BY DEF Asked
<1> QED
  BY <1>1, <1>2, <1>3

\* Only the check that logs out asks for a logout, as its principal, and the
\* passive checks only read, but for the one that tries the dangerous methods.
LEMMA AskedFields ==
    ASSUME NEW check \in CheckNames, NEW s, NEW r \in Asked(check, s)
    PROVE  /\ r.with[1] = "logout" => /\ check = "session-invalidation" /\ Authenticated(s.ids) # {}
                                      /\ r.by = s.ids[Min(Authenticated(s.ids))].name
           /\ check \in (Passive \cup {"plugin"}) \ {"http-methods"} => r.method \in {"GET", "OPTIONS"}
           /\ check = "http-methods" => r.method \in {"OPTIONS"} \cup Range(Dangerous)
<1> DEFINE Stays == r.with[1] # "logout"
           Reads == r.method \in {"GET", "OPTIONS"}
<1>1. CASE check \in Comparing
  <2>1. \E p, x : r = Baseline(p, x) \/ r = Probe(p, x)
    <3>1. \E samples : r \in Tries(samples)
      BY <1>1, AskedByCheck DEF Comparing
    <3> QED
      BY <3>1 DEF Tries
  <2>2. Stays /\ Reads
    BY <2>1 DEF Baseline, Probe, Get, Request
  <2> QED
    BY <1>1, <2>2 DEF Comparing
<1>2. CASE check = "xss-reflected"
  <2>1. r = Home \/ \E p : r = Get(p, <<"canary">>) \/ r = Json(p)
    BY <1>2 DEF Asked, PathRequests
  <2>2. Stays
    BY <2>1 DEF Home, Json, Get, Request
  <2> QED
    BY <1>2, <2>2 DEF Passive
<1>3. CASE check = "ssrf"
  <2>1. r = Home \/ \E m, p : r = Callback(m, p)
    BY <1>3 DEF Asked
  <2>2. Stays
    BY <2>1 DEF Home, Callback, Get, Request
  <2> QED
    BY <1>3, <2>2 DEF Passive
<1>4. CASE check = "bola-idor"
  <2>1. PICK i, t : r = SentAs(s.ps, i, t) /\ t \in Range(BolaResources)
    BY <1>4 DEF Asked
  <2>2. t.with[1] \in {"path id", "query id"}
    <3>1. PICK p : t = Get(p, <<"path id">>) \/ t = Get(p, <<"query id">>)
      BY <2>1, ResourcesDiffer
    <3>2. CASE t = Get(p, <<"path id">>)
      BY <3>2 DEF Get, Request
    <3>3. CASE t = Get(p, <<"query id">>)
      BY <3>3 DEF Get, Request
    <3> QED
      BY <3>1, <3>2, <3>3
  <2>3. r.with[1] = t.with[1]
    BY <2>1, SentFields
  <2>4. Stays
    BY <2>2, <2>3
  <2> QED
    BY <1>4, <2>4 DEF Passive
<1>5. CASE check = "bfla"
  <2>1. \E p : r = As(s.ps[1], Get(p, <<"admin page">>))
    BY <1>5, AskedByCheck
  <2>2. \A n, p : As(n, Get(p, <<"admin page">>)).with[1] = "admin page"
    BY DEF As, Get, Request
  <2>3. r.with[1] = "admin page"
    BY <2>1, <2>2
  <2>4. Stays
    BY <2>3
  <2> QED
    BY <1>5, <2>4 DEF Passive
<1>6. CASE check = "bfla-behavior"
  <2>1. Asked("bfla-behavior", s) = IF NonAdmins(s.ids) = {} THEN {}
                                    ELSE {Get(p, <<"admin function">>) : p \in Range(Paths)}
    BY AskedByCheck
  <2>2. PICK p : r = Get(p, <<"admin function">>)
    BY <1>6, <2>1
  <2>3. r.with[1] = "admin function"
    BY <2>2 DEF Get, Request
  <2>4. Stays
    BY <2>3
  <2> QED
    BY <1>6, <2>4 DEF Passive
<1>7. CASE check = "mass-assignment"
  <2>1. \E p : r = Get(p, <<"profile">>)
    BY <1>7 DEF Asked
  <2>2. Stays /\ Reads
    BY <2>1 DEF Get, Request
  <2> QED
    BY <1>7, <2>2
<1>8. CASE check = "session-invalidation"
  <2>1. Authenticated(s.ids) # {} /\ r \in LogoutRequests(s.ids[Min(Authenticated(s.ids))].name)
    BY <1>8 DEF Asked
  <2> DEFINE n == s.ids[Min(Authenticated(s.ids))].name
  <2> HIDE DEF n
  <2>2. \E p, l : r = As(n, Before(p)) \/ r = As(n, Logout(l)) \/ r = As(n, After(p, l))
    BY <2>1 DEF LogoutRequests, n
  <2>3. r.by = n
    BY <2>2 DEF As, Before, Logout, After, Get, Request
  <2> QED
    BY <1>8, <2>1, <2>3 DEF Passive, n
<1>9. CASE check \in {"security-headers", "plugin"}
  <2>1. r = Home
    BY <1>9 DEF Asked, Comparing
  <2>2. Stays /\ Reads
    BY <2>1 DEF Home, Get, Request
  <2> QED
    BY <1>9, <2>2
<1>10. CASE check = "cors-policy"
  <2>1. PICK p : r = Preflight(p) \/ r = Crossing(p)
    BY <1>10 DEF Asked, PathRequests
  <2>2. /\ Preflight(p).method = "OPTIONS" /\ Preflight(p).with[1] = "evil origin"
        /\ Crossing(p).method = "GET" /\ Crossing(p).with[1] = "evil origin"
    BY DEF Preflight, Crossing, Get, Request
  <2>3. Stays /\ Reads
    BY <2>1, <2>2
  <2> QED
    BY <1>10, <2>3
<1>11. CASE check = "http-methods"
  <2>1. \/ \E p : r = Options(p)
        \/ \E m \in {"DELETE", "TRACE"} : \E p : r = Direct(m, p)
    BY <1>11 DEF Asked, PathRequests
  <2>2. Stays
    BY <2>1 DEF Options, Direct, Request
  <2>3. {"DELETE", "TRACE"} = Range(Dangerous)
    BY DEF Dangerous, Range
  <2>4. r.method \in {"OPTIONS"} \cup {"DELETE", "TRACE"}
    BY <2>1 DEF Options, Direct, Request
  <2> QED
    BY <1>11, <2>2, <2>3, <2>4, Zenon
<1>12. CASE check = "information-disclosure"
  <2>1. r = Home \/ \E p : r = Debug(p) \/ r = Backup(p)
    BY <1>12 DEF Asked, PathRequests
  <2>2. Stays /\ Reads
    BY <2>1 DEF Home, Debug, Backup, Get, Request
  <2> QED
    BY <1>12, <2>2
<1>13. CASE check = "source-map-exposure"
  <2>1. r \in MapRequests
    BY <1>13 DEF Asked
  <2>2. r = Home \/ (\E n : r = Source(n)) \/ (\E n : r = SourceMap(n)) \/ (\E p : r = CommonMap(p))
    BY <2>1 DEF MapRequests, PathRequests
  <2>3. Stays /\ Reads
    BY <2>2 DEF Home, Source, SourceMap, CommonMap, Get, Request
  <2> QED
    BY <1>13, <2>3
<1>14. CASE check = "open-redirect-indicator"
  <2>1. r \in {Home, SignOut} \/ \E p : r = Probed(p)
    BY <1>14 DEF Asked, PathRequests
  <2>2. Stays /\ Reads
    BY <2>1 DEF Home, SignOut, Probed, Get, Request
  <2> QED
    BY <1>14, <2>2
<1>15. CASE check = "graphql"
  <2>1. \E p : r = Introspection(p) \/ r = TypeQuery(p)
    BY <1>15 DEF Asked, PathRequests
  <2>2. Stays
    BY <2>1 DEF Introspection, TypeQuery, Request
  <2> QED
    BY <1>15, <2>2 DEF Passive
<1>16. CASE check = "session-cookie"
  <2>1. r = Home \/ \E p : r = Canary(p)
    BY <1>16 DEF Asked
  <2>2. Stays /\ Reads
    BY <2>1 DEF Home, Canary, Get, Request
  <2> QED
    BY <1>16, <2>2
<1> HIDE DEF Stays, Reads
<1> QED
  BY <1>1, <1>2, <1>3, <1>4, <1>5, <1>6, <1>7, <1>8, <1>9, <1>10, <1>11, <1>12, <1>13, <1>14,
     <1>15, <1>16, Zenon DEF CheckNames, Passive, Gated, Ungated, Comparing
=============================================================================
