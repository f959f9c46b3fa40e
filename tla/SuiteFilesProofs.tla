--------------------------- MODULE SuiteFilesProofs ---------------------------
(* What is proved of loading, for every tree of files: the order of the     *)
(* steps, that nothing is lost, and what an accepted block can rely on.     *)
EXTENDS SuiteFiles, FiniteSetTheorems, SequenceTheorems, TLAPS

-----------------------------------------------------------------------------
(* Lists.                                                                  *)

\* The least-number principle.
LEMMA Smallest ==
  ASSUME NEW T, T \subseteq Nat, T # {}
  PROVE  \E x \in T : \A y \in T : x <= y
<1>1. \E x \in T : \A y \in T : ~(<<y, x>> \in OpToRel(<, Nat))
  BY NatLessThanWellFounded, WFMin, Zenon
<1>2. PICK x \in T : \A y \in T : ~(<<y, x>> \in OpToRel(<, Nat))
  BY <1>1, Zenon
<1>3. \A y \in T : <<y, x>> \in Nat \X Nat
  OBVIOUS
<1>4. \A y \in T : ~(y < x)
  BY <1>2, <1>3, Zenon DEF OpToRel
<1> QED
  BY <1>4

LEMMA Largest ==
  ASSUME NEW n \in Nat, NEW T, T \subseteq 1..n, T # {}
  PROVE  \E x \in T : \A y \in T : y <= x
<1> DEFINE U == {n - x : x \in T}
<1>1. U \subseteq Nat /\ U # {}
  <2>1. \A x \in T : n - x \in Nat
    OBVIOUS
  <2>2. PICK x \in T : TRUE
    OBVIOUS
  <2>3. n - x \in U
    BY <2>2
  <2> QED
    BY <2>1, <2>3, Zenon
<1>2. PICK u \in U : \A v \in U : u <= v
  BY <1>1, Smallest, Zenon
<1>3. PICK x \in T : u = n - x
  BY <1>2
<1>4. \A y \in T : n - x <= n - y
  BY <1>2, <1>3
<1> QED
  BY <1>4

LEMMA ListFacts ==
  ASSUME NEW s, IsList(s)
  PROVE  /\ Len(s) \in Nat /\ DOMAIN s = 1..Len(s)
         /\ s = [n \in DOMAIN s |-> s[n]]
         /\ \A S : Range(s) \subseteq S => s \in Seq(S)
         /\ s = <<>> <=> DOMAIN s = {}
<1>1. /\ Len(s) \in Nat /\ DOMAIN s = 1..Len(s) /\ s \in [1..Len(s) -> Range(s)]
  BY LenProperties DEF IsList
<1>2. \A S : Range(s) \subseteq S => s \in Seq(S)
  BY SeqMonotonic, Zenon DEF IsList
<1>3. s = <<>> <=> DOMAIN s = {}
  <2>1. s = <<>> => DOMAIN s = {}
    OBVIOUS
  <2>2. s # <<>> => Len(s) \in Nat \ {0}
    BY EmptySeq, Zenon DEF IsList
  <2>3. s # <<>> => 1 \in DOMAIN s
    BY <1>1, <2>2
  <2> QED
    BY <2>1, <2>3
<1> QED
  BY <1>1, <1>2, <1>3

\* Two lists end to end.
LEMMA Joined ==
  ASSUME NEW s, IsList(s), NEW t, IsList(t)
  PROVE  /\ IsList(s \o t) /\ Len(s \o t) = Len(s) + Len(t)
         /\ \A n \in DOMAIN s : n \in DOMAIN (s \o t) /\ (s \o t)[n] = s[n]
         /\ \A n \in DOMAIN t : Len(s) + n \in DOMAIN (s \o t) /\ (s \o t)[Len(s) + n] = t[n]
         /\ \A n \in DOMAIN (s \o t) :
               \/ n \in DOMAIN s /\ (s \o t)[n] = s[n]
               \/ n - Len(s) \in DOMAIN t /\ (s \o t)[n] = t[n - Len(s)]
<1> DEFINE S == Range(s) \cup Range(t)
<1>1. s \in Seq(S) /\ t \in Seq(S)
  BY ListFacts, Zenon
<1>2. /\ Len(s) \in Nat /\ DOMAIN s = 1..Len(s) /\ Len(t) \in Nat /\ DOMAIN t = 1..Len(t)
  BY ListFacts
<1>3. /\ s \o t \in Seq(S) /\ Len(s \o t) = Len(s) + Len(t)
      /\ \A n \in 1..Len(s) + Len(t) :
            (s \o t)[n] = IF n <= Len(s) THEN s[n] ELSE t[n - Len(s)]
  BY <1>1, ConcatProperties, Zenon
<1>4. IsList(s \o t) /\ DOMAIN (s \o t) = 1..(Len(s) + Len(t))
  BY <1>3, SeqOfRange, LenProperties, Zenon DEF IsList
<1> HIDE DEF S
<1> QED
  BY <1>2, <1>3, <1>4

LEMMA ListOf ==
  ASSUME NEW n \in Nat, NEW f, DOMAIN f = 1..n, f = [j \in 1..n |-> f[j]]
  PROVE  IsList(f) /\ Len(f) = n
<1>1. f \in [1..n -> Range(f)]
  BY DEF Range
<1>2. f \in Seq(Range(f))
  BY <1>1, Zenon, SeqDef
<1> QED
  BY <1>2, LenProperties DEF IsList

-----------------------------------------------------------------------------
(* FlattenSeq.                                                             *)

\* The first m lists of ss end to end, and what was so far at each of them.
Runs(ss, m, g) == g = [n \in 1..m |-> IF n = 1 THEN ss[1] ELSE g[n - 1] \o ss[n]]

LEMMA RunsExist ==
  ASSUME NEW ss, NEW k \in Nat \ {0}
  PROVE  \E g : Runs(ss, k, g)
<1> DEFINE T == {m \in Nat \ {0} : \A g : ~Runs(ss, m, g)}
<1>1. SUFFICES ASSUME T # {} PROVE FALSE
  BY Zenon
<1>2. PICK m \in T : \A n \in T : m <= n
  BY <1>1, Smallest
<1>3. m # 1
  <2>1. Runs(ss, 1, [n \in 1..1 |-> ss[1]])
    BY DEF Runs
  <2> QED
    BY <2>1
<1>4. m - 1 \in Nat \ {0} /\ m - 1 \notin T
  BY <1>2, <1>3
<1>5. PICK g : Runs(ss, m - 1, g)
  BY <1>4, Zenon
<1> DEFINE h == [n \in 1..m |-> IF n = m THEN g[m - 1] \o ss[m] ELSE g[n]]
<1>6. \A n \in 1..(m - 1) : g[n] = IF n = 1 THEN ss[1] ELSE g[n - 1] \o ss[n]
  BY <1>5, Zenon DEF Runs
<1>7. /\ h[m] = h[m - 1] \o ss[m] /\ h[m - 1] = g[m - 1]
      /\ \A n \in 1..(m - 1) : h[n] = g[n]
  <2>1. m \in 1..m /\ m - 1 \in 1..m /\ m - 1 # m /\ \A n \in 1..(m - 1) : n \in 1..m /\ n # m
    BY <1>2, <1>4
  <2>2. h[m] = g[m - 1] \o ss[m] /\ h[m - 1] = g[m - 1]
    BY <2>1, Zenon
  <2> QED
    BY <2>1, <2>2, Zenon
<1>8. ASSUME NEW n \in 1..m
      PROVE  h[n] = IF n = 1 THEN ss[1] ELSE h[n - 1] \o ss[n]
  <2>1. CASE n = m
    BY <2>1, <1>3, <1>7
  <2>2. CASE n # m
    <3>1. n \in 1..(m - 1) /\ (n # 1 => n - 1 \in 1..(m - 1))
      BY <2>2
    <3> HIDE DEF h
    <3> QED
      BY <3>1, <1>6, <1>7, Zenon
  <2> QED
    BY <2>1, <2>2
<1>9. h = [n \in 1..m |-> h[n]]
  OBVIOUS
<1> HIDE DEF h
<1>10. Runs(ss, m, h)
  BY <1>8, <1>9, Zenon DEF Runs
<1> QED
  BY <1>2, <1>10, Zenon

\* What a list s has of the first m lists of ss: each of them, in one piece, and
\* nothing else.
Holds(s, ss, m) ==
  /\ IsList(s)
  /\ \A k \in 1..m : \E o \in Nat : \A j \in DOMAIN ss[k] :
        o + j \in DOMAIN s /\ s[o + j] = ss[k][j]
  /\ \A n \in DOMAIN s : \E k \in 1..m : \E j \in DOMAIN ss[k] : s[n] = ss[k][j]

LEMMA OneMore ==
  ASSUME NEW ss, NEW m \in Nat \ {0}, NEW s, Holds(s, ss, m), IsList(ss[m + 1])
  PROVE  Holds(s \o ss[m + 1], ss, m + 1)
<1> DEFINE t == ss[m + 1]
           b == s \o t
<1>1. IsList(s) /\ IsList(t)
  BY DEF Holds
<1>2. /\ IsList(b)
      /\ \A n \in DOMAIN s : n \in DOMAIN b /\ b[n] = s[n]
      /\ \A n \in DOMAIN t : Len(s) + n \in DOMAIN b /\ b[Len(s) + n] = t[n]
      /\ \A n \in DOMAIN b : \/ n \in DOMAIN s /\ b[n] = s[n]
                             \/ n - Len(s) \in DOMAIN t /\ b[n] = t[n - Len(s)]
  <2>1. /\ IsList(s \o t) /\ Len(s \o t) = Len(s) + Len(t)
        /\ \A n \in DOMAIN s : n \in DOMAIN (s \o t) /\ (s \o t)[n] = s[n]
        /\ \A n \in DOMAIN t : Len(s) + n \in DOMAIN (s \o t) /\ (s \o t)[Len(s) + n] = t[n]
        /\ \A n \in DOMAIN (s \o t) :
              \/ n \in DOMAIN s /\ (s \o t)[n] = s[n]
              \/ n - Len(s) \in DOMAIN t /\ (s \o t)[n] = t[n - Len(s)]
    <3> HIDE DEF t
    <3> QED
      BY <1>1, Joined
  <2> QED
    BY <2>1, Zenon
<1>3. Len(s) \in Nat
  BY <1>1, ListFacts
<1>4. \A k \in 1..(m + 1) : k \in 1..m \/ k = m + 1
  OBVIOUS
<1>5. 1..m \subseteq 1..(m + 1) /\ m + 1 \in 1..(m + 1)
  OBVIOUS
<1> HIDE DEF b
<1>6. ASSUME NEW k \in 1..(m + 1)
      PROVE  \E o \in Nat : \A j \in DOMAIN ss[k] : o + j \in DOMAIN b /\ b[o + j] = ss[k][j]
  <2>1. CASE k \in 1..m
    BY <2>1, <1>2 DEF Holds
  <2>2. CASE k = m + 1
    BY <2>2, <1>2, <1>3
  <2> QED
    BY <1>4, <2>1, <2>2
<1>7. ASSUME NEW n \in DOMAIN b
      PROVE  \E k \in 1..(m + 1) : \E j \in DOMAIN ss[k] : b[n] = ss[k][j]
  <2>1. CASE n \in DOMAIN s /\ b[n] = s[n]
    BY <2>1, <1>5 DEF Holds
  <2>2. CASE n - Len(s) \in DOMAIN t /\ b[n] = t[n - Len(s)]
    BY <2>2, <1>5, Zenon
  <2> QED
    BY <2>1, <2>2, <1>2
<1>8. Holds(b, ss, m + 1)
  BY <1>2, <1>6, <1>7, Zenon DEF Holds
<1> QED
  BY <1>8 DEF b

\* FlattenSeq gives every list, each in one piece, and nothing else.
LEMMA Flattened ==
  ASSUME NEW ss, IsListOf(ss, IsList)
  PROVE  Holds(FlattenSeq(ss), ss, Len(ss))
<1>1. /\ Len(ss) \in Nat /\ DOMAIN ss = 1..Len(ss) /\ (ss = <<>> <=> DOMAIN ss = {})
      /\ \A k \in DOMAIN ss : IsList(ss[k])
      /\ IsList(ss)
  BY ListFacts DEF IsListOf
<1>2. CASE Len(ss) = 0
  <2>1. FlattenSeq(ss) = ss /\ DOMAIN ss = {}
    BY <1>1, <1>2 DEF FlattenSeq
  <2> QED
    BY <1>1, <1>2, <2>1 DEF Holds
<1>3. CASE Len(ss) # 0
  <2> DEFINE G == CHOOSE g : Runs(ss, Len(ss), g)
  <2>1. FlattenSeq(ss) = G[Len(ss)]
    BY <1>3 DEF FlattenSeq, Runs
  <2>2. Runs(ss, Len(ss), G)
    <3>1. Len(ss) \in Nat \ {0}
      BY <1>1, <1>3
    <3> QED
      BY <3>1, RunsExist, Zenon
  <2> HIDE DEF G
  <2>3. \A n \in 1..Len(ss) : G[n] = IF n = 1 THEN ss[1] ELSE G[n - 1] \o ss[n]
    BY <2>2, Zenon DEF Runs
  <2> DEFINE T == {m \in 1..Len(ss) : ~Holds(G[m], ss, m)}
  <2>4. SUFFICES ASSUME T # {} PROVE FALSE
    BY <1>1, <1>3, <2>1
  <2>5. PICK m \in T : \A n \in T : m <= n
    <3>1. T \subseteq Nat
      OBVIOUS
    <3> HIDE DEF T
    <3> QED
      BY <3>1, <2>4, Smallest, Zenon
  <2>6. m # 1
    <3>1. 1 \in 1..Len(ss) /\ G[1] = ss[1] /\ IsList(ss[1])
      BY <1>1, <1>3, <2>3
    <3>2. ASSUME NEW k \in 1..1
          PROVE  \E o \in Nat : \A j \in DOMAIN ss[k] :
                    o + j \in DOMAIN ss[1] /\ ss[1][o + j] = ss[k][j]
      <4>1. \A j \in DOMAIN ss[1] : 0 + j = j
        BY <3>1, ListFacts
      <4> QED
        BY <4>1
    <3>3. Holds(ss[1], ss, 1)
      BY <3>1, <3>2 DEF Holds
    <3> QED
      BY <3>1, <3>3
  <2>7. m \in 1..Len(ss) /\ m - 1 \in 1..Len(ss) /\ m - 1 \in Nat \ {0} /\ m - 1 \notin T
    BY <1>1, <2>5, <2>6
  <2>8. Holds(G[m - 1], ss, m - 1) /\ G[m] = G[m - 1] \o ss[m] /\ IsList(ss[m])
    BY <1>1, <2>3, <2>6, <2>7
  <2>9. m - 1 + 1 = m
    BY <2>7
  <2>10. Holds(G[m], ss, m)
    BY <2>7, <2>8, <2>9, OneMore
  <2> QED
    BY <2>5, <2>10
<1> QED
  BY <1>2, <1>3

-----------------------------------------------------------------------------
(* The order of the file.                                                  *)

\* Every block of a type is in its slice.
LEMMA SliceHolds ==
  ASSUME NEW blocks, IsList(blocks), NEW type
  PROVE  /\ IsList(Slice(blocks, type))
         /\ \A n \in DOMAIN blocks : blocks[n].type = type =>
               \E p \in DOMAIN Slice(blocks, type) : Slice(blocks, type)[p] = blocks[n]
<1> DEFINE own == {n \in DOMAIN blocks : blocks[n].type = type}
           Upto(n) == {m \in own : m <= n}
           Place(p) == CHOOSE n \in own : Cardinality(Upto(n)) = p
<1>1. Len(blocks) \in Nat /\ DOMAIN blocks = 1..Len(blocks)
  BY ListFacts
<1>2. own \subseteq 1..Len(blocks)
  BY <1>1
<1>3. IsFiniteSet(own)
  <2>1. IsFiniteSet(1..Len(blocks))
    BY <1>1, FS_Interval
  <2> QED
    BY <1>2, <2>1, FS_Subset, Zenon
<1>4. Slice(blocks, type) = [p \in 1..Cardinality(own) |-> blocks[Place(p)]]
  BY DEF Slice
<1>5. Cardinality(own) \in Nat
  BY <1>3, FS_CardinalityType
<1>6. ASSUME NEW n \in own
      PROVE  /\ IsFiniteSet(Upto(n)) /\ Cardinality(Upto(n)) \in 1..Cardinality(own)
             /\ \A o \in own : Cardinality(Upto(o)) = Cardinality(Upto(n)) => o = n
  <2>1. \A o : Upto(o) \subseteq own
    OBVIOUS
  <2>2. \A o : /\ IsFiniteSet(Upto(o)) /\ Cardinality(Upto(o)) \in Nat
               /\ Cardinality(Upto(o)) <= Cardinality(own)
    BY <2>1, <1>3, FS_Subset, FS_CardinalityType, Zenon
  <2>3. n \in Upto(n)
    BY <1>2
  <2>4. Cardinality(Upto(n)) # 0
    BY <2>2, <2>3, FS_EmptySet
  <2>5. ASSUME NEW o \in own, NEW q \in own, o < q
        PROVE  Cardinality(Upto(o)) # Cardinality(Upto(q))
    <3>1. Upto(o) \subseteq Upto(q) /\ q \in Upto(q) /\ q \notin Upto(o)
      BY <1>2, <2>5
    <3> HIDE DEF Upto
    <3>2. Upto(o) # Upto(q)
      BY <3>1
    <3>3. Upto(o) \in SUBSET Upto(q) /\ IsFiniteSet(Upto(q))
      BY <2>2, <3>1, Zenon
    <3>4. Cardinality(Upto(q)) = Cardinality(Upto(o)) => Upto(q) = Upto(o)
      BY <3>3, FS_Subset, Zenon
    <3> QED
      BY <3>2, <3>4, Zenon
  <2>6. \A o \in own : o = n \/ o < n \/ n < o
    BY <1>2
  <2> HIDE DEF Upto, own
  <2> QED
    BY <1>5, <2>2, <2>4, <2>5, <2>6
<1> HIDE DEF own, Upto
<1>7. \A n \in own : Place(Cardinality(Upto(n))) = n
  BY <1>6, Zenon
<1>8. IsList(Slice(blocks, type)) /\ DOMAIN Slice(blocks, type) = 1..Cardinality(own)
  BY <1>4, <1>5, ListOf
<1> HIDE DEF Place
<1>9. \A n \in own : Slice(blocks, type)[Cardinality(Upto(n))] = blocks[n]
  BY <1>4, <1>6, <1>7, Zenon
<1>10. \A n \in DOMAIN blocks : blocks[n].type = type => n \in own
  BY DEF own
<1> QED
  BY <1>6, <1>8, <1>9, <1>10, Zenon

\* gohcl loses no block, and adds none that is not there.
LEMMA DecodedHolds ==
  ASSUME NEW blocks, ABody(blocks)
  PROVE  IsList(Decoded(blocks)) /\ \A n \in DOMAIN blocks : blocks[n] \in Range(Decoded(blocks))
<1> DEFINE s == Slice(blocks, "step")
           t == Slice(blocks, "case")
<1>1. IsList(blocks) /\ \A n \in DOMAIN blocks : blocks[n].type \in {"step", "case"}
  BY DEF ABody, ABlock, IsListOf
<1>2. /\ IsList(s)
      /\ \A n \in DOMAIN blocks : blocks[n].type = "step" => \E p \in DOMAIN s : s[p] = blocks[n]
  BY <1>1, SliceHolds
<1>3. /\ IsList(t)
      /\ \A n \in DOMAIN blocks : blocks[n].type = "case" => \E p \in DOMAIN t : t[p] = blocks[n]
  BY <1>1, SliceHolds, Zenon
<1> HIDE DEF s, t
<1>4. /\ IsList(s \o t)
      /\ \A n \in DOMAIN s : s[n] \in Range(s \o t)
      /\ \A n \in DOMAIN t : t[n] \in Range(s \o t)
  <2>1. /\ IsList(s \o t)
        /\ \A n \in DOMAIN s : n \in DOMAIN (s \o t) /\ (s \o t)[n] = s[n]
        /\ \A n \in DOMAIN t : Len(s) + n \in DOMAIN (s \o t) /\ (s \o t)[Len(s) + n] = t[n]
    BY <1>2, <1>3, Joined
  <2> QED
    BY <2>1 DEF Range
<1>5. Decoded(blocks) = s \o t
  BY DEF Decoded, s, t
<1>6. ASSUME NEW n \in DOMAIN blocks
      PROVE  blocks[n] \in Range(s \o t)
  BY <1>1, <1>2, <1>3, <1>4, Zenon
<1> QED
  BY <1>4, <1>5, <1>6

LEMMA DecodeGivesAList ==
  ASSUME NEW blocks, ABody(blocks)
  PROVE  IsList(DecodeSteps(blocks))
<1> DEFINE d == Decoded(blocks)
           r == [n \in DOMAIN blocks |-> CHOOSE s \in Range(d) : Key(s) = Key(blocks[n])]
<1>1. IsList(d)
  BY DecodedHolds, Zenon
<1>2. IsList(r)
  <2>1. Len(blocks) \in Nat /\ DOMAIN blocks = 1..Len(blocks)
    BY ListFacts DEF ABody, IsListOf
  <2>2. DOMAIN r = 1..Len(blocks) /\ r = [j \in 1..Len(blocks) |-> r[j]]
    BY <2>1
  <2> HIDE DEF r
  <2> QED
    BY <2>1, <2>2, ListOf, Zenon
<1>3. DecodeSteps(blocks) = d \/ DecodeSteps(blocks) = r
  BY DEF DecodeSteps, ReorderStepsBySource
<1> QED
  BY <1>1, <1>2, <1>3, Zenon

\* What gohcl takes apart is put together again, or two steps have one name.
LEMMA OrderIsRecovered ==
  ASSUME NEW blocks, ABody(blocks), UniqueNames(DecodeSteps(blocks))
  PROVE  DecodeSteps(blocks) = blocks
<1> DEFINE d == Decoded(blocks)
<1>1. /\ \A n \in DOMAIN blocks : blocks[n] \in Range(d)
      /\ blocks = [n \in DOMAIN blocks |-> blocks[n]]
  BY DecodedHolds, ListFacts, Zenon DEF ABody, IsListOf
<1>2. CASE \E p, q \in DOMAIN d : p # q /\ Key(d[p]) = Key(d[q])
  <2>1. DecodeSteps(blocks) = d
    BY <1>2 DEF DecodeSteps, ReorderStepsBySource
  <2>2. PICK p \in DOMAIN d, q \in DOMAIN d : p # q /\ d[p].name = d[q].name
    BY <1>2 DEF Key
  <2> HIDE DEF d
  <2> QED
    BY <2>1, <2>2 DEF UniqueNames, IsInjective
<1>3. CASE ~\E p, q \in DOMAIN d : p # q /\ Key(d[p]) = Key(d[q])
  <2>1. DecodeSteps(blocks) =
          [n \in DOMAIN blocks |-> CHOOSE s \in Range(d) : Key(s) = Key(blocks[n])]
    BY <1>3 DEF DecodeSteps, ReorderStepsBySource
  <2> HIDE DEF d
  <2>2. ASSUME NEW n \in DOMAIN blocks
        PROVE  (CHOOSE s \in Range(d) : Key(s) = Key(blocks[n])) = blocks[n]
    <3>1. \A s \in Range(d) : Key(s) = Key(blocks[n]) => s = blocks[n]
      BY <1>1, <1>3, Zenon DEF Range
    <3> QED
      BY <1>1, <3>1, Zenon
  <2> QED
    BY <1>1, <2>1, <2>2, Zenon
<1> QED
  BY <1>2, <1>3

LEMMA UniqueInBoth ==
  ASSUME NEW s, IsList(s), NEW t, IsList(t), UniqueNames(s \o t)
  PROVE  UniqueNames(s) /\ UniqueNames(t)
<1>1. /\ \A n \in DOMAIN s : n \in DOMAIN (s \o t) /\ (s \o t)[n] = s[n]
      /\ \A n \in DOMAIN t : Len(s) + n \in DOMAIN (s \o t) /\ (s \o t)[Len(s) + n] = t[n]
  BY Joined
<1>2. \A p, q \in DOMAIN (s \o t) : (s \o t)[p].name = (s \o t)[q].name => p = q
  BY DEF UniqueNames, IsInjective
<1>3. \A p, q \in DOMAIN s : s[p].name = s[q].name => p = q
  BY <1>1, <1>2
<1>4. \A p, q \in DOMAIN t : t[p].name = t[q].name => p = q
  <2>1. /\ Len(s) \in Nat /\ DOMAIN t \subseteq Nat
    BY ListFacts
  <2>2. ASSUME NEW p \in DOMAIN t, NEW q \in DOMAIN t, t[p].name = t[q].name
        PROVE  p = q
    <3>1. Len(s) + p = Len(s) + q
      BY <1>1, <1>2, <2>2, Zenon
    <3> QED
      BY <2>1, <3>1
  <2> QED
    BY <2>2
<1> QED
  BY <1>3, <1>4 DEF UniqueNames, IsInjective

LEMMA UniqueInEach ==
  ASSUME NEW ss, IsListOf(ss, IsList), UniqueNames(FlattenSeq(ss)), NEW k \in DOMAIN ss
  PROVE  UniqueNames(ss[k])
<1> DEFINE s == FlattenSeq(ss)
<1>1. Holds(s, ss, Len(ss)) /\ k \in 1..Len(ss) /\ IsList(ss[k])
  BY Flattened, ListFacts DEF IsListOf
<1> HIDE DEF s
<1>2. PICK o \in Nat : \A j \in DOMAIN ss[k] : o + j \in DOMAIN s /\ s[o + j] = ss[k][j]
  BY <1>1 DEF Holds
<1>3. \A p, q \in DOMAIN s : s[p].name = s[q].name => p = q
  BY DEF s, UniqueNames, IsInjective
<1>4. DOMAIN ss[k] \subseteq Nat
  BY <1>1, ListFacts
<1>5. \A p, q \in DOMAIN ss[k] : ss[k][p].name = ss[k][q].name => p = q
  BY <1>2, <1>3, <1>4
<1> QED
  BY <1>5 DEF UniqueNames, IsInjective

Pieces(teardowns) == [k \in DOMAIN teardowns |-> DecodeSteps(teardowns[k])]

LEMMA PiecesAreLists ==
  ASSUME NEW teardowns, IsListOf(teardowns, ABody)
  PROVE  IsListOf(Pieces(teardowns), IsList) /\ DOMAIN Pieces(teardowns) = DOMAIN teardowns
<1>1. Len(teardowns) \in Nat /\ DOMAIN teardowns = 1..Len(teardowns)
  BY ListFacts DEF IsListOf
<1>2. \A k \in DOMAIN teardowns : IsList(DecodeSteps(teardowns[k]))
  BY DecodeGivesAList DEF IsListOf
<1>3. /\ DOMAIN Pieces(teardowns) = 1..Len(teardowns)
      /\ Pieces(teardowns) = [j \in 1..Len(teardowns) |-> Pieces(teardowns)[j]]
  BY <1>1, Zenon DEF Pieces
<1>4. IsList(Pieces(teardowns))
  BY <1>1, <1>3, ListOf, Zenon
<1>5. \A k \in DOMAIN Pieces(teardowns) : IsList(Pieces(teardowns)[k])
  BY <1>1, <1>2, <1>3, Zenon DEF Pieces
<1> QED
  BY <1>1, <1>3, <1>4, <1>5, Zenon DEF IsListOf

LEMMA DecodeTeardownsGivesAList ==
  ASSUME NEW teardowns, IsListOf(teardowns, ABody)
  PROVE  IsList(DecodeTeardowns(teardowns))
  BY PiecesAreLists, Flattened, Zenon DEF DecodeTeardowns, Pieces, Holds

\* The teardown blocks of one owner run one after another, each in its own order.
LEMMA TeardownOrderIsRecovered ==
  ASSUME NEW teardowns, IsListOf(teardowns, ABody), UniqueNames(DecodeTeardowns(teardowns))
  PROVE  DecodeTeardowns(teardowns) = FlattenSeq(teardowns)
<1>1. DecodeTeardowns(teardowns) = FlattenSeq(Pieces(teardowns))
  BY DEF DecodeTeardowns, Pieces
<1>2. \A k \in DOMAIN teardowns : UniqueNames(Pieces(teardowns)[k])
  BY <1>1, PiecesAreLists, UniqueInEach, Zenon
<1>3. ASSUME NEW k \in DOMAIN teardowns
      PROVE  Pieces(teardowns)[k] = teardowns[k]
  <2>1. Pieces(teardowns)[k] = DecodeSteps(teardowns[k]) /\ ABody(teardowns[k])
    BY DEF Pieces, IsListOf
  <2> QED
    BY <1>2, <2>1, OrderIsRecovered, Zenon
<1>4. teardowns = [k \in DOMAIN teardowns |-> teardowns[k]]
  BY ListFacts, Zenon DEF IsListOf
<1>5. Pieces(teardowns) = [k \in DOMAIN teardowns |-> Pieces(teardowns)[k]]
  BY DEF Pieces
<1>6. Pieces(teardowns) = teardowns
  BY <1>3, <1>4, <1>5, Zenon
<1> QED
  BY <1>1, <1>6, Zenon

-----------------------------------------------------------------------------
(* What has been gathered from the files read so far.                      *)

File(f) == tree.files[f]
Read == {f \in DOMAIN tree.files : f < next}

Scenario(f, n) == DecodeFile(f, File(f)).scenarios[n]
Teardown(f) == DecodeTeardowns(File(f).teardowns)

\* A map has what each of several others has, and nothing else.
Collects(map, maps) ==
  /\ \A name \in DOMAIN map : \E f \in DOMAIN maps :
        name \in DOMAIN maps[f] /\ map[name] = maps[f][name]
  /\ \A f \in DOMAIN maps : \A name \in DOMAIN maps[f] :
        name \in DOMAIN map /\ map[name] = maps[f][name]

ScenariosGathered ==
  /\ IsList(suite.scenarios)
  /\ \A n \in DOMAIN suite.scenarios : \E f \in Read : \E m \in DOMAIN File(f).scenarios :
        suite.scenarios[n] = Scenario(f, m)
  /\ \A f \in Read : \A m \in DOMAIN File(f).scenarios : \E n \in DOMAIN suite.scenarios :
        suite.scenarios[n] = Scenario(f, m)

MapsGathered ==
  /\ Collects(suite.generators, [f \in Read |-> Assigned(f, File(f).generators)])
  /\ Collects(suite.keywords, [f \in Read |-> Assigned(f, File(f).keywords)])
  /\ \A f \in Read : \A m \in DOMAIN File(f).keywords :
        /\ <<f, m>> \in DOMAIN suite.keywordSteps
        /\ suite.keywordSteps[<<f, m>>] = DecodeSteps(File(f).keywords[m].blocks)

TeardownGathered ==
  /\ suite.teardownFile \in Read \cup {0}
  /\ suite.teardown = IF suite.teardownFile = 0 THEN <<>> ELSE Teardown(suite.teardownFile)
  /\ \A f \in Read : f # suite.teardownFile => Teardown(f) = <<>>

\* The inductive invariant: as long as nothing is wrong, the suite is what the files
\* read say, and a loaded one is whole and valid.
FilesInv ==
  /\ tree \in Trees /\ next \in Nat \ {0}
  /\ diags = {} =>
       /\ \A f \in Read : Decodes(File(f))
       /\ ScenariosGathered /\ MapsGathered /\ TeardownGathered
  /\ Loaded => diags = {} /\ next = Len(tree.files) + 1 /\ ValidateSuite

LEMMA CollectsMore ==
  ASSUME NEW map, NEW maps, Collects(map, maps), NEW f, NEW more,
         DOMAIN more = DOMAIN maps \cup {f}, \A g \in DOMAIN maps : more[g] = maps[g],
         DOMAIN map \cap DOMAIN more[f] = {}
  PROVE  Collects(Over(map, more[f]), more)
<1> DEFINE all == Over(map, more[f])
<1>1. /\ DOMAIN all = DOMAIN map \cup DOMAIN more[f]
      /\ \A name \in DOMAIN map : all[name] = map[name]
      /\ \A name \in DOMAIN more[f] : all[name] = more[f][name]
  BY DEF Over
<1> HIDE DEF all
<1>2. ASSUME NEW name \in DOMAIN all
      PROVE  \E g \in DOMAIN more : name \in DOMAIN more[g] /\ all[name] = more[g][name]
  <2>1. CASE name \in DOMAIN map
    <3>1. PICK g \in DOMAIN maps : name \in DOMAIN maps[g] /\ map[name] = maps[g][name]
      BY <2>1, Zenon DEF Collects
    <3> QED
      BY <1>1, <2>1, <3>1
  <2>2. CASE name \in DOMAIN more[f]
    BY <1>1, <2>2, Zenon
  <2> QED
    BY <1>1, <2>1, <2>2
<1>3. ASSUME NEW g \in DOMAIN more, NEW name \in DOMAIN more[g]
      PROVE  name \in DOMAIN all /\ all[name] = more[g][name]
  <2>1. CASE g \in DOMAIN maps
    <3>1. name \in DOMAIN maps[g]
      BY <2>1
    <3>2. name \in DOMAIN map /\ map[name] = maps[g][name]
      BY <2>1, <3>1, Zenon DEF Collects
    <3> QED
      BY <1>1, <2>1, <3>2
  <2>2. CASE g = f
    BY <1>1, <2>2, Zenon
  <2> QED
    BY <2>1, <2>2
<1> QED
  BY <1>2, <1>3, Zenon DEF all, Collects

\* What decodeFile makes of a file.
LEMMA DecodedFile ==
  ASSUME NEW f, NEW file, IsListOf(file.teardowns, ABody), IsListOf(file.scenarios, AScenario)
  PROVE  LET d == DecodeFile(f, file)
         IN /\ d.generators = Assigned(f, file.generators)
            /\ d.keywords = Assigned(f, file.keywords)
            /\ DOMAIN d.keywordSteps = {<<f, n>> : n \in DOMAIN file.keywords}
            /\ \A n \in DOMAIN file.keywords :
                  d.keywordSteps[<<f, n>>] = DecodeSteps(file.keywords[n].blocks)
            /\ IsList(d.scenarios) /\ DOMAIN d.scenarios = DOMAIN file.scenarios
            /\ d.teardown = DecodeTeardowns(file.teardowns) /\ IsList(d.teardown)
            /\ d.teardownFile = IF d.teardown = <<>> THEN 0 ELSE f
<1> DEFINE d == DecodeFile(f, file)
<1>1. /\ d.generators = Assigned(f, file.generators)
      /\ d.keywords = Assigned(f, file.keywords)
      /\ d.teardown = DecodeTeardowns(file.teardowns)
      /\ d.teardownFile = IF d.teardown = <<>> THEN 0 ELSE f
  BY Zenon DEF DecodeFile
<1>2. /\ DOMAIN d.keywordSteps = {<<f, n>> : n \in DOMAIN file.keywords}
      /\ \A n \in DOMAIN file.keywords :
            d.keywordSteps[<<f, n>>] = DecodeSteps(file.keywords[n].blocks)
  BY DEF DecodeFile
<1>3. DOMAIN d.scenarios = DOMAIN file.scenarios
  BY Zenon DEF DecodeFile
<1>4. IsList(d.scenarios)
  <2>1. Len(file.scenarios) \in Nat /\ DOMAIN file.scenarios = 1..Len(file.scenarios)
    BY ListFacts DEF IsListOf
  <2>2. d.scenarios = [n \in DOMAIN file.scenarios |-> d.scenarios[n]]
    BY DEF DecodeFile
  <2> HIDE DEF d
  <2> QED
    BY <1>3, <2>1, <2>2, ListOf
<1>5. IsList(d.teardown)
  BY <1>1, DecodeTeardownsGivesAList, Zenon
<1> QED
  BY <1>1, <1>2, <1>3, <1>4, <1>5, Zenon

\* The scenario that decodeFile makes of a block.
LEMMA DecodedScenario ==
  ASSUME NEW f, NEW n \in DOMAIN File(f).scenarios
  PROVE  /\ Scenario(f, n).place = <<f, n>>
         /\ Scenario(f, n).steps = DecodeSteps(File(f).scenarios[n].blocks)
         /\ Scenario(f, n).teardown = DecodeTeardowns(File(f).scenarios[n].teardowns)
BY DEF Scenario, DecodeFile

LEMMA TreeFacts ==
  ASSUME tree \in Trees
  PROVE  /\ Len(tree.files) \in Nat /\ DOMAIN tree.files = 1..Len(tree.files)
         /\ \A f \in DOMAIN tree.files : AFile(File(f))
<1>1. IsListOf(tree.files, AFile)
  BY TreesAreTrees
<1> QED
  BY <1>1, ListFacts DEF IsListOf, File

\* One more file is read, decodes, and merges without an error.
LEMMA FileGathered ==
  ASSUME FilesInv, LoadFile, diags' = {}
  PROVE  /\ diags = {} /\ next \in DOMAIN tree.files /\ next \notin Read
         /\ tree' = tree /\ Read' = Read \cup {next} /\ Decodes(File(next))
         /\ suite' = MergeSuite(suite, DecodeFile(next, File(next)))
         /\ MergeErrors(suite, DecodeFile(next, File(next))) = {}
<1>1. next \in DOMAIN tree.files /\ tree' = tree /\ next' = next + 1
  BY DEF LoadFile
<1>2. CASE ~Decodes(File(next))
  BY <1>2 DEF LoadFile, File
<1>3. CASE Decodes(File(next))
  <2>1. /\ diags' = diags \cup MergeErrors(suite, DecodeFile(next, File(next)))
        /\ suite' = MergeSuite(suite, DecodeFile(next, File(next)))
    BY <1>3, Zenon DEF LoadFile, File
  <2>2. DOMAIN tree.files \subseteq Nat /\ next \in Nat
    BY TreeFacts DEF FilesInv
  <2>3. Read' = Read \cup {next} /\ next \notin Read
    BY <1>1, <2>2 DEF Read
  <2> QED
    BY <1>1, <1>3, <2>1, <2>3
<1> QED
  BY <1>2, <1>3

LEMMA GatherScenarios ==
  ASSUME FilesInv, LoadFile, diags' = {}
  PROVE  ScenariosGathered'
<1> DEFINE d == DecodeFile(next, File(next))
<1>1. /\ diags = {} /\ next \in DOMAIN tree.files /\ Read' = Read \cup {next}
      /\ tree' = tree /\ suite' = MergeSuite(suite, d)
  BY FileGathered, Zenon
<1>2. suite'.scenarios = suite.scenarios \o d.scenarios
  BY <1>1, Zenon DEF MergeSuite
<1>3. IsList(d.scenarios) /\ DOMAIN d.scenarios = DOMAIN File(next).scenarios
  BY <1>1, TreeFacts, DecodedFile, Zenon DEF FilesInv, AFile
<1>4. ScenariosGathered
  BY <1>1 DEF FilesInv
<1>5. \A n : d.scenarios[n] = Scenario(next, n)
  BY DEF Scenario
<1> HIDE DEF d
<1> DEFINE s == suite.scenarios
           t == d.scenarios
<1>6. /\ IsList(s) /\ IsList(t) /\ DOMAIN t = DOMAIN File(next).scenarios
      /\ \A n : t[n] = Scenario(next, n)
  BY <1>3, <1>4, <1>5 DEF ScenariosGathered
<1>7. /\ IsList(s \o t) /\ Len(s \o t) = Len(s) + Len(t)
      /\ \A n \in DOMAIN s : n \in DOMAIN (s \o t) /\ (s \o t)[n] = s[n]
      /\ \A n \in DOMAIN t : Len(s) + n \in DOMAIN (s \o t) /\ (s \o t)[Len(s) + n] = t[n]
      /\ \A n \in DOMAIN (s \o t) :
            \/ n \in DOMAIN s /\ (s \o t)[n] = s[n]
            \/ n - Len(s) \in DOMAIN t /\ (s \o t)[n] = t[n - Len(s)]
  <2> HIDE DEF s, t
  <2> QED
    BY <1>6, Joined
<1>8. /\ \A f, n : Scenario(f, n)' = Scenario(f, n)
      /\ \A f : File(f)' = File(f)
  BY <1>1 DEF Scenario, File
<1> DEFINE all == s \o t
<1>9. suite'.scenarios = all
  BY <1>2
<1>10. ASSUME NEW n \in DOMAIN all
       PROVE  \E f \in Read' : \E m \in DOMAIN File(f)'.scenarios : all[n] = Scenario(f, m)'
  <2> HIDE DEF all, s, t
  <2>1. CASE n \in DOMAIN s /\ all[n] = s[n]
    <3>1. PICK f \in Read : \E m \in DOMAIN File(f).scenarios : s[n] = Scenario(f, m)
      BY <1>4, <2>1 DEF ScenariosGathered, s
    <3> QED
      BY <1>1, <1>8, <2>1, <3>1
  <2>2. CASE n - Len(s) \in DOMAIN t /\ all[n] = t[n - Len(s)]
    <3>1. PICK f, m : f = next /\ m = n - Len(s)
      OBVIOUS
    <3>2. f \in Read' /\ m \in DOMAIN File(f)'.scenarios
      BY <1>1, <1>6, <1>8, <2>2, <3>1
    <3>3. all[n] = Scenario(f, m)
      BY <1>6, <2>2, <3>1, Zenon
    <3>4. all[n] = Scenario(f, m)'
      BY <1>8, <3>3, Zenon
    <3> QED
      BY <3>2, <3>4, Zenon
  <2> QED
    BY <1>7, <2>1, <2>2, Zenon DEF all
<1>11. ASSUME NEW f \in Read', NEW m \in DOMAIN File(f)'.scenarios
       PROVE  \E n \in DOMAIN all : all[n] = Scenario(f, m)'
  <2>1. CASE f \in Read
    <3>1. PICK n \in DOMAIN s : s[n] = Scenario(f, m)
      BY <1>4, <1>8, <2>1 DEF ScenariosGathered
    <3> QED
      BY <1>7, <1>8, <3>1, Zenon
  <2>2. CASE f = next
    <3>1. m \in DOMAIN t /\ t[m] = Scenario(f, m)'
      BY <1>6, <1>8, <2>2
    <3> QED
      BY <1>7, <3>1, Zenon
  <2> QED
    BY <1>1, <2>1, <2>2
<1> QED
  <2> HIDE DEF s, t
  <2>1. IsList(suite'.scenarios)
    BY <1>7, <1>9
  <2> HIDE DEF all
  <2>2. \A n \in DOMAIN suite'.scenarios : \E f \in Read' : \E m \in DOMAIN File(f)'.scenarios :
          suite'.scenarios[n] = Scenario(f, m)'
    BY <1>9, <1>10
  <2>3. \A f \in Read' : \A m \in DOMAIN File(f)'.scenarios :
          \E n \in DOMAIN suite'.scenarios : suite'.scenarios[n] = Scenario(f, m)'
    BY <1>9, <1>11
  <2> QED
    BY <2>1, <2>2, <2>3, Zenon DEF ScenariosGathered

LEMMA GatherMaps ==
  ASSUME FilesInv, LoadFile, diags' = {}
  PROVE  MapsGathered'
<1> DEFINE d == DecodeFile(next, File(next))
<1>1. /\ diags = {} /\ next \in DOMAIN tree.files /\ next \notin Read
      /\ Read' = Read \cup {next} /\ tree' = tree /\ suite' = MergeSuite(suite, d)
      /\ MergeErrors(suite, d) = {}
  BY FileGathered, Zenon
<1>2. /\ suite'.generators = Over(suite.generators, d.generators)
      /\ suite'.keywords = Over(suite.keywords, d.keywords)
      /\ suite'.keywordSteps = Over(d.keywordSteps, suite.keywordSteps)
  BY <1>1, Zenon DEF MergeSuite, MergeNamed
<1>3. /\ d.generators = Assigned(next, File(next).generators)
      /\ d.keywords = Assigned(next, File(next).keywords)
      /\ DOMAIN d.keywordSteps = {<<next, n>> : n \in DOMAIN File(next).keywords}
      /\ \A n \in DOMAIN File(next).keywords :
            d.keywordSteps[<<next, n>>] = DecodeSteps(File(next).keywords[n].blocks)
  <2>1. IsListOf(File(next).teardowns, ABody) /\ IsListOf(File(next).scenarios, AScenario)
    BY <1>1, TreeFacts, Zenon DEF FilesInv, AFile
  <2> QED
    BY <2>1, DecodedFile
<1>4. MapsGathered
  BY <1>1 DEF FilesInv
<1>5. \A f : File(f)' = File(f)
  BY <1>1 DEF File
<1>6. DOMAIN suite.generators \cap DOMAIN d.generators = {}
  <2>1. ~Clash(suite.generators, d.generators)
    BY <1>1 DEF MergeErrors, Report
  <2> QED
    BY <2>1 DEF Clash
<1>7. DOMAIN suite.keywords \cap DOMAIN d.keywords = {}
  <2>1. ~Clash(suite.keywords, d.keywords)
    BY <1>1 DEF MergeErrors, Report
  <2> QED
    BY <2>1 DEF Clash
<1> HIDE DEF d
<1>8. Collects(suite.generators, [f \in Read |-> Assigned(f, File(f).generators)])'
  <2> DEFINE maps == [f \in Read |-> Assigned(f, File(f).generators)]
             more == [f \in Read' |-> Assigned(f, File(f).generators)]
  <2>1. /\ DOMAIN maps = Read /\ DOMAIN more = DOMAIN maps \cup {next}
        /\ \A f \in DOMAIN maps : more[f] = maps[f]
        /\ more[next] = d.generators
    BY <1>1, <1>3
  <2>2. Collects(suite.generators, maps)
    BY <1>4 DEF MapsGathered
  <2>3. maps' = more
    BY <1>5, Zenon
  <2> HIDE DEF maps, more
  <2>4. Collects(Over(suite.generators, more[next]), more)
    <3> DEFINE map == suite.generators
    <3>1. Collects(map, maps)
      BY <2>2
    <3>2. DOMAIN more = DOMAIN maps \cup {next} /\ \A g \in DOMAIN maps : more[g] = maps[g]
      BY <2>1, Zenon
    <3>3. DOMAIN map \cap DOMAIN more[next] = {}
      BY <1>6, <2>1
    <3> HIDE DEF map
    <3>4. Collects(Over(map, more[next]), more)
      BY <3>1, <3>2, <3>3, CollectsMore
    <3> QED
      BY <3>4 DEF map
  <2>5. Collects(suite'.generators, maps')
    BY <1>2, <2>1, <2>3, <2>4, Zenon
  <2> QED
    BY <2>5 DEF maps, Collects
<1>9. Collects(suite.keywords, [f \in Read |-> Assigned(f, File(f).keywords)])'
  <2> DEFINE maps == [f \in Read |-> Assigned(f, File(f).keywords)]
             more == [f \in Read' |-> Assigned(f, File(f).keywords)]
  <2>1. /\ DOMAIN maps = Read /\ DOMAIN more = DOMAIN maps \cup {next}
        /\ \A f \in DOMAIN maps : more[f] = maps[f]
        /\ more[next] = d.keywords
    BY <1>1, <1>3
  <2>2. Collects(suite.keywords, maps)
    BY <1>4 DEF MapsGathered
  <2>3. maps' = more
    BY <1>5, Zenon
  <2> HIDE DEF maps, more
  <2>4. Collects(Over(suite.keywords, more[next]), more)
    <3> DEFINE map == suite.keywords
    <3>1. Collects(map, maps)
      BY <2>2
    <3>2. DOMAIN more = DOMAIN maps \cup {next} /\ \A g \in DOMAIN maps : more[g] = maps[g]
      BY <2>1, Zenon
    <3>3. DOMAIN map \cap DOMAIN more[next] = {}
      BY <1>7, <2>1
    <3> HIDE DEF map
    <3>4. Collects(Over(map, more[next]), more)
      BY <3>1, <3>2, <3>3, CollectsMore
    <3> QED
      BY <3>4 DEF map
  <2>5. Collects(suite'.keywords, maps')
    BY <1>2, <2>1, <2>3, <2>4, Zenon
  <2> QED
    BY <2>5 DEF maps, Collects
<1>10. ASSUME NEW f \in Read', NEW m \in DOMAIN File(f)'.keywords
       PROVE  /\ <<f, m>> \in DOMAIN suite'.keywordSteps
              /\ suite'.keywordSteps[<<f, m>>] = DecodeSteps(File(f)'.keywords[m].blocks)
  <2>1. CASE f \in Read
    <3>1. /\ <<f, m>> \in DOMAIN suite.keywordSteps
          /\ suite.keywordSteps[<<f, m>>] = DecodeSteps(File(f).keywords[m].blocks)
      BY <1>4, <1>5, <2>1 DEF MapsGathered
    <3>2. <<f, m>> \notin DOMAIN d.keywordSteps
      BY <1>1, <1>3, <2>1
    <3>3. /\ <<f, m>> \in DOMAIN suite'.keywordSteps
          /\ suite'.keywordSteps[<<f, m>>] = suite.keywordSteps[<<f, m>>]
      BY <1>2, <3>1, <3>2 DEF Over
    <3> QED
      BY <1>5, <3>1, <3>3
  <2>2. CASE f = next
    <3>1. <<f, m>> \in DOMAIN d.keywordSteps
      BY <1>3, <1>5, <2>2
    <3>2. /\ <<f, m>> \in DOMAIN suite'.keywordSteps
          /\ suite'.keywordSteps[<<f, m>>] = d.keywordSteps[<<f, m>>]
      BY <1>2, <3>1 DEF Over
    <3> QED
      BY <1>3, <1>5, <2>2, <3>2
  <2> QED
    BY <1>1, <2>1, <2>2
<1> QED
  BY <1>8, <1>9, <1>10 DEF MapsGathered

LEMMA GatherTeardown ==
  ASSUME FilesInv, LoadFile, diags' = {}
  PROVE  TeardownGathered'
<1> DEFINE d == DecodeFile(next, File(next))
<1>1. /\ diags = {} /\ next \in DOMAIN tree.files /\ next \notin Read
      /\ Read' = Read \cup {next} /\ tree' = tree /\ suite' = MergeSuite(suite, d)
      /\ MergeErrors(suite, d) = {}
  BY FileGathered, Zenon
<1>2. /\ d.teardown = Teardown(next)
      /\ d.teardownFile = IF d.teardown = <<>> THEN 0 ELSE next
  BY <1>1, TreeFacts, DecodedFile, Zenon DEF FilesInv, AFile, Teardown
<1>3. /\ suite'.teardown = IF suite.teardownFile = 0 THEN d.teardown ELSE suite.teardown
      /\ suite'.teardownFile =
           IF suite.teardownFile = 0 THEN d.teardownFile ELSE suite.teardownFile
  BY <1>1, Zenon DEF MergeSuite
<1>4. suite.teardownFile # 0 => d.teardown = <<>>
  BY <1>1 DEF MergeErrors, Report
<1>5. \A f : Teardown(f)' = Teardown(f)
  BY <1>1 DEF Teardown, File
<1>6. TeardownGathered
  BY <1>1 DEF FilesInv
<1>7. next # 0 /\ 0 \notin Read
  BY TreeFacts DEF FilesInv, Read
<1> HIDE DEF d
<1>8. CASE suite.teardownFile = 0 /\ d.teardown = <<>>
  BY <1>1, <1>2, <1>3, <1>5, <1>6, <1>8 DEF TeardownGathered
<1>9. CASE suite.teardownFile = 0 /\ d.teardown # <<>>
  <2>1. suite'.teardownFile = next /\ suite'.teardown = d.teardown
    BY <1>2, <1>3, <1>9
  <2> QED
    BY <1>1, <1>2, <1>5, <1>6, <1>7, <1>9, <2>1 DEF TeardownGathered
<1>10. CASE suite.teardownFile # 0
  BY <1>1, <1>2, <1>3, <1>4, <1>5, <1>6, <1>10 DEF TeardownGathered
<1> QED
  BY <1>8, <1>9, <1>10

LEMMA FilesInvStarts == Init => FilesInv
<1> SUFFICES ASSUME Init PROVE FilesInv
  OBVIOUS
<1>1. tree \in Trees /\ next = 1 /\ suite = Empty /\ status = "loading"
  BY DEF Init
<1>2. Read = {}
  <2>1. \A f \in DOMAIN tree.files : ~(f < 1)
    BY <1>1, TreeFacts
  <2> QED
    BY <1>1, <2>1 DEF Read
<1>3. /\ suite.scenarios = <<>> /\ suite.generators = <<>> /\ suite.keywords = <<>>
      /\ suite.teardown = <<>> /\ suite.teardownFile = 0
  BY <1>1 DEF Empty
<1>4. ScenariosGathered
  <2>1. IsList(<<>>) /\ DOMAIN <<>> = {}
    BY DEF IsList, Range
  <2> QED
    BY <1>2, <1>3, <2>1, Zenon DEF ScenariosGathered
<1>5. MapsGathered
  <2>1. ASSUME NEW maps, DOMAIN maps = {}
        PROVE  Collects(<<>>, maps)
    BY <2>1 DEF Collects
  <2> QED
    BY <1>2, <1>3, <2>1 DEF MapsGathered
<1>6. TeardownGathered
  BY <1>2, <1>3 DEF TeardownGathered
<1> QED
  BY <1>1, <1>2, <1>4, <1>5, <1>6 DEF FilesInv, Loaded

LEMMA FilesInvStep == FilesInv /\ [Next]_vars => FilesInv'
<1> SUFFICES ASSUME FilesInv, [Next]_vars PROVE FilesInv'
  OBVIOUS
<1>1. CASE LoadFile
  <2>1. tree' = tree /\ next' = next + 1 /\ ~Loaded'
    BY <1>1 DEF LoadFile, Loaded
  <2>2. tree' \in Trees /\ next' \in Nat \ {0}
    BY <2>1 DEF FilesInv
  <2>3. ASSUME diags' = {}
        PROVE  (\A f \in Read : Decodes(File(f)))'
    <3>1. Read' = Read \cup {next} /\ Decodes(File(next)) /\ \A f \in Read : Decodes(File(f))
      BY <1>1, <2>3, FileGathered, Zenon DEF FilesInv
    <3>2. \A f : File(f)' = File(f)
      BY <2>1 DEF File
    <3>3. \A f \in Read' : Decodes(File(f)')
      BY <3>1, <3>2
    <3> QED
      BY <3>3 DEF Decodes, AllBlocks
  <2>4. diags' = {} => ScenariosGathered' /\ MapsGathered' /\ TeardownGathered'
    BY <1>1, GatherScenarios, GatherMaps, GatherTeardown, Zenon
  <2> QED
    BY <2>1, <2>2, <2>3, <2>4, Zenon DEF FilesInv
<1>2. ASSUME UNCHANGED <<tree, next, suite>>, diags' = {} => diags = {},
             Loaded' => diags' = {} /\ next = Len(tree.files) + 1 /\ ValidateSuite
      PROVE  FilesInv'
  <2>1. Read' = Read /\ \A f : File(f)' = File(f)
    BY <1>2 DEF Read, File
  <2>2. \A f : Decodes(File(f)) => Decodes(File(f))'
    BY <2>1 DEF Decodes, AllBlocks
  <2>3. ScenariosGathered => ScenariosGathered'
    BY <1>2 DEF ScenariosGathered, Read, Scenario, File
  <2>4. MapsGathered => MapsGathered'
    <3> DEFINE generators == [f \in Read |-> Assigned(f, File(f).generators)]
               keywords == [f \in Read |-> Assigned(f, File(f).keywords)]
    <3>1. generators' = generators /\ keywords' = keywords
      BY <2>1
    <3>2. /\ Collects(suite.generators, generators)' <=> Collects(suite'.generators, generators')
          /\ Collects(suite.keywords, keywords)' <=> Collects(suite'.keywords, keywords')
      BY DEF Collects
    <3>3. /\ Collects(suite.generators, generators) => Collects(suite.generators, generators)'
          /\ Collects(suite.keywords, keywords) => Collects(suite.keywords, keywords)'
      BY <1>2, <3>1, <3>2, Zenon
    <3> QED
      BY <1>2, <2>1, <3>3, Zenon DEF MapsGathered
  <2>5. TeardownGathered => TeardownGathered'
    BY <1>2 DEF TeardownGathered, Read, Teardown, File
  <2>6. ValidateSuite => ValidateSuite'
    BY <1>2 DEF ValidateSuite, KeywordsValid, KeywordSteps, SuiteTeardownValid
  <2>7. (\A f \in Read : Decodes(File(f))) => (\A f \in Read : Decodes(File(f)))'
    BY <2>1, <2>2
  <2> QED
    BY <1>2, <2>3, <2>4, <2>5, <2>6, <2>7 DEF FilesInv
<1>3. CASE CollectFails
  BY <1>2, <1>3 DEF CollectFails, Loaded
<1>4. CASE Finish
  <2>1. /\ UNCHANGED <<tree, next, suite>> /\ next = Len(tree.files) + 1
        /\ diags' = diags \cup Report("Invalid suite", ~ValidateSuite)
        /\ Loaded' => diags' = {}
    BY <1>4 DEF Finish, Loaded
  <2>2. diags' = {} => diags = {} /\ ValidateSuite
    BY <2>1 DEF Report
  <2> QED
    BY <1>2, <2>1, <2>2
<1>5. CASE UNCHANGED vars
  <2>1. UNCHANGED <<tree, next, suite, diags>> /\ Loaded' = Loaded
    BY <1>5 DEF vars, Loaded
  <2>2. Loaded => diags = {} /\ next = Len(tree.files) + 1 /\ ValidateSuite
    BY DEF FilesInv
  <2> QED
    BY <1>2, <2>1, <2>2
<1> QED
  BY <1>1, <1>3, <1>4, <1>5 DEF Next

LEMMA FilesInvariant == Spec => []FilesInv
  BY FilesInvStarts, FilesInvStep, PTL DEF Spec

-----------------------------------------------------------------------------
(* The order of a loaded suite.                                            *)

LEMMA LoadedFacts ==
  ASSUME FilesInv, Loaded
  PROVE  /\ Read = DOMAIN tree.files /\ \A f \in Read : AFile(File(f)) /\ Decodes(File(f))
         /\ ScenariosGathered /\ MapsGathered /\ TeardownGathered /\ ValidateSuite
<1>1. /\ tree \in Trees /\ diags = {} /\ next = Len(tree.files) + 1 /\ ValidateSuite
  BY DEF FilesInv
<1>2. Read = DOMAIN tree.files
  BY <1>1, TreeFacts DEF Read
<1>3. \A f \in Read : AFile(File(f))
  BY <1>1, <1>2, TreeFacts
<1> QED
  BY <1>1, <1>2, <1>3 DEF FilesInv

\* Of the blocks of one name the map keeps the last.
LEMMA AssignedLast ==
  ASSUME NEW f, NEW blocks, IsList(blocks), NEW name \in DOMAIN Assigned(f, blocks)
  PROVE  \E c \in DOMAIN blocks :
           /\ Assigned(f, blocks)[name] = <<f, c>> /\ blocks[c].name = name
           /\ \A j \in DOMAIN blocks : blocks[j].name = name => j <= c
<1> DEFINE T == {j \in DOMAIN blocks : blocks[j].name = name}
           c == CHOOSE j \in DOMAIN blocks :
                  /\ blocks[j].name = name
                  /\ \A m \in DOMAIN blocks : blocks[m].name = name => m <= j
<1>1. Len(blocks) \in Nat /\ DOMAIN blocks = 1..Len(blocks)
  BY ListFacts
<1>2. T \subseteq 1..Len(blocks) /\ T # {}
  BY <1>1 DEF Assigned
<1>3. \E x \in T : \A y \in T : y <= x
  <2> HIDE DEF T
  <2> QED
    BY <1>1, <1>2, Largest
<1>4. /\ c \in DOMAIN blocks /\ blocks[c].name = name
      /\ \A j \in DOMAIN blocks : blocks[j].name = name => j <= c
  BY <1>3, Zenon
<1>5. Assigned(f, blocks)[name] = <<f, c>>
  BY DEF Assigned
<1> QED
  BY <1>4, <1>5, Zenon

LEMMA ScenarioOrder ==
  ASSUME FilesInv, Loaded, NEW n \in DOMAIN suite.scenarios
  PROVE  \E f \in DOMAIN tree.files : \E m \in DOMAIN File(f).scenarios :
           /\ suite.scenarios[n].place = <<f, m>>
           /\ suite.scenarios[n].steps = File(f).scenarios[m].blocks
           /\ suite.scenarios[n].teardown = FlattenSeq(File(f).scenarios[m].teardowns)
           /\ IsList(suite.scenarios[n].steps) /\ IsList(suite.scenarios[n].teardown)
<1>1. PICK f \in Read : \E m \in DOMAIN File(f).scenarios : suite.scenarios[n] = Scenario(f, m)
  BY LoadedFacts DEF ScenariosGathered
<1>2. PICK m \in DOMAIN File(f).scenarios : suite.scenarios[n] = Scenario(f, m)
  BY <1>1
<1> DEFINE sc == File(f).scenarios[m]
           s == suite.scenarios[n].steps
           t == suite.scenarios[n].teardown
<1>3. /\ suite.scenarios[n].place = <<f, m>>
      /\ s = DecodeSteps(sc.blocks) /\ t = DecodeTeardowns(sc.teardowns)
  BY <1>2, DecodedScenario, Zenon
<1>4. ABody(sc.blocks) /\ IsListOf(sc.teardowns, ABody)
  BY LoadedFacts DEF AFile, AScenario, IsListOf
<1>5. UniqueNames(s \o t)
  BY LoadedFacts, Zenon DEF ValidateSuite, ScenarioValid
<1> HIDE DEF sc, s, t
<1>6. IsList(s) /\ IsList(t)
  BY <1>3, <1>4, DecodeGivesAList, DecodeTeardownsGivesAList, Zenon
<1>7. UniqueNames(s) /\ UniqueNames(t)
  BY <1>5, <1>6, UniqueInBoth, Zenon
<1>8. s = sc.blocks /\ t = FlattenSeq(sc.teardowns)
  BY <1>3, <1>4, <1>7, OrderIsRecovered, TeardownOrderIsRecovered, Zenon
<1>9. f \in DOMAIN tree.files
  BY DEF Read
<1> QED
  BY <1>3, <1>6, <1>8, <1>9, Zenon DEF s, t, sc

LEMMA KeywordOrder ==
  ASSUME FilesInv, Loaded, NEW name \in DOMAIN suite.keywords
  PROVE  \E f \in DOMAIN tree.files : \E m \in DOMAIN File(f).keywords :
           /\ suite.keywords[name] = <<f, m>>
           /\ KeywordSteps(name) = File(f).keywords[m].blocks
<1> DEFINE maps == [f \in Read |-> Assigned(f, File(f).keywords)]
<1>1. PICK f \in Read : name \in DOMAIN maps[f] /\ suite.keywords[name] = maps[f][name]
  <2>1. Collects(suite.keywords, maps) /\ DOMAIN maps = Read
    BY LoadedFacts DEF MapsGathered
  <2> HIDE DEF maps
  <2> QED
    BY <2>1, Zenon DEF Collects
<1>2. /\ name \in DOMAIN Assigned(f, File(f).keywords)
      /\ suite.keywords[name] = Assigned(f, File(f).keywords)[name]
  BY <1>1
<1>3. IsListOf(File(f).keywords, AKeyword)
  BY LoadedFacts DEF AFile
<1>4. PICK m \in DOMAIN File(f).keywords : suite.keywords[name] = <<f, m>>
  BY <1>2, <1>3, AssignedLast DEF IsListOf
<1>5. KeywordSteps(name) = DecodeSteps(File(f).keywords[m].blocks)
  BY <1>4, LoadedFacts DEF MapsGathered, KeywordSteps
<1>6. UniqueNames(KeywordSteps(name))
  BY LoadedFacts DEF ValidateSuite, KeywordsValid
<1>7. ABody(File(f).keywords[m].blocks)
  BY <1>3 DEF IsListOf, AKeyword
<1>8. KeywordSteps(name) = File(f).keywords[m].blocks
  BY <1>5, <1>6, <1>7, OrderIsRecovered, Zenon
<1>9. f \in DOMAIN tree.files
  BY DEF Read
<1> QED
  BY <1>4, <1>8, <1>9, Zenon

LEMMA SuiteTeardownOrder ==
  ASSUME FilesInv, Loaded, suite.teardownFile # 0
  PROVE  /\ suite.teardownFile \in DOMAIN tree.files
         /\ suite.teardown = FlattenSeq(File(suite.teardownFile).teardowns)
<1>1. /\ suite.teardownFile \in Read /\ suite.teardown = Teardown(suite.teardownFile)
      /\ UniqueNames(suite.teardown)
  BY LoadedFacts DEF TeardownGathered, ValidateSuite, SuiteTeardownValid
<1>2. IsListOf(File(suite.teardownFile).teardowns, ABody)
  BY <1>1, LoadedFacts DEF AFile
<1> QED
  BY <1>1, <1>2, TeardownOrderIsRecovered, Zenon DEF Teardown, Read

\* Whatever the files, the steps of a loaded suite are in the order of their file,
\* though gohcl takes `step' and `case' blocks apart: where reorderStepsBySource gives
\* up, validateSuite rejects the suite.
THEOREM OrderIsKept == Spec => []StepsRunInFileOrder
<1>1. FilesInv => StepsRunInFileOrder
  <2> SUFFICES ASSUME FilesInv, Loaded PROVE StepsRunInFileOrder
    BY Zenon DEF StepsRunInFileOrder
  <2>1. ASSUME NEW n \in DOMAIN suite.scenarios
        PROVE  LET sc == suite.scenarios[n]
               IN /\ sc.steps = Written(sc.place).blocks
                  /\ sc.teardown = FlattenSeq(Written(sc.place).teardowns)
    BY ScenarioOrder DEF Written, File
  <2>2. ASSUME NEW name \in DOMAIN suite.keywords
        PROVE  LET place == suite.keywords[name]
               IN KeywordSteps(name) = tree.files[place[1]].keywords[place[2]].blocks
    BY KeywordOrder DEF File
  <2>3. suite.teardownFile # 0 =>
          suite.teardown = FlattenSeq(tree.files[suite.teardownFile].teardowns)
    BY SuiteTeardownOrder DEF File
  <2> QED
    BY <2>1, <2>2, <2>3, Zenon DEF StepsRunInFileOrder
<1> QED
  BY <1>1, FilesInvariant, PTL

-----------------------------------------------------------------------------
(* Nothing is lost.                                                        *)

\* A definition is in the map, or one of its name further down in its file is.
LEMMA LastIsKept ==
  ASSUME NEW map, NEW maps, Collects(map, maps), NEW f \in DOMAIN maps,
         NEW blocks, IsList(blocks), maps[f] = Assigned(f, blocks), NEW n \in DOMAIN blocks
  PROVE  \/ map[blocks[n].name] = <<f, n>>
         \/ \E j \in DOMAIN blocks : j > n /\ blocks[j].name = blocks[n].name
<1>1. blocks[n].name \in DOMAIN Assigned(f, blocks)
  BY DEF Assigned
<1>2. PICK c \in DOMAIN blocks :
         /\ Assigned(f, blocks)[blocks[n].name] = <<f, c>> /\ blocks[c].name = blocks[n].name
         /\ n <= c
  BY <1>1, AssignedLast
<1>3. map[blocks[n].name] = <<f, c>>
  BY <1>1, <1>2, Zenon DEF Collects
<1>4. c = n \/ c > n
  BY <1>2, ListFacts
<1> QED
  BY <1>2, <1>3, <1>4

LEMMA FlattenedHas ==
  ASSUME NEW ss, IsListOf(ss, IsList), NEW k \in DOMAIN ss
  PROVE  Range(ss[k]) \subseteq Range(FlattenSeq(ss))
<1> DEFINE s == FlattenSeq(ss)
<1>1. Holds(s, ss, Len(ss)) /\ k \in 1..Len(ss)
  BY Flattened, ListFacts DEF IsListOf
<1> HIDE DEF s
<1>2. PICK o \in Nat : \A j \in DOMAIN ss[k] : o + j \in DOMAIN s /\ s[o + j] = ss[k][j]
  BY <1>1 DEF Holds
<1>3. Range(ss[k]) \subseteq Range(s)
  BY <1>2 DEF Range
<1> QED
  BY <1>3 DEF s

LEMMA FlattenedOnly ==
  ASSUME NEW ss, IsListOf(ss, IsList), NEW b \in Range(FlattenSeq(ss))
  PROVE  \E k \in DOMAIN ss : b \in Range(ss[k])
<1> DEFINE s == FlattenSeq(ss)
<1>1. Holds(s, ss, Len(ss)) /\ DOMAIN ss = 1..Len(ss)
  BY Flattened, ListFacts DEF IsListOf
<1>2. PICK n \in DOMAIN s : b = s[n]
  BY DEF Range
<1> HIDE DEF s
<1> QED
  BY <1>1, <1>2, Zenon DEF Holds, Range

LEMMA BodiesAreLists ==
  ASSUME NEW ss, IsListOf(ss, ABody)
  PROVE  IsListOf(ss, IsList)
BY DEF IsListOf, ABody

\* A teardown from which nothing is decoded had nothing in it.
LEMMA EmptyTeardown ==
  ASSUME NEW teardowns, IsListOf(teardowns, ABody), DecodeTeardowns(teardowns) = <<>>,
         NEW k \in DOMAIN teardowns
  PROVE  Range(teardowns[k]) = {}
<1> DEFINE blocks == teardowns[k]
           d == Decoded(blocks)
<1>1. Pieces(teardowns)[k] = DecodeSteps(blocks) /\ k \in DOMAIN Pieces(teardowns)
  BY DEF Pieces
<1>2. Range(DecodeSteps(blocks)) \subseteq Range(<<>>)
  BY <1>1, PiecesAreLists, FlattenedHas, Zenon DEF DecodeTeardowns, Pieces
<1>3. DOMAIN DecodeSteps(blocks) = {}
  BY <1>2 DEF Range
<1>4. ABody(blocks)
  BY DEF IsListOf
<1> HIDE DEF blocks
<1>5. \A n \in DOMAIN blocks : blocks[n] \in Range(d)
  BY <1>4, DecodedHolds, Zenon
<1>6. DOMAIN blocks = {}
  <2>1. CASE \E p, q \in DOMAIN d : p # q /\ Key(d[p]) = Key(d[q])
    BY <2>1, <1>3 DEF DecodeSteps, ReorderStepsBySource
  <2>2. CASE ~\E p, q \in DOMAIN d : p # q /\ Key(d[p]) = Key(d[q])
    BY <2>2, <1>3 DEF DecodeSteps, ReorderStepsBySource
  <2> QED
    BY <2>1, <2>2
<1>7. Range(blocks) = {}
  BY <1>6 DEF Range
<1> QED
  BY <1>7 DEF blocks

\* Whatever the files, every definition of every file is in a loaded suite, but for a
\* generator or keyword that a later one in its own file replaces.
THEOREM NoDefinitionIsLost == Spec => []NothingIsLost
<1>1. FilesInv => NothingIsLost
  <2> SUFFICES ASSUME FilesInv, Loaded, NEW f \in DOMAIN tree.files
               PROVE  LET file == tree.files[f]
                          Kept(map, blocks, n) ==
                            \/ map[blocks[n].name] = <<f, n>>
                            \/ \E j \in DOMAIN blocks : j > n /\ blocks[j].name = blocks[n].name
                      IN /\ Decodes(file)
                         /\ \A n \in DOMAIN file.generators : Kept(suite.generators, file.generators, n)
                         /\ \A n \in DOMAIN file.keywords : Kept(suite.keywords, file.keywords, n)
                         /\ \A m \in DOMAIN file.scenarios :
                               \E n \in DOMAIN suite.scenarios : suite.scenarios[n].place = <<f, m>>
                         /\ \A k \in DOMAIN file.teardowns :
                               Range(file.teardowns[k]) \subseteq Range(suite.teardown)
    BY Zenon DEF NothingIsLost
  <2>1. /\ f \in Read /\ AFile(File(f)) /\ Decodes(File(f)) /\ File(f) = tree.files[f]
    BY LoadedFacts DEF File
  <2>2. ASSUME NEW n \in DOMAIN File(f).generators
        PROVE  \/ suite.generators[File(f).generators[n].name] = <<f, n>>
               \/ \E j \in DOMAIN File(f).generators :
                     j > n /\ File(f).generators[j].name = File(f).generators[n].name
    <3> DEFINE maps == [g \in Read |-> Assigned(g, File(g).generators)]
    <3>1. /\ Collects(suite.generators, maps) /\ f \in DOMAIN maps
          /\ maps[f] = Assigned(f, File(f).generators) /\ IsList(File(f).generators)
      BY <2>1, LoadedFacts DEF MapsGathered, AFile
    <3> DEFINE blocks == File(f).generators
               map == suite.generators
    <3>2. Collects(map, maps)
      BY <3>1
    <3>3. f \in DOMAIN maps
      BY <3>1
    <3>4. IsList(blocks)
      BY <3>1
    <3>5. maps[f] = Assigned(f, blocks)
      BY <3>1
    <3>6. n \in DOMAIN blocks
      OBVIOUS
    <3> HIDE DEF maps, map, blocks
    <3>7. \/ map[blocks[n].name] = <<f, n>>
          \/ \E j \in DOMAIN blocks : j > n /\ blocks[j].name = blocks[n].name
      BY <3>2, <3>3, <3>4, <3>5, <3>6, LastIsKept
    <3> QED
      BY <3>7 DEF map, blocks
  <2>3. ASSUME NEW n \in DOMAIN File(f).keywords
        PROVE  \/ suite.keywords[File(f).keywords[n].name] = <<f, n>>
               \/ \E j \in DOMAIN File(f).keywords :
                     j > n /\ File(f).keywords[j].name = File(f).keywords[n].name
    <3> DEFINE maps == [g \in Read |-> Assigned(g, File(g).keywords)]
    <3>1. /\ Collects(suite.keywords, maps) /\ f \in DOMAIN maps
          /\ maps[f] = Assigned(f, File(f).keywords) /\ IsList(File(f).keywords)
      BY <2>1, LoadedFacts DEF MapsGathered, AFile, IsListOf
    <3> DEFINE blocks == File(f).keywords
               map == suite.keywords
    <3>2. Collects(map, maps)
      BY <3>1
    <3>3. f \in DOMAIN maps
      BY <3>1
    <3>4. IsList(blocks)
      BY <3>1
    <3>5. maps[f] = Assigned(f, blocks)
      BY <3>1
    <3>6. n \in DOMAIN blocks
      OBVIOUS
    <3> HIDE DEF maps, map, blocks
    <3>7. \/ map[blocks[n].name] = <<f, n>>
          \/ \E j \in DOMAIN blocks : j > n /\ blocks[j].name = blocks[n].name
      BY <3>2, <3>3, <3>4, <3>5, <3>6, LastIsKept
    <3> QED
      BY <3>7 DEF map, blocks
  <2>4. ASSUME NEW m \in DOMAIN File(f).scenarios
        PROVE  \E n \in DOMAIN suite.scenarios : suite.scenarios[n].place = <<f, m>>
    <3>1. PICK n \in DOMAIN suite.scenarios : suite.scenarios[n] = Scenario(f, m)
      BY <2>1, LoadedFacts DEF ScenariosGathered
    <3> QED
      BY <3>1, DecodedScenario
  <2>5. ASSUME NEW k \in DOMAIN File(f).teardowns
        PROVE  Range(File(f).teardowns[k]) \subseteq Range(suite.teardown)
    <3>1. IsListOf(File(f).teardowns, ABody)
      BY <2>1 DEF AFile
    <3>2. CASE f = suite.teardownFile
      <4>1. f # 0
        BY <2>1, TreeFacts DEF FilesInv, Read
      <4>2. suite.teardown = FlattenSeq(File(f).teardowns)
        BY <3>2, <4>1, SuiteTeardownOrder, Zenon
      <4> QED
        BY <3>1, <4>2, BodiesAreLists, FlattenedHas, Zenon
    <3>3. CASE f # suite.teardownFile
      <4>1. DecodeTeardowns(File(f).teardowns) = <<>>
        BY <2>1, <3>3, LoadedFacts DEF TeardownGathered, Teardown
      <4>2. Range(File(f).teardowns[k]) = {}
        BY <3>1, <4>1, EmptyTeardown, Zenon
      <4> QED
        BY <4>2
    <3> QED
      BY <3>2, <3>3
  <2> QED
    BY <2>1, <2>2, <2>3, <2>4, <2>5, Zenon
<1> QED
  BY <1>1, FilesInvariant, PTL

-----------------------------------------------------------------------------
(* Every part of a loaded suite has been through its decoder.              *)

LEMMA BodyParts ==
  ASSUME NEW blocks, ABody(blocks), NEW step \in Range(blocks), NEW part \in step.parts
  PROVE  APart(part)
BY DEF ABody, IsListOf, ABlock, Range

\* A block is a block of the file of its scenario, keyword or teardown.
LEMMA BlocksOfAFile ==
  ASSUME NEW file, NEW step
  PROVE  /\ \A m \in DOMAIN file.scenarios :
              step \in Range(file.scenarios[m].blocks)
                \/ step \in Range(FlattenSeq(file.scenarios[m].teardowns))
              => step \in AllBlocks(file)
         /\ \A m \in DOMAIN file.keywords :
              step \in Range(file.keywords[m].blocks) => step \in AllBlocks(file)
         /\ step \in Range(FlattenSeq(file.teardowns)) => step \in AllBlocks(file)
<1> DEFINE A == UNION {UNION {Range(file.scenarios[i].blocks),
                              Range(FlattenSeq(file.scenarios[i].teardowns))} :
                         i \in DOMAIN file.scenarios}
           B == UNION {Range(file.keywords[i].blocks) : i \in DOMAIN file.keywords}
           C == Range(FlattenSeq(file.teardowns))
<1>0. AllBlocks(file) = C \cup A \cup B
  BY Zenon DEF AllBlocks
<1> HIDE DEF C
<1>1. ASSUME NEW m \in DOMAIN file.scenarios,
             step \in Range(file.scenarios[m].blocks)
               \/ step \in Range(FlattenSeq(file.scenarios[m].teardowns))
      PROVE  step \in AllBlocks(file)
  <2>1. step \in UNION {Range(file.scenarios[m].blocks),
                        Range(FlattenSeq(file.scenarios[m].teardowns))}
    BY <1>1, Zenon
  <2> QED
    BY <1>0, <2>1, Zenon
<1>2. ASSUME NEW m \in DOMAIN file.keywords, step \in Range(file.keywords[m].blocks)
      PROVE  step \in AllBlocks(file)
  <2>1. step \in B
    BY <1>2, Zenon
  <2> HIDE DEF A, B
  <2> QED
    BY <1>0, <2>1, Zenon
<1>3. ASSUME step \in Range(FlattenSeq(file.teardowns))
      PROVE  step \in AllBlocks(file)
  <2>1. step \in C
    BY <1>3, Zenon DEF C
  <2> HIDE DEF A, B
  <2> QED
    BY <1>0, <2>1, Zenon
<1> QED
  BY <1>1, <1>2, <1>3, Zenon

LEMMA ListsOfASuite ==
  ASSUME NEW steps \in AllLists
  PROVE  \/ \E sc \in Range(suite.scenarios) : steps \in {sc.steps, sc.teardown}
         \/ \E name \in DOMAIN suite.keywords : steps = KeywordSteps(name)
         \/ steps = suite.teardown
<1> DEFINE A == UNION {{sc.steps, sc.teardown} : sc \in Range(suite.scenarios)}
           B == {KeywordSteps(name) : name \in DOMAIN suite.keywords}
<1>1. AllLists = A \cup B \cup {suite.teardown}
  BY Zenon DEF AllLists
<1>2. CASE steps \in A
  BY <1>2, Zenon
<1>3. CASE steps \in B
  BY <1>3, Zenon
<1> HIDE DEF A, B
<1> QED
  BY <1>1, <1>2, <1>3, Zenon

LEMMA PartsAreDecoded ==
  ASSUME FilesInv, Loaded, NEW step \in AllSteps, NEW part \in step.parts
  PROVE  APart(part) /\ Accepts(part)
<1>1. SUFFICES \E f \in DOMAIN tree.files : step \in AllBlocks(File(f)) /\ APart(part)
  BY LoadedFacts DEF Decodes
<1>2. PICK steps \in AllLists : step \in Range(steps)
  BY DEF AllSteps
<1>3. CASE \E sc \in Range(suite.scenarios) : steps \in {sc.steps, sc.teardown}
  <2>1. PICK n \in DOMAIN suite.scenarios :
           steps \in {suite.scenarios[n].steps, suite.scenarios[n].teardown}
    BY <1>3 DEF Range
  <2>2. PICK f \in DOMAIN tree.files : \E m \in DOMAIN File(f).scenarios :
           /\ suite.scenarios[n].steps = File(f).scenarios[m].blocks
           /\ suite.scenarios[n].teardown = FlattenSeq(File(f).scenarios[m].teardowns)
    BY ScenarioOrder
  <2>3. PICK m \in DOMAIN File(f).scenarios :
           /\ suite.scenarios[n].steps = File(f).scenarios[m].blocks
           /\ suite.scenarios[n].teardown = FlattenSeq(File(f).scenarios[m].teardowns)
    BY <2>2
  <2>4. AScenario(File(f).scenarios[m])
    BY LoadedFacts DEF AFile, IsListOf
  <2>5. step \in AllBlocks(File(f))
    <3>1. \/ step \in Range(File(f).scenarios[m].blocks)
          \/ step \in Range(FlattenSeq(File(f).scenarios[m].teardowns))
      BY <1>2, <2>1, <2>3
    <3> QED
      BY <3>1, BlocksOfAFile
  <2>6. CASE steps = File(f).scenarios[m].blocks
    BY <1>2, <2>4, <2>5, <2>6, BodyParts DEF AScenario
  <2>7. CASE steps = FlattenSeq(File(f).scenarios[m].teardowns)
    <3>1. IsListOf(File(f).scenarios[m].teardowns, ABody)
      BY <2>4 DEF AScenario
    <3>2. PICK k \in DOMAIN File(f).scenarios[m].teardowns :
             step \in Range(File(f).scenarios[m].teardowns[k])
      BY <1>2, <2>7, <3>1, BodiesAreLists, FlattenedOnly
    <3>3. ABody(File(f).scenarios[m].teardowns[k])
      BY <3>1 DEF IsListOf
    <3> QED
      BY <2>5, <3>2, <3>3, BodyParts
  <2> QED
    BY <2>1, <2>3, <2>6, <2>7
<1>4. CASE \E name \in DOMAIN suite.keywords : steps = KeywordSteps(name)
  <2>1. PICK name \in DOMAIN suite.keywords : steps = KeywordSteps(name)
    BY <1>4
  <2>2. PICK f \in DOMAIN tree.files : \E m \in DOMAIN File(f).keywords :
           steps = File(f).keywords[m].blocks
    BY <2>1, KeywordOrder
  <2>3. PICK m \in DOMAIN File(f).keywords : steps = File(f).keywords[m].blocks
    BY <2>2
  <2>4. ABody(File(f).keywords[m].blocks)
    BY LoadedFacts DEF AFile, IsListOf, AKeyword
  <2>5. step \in AllBlocks(File(f))
    BY <1>2, <2>3, BlocksOfAFile
  <2> QED
    BY <1>2, <2>3, <2>4, <2>5, BodyParts
<1>5. CASE steps = suite.teardown
  <2> DEFINE f == suite.teardownFile
  <2>1. suite.teardownFile # 0
    BY <1>2, <1>5, LoadedFacts DEF TeardownGathered, Range
  <2>2. f \in DOMAIN tree.files /\ steps = FlattenSeq(File(f).teardowns)
    BY <1>5, <2>1, SuiteTeardownOrder
  <2>3. IsListOf(File(f).teardowns, ABody)
    BY <2>2, LoadedFacts DEF AFile
  <2>4. PICK k \in DOMAIN File(f).teardowns : step \in Range(File(f).teardowns[k])
    BY <1>2, <2>2, <2>3, BodiesAreLists, FlattenedOnly
  <2>5. ABody(File(f).teardowns[k])
    BY <2>3 DEF IsListOf
  <2>6. step \in AllBlocks(File(f))
    BY <1>2, <2>2, BlocksOfAFile
  <2> QED
    BY <2>2, <2>4, <2>5, <2>6, BodyParts
<1> QED
  BY <1>2, <1>3, <1>4, <1>5, ListsOfASuite

-----------------------------------------------------------------------------
(* The tables of StepForms and StepLowering, family by family.             *)

\* What a block of a kind may be: of its form, and read only by its expressions.
WellFormed(part, family, name) ==
  /\ part.kind = <<family, name>> /\ name \in DOMAIN Forms[family]
  /\ Fits(Forms[family][name], part.attrs)

Demands(part) == Lowers(part) \/ FailsLate(part)

CollectsAll(part) ==
  \A attr \in Evaluated(part) \cap Expressions(part.kind) :
    attr \in Collected[part.kind[1]][part.kind[2]] \/ NotCollected(part.kind, attr)

\* Of a group of attributes a form takes one member, and no other.
LEMMA OneOfEach ==
  ASSUME NEW form, NEW attrs, Fits(form, attrs), NEW group \in form.one
  PROVE  \E choice \in group : attrs \cap UNION group = choice /\ choice \subseteq attrs
<1>1. attrs \cap UNION group \in group
  BY DEF Fits
<1> QED
  BY <1>1

LEMMA BrowserActionsLower ==
  ASSUME NEW part, NEW name, WellFormed(part, "browser", name)
  PROVE  Demands(part) /\ CollectsAll(part)
<1> DEFINE form == DecodeBrowserActionBlock[name]
<1>1. name \in {"goto", "click", "clear", "submit", "wait_visible", "wait_not_visible",
                "wait_enabled", "wait_disabled", "hover", "check", "uncheck", "fill", "press",
                "scroll", "select", "upload_file", "reload", "back", "forward"}
  BY DEF WellFormed, Forms, DecodeBrowserActionBlock
<1>2. part.kind = <<"browser", name>> /\ Fits(form, part.attrs)
  BY DEF WellFormed, Forms
<1>3. Lower(part) = EvalBrowserActions(name, part.attrs)
  BY <1>2 DEF Lower
<1>4. ASSUME name = "scroll"
      PROVE  Demands(part)
  <2>1. form.one = {{{"selector"}, {"x", "y"}}}
    BY <1>4 DEF DecodeBrowserActionBlock, DecodeBrowserScroll, Action, WithBlocks, Form
  <2>2. part.attrs \cap UNION {{"selector"}, {"x", "y"}} \in {{"selector"}, {"x", "y"}}
    BY <1>2, <2>1 DEF Fits
  <2>3. Lower(part).must = IF "selector" \in part.attrs THEN {"selector"} ELSE {"x", "y"}
    BY <1>3, <1>4 DEF EvalBrowserActions, EvalBrowserScroll, Evaluates
  <2>4. "selector" \in part.attrs \/ {"x", "y"} \subseteq part.attrs
    BY <2>2
  <2>5. Lower(part).must \subseteq part.attrs
    BY <2>3, <2>4
  <2> QED
    BY <2>5, Zenon DEF Demands, Lowers
<1>5. ASSUME name # "scroll"
      PROVE  Demands(part)
  <2>1. EvalBrowserActions(name, part.attrs).must \subseteq form.req
    BY <1>1, <1>5
    DEF DecodeBrowserActionBlock, DecodeBrowserGoto, BrowserPointer, DecodeBrowserSelectorOnly,
        DecodeBrowserFill, DecodeBrowserPress, DecodeBrowserSelect, DecodeBrowserUploadFile,
        DecodeBrowserNoArg, Action, WithBlocks, Form, EvalBrowserActions,
        EvalBrowserUploadPaths, Evaluates
  <2>2. form.req \subseteq part.attrs
    BY <1>2 DEF Fits
  <2>3. Lower(part).must \subseteq part.attrs
    BY <1>3, <2>1, <2>2, Zenon
  <2> QED
    BY <2>3, Zenon DEF Demands, Lowers
<1>6. CollectsAll(part)
  BY <1>2 DEF CollectsAll, NotCollected
<1> QED
  BY <1>4, <1>5, <1>6

LEMMA BrowserExpectsLower ==
  ASSUME NEW part, NEW name, WellFormed(part, "browser_expect", name)
  PROVE  Demands(part) /\ CollectsAll(part)
<1>1. name \in {"visible", "not_visible", "text", "value", "enabled", "disabled",
                "attribute", "url", "title", "web_perf"}
  BY DEF WellFormed, Forms, DecodeBrowserExpect
<1>2. part.kind = <<"browser_expect", name>>
  BY DEF WellFormed
<1>3. Lower(part) = EvalBrowserExpect[name]
  BY <1>2 DEF Lower, Lowered
<1>4. EvalBrowserExpect[name].must \subseteq {"selector", "name"}
  BY <1>1 DEF EvalBrowserExpect, EvalBrowserVisibility, EvalBrowserValueExpectation,
      EvalBrowserStateExpectation, EvalBrowserAttribute, EvalBrowserURLOrTitle,
      EvaluateWebPerf, Evaluates
<1>5. Demands(part)
  BY <1>2, <1>3, <1>4 DEF Demands, Lowers, FailsLate
<1>6. CollectsAll(part)
  BY <1>2 DEF CollectsAll, NotCollected
<1> QED
  BY <1>5, <1>6

LEMMA MobileActionsLower ==
  ASSUME NEW part, NEW name, WellFormed(part, "mobile", name)
  PROVE  Demands(part) /\ CollectsAll(part)
<1>1. /\ part.kind = <<"mobile", name>> /\ name \in DOMAIN DecodeMobileActionBlock
  BY DEF WellFormed, Forms
<1>2. Lower(part) = EvalMobileActions[name]
  BY <1>1 DEF Lower, Lowered
<1>3. /\ EvalMobileActions[name].must = {}
      /\ EvalMobileActions[name].may \subseteq
           Locators \cup Timing \cup MobileValue \cup EvalMobileBoolAttrs \cup EvalMobileGestureAttrs
  BY <1>1 DEF EvalMobileActions, Evaluates, EvalMobileLocator
<1>4. Collected[part.kind[1]][part.kind[2]] = CollectMobileRefs.action
  BY <1>1 DEF Collected
<1>5. CollectsAll(part)
  BY <1>1, <1>2, <1>3, <1>4
  DEF CollectsAll, Evaluated, NotCollected, CollectMobileRefs, EvalMobileBoolAttrs, EvalMobileGestureAttrs
<1> QED
  BY <1>2, <1>3, <1>5 DEF Demands, Lowers

LEMMA MobilePartsLower ==
  ASSUME NEW part, NEW name, WellFormed(part, "mobile_part", name)
  PROVE  Demands(part) /\ CollectsAll(part)
<1>1. name \in {"launch", "terminate", "permissions"} /\ part.kind = <<"mobile_part", name>>
  BY DEF WellFormed, Forms, MobileParts
<1>2. Lower(part) = Lowered["mobile_part"][name]
  BY <1>1 DEF Lower
<1>3. /\ Lower(part).must = {}
      /\ Lower(part).may \subseteq Collected["mobile_part"][name]
  BY <1>1, <1>2 DEF Lowered, Collected, EvalMobileLaunch, EvalMobilePermissions, Evaluates,
      CollectMobileRefs
<1> QED
  BY <1>1, <1>3 DEF Demands, Lowers, CollectsAll, Evaluated

LEMMA MobileExpectsLower ==
  ASSUME NEW part, NEW name, WellFormed(part, "mobile_expect", name)
  PROVE  Demands(part) /\ CollectsAll(part)
<1>1. /\ name \in {"visible", "not_visible", "text", "value", "enabled", "disabled"}
      /\ name \in DOMAIN MobileExpects
      /\ part.kind = <<"mobile_expect", name>>
  BY DEF WellFormed, Forms, MobileExpects
<1>2. Lower(part) = EvalMobileExpect[name]
  BY <1>1 DEF Lower, Lowered
<1>3. /\ Lower(part).must \subseteq {"value"}
      /\ name \notin {"text", "value"} => Lower(part).must = {}
      /\ Lower(part).may \subseteq Locators \cup Timing
  BY <1>1, <1>2 DEF EvalMobileExpect, EvalMobileVisibility, EvalMobileValueExpectation,
      EvalMobileStateExpectation, Evaluates, EvalMobileLocator
<1>4. Collected["mobile_expect"][name] =
        CollectMobileLocatorRefs \cup (IF name \in {"text", "value"} THEN {"value"} ELSE {})
  BY <1>1 DEF Collected, CollectMobileExpectRefs
<1> QED
  BY <1>1, <1>3, <1>4
  DEF Demands, Lowers, FailsLate, CollectsAll, Evaluated, CollectMobileLocatorRefs

LEMMA RequestsLower ==
  ASSUME NEW part, NEW name, NEW family \in {"request", "load_http"},
         WellFormed(part, family, name)
  PROVE  Demands(part) /\ CollectsAll(part)
<1> DEFINE form == RequestBlocks[name]
<1>1. /\ name \in {"request", "body", "basic", "multipart_file", "multipart_field"}
      /\ part.kind = <<family, name>> /\ Fits(form, part.attrs)
  BY DEF WellFormed, Forms, RequestBlocks
<1>2. Lower(part) = EvaluateRequests[name]
  BY <1>1 DEF Lower, Lowered
<1>3. Demands(part)
  <2>1. EvaluateRequests[name].must \subseteq form.req
    BY <1>1 DEF EvaluateRequests, EvaluateRequest, EvaluateRequestBody, EvaluateRequestAuth,
        EvaluateMultipartFilePart, EvaluateMultipartFieldPart, Evaluates,
        RequestBlocks, DecodeRequestAuth, Form
  <2>2. form.req \subseteq part.attrs
    BY <1>1 DEF Fits
  <2> QED
    BY <1>2, <2>1, <2>2, Zenon DEF Demands, Lowers
<1>4. CollectsAll(part)
  <2>1. CASE family = "load_http"
    BY <1>1, <2>1 DEF CollectsAll, NotCollected
  <2>2. CASE family = "request" /\ name \in {"multipart_file", "multipart_field"}
    BY <1>1, <2>2 DEF CollectsAll, NotCollected
  <2>3. CASE family = "request" /\ name \in {"request", "body", "basic"}
    <3>1. Evaluated(part) \subseteq CollectRequestRefs[name]
      BY <1>2, <2>3 DEF Evaluated, CollectRequestRefs, EvaluateRequests, EvaluateRequest,
          EvaluateRequestBody, EvaluateRequestAuth, Evaluates
    <3>2. Collected["request"][name] = CollectRequestRefs[name]
      BY DEF Collected
    <3> QED
      BY <1>1, <2>3, <3>1, <3>2 DEF CollectsAll
  <2> QED
    BY <1>1, <2>1, <2>2, <2>3
<1> QED
  BY <1>3, <1>4

\* A message with a path is refused, so what counts is the one with a content.
LEMMA AttachmentLowers ==
  ASSUME NEW part, WellFormed(part, "block", "attachment")
  PROVE  Demands(part)
<1>1. part.kind = <<"block", "attachment">> /\ Fits(DecodeMailAttachment, part.attrs)
  BY DEF WellFormed, Forms, OtherBlocks
<1>2. Lower(part) = EvaluateMailAttachments(part.kind, part.attrs)
  BY <1>1 DEF Lower
<1>3. FormOf(part.kind) = DecodeMailAttachment
  BY <1>1 DEF FormOf, Forms, OtherBlocks
<1>4. DecodeMailAttachment.one = {{{"path"}, {"content"}}} /\ DecodeMailAttachment.req = {"filename"}
  <2>1. ExactlyOne({"path", "content"}) = {{"path"}, {"content"}}
    BY DEF ExactlyOne
  <2> QED
    BY <2>1 DEF DecodeMailAttachment, Form
<1>5. "content" \in Known(DecodeMailAttachment)
  <2>1. "content" \in UNION {{"path"}, {"content"}}
    OBVIOUS
  <2>2. {{"path"}, {"content"}} \in DecodeMailAttachment.one
    BY <1>4
  <2>3. "content" \in UNION {UNION group : group \in DecodeMailAttachment.one}
    BY <2>1, <2>2, Zenon
  <2> QED
    BY <2>3 DEF Known
<1>6. Lower(part).must = {"filename", "content"}
  BY <1>1, <1>2, <1>3, <1>5 DEF EvaluateMailAttachments, NotEmpty, KeepsPlaceholders, Evaluates
<1>7. part.attrs \cap UNION {{"path"}, {"content"}} \in {{"path"}, {"content"}}
  BY <1>1, <1>4 DEF Fits
<1>8. "path" \in part.attrs \/ "content" \in part.attrs
  BY <1>7
<1>9. "filename" \in part.attrs
  BY <1>1, <1>4 DEF Fits
<1> QED
  BY <1>1, <1>6, <1>8, <1>9 DEF Demands, Lowers, FailsLate

LEMMA LoadRunLowers ==
  ASSUME NEW part, WellFormed(part, "block", "run")
  PROVE  Demands(part)
<1>1. part.kind = <<"block", "run">> /\ Fits(DecodeLoadRun, part.attrs)
  BY DEF WellFormed, Forms, OtherBlocks
<1>2. Lower(part).must = {IF "duration" \in part.attrs THEN "duration" ELSE "requests"}
  BY <1>1 DEF Lower, EvaluateLoadExecution, Evaluates
<1>3. {{"duration"}, {"requests"}} \in DecodeLoadRun.one
  <2>1. ExactlyOne({"duration", "requests"}) = {{"duration"}, {"requests"}}
    BY DEF ExactlyOne
  <2> QED
    BY <2>1 DEF DecodeLoadRun, Form
<1>4. part.attrs \cap UNION {{"duration"}, {"requests"}} \in {{"duration"}, {"requests"}}
  BY <1>1, <1>3 DEF Fits
<1>5. "duration" \in part.attrs \/ "requests" \in part.attrs
  BY <1>4
<1> QED
  BY <1>2, <1>5 DEF Demands, Lowers

LEMMA BlocksLower ==
  ASSUME NEW part, NEW name, WellFormed(part, "block", name)
  PROVE  Demands(part) /\ (name # "retry" => CollectsAll(part))
<1> DEFINE form == OtherBlocks[name]
<1>1. /\ name \in {"run", "exec", "query", "message", "attachment", "start", "wait", "stop",
                   "request_expect", "hmac_signature", "call", "sandbox", "save", "retry",
                   "skip_if", "skip_unless"}
      /\ part.kind = <<"block", name>> /\ Fits(form, part.attrs)
  BY DEF WellFormed, Forms, OtherBlocks
<1>2. CASE name \in {"message", "attachment", "run"}
  <2>1. CollectsAll(part)
    BY <1>1, <1>2 DEF CollectsAll, NotCollected
  <2>2. CASE name = "message"
    <3>1. Lower(part).must = {"from"}
      BY <1>1, <2>2 DEF Lower, Lowered, EvaluateMailMessage, Evaluates
    <3>2. form.req = {"from"}
      BY <2>2 DEF OtherBlocks, DecodeMailMessage, WithBlocks, Form
    <3> QED
      BY <1>1, <2>1, <3>1, <3>2 DEF Fits, Demands, Lowers
  <2> QED
    BY <1>2, <2>1, <2>2, AttachmentLowers, LoadRunLowers
<1>3. CASE name \notin {"message", "attachment", "run"}
  <2>1. Lower(part) = Lowered["block"][name]
    BY <1>1, <1>3 DEF Lower
  <2>2. Lowered["block"][name].must \subseteq form.req
    BY <1>1, <1>3
    DEF Lowered, Evaluates, EvaluateSQLOp, EvaluateWebhookStart, EvaluateWebhookWait,
        EvaluateWebhookStop, AssertWebhookRequest, AssertWebhookHMAC, EvaluateRPCExecution,
        EvalExecSandbox, ApplySave, EvaluateSkipRules, OtherBlocks, Form, SQLOpBlock,
        DecodeWebhookStart, DecodeWebhookStop, DecodeWebhookHMAC, RPCCallBlock, SaveBlock
  <2>3. form.req \subseteq part.attrs
    BY <1>1 DEF Fits
  <2>4. Demands(part)
    BY <2>1, <2>2, <2>3, Zenon DEF Demands, Lowers
  <2>5. ASSUME name # "retry"
        PROVE  CollectsAll(part)
    <3>1. Lowered["block"][name].must \cup Lowered["block"][name].may
             \subseteq Collected["block"][name]
      BY <1>1, <1>3, <2>5
      DEF Lowered, Evaluates, EvaluateSQLOp, EvaluateWebhookStart, EvaluateWebhookWait,
          EvaluateWebhookStop, AssertWebhookRequest, AssertWebhookHMAC, EvaluateRPCExecution,
          EvalExecSandbox, ApplySave, EvaluateSkipRules, Collected, CollectSQLRefs,
          CollectWebhookRefs, CollectWebhookExpectRefs, CollectRPCRefs, CollectExecRefs,
          CollectSaveRefs, CollectSkipRefs
    <3> QED
      BY <1>1, <2>1, <3>1 DEF CollectsAll, Evaluated
  <2> QED
    BY <2>4, <2>5
<1> QED
  BY <1>2, <1>3

LEMMA WebhookStepLowers ==
  ASSUME NEW part, WellFormed(part, "step", "webhook")
  PROVE  Demands(part)
<1> DEFINE takes == {{"start"}, {"wait", "target"}, {"stop"}, {"stop", "target"}}
<1>1. part.kind = <<"step", "webhook">> /\ Fits(DecodeWebhookStep, part.attrs)
  BY DEF WellFormed, Forms, DecodeProviderSteps
<1>2. takes \in DecodeWebhookStep.one
  BY DEF DecodeWebhookStep, WithBlocks, Form
<1>3. part.attrs \cap UNION takes \in takes
  BY <1>1, <1>2, Zenon DEF Fits
<1>4. Lower(part).must = EvaluateWebhookExecution(part.attrs).must
  BY <1>1 DEF Lower, LowerStep, EvaluateWebhookExecution, Evaluates
<1>5. EvaluateWebhookExecution(part.attrs).must =
        CASE "start" \in part.attrs -> {"start"}
          [] "wait" \in part.attrs -> {"wait", "target"}
          [] OTHER -> {"stop"}
  BY DEF EvaluateWebhookExecution, Evaluates
<1>6. Lower(part).must \subseteq part.attrs
  <2>1. CASE part.attrs \cap UNION takes = {"start"}
    <3>1. "start" \in part.attrs /\ "wait" \notin part.attrs
      BY <2>1
    <3> QED
      BY <1>4, <1>5, <3>1
  <2>2. CASE part.attrs \cap UNION takes = {"wait", "target"}
    <3>1. {"wait", "target"} \subseteq part.attrs /\ "start" \notin part.attrs
      BY <2>2
    <3> QED
      BY <1>4, <1>5, <3>1
  <2>3. CASE part.attrs \cap UNION takes \in {{"stop"}, {"stop", "target"}}
    <3>1. "stop" \in part.attrs /\ "start" \notin part.attrs /\ "wait" \notin part.attrs
      BY <2>3
    <3> QED
      BY <1>4, <1>5, <3>1
  <2> QED
    BY <1>3, <2>1, <2>2, <2>3
<1> QED
  BY <1>6, Zenon DEF Demands, Lowers

LEMMA SQLStepLowers ==
  ASSUME NEW part, WellFormed(part, "step", "sql")
  PROVE  Demands(part)
<1>1. part.kind = <<"step", "sql">> /\ Fits(DecodeSQLStep, part.attrs)
  BY DEF WellFormed, Forms, DecodeProviderSteps
<1>2. {{"exec"}, {"query"}} \in DecodeSQLStep.one /\ DecodeSQLStep.req = {"connection"}
  <2>1. ExactlyOne({"exec", "query"}) = {{"exec"}, {"query"}}
    BY DEF ExactlyOne
  <2> QED
    BY <2>1 DEF DecodeSQLStep, WithBlocks, Form
<1>3. part.attrs \cap UNION {{"exec"}, {"query"}} \in {{"exec"}, {"query"}}
  BY <1>1, <1>2, Zenon DEF Fits
<1>4. "exec" \in part.attrs \/ "query" \in part.attrs
  BY <1>3
<1>5. "connection" \in part.attrs
  BY <1>1, <1>2 DEF Fits
<1>6. Lower(part).must = {"connection", IF "exec" \in part.attrs THEN "exec" ELSE "query"}
  BY <1>1 DEF Lower, LowerStep, EvaluateSQLStep, Evaluates
<1>7. Lower(part).must \subseteq part.attrs
  BY <1>4, <1>5, <1>6
<1> QED
  BY <1>7, Zenon DEF Demands, Lowers

\* What any step evaluates besides is collected, in a keyword call without its capture.
LEMMA StepCollects ==
  ASSUME NEW part, NEW name, WellFormed(part, "step", name)
  PROVE  CollectsAll(part)
<1>1. /\ name \in {"mobile", "browser", "sql", "mail", "load", "webhook", "rpc", "file", "exec",
                   "http", "keyword"}
      /\ part.kind = <<"step", name>>
  BY DEF WellFormed, Forms, DecodeProviderSteps
<1> DEFINE own == CASE name = "sql" -> EvaluateSQLStep(part.attrs)
                    [] name = "webhook" -> EvaluateWebhookExecution(part.attrs)
                    [] OTHER -> Lowered.step[name]
<1>2. Lower(part) = [own EXCEPT !.may = @ \cup RunStep(name)]
  BY <1>1 DEF Lower, LowerStep
<1>3. FormOf(part.kind) = DecodeProviderSteps[name]
  BY <1>1 DEF FormOf, Forms
<1>4. Collected[part.kind[1]][part.kind[2]] = Collected["step"][name]
  BY <1>1
<1> DEFINE found == DecodeProviderSteps[name].blocks \cup Collected["step"][name]
                      \cup (IF name \in {"browser", "mail"} THEN {"target"} ELSE {})
<1>5. own.must \subseteq found
  <2>1. CASE name = "sql"
    BY <2>1 DEF EvaluateSQLStep, Evaluates, DecodeProviderSteps, DecodeSQLStep, WithBlocks, Form,
       Collected, CollectStep, CollectSQLRefs
  <2>2. CASE name = "webhook"
    BY <2>2 DEF EvaluateWebhookExecution, Evaluates, DecodeProviderSteps, DecodeWebhookStep,
       WithBlocks, Form, Collected, CollectStep, CollectWebhookRefs
  <2>3. CASE name \notin {"sql", "webhook"}
    BY <1>1, <2>3
    DEF Lowered, Evaluates, EvaluateMobileStep, EvaluateBrowserStep, EvaluateMailExecution,
        EvaluateRPCExecution, ResolveFilePath, EvaluateExecExecution, EvaluateKeywordCall,
        DecodeProviderSteps, DecodeMobileStep, DecodeBrowserStep, DecodeMailStep, DecodeLoadStep,
        DecodeRPCStep, DecodeFileStep, DecodeExecStep, CommonBlocks, WithBlocks, Form,
        Collected, CollectStep, CollectMobileRefs, CollectRPCRefs, CollectFileRefs, CollectExecRefs
  <2> QED
    BY <2>1, <2>2, <2>3
<1>6. own.may \subseteq found
  <2>1. CASE name \in {"sql", "webhook"}
    BY <2>1 DEF EvaluateSQLStep, EvaluateWebhookExecution, Evaluates
  <2>2. CASE name \notin {"sql", "webhook"}
    BY <1>1, <2>2
    DEF Lowered, Evaluates, EvaluateMobileStep, EvaluateBrowserStep, EvaluateMailExecution,
        EvaluateRPCExecution, ResolveFilePath, EvaluateExecExecution, EvaluateKeywordCall,
        Collected, CollectStep, CollectExecRefs
  <2> QED
    BY <2>1, <2>2
<1>7. RunStep(name) \subseteq found
  BY <1>1 DEF RunStep, Collected, CollectStep
<1>8. Lower(part).must = own.must /\ Lower(part).may = own.may \cup RunStep(name)
  <2>1. \E must, may : own = [must |-> must, may |-> may]
    <3>1. CASE name = "sql"
      BY <3>1 DEF EvaluateSQLStep, Evaluates
    <3>2. CASE name = "webhook"
      BY <3>2 DEF EvaluateWebhookExecution, Evaluates
    <3>3. CASE name \notin {"sql", "webhook"}
      <4>1. own = Evaluates(own.must, own.may)
        BY <1>1, <3>3
        DEF Lowered, Evaluates, EvaluateMobileStep, EvaluateBrowserStep, EvaluateMailExecution,
            EvaluateRPCExecution, ResolveFilePath, EvaluateExecExecution, EvaluateKeywordCall
      <4> HIDE DEF own
      <4> QED
        BY <4>1, Zenon DEF Evaluates
    <3> QED
      BY <3>1, <3>2, <3>3
  <2> HIDE DEF own
  <2> QED
    BY <1>2, <2>1
<1> HIDE DEF own
<1>9. \A attr \in Evaluated(part) : attr \in found
  BY <1>5, <1>6, <1>7, <1>8 DEF Evaluated
<1>10. \A attr \in Expressions(part.kind) : attr \notin DecodeProviderSteps[name].blocks
  BY <1>3 DEF Expressions
<1>11. name \in {"browser", "mail"} => NotCollected(part.kind, "target")
  BY <1>1 DEF NotCollected
<1> QED
  BY <1>4, <1>9, <1>10, <1>11 DEF CollectsAll

LEMMA StepsLower ==
  ASSUME NEW part, NEW name, WellFormed(part, "step", name)
  PROVE  Demands(part) /\ CollectsAll(part)
<1> DEFINE form == DecodeProviderSteps[name]
<1>1. /\ name \in {"mobile", "browser", "sql", "mail", "load", "webhook", "rpc", "file", "exec",
                   "http", "keyword"}
      /\ part.kind = <<"step", name>> /\ Fits(form, part.attrs)
  BY DEF WellFormed, Forms, DecodeProviderSteps
<1>2. CASE name \in {"sql", "webhook"}
  BY <1>2, SQLStepLowers, WebhookStepLowers, StepCollects
<1>3. ASSUME name \notin {"sql", "webhook"}
      PROVE  Demands(part)
  <2>1. Lower(part).must = Lowered["step"][name].must
    BY <1>1, <1>3
    DEF Lower, LowerStep, Lowered, Evaluates, EvaluateMobileStep, EvaluateBrowserStep,
        EvaluateMailExecution, EvaluateRPCExecution, ResolveFilePath, EvaluateExecExecution,
        EvaluateKeywordCall
  <2>2. CASE name = "http"
    <3>1. Lower(part).must = {"request"}
      BY <2>1, <2>2 DEF Lowered, Evaluates
    <3> QED
      BY <1>1, <2>2, <3>1 DEF Demands, Lowers, FailsLate
  <2>3. CASE name = "keyword"
    <3>1. Lower(part).must = {"name"}
      BY <2>1, <2>3 DEF Lowered, Evaluates, EvaluateKeywordCall
    <3> QED
      BY <1>1, <2>3, <3>1 DEF Demands, Lowers, FailsLate
  <2>4. CASE name \notin {"http", "keyword"}
    <3>1. Lowered["step"][name].must \subseteq form.req
      BY <1>1, <1>3, <2>4
      DEF Lowered, Evaluates, EvaluateMobileStep, EvaluateBrowserStep, EvaluateMailExecution,
          EvaluateRPCExecution, ResolveFilePath, EvaluateExecExecution,
          DecodeProviderSteps, DecodeMobileStep, DecodeBrowserStep, DecodeMailStep,
          DecodeLoadStep, DecodeRPCStep, DecodeFileStep, DecodeExecStep, WithBlocks, Form
    <3>2. form.req \subseteq part.attrs
      BY <1>1 DEF Fits
    <3> QED
      BY <2>1, <3>1, <3>2, Zenon DEF Demands, Lowers
  <2> QED
    BY <2>2, <2>3, <2>4
<1> QED
  BY <1>2, <1>3, StepCollects

\* The members of a form without groups.
LEMMA KnownMembers ==
  ASSUME NEW form, form.one = {}
  PROVE  Known(form) = form.req \cup form.opt \cup form.blocks
BY DEF Known

\* The forms of an expectation demand nothing, and know attributes and blocks.
ExpectOpt(name) ==
  CASE name \in {"http", "sql", "keyword", "mail", "mobile", "browser"} -> TypedExpectAttrs
    [] name = "load" -> TypedExpectAttrs \cup LoadExpectShortcuts
    [] name = "file" -> {"exists", "size_bytes", "text", "json"} \cup FileHashAttrs
    [] name = "exec" -> {"exit_code", "stdout", "stderr", "stdout_json"}
    [] name = "rpc" -> {"status", "headers", "error", "message", "metadata", "trailers"}
    [] name = "webhook" -> {}

ExpectNested(name) ==
  CASE name \in {"http", "sql", "keyword", "mobile", "load", "exec"} -> SharedUIBlocks \cup {Nested}
    [] name = "mail" -> SharedUIBlocks \cup BrowserUIBlocks \cup {Nested}
    [] name = "browser" -> SharedUIBlocks \cup BrowserUIBlocks \cup {"web_perf", Nested}
    [] name = "file" -> (SharedUIBlocks \ {"text"}) \cup {Nested}
    [] name = "rpc" -> {}
    [] name = "webhook" -> {"request", "hmac_signature"}

LEMMA ExpectMembers ==
  ASSUME NEW part, NEW name, WellFormed(part, "expect", name)
  PROVE  /\ part.attrs \subseteq ExpectOpt(name) \cup ExpectNested(name)
         /\ Known(DecodeStepExpect[name]) \subseteq ExpectOpt(name) \cup ExpectNested(name)
         /\ DecodeStepExpect[name].blocks = ExpectNested(name)
<1> DEFINE form == DecodeStepExpect[name]
<1>1. /\ name \in {"http", "sql", "keyword", "mail", "mobile", "browser", "load", "file", "exec",
                   "rpc", "webhook"}
      /\ Fits(form, part.attrs)
  BY DEF WellFormed, Forms, DecodeStepExpect
<1>2. form.one = {} /\ form.req = {}
  BY <1>1
  DEF DecodeStepExpect, GenericExpect, RejectBrowserExpectBlocks, DecodeLoadExpect,
      DecodeFileExpect, DecodeExecExpect, DecodeRPCExpect, DecodeWebhookExpect, WithBlocks, Form
<1>3. form.opt = ExpectOpt(name) /\ form.blocks = ExpectNested(name)
  <2>1. CASE name = "http"
    BY <2>1 DEF DecodeStepExpect, GenericExpect, WithBlocks, Form,
       ExpectOpt, ExpectNested
  <2>2. CASE name = "sql"
    BY <2>2 DEF DecodeStepExpect, GenericExpect, WithBlocks, Form,
       ExpectOpt, ExpectNested
  <2>3. CASE name = "keyword"
    BY <2>3 DEF DecodeStepExpect, GenericExpect, WithBlocks, Form,
       ExpectOpt, ExpectNested
  <2>4. CASE name = "mobile"
    BY <2>4 DEF DecodeStepExpect, GenericExpect, RejectBrowserExpectBlocks, WithBlocks, Form,
       ExpectOpt, ExpectNested
  <2>5. CASE name = "mail"
    BY <2>5 DEF DecodeStepExpect, GenericExpect, WithBlocks, Form,
       ExpectOpt, ExpectNested
  <2>6. CASE name = "browser"
    BY <2>6 DEF DecodeStepExpect, GenericExpect, WithBlocks, Form,
       ExpectOpt, ExpectNested
  <2>7. CASE name = "load"
    BY <2>7 DEF DecodeStepExpect, GenericExpect, DecodeLoadExpect, WithBlocks, Form,
       ExpectOpt, ExpectNested
  <2>8. CASE name = "file"
    BY <2>8 DEF DecodeStepExpect, DecodeFileExpect, WithBlocks, Form,
       ExpectOpt, ExpectNested
  <2>9. CASE name = "exec"
    BY <2>9 DEF DecodeStepExpect, GenericExpect, DecodeExecExpect, WithBlocks, Form,
       ExpectOpt, ExpectNested
  <2>10. CASE name = "rpc"
    BY <2>10 DEF DecodeStepExpect, DecodeRPCExpect, WithBlocks, Form,
       ExpectOpt, ExpectNested
  <2>11. CASE name = "webhook"
    BY <2>11 DEF DecodeStepExpect, DecodeWebhookExpect, WithBlocks, Form,
       ExpectOpt, ExpectNested
  <2> QED
    BY <1>1, <2>1, <2>2, <2>3, <2>4, <2>5, <2>6, <2>7, <2>8,
       <2>9, <2>10, <2>11
<1>5. Known(form) = ExpectOpt(name) \cup ExpectNested(name)
  BY <1>2, <1>3, KnownMembers
<1>6. part.attrs \subseteq Known(form)
  BY <1>1 DEF Fits
<1> QED
  BY <1>3, <1>5, <1>6

LEMMA ExpectsLower ==
  ASSUME NEW part, NEW name, WellFormed(part, "expect", name)
  PROVE  Demands(part) /\ CollectsAll(part)
<1>1. /\ name \in {"http", "sql", "keyword", "mail", "mobile", "browser", "load", "file", "exec",
                   "rpc", "webhook"}
      /\ name \in DOMAIN DecodeStepExpect /\ part.kind = <<"expect", name>>
  BY DEF WellFormed, Forms, DecodeStepExpect
<1>2. Lower(part) = Assertions(name, part.attrs) /\ FormOf(part.kind) = DecodeStepExpect[name]
  BY <1>1 DEF Lower, FormOf, Forms
<1>3. Lower(part).must = {}
  BY <1>1, <1>2 DEF Assertions, EvaluateExpect, AssertFile, AssertExec, AssertRPC, Evaluates
<1>4. Demands(part)
  BY <1>3 DEF Demands, Lowers
<1>5. Evaluated(part) = Lower(part).may
  BY <1>3 DEF Evaluated
<1>6. Expressions(part.kind) \subseteq Known(DecodeStepExpect[name])
      /\ Expressions(part.kind) \cap DecodeStepExpect[name].blocks = {}
  BY <1>2 DEF Expressions
<1>7. CASE name \in {"mobile", "browser", "webhook", "keyword"}
  <2>1. Lower(part).may = {}
    BY <1>2, <1>7 DEF Assertions, Evaluates
  <2> QED
    BY <1>4, <1>5, <2>1 DEF CollectsAll
<1>8. CASE name \in {"http", "sql", "mail", "load"}
  <2>1. Collected["expect"][name] = TypedExpectAttrs
    BY <1>1, <1>8 DEF Collected, CollectExpectRefs
  <2>2. Expressions(part.kind) \subseteq TypedExpectAttrs \cup
          (IF name = "load" THEN LoadExpectShortcuts \cup SharedUIBlocks \cup {Nested} ELSE {})
    BY <1>6, <1>8, ExpectMembers DEF ExpectOpt, ExpectNested
  <2>3. Lower(part).may \subseteq TypedExpectAttrs \cup LoadExpectShortcuts
    BY <1>2, <1>8 DEF Assertions, EvaluateExpect, Evaluates, TypedExpectAttrs
  <2> QED
    BY <1>1, <1>4, <1>5, <1>8, <2>1, <2>2, <2>3
    DEF CollectsAll, NotCollected
<1>9. CASE name \in {"file", "exec", "rpc"}
  <2>1. Lower(part).may \subseteq Collected["expect"][name]
    BY <1>1, <1>2, <1>9
    DEF Assertions, AssertFile, AssertExec, AssertRPC, Evaluates, Collected, CollectFileRefs,
        CollectExecRefs, CollectRPCRefs
  <2> QED
    BY <1>1, <1>4, <1>5, <2>1 DEF CollectsAll
<1> QED
  BY <1>1, <1>7, <1>8, <1>9

-----------------------------------------------------------------------------
(* What of an expectation nobody looks at.                                 *)
LookedAt(step, part, member) ==
  \/ member \in Evaluated(part)
  \/ part.kind[1] = "expect" /\ member \in ExpectBlocks(part.kind[2], StepAttrs(step))
  \/ Unchecked(step, part, member)

\* Each of these has one group of locators.
LEMMA MobileExpectsLookedAt ==
  ASSUME NEW step, NEW part, NEW name, WellFormed(part, "mobile_expect", name),
         NEW member \in part.attrs
  PROVE  LookedAt(step, part, member)
<1> DEFINE form == MobileExpects[name]
<1>1. /\ name \in {"visible", "not_visible", "text", "value", "enabled", "disabled"}
      /\ part.kind = <<"mobile_expect", name>> /\ Fits(form, part.attrs)
  BY DEF WellFormed, Forms, MobileExpects
<1>2. /\ form.req = {} /\ form.blocks = {} /\ form.one = {{{"id"}, {"label"}, {"text"}}}
      /\ form.opt \subseteq Timing \cup (IF name \in {"text", "value"} THEN {"value"} ELSE {})
  <2>1. RequireExpectLocator = {{"id"}, {"label"}, {"text"}}
    BY DEF RequireExpectLocator, ExactlyOne, Locators
  <2>2. /\ form.req = {} /\ form.blocks = {} /\ form.one = {RequireExpectLocator}
    BY <1>1 DEF MobileExpects, MobileExpectBlock, Form
  <2>3. form.opt \subseteq Timing \cup (IF name \in {"text", "value"} THEN {"value"} ELSE {})
    BY <1>1 DEF MobileExpects, MobileExpectBlock, Form, UIBlock
  <2> QED
    BY <2>1, <2>2, <2>3
<1>3. UNION {UNION group : group \in form.one} = Locators
  <2>1. UNION {{"id"}, {"label"}, {"text"}} = Locators
    BY DEF Locators
  <2> QED
    BY <1>2, <2>1
<1>4. member \in Known(form)
  BY <1>1 DEF Fits
<1>5. member \in form.opt \/ member \in Locators
  BY <1>2, <1>3, <1>4 DEF Known
<1>6. Lower(part) = EvalMobileExpect[name]
  BY <1>1 DEF Lower, Lowered
<1>7. /\ Locators \cup Timing \subseteq Lower(part).may
      /\ name \in {"text", "value"} => "value" \in Lower(part).must
  BY <1>1, <1>6 DEF EvalMobileExpect, EvalMobileVisibility, EvalMobileValueExpectation,
      EvalMobileStateExpectation, Evaluates, EvalMobileLocator
<1> QED
  BY <1>2, <1>5, <1>7 DEF LookedAt, Evaluated

LEMMA BrowserExpectsLookedAt ==
  ASSUME NEW step, NEW part, NEW name, WellFormed(part, "browser_expect", name),
         NEW member \in part.attrs
  PROVE  LookedAt(step, part, member)
<1> DEFINE form == DecodeBrowserExpect[name]
<1>1. /\ name \in {"visible", "not_visible", "text", "value", "enabled", "disabled",
                   "attribute", "url", "title", "web_perf"}
      /\ part.kind = <<"browser_expect", name>> /\ Fits(form, part.attrs)
  BY DEF WellFormed, Forms, DecodeBrowserExpect
<1>2. form.one = {} /\ form.req = {}
  BY <1>1 DEF DecodeBrowserExpect, BrowserExpectBlock, DecodeWebPerfBlocks, WithBlocks, Form
<1>3. member \in form.opt \cup form.blocks
  BY <1>1, <1>2, KnownMembers DEF Fits
<1>4. Lower(part) = EvalBrowserExpect[name]
  BY <1>1 DEF Lower, Lowered
<1>5. CASE name = "web_perf"
  <2>1. form.opt = WebPerfAliases /\ form.blocks = {Nested}
    BY <1>5 DEF DecodeBrowserExpect, DecodeWebPerfBlocks, WithBlocks, Form
  <2>2. Lower(part).may = WebPerfAliases
    BY <1>4, <1>5 DEF EvalBrowserExpect, EvaluateWebPerf, Evaluates
  <2> QED
    BY <1>1, <1>3, <1>5, <2>1, <2>2 DEF LookedAt, Evaluated, Unchecked
<1>6. CASE name # "web_perf"
  <2>1. form.blocks = {}
    BY <1>1, <1>6 DEF DecodeBrowserExpect, BrowserExpectBlock, Form
  <2>2. form.opt \subseteq Lower(part).must \cup Lower(part).may \cup {"text"}
    BY <1>1, <1>4, <1>6
    DEF DecodeBrowserExpect, BrowserExpectBlock, Form, UIBlock, Locators, EvalBrowserExpect,
        EvalBrowserVisibility, EvalBrowserValueExpectation, EvalBrowserStateExpectation,
        EvalBrowserAttribute, EvalBrowserURLOrTitle, Evaluates
  <2> QED
    BY <1>1, <1>3, <2>1, <2>2 DEF LookedAt, Evaluated, Unchecked
<1> QED
  BY <1>5, <1>6

LEMMA ExpectsLookedAt ==
  ASSUME NEW step, NEW part, NEW name, WellFormed(part, "expect", name),
         NEW member \in part.attrs
  PROVE  LookedAt(step, part, member)
<1>1. /\ name \in {"http", "sql", "keyword", "mail", "mobile", "browser", "load", "file", "exec",
                   "rpc", "webhook"}
      /\ part.kind = <<"expect", name>>
  BY DEF WellFormed, Forms, DecodeStepExpect
<1>2. Lower(part) = Assertions(name, part.attrs)
  BY <1>1 DEF Lower
<1>3. member \in ExpectOpt(name) \cup ExpectNested(name)
  BY ExpectMembers
<1>4. CASE name = "keyword" \/ member = Nested
  BY <1>1, <1>4 DEF LookedAt, Unchecked
<1>5. CASE name = "webhook"
  <2>1. member \in {"request", "hmac_signature"}
    BY <1>3, <1>5 DEF ExpectOpt, ExpectNested
  <2>2. CASE "wait" \in StepAttrs(step)
    BY <1>1, <1>5, <2>1, <2>2 DEF LookedAt, ExpectBlocks
  <2>3. CASE "wait" \notin StepAttrs(step)
    BY <1>1, <1>5, <2>3 DEF LookedAt, Unchecked
  <2> QED
    BY <2>2, <2>3
<1>6. CASE name \in {"mobile", "browser"}
  <2>1. \/ member \in TypedExpectAttrs
        \/ member \in ExpectBlocks(name, StepAttrs(step))
        \/ member = Nested
    BY <1>3, <1>6 DEF ExpectOpt, ExpectNested, ExpectBlocks
  <2> QED
    BY <1>1, <1>6, <2>1 DEF LookedAt, Unchecked
<1>7. CASE name \in {"http", "sql", "mail", "load", "file", "exec", "rpc"}
  <2>1. CASE member \in ExpectNested(name)
    <3>1. member \in SharedUIBlocks \cup BrowserUIBlocks \cup {Nested}
      BY <1>7, <2>1 DEF ExpectNested
    <3> QED
      BY <1>1, <1>4, <1>7, <3>1 DEF LookedAt, Unchecked
  <2>2. CASE member \in ExpectOpt(name)
    <3>1. CASE name \in {"http", "sql", "mail", "load"}
      <4>1. Lower(part) = EvaluateExpect(part.attrs)
        BY <1>2, <3>1 DEF Assertions
      <4>2. member \in TypedExpectAttrs \cup LoadExpectShortcuts
        BY <2>2, <3>1 DEF ExpectOpt
      <4>3. CASE member # "strict"
        <5>1. member \in Lower(part).may
          BY <4>1, <4>2, <4>3 DEF EvaluateExpect, Evaluates, TypedExpectAttrs
        <5> QED
          BY <5>1 DEF LookedAt, Evaluated
      <4>4. CASE member = "strict" /\ "json" \in part.attrs
        <5>1. member \in Lower(part).may
          BY <4>1, <4>4 DEF EvaluateExpect, Evaluates
        <5> QED
          BY <5>1 DEF LookedAt, Evaluated
      <4>5. CASE member = "strict" /\ "json" \notin part.attrs
        BY <1>1, <4>5 DEF LookedAt, Unchecked
      <4> QED
        BY <4>3, <4>4, <4>5
    <3>2. CASE name \in {"file", "exec", "rpc"}
      <4>1. ExpectOpt(name) \subseteq Lower(part).may
        BY <1>2, <3>2 DEF ExpectOpt, Assertions, AssertFile, AssertExec, AssertRPC, Evaluates
      <4> QED
        BY <2>2, <4>1 DEF LookedAt, Evaluated
    <3> QED
      BY <1>7, <3>1, <3>2
  <2> QED
    BY <1>3, <2>1, <2>2
<1> QED
  BY <1>1, <1>4, <1>5, <1>6, <1>7

-----------------------------------------------------------------------------
(* What a loaded suite can rely on.                                        *)

LEMMA FamiliesOfKinds ==
  ASSUME NEW kind \in Kinds
  PROVE  \E family \in {"step", "expect", "mobile", "mobile_part", "mobile_expect", "browser",
                        "browser_expect", "request", "load_http", "block"} :
           \E name \in DOMAIN Forms[family] : kind = <<family, name>>
<1>1. PICK family \in DOMAIN Forms : kind \in {<<family, name>> : name \in DOMAIN Forms[family]}
  BY Zenon DEF Kinds
<1>2. PICK name \in DOMAIN Forms[family] : kind = <<family, name>>
  BY <1>1
<1>3. family \in {"step", "expect", "mobile", "mobile_part", "mobile_expect", "browser",
                 "browser_expect", "request", "load_http", "block"}
  BY DEF Forms
<1> QED
  BY <1>2, <1>3

\* Every table serves its family; a retry block, whose bounds are evaluated without a
\* scope, may read nothing.
LEMMA AcceptedPart ==
  ASSUME NEW part, APart(part), Accepts(part)
  PROVE  /\ Demands(part)
         /\ \A r \in EvaluatedReads(part) :
              \/ r[1] \in Collected[part.kind[1]][part.kind[2]]
              \/ NotCollected(part.kind, r[1])
<1>1. PICK family \in {"step", "expect", "mobile", "mobile_part", "mobile_expect", "browser",
                      "browser_expect", "request", "load_http", "block"} :
        \E name \in DOMAIN Forms[family] : part.kind = <<family, name>>
  BY FamiliesOfKinds DEF APart
<1>2. PICK name \in DOMAIN Forms[family] : part.kind = <<family, name>>
  BY <1>1
<1>3. WellFormed(part, family, name)
  BY <1>2 DEF WellFormed, Accepts, FormOf
<1>4. Demands(part) /\ (part.kind # <<"block", "retry">> => CollectsAll(part))
  BY <1>1, <1>2, <1>3, BrowserActionsLower, BrowserExpectsLower, MobileActionsLower,
     MobilePartsLower, MobileExpectsLower, RequestsLower, BlocksLower, StepsLower, ExpectsLower
<1>5. CASE part.kind = <<"block", "retry">>
  BY <1>4, <1>5 DEF Accepts, EvaluatedReads
<1>6. CASE part.kind # <<"block", "retry">>
  BY <1>4, <1>6 DEF CollectsAll, EvaluatedReads, APart
<1> QED
  BY <1>5, <1>6

\* Whatever the files, no step of a loaded suite lacks an attribute its lowering demands,
\* but for the five the decoders leave to the run.
THEOREM AcceptedLower == Spec => []AcceptedStepsLower
<1>1. FilesInv => AcceptedStepsLower
  <2> SUFFICES ASSUME FilesInv, Loaded, NEW step \in AllSteps, NEW part \in step.parts
               PROVE  Lowers(part) \/ FailsLate(part)
    BY DEF AcceptedStepsLower
  <2> QED
    BY PartsAreDecoded, AcceptedPart DEF Demands
<1> QED
  BY <1>1, FilesInvariant, PTL

\* Whatever the files, an expectation of a loaded suite is looked at by the run, but for
\* the ones Unchecked lists.
THEOREM NoExpectationIsVacuous == Spec => []NoVacuousExpectation
<1>1. FilesInv => NoVacuousExpectation
  <2> SUFFICES ASSUME FilesInv, Loaded, NEW step \in AllSteps, NEW part \in step.parts,
                      part.kind[1] \in {"expect", "mobile_expect", "browser_expect"},
                      NEW member \in part.attrs
               PROVE  LookedAt(step, part, member)
    BY DEF NoVacuousExpectation, LookedAt
  <2>1. APart(part) /\ Accepts(part)
    BY PartsAreDecoded
  <2>2. PICK family \in {"step", "expect", "mobile", "mobile_part", "mobile_expect", "browser",
                        "browser_expect", "request", "load_http", "block"} :
          \E name \in DOMAIN Forms[family] : part.kind = <<family, name>>
    BY <2>1, FamiliesOfKinds DEF APart
  <2>3. PICK name \in DOMAIN Forms[family] : part.kind = <<family, name>>
    BY <2>2
  <2>4. WellFormed(part, family, name) /\ family \in {"expect", "mobile_expect", "browser_expect"}
    BY <2>1, <2>3 DEF WellFormed, Accepts, FormOf
  <2> QED
    BY <2>4, MobileExpectsLookedAt, BrowserExpectsLookedAt, ExpectsLookedAt
<1> QED
  BY <1>1, FilesInvariant, PTL

\* The check of the variables went over every list.
LEMMA VarsAreValid ==
  ASSUME FilesInv, Loaded, NEW steps \in AllLists
  PROVE  VarsValid(steps)
<1>1. ValidateSuite
  BY LoadedFacts
<1>2. CASE \E sc \in Range(suite.scenarios) : steps \in {sc.steps, sc.teardown}
  <2>1. PICK n \in DOMAIN suite.scenarios :
           steps \in {suite.scenarios[n].steps, suite.scenarios[n].teardown}
    BY <1>2 DEF Range
  <2> DEFINE s == suite.scenarios[n].steps
             t == suite.scenarios[n].teardown
  <2>2. VarsValid(s \o t)
    BY <1>1 DEF ValidateSuite, ScenarioValid
  <2>3. IsList(s) /\ IsList(t)
    BY ScenarioOrder
  <2>4. steps = s \/ steps = t
    BY <2>1
  <2> HIDE DEF s, t
  <2>5. VarsValid(s) /\ VarsValid(t)
    <3>1. ASSUME NEW k \in DOMAIN s PROVE ValidateStepVars(s[k])
      <4>1. k \in DOMAIN (s \o t) /\ (s \o t)[k] = s[k]
        BY <2>3, Joined
      <4>2. ValidateStepVars((s \o t)[k])
        BY <2>2, <4>1, Zenon DEF VarsValid
      <4> QED
        BY <4>1, <4>2, Zenon
    <3>2. ASSUME NEW k \in DOMAIN t PROVE ValidateStepVars(t[k])
      <4>1. Len(s) + k \in DOMAIN (s \o t) /\ (s \o t)[Len(s) + k] = t[k]
        BY <2>3, Joined
      <4>2. ValidateStepVars((s \o t)[Len(s) + k])
        BY <2>2, <4>1, Zenon DEF VarsValid
      <4> QED
        BY <4>1, <4>2, Zenon
    <3> QED
      BY <3>1, <3>2, Zenon DEF VarsValid
  <2> QED
    BY <2>4, <2>5
<1>3. CASE \E name \in DOMAIN suite.keywords : steps = KeywordSteps(name)
  BY <1>1, <1>3 DEF ValidateSuite, KeywordsValid
<1>4. CASE steps = suite.teardown
  BY <1>1, <1>4 DEF ValidateSuite, SuiteTeardownValid
<1> QED
  BY <1>2, <1>3, <1>4, ListsOfASuite

\* Whatever the files, a main step of a loaded suite reads only results of steps written
\* above it, but for the attributes no collector visits, and every step only variables
\* that are there.
THEOREM ReadsServed == Spec => []ReadsAreServed
<1>1. FilesInv => ReadsAreServed
  <2> SUFFICES ASSUME FilesInv, Loaded PROVE ReadsAreServed
    BY Zenon DEF ReadsAreServed
  <2>1. ASSUME NEW i \in DOMAIN suite.scenarios,
               NEW n \in DOMAIN Written(suite.scenarios[i].place).blocks
        PROVE  LET blocks == Written(suite.scenarios[i].place).blocks
               IN /\ blocks[n].dependsOn \subseteq Before(blocks, n)
                  /\ \A part \in blocks[n].parts : \A r \in EvaluatedReads(part) :
                       r[2] \in Before(blocks, n) \/ NotCollected(part.kind, r[1])
    <3> DEFINE blocks == Written(suite.scenarios[i].place).blocks
               step == blocks[n]
    <3>1. blocks = suite.scenarios[i].steps
      BY ScenarioOrder DEF Written, File
    <3>2. ValidateStepOrder(blocks)
      BY <3>1, LoadedFacts DEF ValidateSuite, ScenarioValid
    <3>3. step \in AllSteps
      <4> DEFINE own == suite.scenarios[i]
                 pairs == {{sc.steps, sc.teardown} : sc \in Range(suite.scenarios)}
      <4>1. own \in Range(suite.scenarios)
        BY DEF Range
      <4>2. own.steps \in UNION pairs
        <5>1. {own.steps, own.teardown} \in pairs
          BY <4>1
        <5> HIDE DEF pairs
        <5>2. own.steps \in {own.steps, own.teardown}
          OBVIOUS
        <5> QED
          BY <5>1, <5>2, Zenon
      <4>3. blocks \in AllLists
        BY <3>1, <4>2, Zenon DEF AllLists
      <4>4. step \in Range(blocks)
        BY DEF Range
      <4> QED
        BY <4>3, <4>4, Zenon DEF AllSteps
    <3> HIDE DEF blocks
    <3>4. StepDependencies(step) \subseteq Before(blocks, n)
      BY <3>2 DEF ValidateStepOrder, blocks
    <3> HIDE DEF step
    <3>5. step.dependsOn \subseteq Before(blocks, n)
      BY <3>4 DEF StepDependencies
    <3>6. ASSUME NEW part \in step.parts, NEW r \in EvaluatedReads(part)
          PROVE  r[2] \in Before(blocks, n) \/ NotCollected(part.kind, r[1])
      <4>1. APart(part) /\ Accepts(part)
        BY <3>3, PartsAreDecoded
      <4>2. \/ r[1] \in Collected[part.kind[1]][part.kind[2]]
            \/ NotCollected(part.kind, r[1])
        BY <4>1, AcceptedPart
      <4>3. CASE r[1] \in Collected[part.kind[1]][part.kind[2]]
        <5>1. r \in part.reads
          BY DEF EvaluatedReads
        <5>2. r[2] \in FindStepRefs(part)
          BY <4>3, <5>1, Zenon DEF FindStepRefs
        <5>3. r[2] \in UNION {FindStepRefs(p) : p \in step.parts}
          BY <5>2, Zenon
        <5> QED
          BY <3>4, <5>3 DEF StepDependencies
      <4> QED
        BY <4>2, <4>3
    <3> QED
      BY <3>5, <3>6, Zenon DEF step, blocks
  <2>2. ASSUME NEW steps \in AllLists, NEW n \in DOMAIN steps
        PROVE  LET vs == steps[n].vars
               IN /\ \A k \in DOMAIN vs : vs[k].reads \subseteq Before(vs, k)
                  /\ steps[n].gateUses = {} /\ steps[n].uses \subseteq Names(vs)
    BY VarsAreValid, Zenon DEF VarsValid, ValidateStepVars
  <2> QED
    BY <2>1, <2>2, Zenon DEF ReadsAreServed
<1> QED
  BY <1>1, FilesInvariant, PTL
=============================================================================
