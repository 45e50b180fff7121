-------------------------------- MODULE Folding --------------------------------
(***************************************************************************)
(* What FoldLeft of SequencesExt computes, for any operator: the library   *)
(* defines it by a choice of a function on sets of indices, from which the *)
(* recursion over the sequence has to be derived.  A module that folds one *)
(* of its operators instantiates this one with it.                         *)
(***************************************************************************)
EXTENDS Integers, SequencesExt, FiniteSetTheorems, WellFoundedInduction, TLAPS

CONSTANT Op(_, _)

Fold(base, seq) == FoldLeft(Op, base, seq)

\* The values of the fold on the elements at a set of positions, as FoldLeft
\* defines them.
Values(it, base, seq) ==
  it = [s \in SUBSET DOMAIN seq |->
          IF s = {} THEN base ELSE Op(it[s \ {Max(s)}], seq[Max(s)])]

LEMMA FoldIsValue ==
  ASSUME NEW base, NEW seq
  PROVE  Fold(base, seq) = (CHOOSE it : Values(it, base, seq))[DOMAIN seq]
BY Zenon DEF Fold, FoldLeft, MapThenFoldSet, Values

LEMMA Largest ==
  ASSUME NEW s \in SUBSET Int, NEW m \in s, \A k \in s : k <= m
  PROVE  Max(s) = m
<1> DEFINE largest(x) == x \in s /\ \A y \in s : x >= y
<1>1. largest(m)
  OBVIOUS
<1>2. largest(CHOOSE x : largest(x))
  BY <1>1
<1>3. Max(s) = CHOOSE x : largest(x)
  BY DEF Max
<1> DEFINE c == CHOOSE x : largest(x)
<1>4. c \in s /\ c >= m /\ m >= c
  BY <1>2
<1> HIDE DEF c
<1>5. c = m
  BY <1>4
<1> QED BY <1>3, <1>5 DEF c

\* Induction over the numbers, for a set of them.
LEMMA NatSet ==
  ASSUME NEW S \in SUBSET Nat, 0 \in S, \A n \in S : n + 1 \in S
  PROVE  S = Nat
<1> SUFFICES ASSUME Nat \ S # {} PROVE FALSE
  OBVIOUS
<1>1. PICK n \in Nat \ S : \A m \in Nat \ S : ~ (<<m, n>> \in OpToRel(<, Nat))
  BY WFMin, NatLessThanWellFounded
<1>2. ~ (n - 1 \in Nat \ S)
  <2> SUFFICES ASSUME n - 1 \in Nat \ S PROVE FALSE
    OBVIOUS
  <2>1. <<n - 1, n>> \in OpToRel(<, Nat)
    BY DEF OpToRel
  <2> QED BY <1>1, <2>1
<1>3. n # 0
  OBVIOUS
<1>4. n - 1 \in S
  BY <1>2, <1>3
<1>5. (n - 1) + 1 = n
  OBVIOUS
<1> QED BY <1>4, <1>5

\* Every sequence has such values, and on the first positions they are unique.
LEMMA ValuesExist ==
  ASSUME NEW base, NEW n \in Nat, NEW seq, DOMAIN seq = 1 .. n
  PROVE  \E it : Values(it, base, seq)
<1> DEFINE Upto(m, it) == it = [s \in SUBSET (1 .. m) |->
                                  IF s = {} THEN base ELSE Op(it[s \ {Max(s)}], seq[Max(s)])]
           S == {m \in Nat : \E it : Upto(m, it)}
<1>1. 0 \in S
  <2> DEFINE zero == [s \in SUBSET (1 .. 0) |-> base]
  <2>1. SUBSET (1 .. 0) = {{}}
    OBVIOUS
  <2>2. \A s \in SUBSET (1 .. 0) : s = {}
    BY <2>1
  <2>3. Upto(0, zero)
    BY <2>2
  <2> QED BY <2>3
<1>2. ASSUME NEW m \in S
      PROVE  m + 1 \in S
  <2>1. PICK it : Upto(m, it)
    OBVIOUS
  <2>2. m \in Nat
    OBVIOUS
  <2> HIDE DEF S
  <2> DEFINE more == [s \in SUBSET (1 .. m + 1) |->
                        IF m + 1 \in s THEN Op(it[s \ {m + 1}], seq[m + 1]) ELSE it[s]]
  <2>3. ASSUME NEW s \in SUBSET (1 .. m + 1)
        PROVE  more[s] = IF s = {} THEN base ELSE Op(more[s \ {Max(s)}], seq[Max(s)])
    <3>1. CASE m + 1 \in s
      <4>1. Max(s) = m + 1
        BY <2>2, <3>1, Largest
      <4>2. s \ {m + 1} \in SUBSET (1 .. m)
        BY <2>2, <3>1
      <4>3. s \ {m + 1} \in SUBSET (1 .. m + 1)
        OBVIOUS
      <4>4. more[s \ {m + 1}] = it[s \ {m + 1}]
        BY <4>3
      <4>5. more[s] = Op(it[s \ {m + 1}], seq[m + 1])
        BY <3>1
      <4> HIDE DEF more
      <4> QED BY <3>1, <4>1, <4>4, <4>5
    <3>2. CASE m + 1 \notin s
      <4>1. s \in SUBSET (1 .. m)
        BY <2>2, <3>2
      <4>2. more[s] = it[s]
        BY <3>2
      <4>3. it[s] = IF s = {} THEN base ELSE Op(it[s \ {Max(s)}], seq[Max(s)])
        BY <2>1, <4>1
      <4>4. more[s \ {Max(s)}] = it[s \ {Max(s)}]
        BY <3>2
      <4> HIDE DEF more
      <4> QED BY <4>2, <4>3, <4>4
    <3> QED BY <3>1, <3>2
  <2>4. Upto(m + 1, more)
    <3>1. more = [s \in SUBSET (1 .. m + 1) |-> more[s]]
      OBVIOUS
    <3> HIDE DEF more
    <3> QED BY <2>3, <3>1
  <2> HIDE DEF more
  <2>5. \E f : Upto(m + 1, f)
    BY <2>4
  <2> HIDE DEF Upto
  <2> QED BY <2>2, <2>5 DEF S
<1>3. n \in S
  <2>1. S \in SUBSET Nat
    OBVIOUS
  <2> HIDE DEF S
  <2> QED BY <1>1, <1>2, <2>1, NatSet
<1> QED BY <1>3 DEF Values

\* The fold of the first k elements.
Prefix(base, seq, k) == (CHOOSE it : Values(it, base, seq))[1 .. k]

LEMMA PrefixStep ==
  ASSUME NEW base, NEW n \in Nat, NEW seq, DOMAIN seq = 1 .. n
  PROVE  /\ Prefix(base, seq, 0) = base
         /\ \A k \in 0 .. n - 1 : Prefix(base, seq, k + 1) = Op(Prefix(base, seq, k), seq[k + 1])
         /\ Fold(base, seq) = Prefix(base, seq, n)
<1> DEFINE it == CHOOSE f : Values(f, base, seq)
<1>1. Values(it, base, seq)
  BY ValuesExist
<1>2. it = [s \in SUBSET (1 .. n) |-> IF s = {} THEN base ELSE Op(it[s \ {Max(s)}], seq[Max(s)])]
  BY <1>1 DEF Values
<1>3. Fold(base, seq) = it[1 .. n] /\ \A k : Prefix(base, seq, k) = it[1 .. k]
  BY FoldIsValue DEF Prefix
<1> HIDE DEF it
<1>4. it[1 .. 0] = base
  <2>1. 1 .. 0 = {} /\ 1 .. 0 \in SUBSET (1 .. n)
    OBVIOUS
  <2> QED BY <1>2, <2>1
<1>5. ASSUME NEW k \in 0 .. n - 1
      PROVE  it[1 .. k + 1] = Op(it[1 .. k], seq[k + 1])
  <2>1. Max(1 .. k + 1) = k + 1
    <3>1. 1 .. k + 1 \in SUBSET Int /\ k + 1 \in 1 .. k + 1 /\ \A j \in 1 .. k + 1 : j <= k + 1
      OBVIOUS
    <3> QED BY <3>1, Largest
  <2>2. (1 .. k + 1) \ {k + 1} = 1 .. k
    OBVIOUS
  <2> DEFINE s == 1 .. k + 1
  <2>3. s \in SUBSET (1 .. n) /\ s # {}
    <3>1. 1 \in s
      OBVIOUS
    <3>2. s \in SUBSET (1 .. n)
      OBVIOUS
    <3> QED BY <3>1, <3>2
  <2> HIDE DEF s
  <2>4. it[s] = Op(it[s \ {Max(s)}], seq[Max(s)])
    BY <1>2, <2>3
  <2> QED BY <2>1, <2>2, <2>4 DEF s
<1> QED BY <1>3, <1>4, <1>5

\* The same in one word, where the sequence is one of several.
Recurs(base, n, seq) ==
  /\ Prefix(base, seq, 0) = base
  /\ \A k \in 0 .. n - 1 : Prefix(base, seq, k + 1) = Op(Prefix(base, seq, k), seq[k + 1])
  /\ Fold(base, seq) = Prefix(base, seq, n)

LEMMA FoldRecurs ==
  ASSUME NEW base, NEW n \in Nat, NEW seq, DOMAIN seq = 1 .. n
  PROVE  Recurs(base, n, seq)
BY PrefixStep DEF Recurs

\* Nothing folded leaves the base.
LEMMA FoldEmpty ==
  ASSUME NEW base
  PROVE  Fold(base, <<>>) = base
<1>1. DOMAIN <<>> = 1 .. 0
  OBVIOUS
<1> QED BY <1>1, PrefixStep

\* The element at the end is folded last.
LEMMA FoldAppend ==
  ASSUME NEW S, NEW seq \in Seq(S), NEW x, NEW base
  PROVE  Fold(base, Append(seq, x)) = Op(Fold(base, seq), x)
<1> DEFINE n == Len(seq)
           longer == Append(seq, x)
<1>1. n \in Nat /\ DOMAIN seq = 1 .. n /\ DOMAIN longer = 1 .. n + 1 /\ longer[n + 1] = x
  OBVIOUS
<1>2. \A k \in 1 .. n : longer[k] = seq[k]
  OBVIOUS
<1> HIDE DEF n, longer
<1>6. /\ Prefix(base, seq, 0) = base
      /\ \A k \in 0 .. n - 1 : Prefix(base, seq, k + 1) = Op(Prefix(base, seq, k), seq[k + 1])
      /\ Fold(base, seq) = Prefix(base, seq, n)
  <2>1. Recurs(base, n, seq)
    BY <1>1, FoldRecurs
  <2> QED BY <2>1 DEF Recurs
<1>7. /\ Prefix(base, longer, 0) = base
      /\ \A k \in 0 .. n : Prefix(base, longer, k + 1) = Op(Prefix(base, longer, k), longer[k + 1])
      /\ Fold(base, longer) = Prefix(base, longer, n + 1)
  <2>1. n + 1 \in Nat /\ (n + 1) - 1 = n
    BY <1>1
  <2> QED BY <1>1, <2>1, PrefixStep
<1> DEFINE K == {k \in Nat : k <= n => Prefix(base, longer, k) = Prefix(base, seq, k)}
<1>3. K = Nat
  <2>1. 0 \in K
    BY <1>6, <1>7
  <2>2. ASSUME NEW k \in K PROVE k + 1 \in K
    <3>1. CASE k + 1 <= n
      <4>1. k \in 0 .. n - 1 /\ k \in 0 .. n /\ k + 1 \in 1 .. n
        BY <1>1, <3>1
      <4>2. Prefix(base, longer, k) = Prefix(base, seq, k)
        BY <1>1, <4>1
      <4>3. Prefix(base, longer, k + 1) = Op(Prefix(base, longer, k), longer[k + 1])
        BY <1>7, <4>1
      <4>4. Prefix(base, seq, k + 1) = Op(Prefix(base, seq, k), seq[k + 1])
        BY <1>6, <4>1
      <4> QED BY <1>2, <4>1, <4>2, <4>3, <4>4
    <3>2. CASE ~(k + 1 <= n)
      BY <3>2
    <3> QED BY <3>1, <3>2
  <2>3. K \in SUBSET Nat
    OBVIOUS
  <2> HIDE DEF K
  <2> QED BY <2>1, <2>2, <2>3, NatSet
<1>4. Prefix(base, longer, n) = Prefix(base, seq, n)
  BY <1>1, <1>3
<1>5. Prefix(base, longer, n + 1) = Op(Prefix(base, longer, n), x)
  BY <1>1, <1>7
<1> QED BY <1>4, <1>5, <1>6, <1>7 DEF longer

-----------------------------------------------------------------------------
(* The folds of finite sets: FoldSet and MapThenSumSet take the elements   *)
(* in an order of their own.                                               *)

\* The values on the subsets of a set, as MapThenFoldSet defines them for a function f.
SetValues(it, base, f, S) ==
  it = [s \in SUBSET S |->
          IF s = {} THEN base ELSE Op(f[CHOOSE x \in s : TRUE], it[s \ {CHOOSE x \in s : TRUE}])]

\* Every finite set has such values.
LEMMA SetValuesExist ==
  ASSUME NEW S, IsFiniteSet(S), NEW base, NEW f
  PROVE  \E it : SetValues(it, base, f, S)
<1> DEFINE some(s) == CHOOSE x \in s : TRUE
           Small(m) == {s \in SUBSET S : Cardinality(s) <= m}
           Value(it, s) == IF s = {} THEN base ELSE Op(f[some(s)], it[s \ {some(s)}])
           Upto(m, it) == it = [s \in Small(m) |-> Value(it, s)]
           K == {m \in Nat : \E it : Upto(m, it)}
<1>1. \A s \in SUBSET S : /\ IsFiniteSet(s) /\ Cardinality(s) \in Nat /\ Cardinality(s) <= Cardinality(S)
                          /\ s # {} => some(s) \in s
  BY FS_Subset, FS_CardinalityType
<1>2. \A s \in SUBSET S : (Cardinality(s) = 0 <=> s = {})
  BY <1>1, FS_EmptySet
<1>3. \A s \in SUBSET S : s # {} => Cardinality(s \ {some(s)}) = Cardinality(s) - 1
  <2> SUFFICES ASSUME NEW s \in SUBSET S, s # {}
               PROVE  Cardinality(s \ {some(s)}) = Cardinality(s) - 1
    OBVIOUS
  <2>1. IsFiniteSet(s) /\ some(s) \in s
    BY <1>1
  <2> HIDE DEF some
  <2>2. Cardinality(s \ {some(s)}) = IF some(s) \in s THEN Cardinality(s) - 1 ELSE Cardinality(s)
    BY <2>1, FS_RemoveElement
  <2> QED BY <2>1, <2>2
<1> HIDE DEF some
<1>4. 0 \in K
  <2> DEFINE zero == [s \in Small(0) |-> base]
  <2>1. \A s \in Small(0) : s = {}
    BY <1>1, <1>2
  <2>2. Upto(0, zero)
    BY <2>1
  <2> QED BY <2>2
<1>5. ASSUME NEW m \in K
      PROVE  m + 1 \in K
  <2>1. m \in Nat /\ m + 1 \in Nat
    OBVIOUS
  <2>2. PICK it : Upto(m, it)
    OBVIOUS
  <2> HIDE DEF K
  <2> DEFINE more == [s \in Small(m + 1) |-> Value(it, s)]
  <2>3. \A t \in Small(m) : t \in Small(m + 1)
    BY <1>1, <2>1
  <2>4. \A t \in Small(m) : it[t] = Value(it, t) /\ more[t] = Value(it, t)
    <3> SUFFICES ASSUME NEW t \in Small(m)
                 PROVE  it[t] = Value(it, t) /\ more[t] = Value(it, t)
      OBVIOUS
    <3> HIDE DEF Value, Small
    <3>1. it[t] = Value(it, t)
      BY <2>2
    <3>2. more[t] = Value(it, t)
      BY <2>3
    <3> QED BY <3>1, <3>2
  <2>5. \A s \in Small(m + 1) : s # {} => s \ {some(s)} \in Small(m)
    BY <1>1, <1>3, <2>1
  <2>6. \A s \in Small(m + 1) : more[s] = Value(it, s)
    <3> HIDE DEF Value, Small
    <3> QED OBVIOUS
  <2>7. more = [s \in Small(m + 1) |-> more[s]]
    <3> HIDE DEF Value, Small
    <3> QED OBVIOUS
  <2> HIDE DEF more, Small
  <2>8. \A s \in Small(m + 1) : more[s] = Value(more, s)
    BY <2>4, <2>5, <2>6
  <2>9. Upto(m + 1, more)
    <3> HIDE DEF Value
    <3> QED BY <2>7, <2>8
  <2>10. \E g : Upto(m + 1, g)
    BY <2>9
  <2> HIDE DEF Upto
  <2> QED BY <2>1, <2>10 DEF K
<1>6. K = Nat
  <2>1. K \in SUBSET Nat
    OBVIOUS
  <2> HIDE DEF K
  <2> QED BY <1>4, <1>5, <2>1, NatSet
<1>7. PICK it : Upto(Cardinality(S), it)
  BY <1>1, <1>6
<1>8. Small(Cardinality(S)) = SUBSET S
  BY <1>1
<1>9. it = [s \in SUBSET S |-> Value(it, s)]
  <2> HIDE DEF Value, Small
  <2> QED BY <1>7, <1>8
<1> QED BY <1>9 DEF SetValues, some
=============================================================================
