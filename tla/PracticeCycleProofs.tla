-------------------------- MODULE PracticeCycleProofs --------------------------
(***************************************************************************)
(* The rotation of practice verbs keeps its blocks and is even, for any    *)
(* list of verbs, any repetitions and any window, as long as the session   *)
(* is not longer than the window.                                          *)
(***************************************************************************)
EXTENDS PracticeCycle, FiniteSetTheorems, SequenceTheorems, TLAPS

-----------------------------------------------------------------------------
(* Division.                                                               *)

(***************************************************************************)
(* The block that question i belongs to, counted from 0.                   *)
(***************************************************************************)
Block(i, r) == (i - 1) \div r

LEMMA Division ==
  ASSUME NEW n \in Nat, NEW r \in Nat \ {0}
  PROVE  /\ n \div r \in Nat /\ n % r \in Nat
         /\ n % r < r
         /\ n = r * (n \div r) + (n % r)
OBVIOUS

LEMMA Multiples ==
  ASSUME NEW a \in Nat, NEW b \in Nat, NEW r \in Nat \ {0}, a > b
  PROVE  r * a >= r * b + r
<1>1. PICK d \in Nat : a = b + 1 + d
  <2>1. a - b - 1 \in Nat
    OBVIOUS
  <2> QED
    BY <2>1
<1>2. r * a = r * b + r + r * d
  BY <1>1
<1>3. r * d >= 0
  OBVIOUS
<1>4. r * a \in Nat /\ r * b \in Nat /\ r * d \in Nat
  OBVIOUS
<1> QED
  BY <1>2, <1>3, <1>4

LEMMA Quotient ==
  ASSUME NEW n \in Nat, NEW r \in Nat \ {0}, NEW q \in Nat, NEW k \in Nat,
         k < r, n = r * q + k
  PROVE  n \div r = q /\ n % r = k
<1> DEFINE p == n \div r
           l == n % r
<1>1. p \in Nat /\ l \in Nat /\ l < r /\ n = r * p + l
  BY Division
<1>2. r * p \in Nat /\ r * q \in Nat
  BY <1>1
<1> HIDE DEF p, l
<1>3. ~(p > q)
  <2>1. p > q => r * p >= r * q + r
    BY <1>1, Multiples
  <2> QED
    BY <1>1, <1>2, <2>1
<1>4. ~(q > p)
  <2>1. q > p => r * q >= r * p + r
    BY <1>1, Multiples
  <2> QED
    BY <1>1, <1>2, <2>1
<1>5. p = q
  BY <1>1, <1>3, <1>4
<1>6. l = k
  BY <1>1, <1>2, <1>5
<1> QED
  BY <1>5, <1>6 DEF p, l

LEMMA DivisionMonotone ==
  ASSUME NEW m \in Nat, NEW n \in Nat, NEW r \in Nat \ {0}, m <= n
  PROVE  m \div r <= n \div r
<1> DEFINE p == m \div r
           q == n \div r
           k == m % r
           l == n % r
<1>1. /\ p \in Nat /\ k \in Nat /\ k < r /\ m = r * p + k
      /\ q \in Nat /\ l \in Nat /\ l < r /\ n = r * q + l
  BY Division
<1>2. r * p \in Nat /\ r * q \in Nat
  BY <1>1
<1> HIDE DEF p, q, k, l
<1>3. p > q => r * p >= r * q + r
  BY <1>1, Multiples
<1>4. p <= q
  BY <1>1, <1>2, <1>3
<1> QED
  BY <1>4 DEF p, q

(***************************************************************************)
(* Question n + 1 is in the block of question n unless that is full, and   *)
(* r questions back is one block back.                                     *)
(***************************************************************************)
LEMMA NextInBlock ==
  ASSUME NEW n \in Nat \ {0}, NEW r \in Nat \ {0}
  PROVE  /\ Block(n, r) \in Nat
         /\ n % r # 0 => Block(n + 1, r) = Block(n, r)
         /\ n % r = 0 => Block(n + 1, r) = Block(n, r) + 1 /\ n >= r
         /\ n >= r => Block(n + 1 - r, r) + 1 = Block(n + 1, r)
<1> DEFINE q == n \div r
           k == n % r
<1>1. q \in Nat /\ k \in Nat /\ k < r /\ n = r * q + k
  BY Division
<1>2. r * q \in Nat /\ n - 1 \in Nat
  BY <1>1
<1> HIDE DEF q, k
<1>3. Block(n + 1, r) = q
  <2>1. n + 1 - 1 = n
    OBVIOUS
  <2> QED
    BY <2>1 DEF Block, q
<1>4. q > 0 => /\ q - 1 \in Nat /\ r * (q - 1) \in Nat
               /\ r * q = r * (q - 1) + r
  BY <1>1
<1>5. ASSUME k # 0
      PROVE  Block(n, r) = q
  <2>1. n - 1 = r * q + (k - 1) /\ k - 1 \in Nat /\ k - 1 < r
    BY <1>1, <1>2, <1>5
  <2>2. (n - 1) \div r = q
    BY <1>1, <1>2, <2>1, Quotient
  <2> QED
    BY <2>2 DEF Block
<1>6. ASSUME k = 0
      PROVE  Block(n, r) + 1 = q /\ n >= r
  <2>1. q > 0
    <3>1. q = 0 => r * q = 0
      OBVIOUS
    <3> QED
      BY <1>1, <1>6, <3>1
  <2>2. n - 1 = r * (q - 1) + (r - 1) /\ r - 1 \in Nat /\ r - 1 < r
    BY <1>1, <1>2, <1>4, <1>6, <2>1
  <2>3. (n - 1) \div r = q - 1
    BY <1>1, <1>2, <1>4, <2>1, <2>2, Quotient
  <2> QED
    BY <1>1, <1>4, <1>6, <2>1, <2>3 DEF Block
<1>7. ASSUME n >= r
      PROVE  Block(n + 1 - r, r) + 1 = q
  <2>1. q > 0
    <3>1. q = 0 => r * q = 0
      OBVIOUS
    <3> QED
      BY <1>1, <1>7, <3>1
  <2>2. n - r \in Nat /\ n - r = r * (q - 1) + k /\ n + 1 - r - 1 = n - r
    BY <1>1, <1>4, <1>7, <2>1
  <2>3. (n - r) \div r = q - 1
    BY <1>1, <1>4, <2>1, <2>2, Quotient
  <2> QED
    BY <1>1, <2>2, <2>3 DEF Block
<1>8. Block(n, r) \in Nat
  BY <1>2, Division DEF Block
<1> QED
  BY <1>1, <1>3, <1>5, <1>6, <1>7, <1>8 DEF k
-----------------------------------------------------------------------------
(* The inductive invariant: questions of one block are on one verb, those  *)
(* of neighbouring blocks are not.                                         *)

Rotation ==
  \A i, j \in 1 .. Len(asked) :
    /\ Block(i, reps) = Block(j, reps) => InOrder[i] = InOrder[j]
    /\ Block(i, reps) + 1 = Block(j, reps) /\ Cardinality(verbs) > 1 =>
         InOrder[i] # InOrder[j]

IInv == TypeOK /\ (InWindow => Rotation)

(***************************************************************************)
(* Only the session's own verbs may be asked next; when the rotation moves *)
(* on it leaves the verb asked last.                                       *)
(***************************************************************************)
LEMMA ReadBackType ==
  ASSUME TypeOK
  PROVE  /\ ReadBack \in Seq(verbs) /\ Len(asked) \in Nat
         /\ asked = <<>> <=> Len(asked) = 0
         /\ InWindow => ReadBack = asked
<1> USE CycleAssumption
<1>1. asked \in Seq(verbs) /\ Len(asked) \in Nat /\ Window \in Nat \ {0}
  BY DEF TypeOK
<1>2. asked = <<>> <=> Len(asked) = 0
  BY <1>1
<1>3. CASE Len(asked) < Window
  <2>1. SubSeq(asked, 1, Len(asked)) = asked
    BY <1>1
  <2> QED
    BY <1>1, <1>2, <1>3, <2>1 DEF ReadBack
<1>4. CASE Len(asked) >= Window
  <2>1. ReadBack = SubSeq(asked, 1, Window)
    BY <1>1, <1>4 DEF ReadBack
  <2>2. SubSeq(asked, 1, Window) \in Seq(verbs)
    BY <1>1, <1>4
  <2>3. InWindow => SubSeq(asked, 1, Window) = asked
    BY <1>1, <1>4 DEF InWindow
  <2> QED
    BY <1>1, <1>2, <2>1, <2>2, <2>3
<1> QED
  BY <1>1, <1>3, <1>4

LEMMA MovesOn ==
  ASSUME NEW used, NEW vs, IsFiniteSet(vs), used \in Seq(vs), used # <<>>, NEW r \in Nat \ {0},
         NEW v \in AvailableVerbsPractice(vs, used, r)
  PROVE  v \in vs /\ (Cardinality(vs) > 1 => v # used[1])
<1>1. Len(used) \in Nat \ {0} /\ 1 \in DOMAIN used
  BY EmptySeq, LenProperties
<1>2. CASE Cardinality(vs) = 1
  BY <1>2 DEF AvailableVerbsPractice
<1>3. CASE Cardinality(vs) # 1
  <2> DEFINE rem == Len(used) % (Cardinality(vs) * r)
  <2>1. rem \in Nat
    <3>1. Cardinality(vs) \in Nat
      BY FS_CardinalityType
    <3>2. Cardinality(vs) # 0
      <4>1. used[1] \in vs
        BY <1>1
      <4> QED
        BY <4>1, FS_EmptySet
    <3>3. Cardinality(vs) * r \in Nat \ {0}
      BY <3>1, <3>2
    <3> QED
      BY <1>1, <3>3, Division
  <2>2. v \in vs /\ v \notin {used[i] : i \in 1 .. rem}
        /\ v \notin {used[i] : i \in {1} \cap {k \in DOMAIN used : rem = 0}}
    BY <1>3 DEF AvailableVerbsPractice
  <2> HIDE DEF rem
  <2>3. CASE rem = 0
    BY <1>1, <2>2, <2>3
  <2>4. CASE rem # 0
    BY <2>1, <2>2, <2>4
  <2> QED
    BY <2>2, <2>3, <2>4
<1> QED
  BY <1>2, <1>3

(***************************************************************************)
(* The sequence of questions after another one.                            *)
(***************************************************************************)
LEMMA OneMore ==
  ASSUME TypeOK, NEW v \in verbs, asked' = <<v>> \o asked, UNCHANGED <<verbs, reps>>
  PROVE  /\ TypeOK'
         /\ Len(asked) \in Nat /\ Len(asked') = Len(asked) + 1
         /\ InOrder'[Len(asked) + 1] = v
         /\ \A i \in 1 .. Len(asked) : InOrder'[i] = InOrder[i]
         /\ Len(asked) > 0 => InOrder[Len(asked)] = asked[1]
<1>1. asked \in Seq(verbs) /\ Len(asked) \in Nat /\ DOMAIN asked = 1 .. Len(asked)
  BY DEF TypeOK
<1>2. /\ asked' \in Seq(verbs) /\ Len(asked') = Len(asked) + 1
      /\ asked'[1] = v
      /\ \A i \in 1 .. Len(asked) : asked'[i + 1] = asked[i]
  BY <1>1
<1>3. TypeOK'
  BY <1>2 DEF TypeOK
<1>4. InOrder' = [i \in 1 .. Len(asked') |-> asked'[Len(asked') + 1 - i]]
  BY DEF InOrder
<1>5. InOrder'[Len(asked) + 1] = v
  BY <1>1, <1>2, <1>4
<1>6. ASSUME NEW i \in 1 .. Len(asked)
      PROVE  InOrder'[i] = InOrder[i]
  <2>1. InOrder'[i] = asked'[(Len(asked) + 1 - i) + 1]
    BY <1>1, <1>2, <1>4
  <2>2. Len(asked) + 1 - i \in 1 .. Len(asked)
    BY <1>1
  <2>3. InOrder[i] = asked[Len(asked) + 1 - i]
    BY DEF InOrder
  <2> QED
    BY <1>2, <2>1, <2>2, <2>3
<1>7. Len(asked) > 0 => InOrder[Len(asked)] = asked[1]
  BY <1>1 DEF InOrder
<1> QED
  BY <1>1, <1>2, <1>3, <1>5, <1>6, <1>7

(***************************************************************************)
(* Whatever is asked next is one of the session's verbs.                   *)
(***************************************************************************)
LEMMA ChosenVerb ==
  ASSUME IInv, NEW v \in Choices
  PROVE  v \in verbs
<1> USE CycleAssumption
<1>1. /\ asked \in Seq(verbs) /\ Len(asked) \in Nat /\ IsFiniteSet(verbs)
      /\ reps \in Nat \ {0} /\ ReadBack \in Seq(verbs)
  BY ReadBackType DEF IInv, TypeOK
<1>2. CASE ChangeVerbs(ReadBack, reps)
  <2>1. v \in AvailableVerbsPractice(verbs, ReadBack, reps)
    BY <1>2 DEF Choices, NextVerbs
  <2> QED
    BY <2>1 DEF AvailableVerbsPractice
<1>3. CASE ~ChangeVerbs(ReadBack, reps)
  <2>1. asked # <<>>
    <3>1. asked = <<>> => Len(ReadBack) = 0
      BY <1>1, ReadBackType DEF IInv, ReadBack, CycleAssumption
    <3> QED
      BY <1>3, <3>1 DEF ChangeVerbs
  <2>2. v = asked[1] /\ 1 \in DOMAIN asked
    BY <1>1, <1>3, <2>1, EmptySeq, LenProperties DEF Choices, NextVerbs
  <2> QED
    BY <1>1, <2>2
<1> QED
  BY <1>2, <1>3

(***************************************************************************)
(* While the window holds the session, hc_change_verbs says so at the end  *)
(* of a block and, with more than one verb, only there.                    *)
(***************************************************************************)
LEMMA BlockGoesOn ==
  ASSUME IInv, InWindow, Len(asked) > 0
  PROVE  /\ Len(asked) % reps # 0 /\ Cardinality(verbs) > 1 => ~ChangeVerbs(asked, reps)
         /\ Len(asked) % reps = 0 => ChangeVerbs(asked, reps)
<1> USE CycleAssumption
<1> DEFINE n == Len(asked)
           back == n + 1 - reps
<1>1. /\ asked \in Seq(verbs) /\ n \in Nat \ {0} /\ IsFiniteSet(verbs)
      /\ reps \in Nat \ {0}
  BY DEF IInv, TypeOK
<1>2. InOrder[n] = asked[1] /\ (n >= reps => back \in 1 .. n /\ InOrder[back] = asked[reps])
  BY <1>1 DEF InOrder
<1>3. /\ Block(n, reps) \in Nat
      /\ n % reps # 0 => Block(n + 1, reps) = Block(n, reps)
      /\ n % reps = 0 => Block(n + 1, reps) = Block(n, reps) + 1 /\ n >= reps
      /\ n >= reps => Block(back, reps) + 1 = Block(n + 1, reps)
  BY <1>1, NextInBlock
<1>4. Rotation /\ n \in 1 .. n
  BY <1>1 DEF IInv
<1>5. ASSUME n % reps # 0, Cardinality(verbs) > 1
      PROVE  ~ChangeVerbs(asked, reps)
  <2>1. n >= reps => InOrder[back] # InOrder[n]
    BY <1>2, <1>3, <1>4, <1>5 DEF Rotation
  <2> QED
    BY <1>1, <1>2, <2>1 DEF ChangeVerbs
<1>6. ASSUME n % reps = 0
      PROVE  ChangeVerbs(asked, reps)
  <2>1. Block(back, reps) \in Int /\ Block(back, reps) = Block(n, reps)
    BY <1>1, <1>3, <1>6 DEF Block
  <2>2. InOrder[back] = InOrder[n]
    BY <1>2, <1>3, <1>4, <1>6, <2>1 DEF Rotation
  <2> QED
    BY <1>2, <1>3, <1>6, <2>2 DEF ChangeVerbs
<1> QED
  BY <1>5, <1>6

(***************************************************************************)
(* So the next verb is the one asked last if and only if the block is not  *)
(* complete.                                                               *)
(***************************************************************************)
LEMMA ChosenInBlock ==
  ASSUME IInv, InWindow, NEW v \in Choices, Len(asked) > 0
  PROVE  /\ Len(asked) % reps # 0 => v = asked[1]
         /\ Len(asked) % reps = 0 /\ Cardinality(verbs) > 1 => v # asked[1]
<1> USE CycleAssumption
<1>1. /\ asked \in Seq(verbs) /\ IsFiniteSet(verbs) /\ reps \in Nat \ {0}
      /\ ReadBack = asked /\ asked # <<>> /\ v \in verbs /\ asked[1] \in verbs
  <2>1. asked \in Seq(verbs) /\ IsFiniteSet(verbs) /\ reps \in Nat \ {0}
    BY DEF IInv, TypeOK
  <2>2. ReadBack = asked
    BY ReadBackType DEF IInv
  <2>3. asked[1] \in verbs
    BY <2>1
  <2> QED
    BY <2>1, <2>2, <2>3, ChosenVerb
<1>2. /\ ChangeVerbs(asked, reps) => v \in AvailableVerbsPractice(verbs, asked, reps)
      /\ ~ChangeVerbs(asked, reps) => v = asked[1]
  BY <1>1 DEF Choices, NextVerbs
<1>3. ASSUME Len(asked) % reps # 0
      PROVE  v = asked[1]
  <2>1. CASE Cardinality(verbs) > 1
    BY <1>2, <1>3, <2>1, BlockGoesOn
  <2>2. CASE ~(Cardinality(verbs) > 1)
    <3>1. Cardinality(verbs) \in Nat /\ Cardinality(verbs) # 0
      BY <1>1, FS_CardinalityType, FS_EmptySet
    <3>2. Cardinality(verbs) = 1
      BY <2>2, <3>1
    <3>3. PICK x : verbs = {x}
      BY <1>1, <3>2, FS_Singleton
    <3> QED
      BY <1>1, <3>3
  <2> QED
    BY <2>1, <2>2
<1>4. ASSUME Len(asked) % reps = 0, Cardinality(verbs) > 1
      PROVE  v # asked[1]
  <2>1. ChangeVerbs(asked, reps)
    BY <1>4, BlockGoesOn
  <2> QED
    BY <1>1, <1>2, <1>4, <2>1, MovesOn
<1> QED
  BY <1>3, <1>4

LEMMA StepInv ==
  ASSUME IInv, AskPractice
  PROVE  IInv'
<1> USE CycleAssumption
<1> DEFINE n == Len(asked)
<1>1. PICK v \in Choices : asked' = <<v>> \o asked
  BY DEF AskPractice
<1>2. v \in verbs /\ UNCHANGED <<verbs, reps>>
  BY ChosenVerb DEF AskPractice
<1>3. /\ TypeOK'
      /\ n \in Nat /\ Len(asked') = n + 1
      /\ InOrder'[n + 1] = v
      /\ \A i \in 1 .. n : InOrder'[i] = InOrder[i]
      /\ n > 0 => InOrder[n] = asked[1]
  BY <1>1, <1>2, OneMore DEF IInv
<1>4. ASSUME InWindow'
      PROVE  Rotation'
  <2>1. InWindow /\ Rotation
    BY <1>3, <1>4 DEF InWindow, IInv, CycleAssumption
  <2>2. reps \in Nat \ {0}
    BY DEF IInv, TypeOK
  <2>3. \A i \in 1 .. n + 1 : Block(i, reps) \in Nat
    <3> SUFFICES ASSUME NEW i \in 1 .. n + 1
                 PROVE  Block(i, reps) \in Nat
      OBVIOUS
    <3>1. i - 1 \in Nat
      BY <1>3
    <3> QED
      BY <2>2, <3>1, Division DEF Block
  <2>4. \A i \in 1 .. n : Block(i, reps) <= Block(n, reps)
    <3> SUFFICES ASSUME NEW i \in 1 .. n
                 PROVE  Block(i, reps) <= Block(n, reps)
      OBVIOUS
    <3>1. i - 1 \in Nat /\ n - 1 \in Nat /\ i - 1 <= n - 1
      BY <1>3
    <3> QED
      BY <2>2, <3>1, DivisionMonotone DEF Block
  <2>5. n > 0 => \/ /\ Block(n + 1, reps) = Block(n, reps)
                    /\ v = InOrder[n]
                 \/ /\ Block(n + 1, reps) = Block(n, reps) + 1
                    /\ Cardinality(verbs) > 1 => v # InOrder[n]
    <3> SUFFICES ASSUME n > 0
                 PROVE  \/ /\ Block(n + 1, reps) = Block(n, reps)
                           /\ v = InOrder[n]
                        \/ /\ Block(n + 1, reps) = Block(n, reps) + 1
                           /\ Cardinality(verbs) > 1 => v # InOrder[n]
      OBVIOUS
    <3>1. /\ n % reps # 0 => Block(n + 1, reps) = Block(n, reps)
          /\ n % reps = 0 => Block(n + 1, reps) = Block(n, reps) + 1
      <4>1. n \in Nat \ {0}
        BY <1>3
      <4> HIDE DEF n
      <4> QED
        BY <2>2, <4>1, NextInBlock
    <3>2. /\ n % reps # 0 => v = asked[1]
          /\ n % reps = 0 /\ Cardinality(verbs) > 1 => v # asked[1]
      BY <2>1, ChosenInBlock
    <3> QED
      BY <1>3, <3>1, <3>2
  <2> SUFFICES ASSUME NEW i \in 1 .. n + 1, NEW j \in 1 .. n + 1
               PROVE  /\ Block(i, reps) = Block(j, reps) => InOrder'[i] = InOrder'[j]
                      /\ Block(i, reps) + 1 = Block(j, reps) /\ Cardinality(verbs) > 1 =>
                           InOrder'[i] # InOrder'[j]
    BY <1>2, <1>3 DEF Rotation
  <2>6. CASE i \in 1 .. n /\ j \in 1 .. n
    BY <1>3, <2>1, <2>6 DEF Rotation
  <2>7. CASE i \in 1 .. n /\ j = n + 1
    <3>1. n > 0 /\ n \in 1 .. n
      BY <1>3, <2>7
    <3> QED
      BY <1>3, <2>1, <2>3, <2>4, <2>5, <2>7, <3>1 DEF Rotation
  <2>8. CASE i = n + 1 /\ j \in 1 .. n
    <3>1. n > 0 /\ n \in 1 .. n
      BY <1>3, <2>8
    <3> QED
      BY <1>3, <2>1, <2>3, <2>4, <2>5, <2>8, <3>1 DEF Rotation
  <2>9. CASE i = n + 1 /\ j = n + 1
    BY <2>3, <2>9
  <2> QED
    BY <1>3, <2>6, <2>7, <2>8, <2>9
<1> QED
  BY <1>3, <1>4 DEF IInv

(***************************************************************************)
(* Of b values at most b are different.                                    *)
(***************************************************************************)
LEMMA FewValues ==
  ASSUME NEW b \in Nat, NEW f, f = [x \in 1 .. b |-> f[x]], NEW S, IsFiniteSet(S),
         b < Cardinality(S)
  PROVE  \E v \in S : \A x \in 1 .. b : v # f[x]
<1> DEFINE T == {f[x] : x \in 1 .. b}
<1>1. f \in Surjection(1 .. b, T)
  BY DEF Surjection
<1>2. IsFiniteSet(1 .. b) /\ Cardinality(1 .. b) = b
  BY FS_Interval
<1>3. IsFiniteSet(T) /\ Cardinality(T) <= b
  BY <1>1, <1>2, FS_Surjection
<1>4. Cardinality(T) \in Nat /\ Cardinality(S) \in Nat
  BY <1>3, FS_CardinalityType
<1> HIDE DEF T
<1>5. ~(S \subseteq T)
  BY <1>3, <1>4, FS_Subset
<1> QED
  BY <1>5 DEF T

(***************************************************************************)
(* The i-th question from the end is in the block that ended at one of     *)
(* questions r, 2 * r, .., b * r from the end.                             *)
(***************************************************************************)
EndsBlock(i, r, b, n) ==
  \E x \in 1 .. b, k \in 1 .. n :
    k = r * x /\ i \in 1 .. n /\ Block(n + 1 - i, r) = Block(n + 1 - k, r)

(***************************************************************************)
(* The first b blocks back from the end of a block, question by question.  *)
(***************************************************************************)
LEMMA BlocksBack ==
  ASSUME NEW r \in Nat \ {0}, NEW q \in Nat, NEW b \in 0 .. q,
         NEW n, n = r * q, NEW m, m = r * b, NEW i \in 1 .. m
  PROVE  EndsBlock(i, r, b, n)
<1> DEFINE y == (i - 1) \div r
           k == (i - 1) % r
<1>1. r * b \in Nat /\ b \in Nat /\ i \in Nat /\ i - 1 \in Nat /\ i <= r * b
  OBVIOUS
<1>2. y \in Nat /\ k \in Nat /\ k < r /\ i - 1 = r * y + k
  BY <1>1, Division
<1> HIDE DEF y, k
<1>3. y < b
  <2>1. CASE y > b
    <3>1. r * y >= r * b + r /\ r * y \in Nat
      BY <1>1, <1>2, <2>1, Multiples
    <3> QED
      BY <1>1, <1>2, <3>1
  <2>2. CASE y = b
    BY <1>1, <1>2, <2>2
  <2> QED
    BY <1>1, <1>2, <2>1, <2>2
<1> DEFINE x == y + 1
<1>4. x \in 1 .. b /\ x \in Nat /\ q - x \in Nat /\ x > 0
  BY <1>1, <1>2, <1>3
<1>5. r * x = r * y + r /\ r * q = r * (q - x) + r * x
  BY <1>2, <1>4
<1>6. r * (q - x) \in Nat /\ r * y \in Nat /\ r * x \in Nat /\ r * q \in Nat
  BY <1>2, <1>4
<1> HIDE DEF x
<1>7. r * x >= 1 /\ r * x <= r * q
  BY <1>2, <1>5, <1>6
<1>8. i <= r * x
  BY <1>1, <1>2, <1>5, <1>6
<1>9. Block(r * q + 1 - r * x, r) = q - x
  <2>1. (r * q + 1 - r * x) - 1 = r * (q - x) + 0
    BY <1>5, <1>6
  <2>2. r * (q - x) \in Nat
    BY <1>6
  <2>3. ((r * q + 1 - r * x) - 1) \div r = q - x
    <3>1. PICK d \in Nat : d = r * (q - x) /\ d = (r * q + 1 - r * x) - 1
      BY <2>1, <2>2
    <3>2. d \div r = q - x
      BY <1>4, <3>1, Quotient
    <3> QED
      BY <3>1, <3>2
  <2> QED
    BY <2>3 DEF Block
<1>10. Block(r * q + 1 - i, r) = q - x
  <2>1. r - 1 - k \in Nat /\ r - 1 - k < r
    BY <1>2
  <2>2. PICK d \in Nat : d = r * (q - x) + (r - 1 - k) /\ d = r * q + 1 - i - 1
    <3>1. r * (q - x) + (r - 1 - k) = r * q + 1 - i - 1
      BY <1>1, <1>2, <1>5, <1>6
    <3>2. r * (q - x) + (r - 1 - k) \in Nat
      BY <1>6, <2>1
    <3> QED
      BY <3>1, <3>2
  <2>3. d \div r = q - x
    BY <1>4, <2>1, <2>2, Quotient
  <2> QED
    BY <2>2, <2>3 DEF Block
<1>11. PICK l \in 1 .. n : l = r * x /\ i \in 1 .. n
  BY <1>1, <1>6, <1>7, <1>8
<1>12. Block(n + 1 - i, r) = Block(n + 1 - l, r)
  BY <1>9, <1>10, <1>11
<1>13. x \in 1 .. b
  BY <1>4
<1> QED
  BY <1>11, <1>12, <1>13 DEF EndsBlock

\* n is the length of fewer than c blocks.
FewBlocks(n, r, c, q) == \E b \in 0 .. q : b < c /\ n = r * b

(***************************************************************************)
(* The cycle under way consists of fewer blocks than there are verbs.      *)
(***************************************************************************)
LEMMA BlocksOfCycle ==
  ASSUME NEW r \in Nat \ {0}, NEW c \in Nat \ {0}, NEW q \in Nat,
         NEW n, n = r * q, NEW p, p = c * r
  PROVE  FewBlocks(n % p, r, c, q)
<1> DEFINE z == n \div p
           rem == n % p
<1>1. n \in Nat /\ p \in Nat \ {0}
  OBVIOUS
<1>2. z \in Nat /\ rem \in Nat /\ rem < p /\ n = p * z + rem
  BY <1>1, Division
<1> HIDE DEF z, rem
<1> DEFINE b == q - c * z
<1>3. c * z \in Nat /\ b \in Int /\ p * z = r * (c * z)
  BY <1>2
<1>4. r * b = r * q - r * (c * z)
  BY <1>3
<1>5. r * b = rem
  BY <1>1, <1>2, <1>3, <1>4
<1> HIDE DEF b
<1>6. b >= 0
  <2>1. b < 0 => r * b < 0
    BY <1>3
  <2> QED
    BY <1>2, <1>3, <1>5, <2>1
<1>7. b < c
  <2>1. b >= c => r * b >= r * c
    <3>1. ASSUME b > c
          PROVE  r * b >= r * c + r
      BY <1>3, <1>6, <3>1, Multiples
    <3>2. r * c \in Nat
      OBVIOUS
    <3> QED
      BY <1>3, <1>6, <3>1, <3>2
  <2> QED
    BY <1>2, <1>3, <1>5, <2>1
<1>8. b <= q
  BY <1>3 DEF b
<1>9. b \in 0 .. q
  BY <1>3, <1>6, <1>8
<1> QED
  BY <1>5, <1>7, <1>9 DEF rem, FewBlocks

(***************************************************************************)
(* There is a verb to ask next: the verbs to skip are those of fewer       *)
(* blocks than there are verbs.                                            *)
(***************************************************************************)
LEMMA OneIsLeft ==
  ASSUME IInv, InWindow, Len(asked) > 0, Len(asked) % reps = 0
  PROVE  AvailableVerbsPractice(verbs, asked, reps) # {}
<1> USE CycleAssumption
<1> DEFINE n == Len(asked)
           c == Cardinality(verbs)
<1>1. /\ asked \in Seq(verbs) /\ n \in Nat \ {0} /\ IsFiniteSet(verbs) /\ verbs # {}
      /\ reps \in Nat \ {0} /\ c \in Nat \ {0} /\ Rotation
  BY FS_CardinalityType, FS_EmptySet DEF IInv, TypeOK
<1>2. CASE c = 1
  BY <1>1, <1>2 DEF AvailableVerbsPractice
<1>3. CASE c # 1
  <2> DEFINE rem == n % (c * reps)
             skipped == {asked[i] : i \in 1 .. rem}
             lastUsed == {asked[i] : i \in {1} \cap {k \in DOMAIN asked : rem = 0}}
  <2>1. AvailableVerbsPractice(verbs, asked, reps) = verbs \ (skipped \cup lastUsed)
    BY <1>3 DEF AvailableVerbsPractice
  <2>2. PICK q \in Nat : n = reps * q
    <3>1. n \div reps \in Nat /\ n = reps * (n \div reps) + (n % reps)
      BY <1>1, Division
    <3>2. n = reps * (n \div reps)
      BY <1>1, <3>1
    <3> QED
      BY <3>1, <3>2
  <2>3. PICK b \in 0 .. q : b < c /\ rem = reps * b
    <3>1. PICK b \in 0 .. q : b < c /\ (reps * q) % (c * reps) = reps * b
      <4>1. PICK r \in Nat \ {0}, k \in Nat \ {0} : r = reps /\ k = c
        BY <1>1
      <4>2. PICK l, p : l = r * q /\ p = k * r
        OBVIOUS
      <4>3. FewBlocks(l % p, r, k, q)
        BY <4>2, BlocksOfCycle
      <4> QED
        BY <4>1, <4>2, <4>3 DEF FewBlocks
    <3>2. rem = (reps * q) % (c * reps)
      BY <2>2
    <3> QED
      BY <3>1, <3>2
  <2> HIDE DEF rem
  <2>4. CASE rem = 0
    <3>1. skipped = {} /\ lastUsed \subseteq {asked[1]}
      BY <2>4
    <3>2. \E v \in verbs : v # asked[1]
      <4>1. verbs # {asked[1]}
        BY <1>3, FS_Singleton
      <4> QED
        BY <1>1, <4>1
    <3> QED
      BY <2>1, <3>1, <3>2
  <2>5. CASE rem # 0
    <3>1. lastUsed = {}
      BY <2>5
    <3>2. PICK f : f = [x \in 1 .. b |-> asked[reps * x]]
      OBVIOUS
    <3>3. PICK v \in verbs : \A x \in 1 .. b : v # f[x]
      <4>1. b \in Nat /\ b < Cardinality(verbs)
        BY <2>3
      <4>2. f = [x \in 1 .. b |-> f[x]]
        BY <3>2
      <4> QED
        BY <1>1, <4>1, <4>2, FewValues
    <3>4. ASSUME NEW i \in 1 .. rem
          PROVE  asked[i] # v
      <4>1. PICK x \in 1 .. b, k \in 1 .. n :
              /\ k = reps * x /\ i \in 1 .. n
              /\ Block(n + 1 - i, reps) = Block(n + 1 - k, reps)
        <5>1. PICK r \in Nat \ {0}, l \in Nat, m \in Nat :
                r = reps /\ l = r * q /\ m = r * b /\ i \in 1 .. m
          <6>1. reps * q \in Nat /\ reps * b \in Nat
            BY <1>1, <2>3
          <6> QED
            BY <1>1, <2>3, <6>1
        <5>2. EndsBlock(i, r, b, l)
          BY <5>1, BlocksBack
        <5> QED
          BY <2>2, <5>1, <5>2 DEF EndsBlock
      <4>3. n + 1 - i \in 1 .. n /\ n + 1 - k \in 1 .. n
        BY <1>1, <4>1
      <4>4. InOrder[n + 1 - i] = InOrder[n + 1 - k]
        BY <1>1, <4>1, <4>3 DEF Rotation
      <4>5. InOrder[n + 1 - i] = asked[i] /\ InOrder[n + 1 - k] = asked[k]
        BY <1>1, <4>1, <4>3 DEF InOrder
      <4> QED
        BY <3>2, <3>3, <4>1, <4>4, <4>5
    <3>5. v \notin skipped
      BY <3>4
    <3> QED
      BY <2>1, <3>1, <3>3, <3>5
  <2> QED
    BY <2>4, <2>5
<1> QED
  BY <1>2, <1>3

-----------------------------------------------------------------------------
(* The rotation is even.                                                   *)

\* the questions on v, by their number
On(v) == {i \in 1 .. Len(asked) : InOrder[i] = v}

\* the verbs of the last m questions
LastVerbs(m) == {asked[i] : i \in 1 .. m}

(***************************************************************************)
(* z cycles are complete, b blocks of the next one and k questions of the  *)
(* block under way.  The blocks of a cycle are on different verbs, and the *)
(* verbs that have had their block are one block ahead of the others.      *)
(***************************************************************************)
Progress(z, b, k) ==
  /\ Len(asked) = reps * (Cardinality(verbs) * z + b) + k
  /\ Cardinality(LastVerbs(reps * b + k)) = IF k = 0 THEN b ELSE b + 1
  /\ \A v \in verbs :
       Cardinality(On(v)) =
         reps * z + (IF v \notin LastVerbs(reps * b + k) THEN 0
                     ELSE IF k # 0 /\ v = asked[1] THEN k ELSE reps)

Even ==
  \E z, b, k \in Nat : b < Cardinality(verbs) /\ k < reps /\ Progress(z, b, k)

(***************************************************************************)
(* The numbers of hc_get_available_verbs_practice: after n questions, k of *)
(* the block (of r) and m of the cycle (of p) are done.                    *)
(***************************************************************************)
Left(n, m, p, r, c, b, k) ==
  /\ n \in Nat /\ m \in Nat /\ m <= n /\ m + 1 <= p
  /\ n % r = k /\ n % p = m
  /\ m + 1 = p => k + 1 = r /\ b + 1 = c

LEMMA Remainders ==
  ASSUME NEW r \in Nat \ {0}, NEW c \in Nat \ {0}, NEW z \in Nat, NEW b \in Nat, NEW k \in Nat,
         b < c, k < r, NEW n, n = r * (c * z + b) + k, NEW m, m = r * b + k, NEW p, p = c * r
  PROVE  Left(n, m, p, r, c, b, k)
<1>1. c * z \in Nat /\ c * z + b \in Nat
  OBVIOUS
<1>2. r * (c * z + b) = r * (c * z) + r * b /\ r * (c * z) = p * z
  BY <1>1
<1>3. r * (c * z) \in Nat /\ r * b \in Nat /\ p \in Nat \ {0} /\ p * z \in Nat
  BY <1>1
<1>4. n \in Nat /\ m \in Nat /\ m <= n /\ n = p * z + m
  BY <1>2, <1>3
<1>5. r * c >= r * b + r /\ p = r * c
  BY Multiples
<1>6. m < p /\ m + 1 <= p
  BY <1>3, <1>5
<1>7. n % r = k
  <2>1. PICK q \in Nat : q = c * z + b
    BY <1>1
  <2> QED
    BY <1>4, <2>1, Quotient
<1>8. n % p = m
  <2>1. PICK x \in Nat, y \in Nat, w \in Nat \ {0} : x = n /\ y = m /\ w = p
    BY <1>3, <1>4
  <2>2. x = w * z + y /\ y < w
    BY <1>4, <1>6, <2>1, Zenon
  <2>3. x % w = y
    BY <2>2, Quotient
  <2> QED
    BY <2>1, <2>3, Zenon
<1>9. ASSUME m + 1 = p
      PROVE  k + 1 = r /\ b + 1 = c
  <2>1. k + 1 = r
    BY <1>3, <1>5, <1>9
  <2>2. r * c = r * b + r
    BY <1>3, <1>5, <1>9, <2>1
  <2>3. ~(c > b + 1)
    <3>1. c > b + 1 => r * c >= r * (b + 1) + r
      BY Multiples, b + 1 \in Nat
    <3>2. r * (b + 1) = r * b + r
      OBVIOUS
    <3> QED
      BY <1>3, <2>2, <3>1, <3>2
  <2> QED
    BY <2>1, <2>3
<1> QED
  BY <1>4, <1>6, <1>7, <1>8, <1>9 DEF Left

(***************************************************************************)
(* A verb is asked once more.                                              *)
(***************************************************************************)
LEMMA AskedOnceMore ==
  ASSUME TypeOK, NEW v \in verbs, asked' = <<v>> \o asked, UNCHANGED <<verbs, reps>>, NEW w
  PROVE  /\ Cardinality(On(w)) \in Nat
         /\ Cardinality(On(w)') = Cardinality(On(w)) + (IF w = v THEN 1 ELSE 0)
<1> DEFINE n == Len(asked)
<1>1. /\ n \in Nat /\ Len(asked') = n + 1
      /\ InOrder'[n + 1] = v
      /\ \A i \in 1 .. n : InOrder'[i] = InOrder[i]
  BY OneMore
<1>2. IsFiniteSet(On(w)) /\ Cardinality(On(w)) \in Nat
  <2>1. IsFiniteSet(1 .. n) /\ On(w) \subseteq 1 .. n
    BY <1>1, FS_Interval DEF On
  <2> QED
    BY <2>1, FS_Subset, FS_CardinalityType
<1>3. n + 1 \notin On(w)
  BY <1>1 DEF On
<1>4. On(w)' = {i \in 1 .. n + 1 : InOrder'[i] = w}
  BY <1>1 DEF On
<1>5. CASE w = v
  <2>1. On(w)' = On(w) \cup {n + 1}
    BY <1>1, <1>4, <1>5 DEF On
  <2> QED
    BY <1>2, <1>3, <1>5, <2>1, FS_AddElement
<1>6. CASE w # v
  <2>1. On(w)' = On(w)
    BY <1>1, <1>4, <1>6 DEF On
  <2> QED
    BY <1>2, <1>6, <2>1
<1> QED
  BY <1>5, <1>6

(***************************************************************************)
(* When a block is complete the next one is on a verb that the cycle under *)
(* way has not had.                                                        *)
(***************************************************************************)
LEMMA NewInCycle ==
  ASSUME IInv, InWindow, NEW v \in Choices, Len(asked) % reps = 0,
         NEW m, m = Len(asked) % (Cardinality(verbs) * reps), Cardinality(verbs) = 1 => m = 0
  PROVE  v \notin LastVerbs(m)
<1> USE CycleAssumption
<1>1. /\ ReadBack = asked /\ asked \in Seq(verbs) /\ Len(asked) \in Nat
      /\ reps \in Nat \ {0}
  BY ReadBackType DEF IInv, TypeOK
<1>2. ChangeVerbs(asked, reps)
  <2>1. Len(asked) = 0 => ChangeVerbs(asked, reps)
    BY DEF ChangeVerbs
  <2> QED
    BY <1>1, <2>1, BlockGoesOn
<1>3. v \in AvailableVerbsPractice(verbs, asked, reps)
  BY <1>1, <1>2 DEF Choices, NextVerbs
<1>4. CASE Cardinality(verbs) = 1
  BY <1>4 DEF LastVerbs
<1>5. CASE Cardinality(verbs) # 1
  BY <1>3, <1>5 DEF AvailableVerbsPractice, LastVerbs
<1> QED
  BY <1>4, <1>5

LEMMA EvenStep ==
  ASSUME IInv, InWindow, Even, NEW v \in Choices,
         asked' = <<v>> \o asked, UNCHANGED <<verbs, reps>>
  PROVE  Even'
<1> USE CycleAssumption
<1> DEFINE n == Len(asked)
           c == Cardinality(verbs)
<1>1. /\ TypeOK /\ asked \in Seq(verbs) /\ n \in Nat /\ IsFiniteSet(verbs) /\ verbs # {}
      /\ reps \in Nat \ {0} /\ v \in verbs
  BY ChosenVerb DEF IInv, TypeOK
<1>2. c \in Nat \ {0}
  BY <1>1, FS_CardinalityType, FS_EmptySet
<1>3. PICK z \in Nat, b \in Nat, k \in Nat : b < c /\ k < reps /\ Progress(z, b, k)
  BY DEF Even
<1>4. PICK m : m = reps * b + k
  OBVIOUS
<1>5. /\ m \in Nat /\ m <= n /\ m + 1 <= c * reps
      /\ n % reps = k /\ n % (c * reps) = m
      /\ m + 1 = c * reps => k + 1 = reps /\ b + 1 = c
  <2>1. n = reps * (c * z + b) + k
    BY <1>3 DEF Progress
  <2>2. Left(n, m, c * reps, reps, c, b, k)
    <3> HIDE DEF n, c
    <3> QED
      BY <1>1, <1>2, <1>3, <1>4, <2>1, Remainders, Zenon
  <2> QED
    BY <2>2, Zenon DEF Left
<1>6. /\ Cardinality(LastVerbs(m)) = IF k = 0 THEN b ELSE b + 1
      /\ \A w \in verbs :
           Cardinality(On(w)) =
             reps * z + (IF w \notin LastVerbs(m) THEN 0
                         ELSE IF k # 0 /\ w = asked[1] THEN k ELSE reps)
  BY <1>3, <1>4 DEF Progress
<1>7. LastVerbs(m) \subseteq verbs /\ IsFiniteSet(LastVerbs(m))
  <2>1. LastVerbs(m) \subseteq verbs
    BY <1>1, <1>5 DEF LastVerbs
  <2> QED
    BY <1>1, <2>1, FS_Subset
<1>8. ASSUME k # 0
      PROVE  v = asked[1] /\ v \in LastVerbs(m)
  <2>1. m >= 1 /\ n > 0
    <3>1. reps * b \in Nat
      BY <1>1
    <3> QED
      BY <1>4, <1>5, <1>8, <3>1
  <2>2. v = asked[1]
    BY <1>1, <1>5, <1>8, <2>1, ChosenInBlock
  <2> QED
    BY <1>5, <2>1, <2>2 DEF LastVerbs
<1>9. ASSUME k = 0
      PROVE  v \notin LastVerbs(m)
  <2>1. c = 1 => m = 0
    <3>1. c = 1 => b = 0
      BY <1>3
    <3> QED
      BY <1>1, <1>4, <1>9, <3>1
  <2> QED
    BY <1>5, <1>9, <2>1, NewInCycle
<1> DEFINE D == LastVerbs(m) \cup {v}
<1>10. D \subseteq verbs /\ Cardinality(D) = b + 1
  <2>1. CASE k # 0
    <3>1. D = LastVerbs(m)
      BY <1>8, <2>1
    <3> QED
      BY <1>6, <1>7, <2>1, <3>1
  <2>2. CASE k = 0
    <3>1. Cardinality(D) = Cardinality(LastVerbs(m)) + 1
      BY <1>7, <1>9, <2>2, FS_AddElement
    <3> QED
      BY <1>1, <1>6, <1>7, <2>2, <3>1
  <2> QED
    BY <2>1, <2>2
<1>11. PICK l \in Nat : l = m + 1
  BY <1>5
<1>12. LastVerbs(l)' = D
  <2>1. /\ asked'[1] = v
        /\ \A i \in 1 .. m, j \in 1 .. l : j = i + 1 => asked'[j] = asked[i]
    BY <1>1, <1>5, <1>11
  <2>2. LastVerbs(l)' = {asked'[j] : j \in 1 .. l}
    BY DEF LastVerbs
  <2>3. ASSUME NEW w \in LastVerbs(l)'
        PROVE  w \in D
    <3>1. PICK j \in 1 .. l : w = asked'[j]
      BY <2>2
    <3>2. CASE j = 1
      BY <2>1, <3>1, <3>2
    <3>3. CASE j # 1
      <4>1. PICK i \in 1 .. m : j = i + 1
        BY <1>5, <1>11, <3>3, j - 1 \in 1 .. m, j = (j - 1) + 1
      <4>2. w = asked[i]
        BY <2>1, <3>1, <4>1
      <4> QED
        BY <4>2 DEF LastVerbs
    <3> QED
      BY <3>2, <3>3
  <2>4. ASSUME NEW w \in D
        PROVE  w \in LastVerbs(l)'
    <3>1. CASE w = v
      <4>1. 1 \in 1 .. l
        BY <1>5, <1>11
      <4> QED
        BY <2>1, <2>2, <3>1, <4>1
    <3>2. CASE w \in LastVerbs(m)
      <4>1. PICK i \in 1 .. m : w = asked[i]
        BY <3>2 DEF LastVerbs
      <4>2. PICK j \in 1 .. l : j = i + 1
        BY <1>5, <1>11
      <4>3. w = asked'[j]
        BY <2>1, <4>1, <4>2
      <4> QED
        BY <2>2, <4>3
    <3> QED
      BY <3>1, <3>2
  <2> QED
    BY <2>3, <2>4
<1>13. /\ Len(asked') = n + 1 /\ asked'[1] = v
       /\ verbs' = verbs /\ reps' = reps
  BY <1>1
<1> HIDE DEF D
<1>14. \A w \in verbs :
         Cardinality(On(w)') = reps * z + (IF w \notin D THEN 0 ELSE IF w = v THEN k + 1 ELSE reps)
  <2> SUFFICES ASSUME NEW w \in verbs
               PROVE  Cardinality(On(w)') =
                        reps * z + (IF w \notin D THEN 0 ELSE IF w = v THEN k + 1 ELSE reps)
    OBVIOUS
  <2>1. Cardinality(On(w)') = Cardinality(On(w)) + (IF w = v THEN 1 ELSE 0)
    BY <1>1, AskedOnceMore
  <2>2. /\ w \in D <=> w = v \/ w \in LastVerbs(m)
        /\ k # 0 => v = asked[1] /\ v \in LastVerbs(m)
        /\ k = 0 => v \notin LastVerbs(m)
    BY <1>8, <1>9 DEF D
  <2>3. Cardinality(On(w)) =
          reps * z + (IF w \notin LastVerbs(m) THEN 0 ELSE IF k # 0 /\ w = asked[1] THEN k ELSE reps)
    BY <1>6
  <2>4. PICK t \in Nat : t = reps * z
    BY <1>1
  <2> QED
    BY <1>1, <2>1, <2>2, <2>3, <2>4
<1>15. n = reps * (c * z + b) + k
  BY <1>3 DEF Progress
<1>16. CASE k + 1 < reps
  <2>1. Len(asked') = reps * (c * z + b) + (k + 1)
    <3>1. PICK x \in Nat : x = c * z + b
      <4>1. PICK y \in Nat : y = c * z
        BY <1>2
      <4>2. y + b \in Nat
        OBVIOUS
      <4> QED
        BY <4>1, <4>2
    <3>2. reps * x \in Nat
      BY <1>1
    <3>3. n = reps * x + k
      BY <1>15, <3>1, Zenon
    <3>4. Len(asked') = reps * x + (k + 1)
      BY <1>13, <3>2, <3>3
    <3> QED
      BY <3>1, <3>4, Zenon
  <2>2. l = reps * b + (k + 1)
    <3>1. reps * b \in Nat
      BY <1>1
    <3> QED
      BY <1>4, <1>11, <3>1
  <2>3. /\ Cardinality(LastVerbs(reps * b + (k + 1))') = b + 1
        /\ \A w \in verbs :
             Cardinality(On(w)') =
               reps * z + (IF w \notin LastVerbs(reps * b + (k + 1))' THEN 0
                           ELSE IF w = asked'[1] THEN k + 1 ELSE reps)
    BY <1>10, <1>12, <1>13, <1>14, <2>2
  <2>4. k + 1 \in Nat /\ k + 1 # 0
    OBVIOUS
  <2>5. Progress(z, b, k + 1)'
    BY <1>13, <2>1, <2>3, <2>4 DEF Progress
  <2> QED
    BY <1>3, <1>13, <1>16, <2>4, <2>5 DEF Even
<1>17. k + 1 = reps \/ k + 1 < reps
  BY <1>1, <1>3
<1>18. CASE k + 1 = reps /\ b + 1 < c
  <2>1. Len(asked') = reps * (c * z + (b + 1)) + 0
    <3>1. reps * (c * z + b) \in Nat /\ reps * (c * z + (b + 1)) = reps * (c * z + b) + reps
      <4>1. PICK x \in Nat : x = c * z
        BY <1>2
      <4>2. reps * (x + (b + 1)) = reps * (x + b) + reps /\ reps * (x + b) \in Nat
        BY <1>1
      <4> QED
        BY <4>1, <4>2
    <3> QED
      BY <1>1, <1>13, <1>15, <1>18, <3>1
  <2>2. l = reps * (b + 1) + 0
    <3>1. reps * b \in Nat /\ reps * (b + 1) = reps * b + reps
      BY <1>1
    <3> QED
      BY <1>4, <1>11, <1>18, <3>1
  <2>3. /\ Cardinality(LastVerbs(reps * (b + 1) + 0)') = b + 1
        /\ \A w \in verbs :
             Cardinality(On(w)') =
               reps * z + (IF w \notin LastVerbs(reps * (b + 1) + 0)' THEN 0 ELSE reps)
    BY <1>10, <1>12, <1>14, <1>18, <2>2
  <2>4. Progress(z, b + 1, 0)'
    BY <1>13, <2>1, <2>3 DEF Progress
  <2>5. b + 1 \in Nat /\ 0 \in Nat /\ 0 < reps
    BY <1>1
  <2> QED
    BY <1>13, <1>18, <2>4, <2>5 DEF Even
<1>19. CASE k + 1 = reps /\ b + 1 = c
  <2>1. Len(asked') = reps * (c * (z + 1) + 0) + 0
    <3>1. PICK x \in Nat : x = c * z
      BY <1>2
    <3>2. c * (z + 1) + 0 = x + c /\ x + c \in Nat
      BY <1>2, <3>1
    <3>3. reps * (x + c) = reps * (x + b) + reps /\ reps * (x + b) \in Nat
      BY <1>1, <1>2, <1>19
    <3>4. n = reps * (x + b) + k
      BY <1>15, <3>1, Zenon
    <3>5. Len(asked') = reps * (x + c) + 0
      BY <1>1, <1>13, <1>19, <3>3, <3>4
    <3> QED
      BY <3>2, <3>5, Zenon
  <2>2. D = verbs
    BY <1>1, <1>10, <1>19, FS_Subset
  <2>3. LastVerbs(reps * 0 + 0)' = {} /\ Cardinality({}) = 0
    <3>1. reps * 0 + 0 = 0
      BY <1>1
    <3>2. LastVerbs(0)' = {}
      BY DEF LastVerbs
    <3> QED
      BY <3>1, <3>2, FS_EmptySet
  <2>4. reps * (z + 1) = reps * z + reps /\ reps * z \in Nat
    BY <1>1
  <2>5. \A w \in verbs : Cardinality(On(w)') = reps * (z + 1)
    BY <1>14, <1>19, <2>2, <2>4
  <2>6. \A w \in verbs :
          Cardinality(On(w)') = reps * (z + 1) + (IF w \notin LastVerbs(reps * 0 + 0)' THEN 0 ELSE reps)
    <3>1. reps * (z + 1) = reps * (z + 1) + 0
      <4>1. PICK t \in Nat : t = reps * (z + 1)
        BY <1>1, <2>4
      <4> QED
        BY <4>1
    <3>2. \A w : w \notin LastVerbs(reps * 0 + 0)'
      BY <2>3
    <3> QED
      BY <2>5, <3>1, <3>2, Zenon
  <2>7. Progress(z + 1, 0, 0)'
    BY <1>13, <2>1, <2>3, <2>6 DEF Progress
  <2>8. z + 1 \in Nat /\ 0 \in Nat /\ 0 < reps /\ 0 < c
    BY <1>1, <1>2
  <2> QED
    BY <1>13, <2>7, <2>8 DEF Even
<1>20. b + 1 < c \/ b + 1 = c
  BY <1>2, <1>3
<1> QED
  BY <1>16, <1>17, <1>18, <1>19, <1>20

(***************************************************************************)
(* Positions counted from the newest question are as many as those counted *)
(* from the oldest.                                                        *)
(***************************************************************************)
LEMMA CountedBackwards ==
  ASSUME TypeOK, NEW v
  PROVE  Cardinality({i \in DOMAIN asked : asked[i] = v}) = Cardinality(On(v))
<1> DEFINE n == Len(asked)
           S == {i \in DOMAIN asked : asked[i] = v}
           f == [i \in S |-> n + 1 - i]
<1>1. n \in Nat /\ DOMAIN asked = 1 .. n
  BY DEF TypeOK
<1>2. \A i \in 1 .. n : InOrder[i] = asked[n + 1 - i]
  BY DEF InOrder
<1>3. IsFiniteSet(S)
  <2>1. IsFiniteSet(1 .. n) /\ S \subseteq 1 .. n
    BY <1>1, FS_Interval
  <2> QED
    BY <2>1, FS_Subset
<1>4. \A i \in S : f[i] \in On(v)
  <2> SUFFICES ASSUME NEW i \in S
               PROVE  n + 1 - i \in On(v)
    OBVIOUS
  <2>1. PICK j \in 1 .. n : j = n + 1 - i /\ n + 1 - j = i
    BY <1>1
  <2>2. InOrder[j] = asked[i]
    BY <1>2, <2>1
  <2> QED
    BY <2>1, <2>2 DEF On
<1>5. \A j \in On(v) : \E i \in S : f[i] = j
  <2> SUFFICES ASSUME NEW j \in On(v)
               PROVE  \E i \in S : f[i] = j
    OBVIOUS
  <2>1. j \in 1 .. n /\ InOrder[j] = v
    BY DEF On
  <2>2. PICK i \in 1 .. n : i = n + 1 - j /\ n + 1 - i = j
    BY <1>1, <2>1
  <2>3. asked[i] = v
    BY <1>2, <2>1, <2>2
  <2>4. i \in S /\ f[i] = j
    BY <1>1, <2>2, <2>3
  <2> QED
    BY <2>4
<1>6. \A i, j \in S : f[i] = f[j] => i = j
  BY <1>1
<1>7. f \in Bijection(S, On(v))
  BY <1>4, <1>5, <1>6, Zenon DEF Bijection, Injection, Surjection, IsInjective
<1> QED
  BY <1>3, <1>7, FS_Bijection DEF ExistsBijection

-----------------------------------------------------------------------------
(* The theorems.                                                           *)

(***************************************************************************)
(* The invariant holds in every state.                                     *)
(***************************************************************************)
THEOREM CycleInvariant == Spec => []IInv
<1>1. Init => IInv
  BY DEF Init, IInv, TypeOK, Rotation
<1>2. IInv /\ [AskPractice]_vars => IInv'
  <2>1. ASSUME IInv, UNCHANGED vars PROVE IInv'
    BY <2>1 DEF vars, IInv, TypeOK, InWindow, Rotation, InOrder
  <2> QED
    BY <2>1, StepInv
<1> QED
  BY <1>1, <1>2, PTL DEF Spec

(***************************************************************************)
(* A practice session never asks for a verb outside its list.              *)
(***************************************************************************)
THEOREM OnlyOwnVerbs == Spec => []TypeOK
<1>1. IInv => TypeOK
  BY DEF IInv
<1> QED
  BY <1>1, CycleInvariant, PTL

(***************************************************************************)
(* While the window holds the session, hc_change_verbs and                 *)
(* hc_get_available_verbs_practice together ask each verb reps times in a  *)
(* row and then move on to another one, from one cycle to the next too.    *)
(***************************************************************************)
THEOREM BlocksAreKept == Spec => []BlocksOfReps
<1>1. IInv => BlocksOfReps
  <2> USE CycleAssumption
  <2> SUFFICES ASSUME IInv, InWindow, NEW i \in 2 .. Len(asked)
               PROVE  IF (i - 1) % reps # 0
                        THEN InOrder[i] = InOrder[i-1]
                        ELSE Cardinality(verbs) > 1 => InOrder[i] # InOrder[i-1]
    BY DEF BlocksOfReps
  <2>1. /\ reps \in Nat \ {0} /\ i - 1 \in Nat \ {0} /\ i - 1 + 1 = i
        /\ i \in 1 .. Len(asked) /\ i - 1 \in 1 .. Len(asked)
    BY DEF IInv, TypeOK
  <2>2. /\ (i - 1) % reps # 0 => Block(i, reps) = Block(i - 1, reps)
        /\ (i - 1) % reps = 0 => Block(i, reps) = Block(i - 1, reps) + 1
    <3>1. PICK k \in Nat \ {0} : k = i - 1 /\ k + 1 = i
      BY <2>1
    <3>2. /\ k % reps # 0 => Block(k + 1, reps) = Block(k, reps)
          /\ k % reps = 0 => Block(k + 1, reps) = Block(k, reps) + 1
      BY <2>1, NextInBlock
    <3> QED
      BY <3>1, <3>2
  <2> QED
    BY <2>1, <2>2 DEF IInv, Rotation
<1> QED
  BY <1>1, CycleInvariant, PTL

(***************************************************************************)
(* While the window holds the session, whole cycles, blocks and questions  *)
(* are what has been asked.                                                *)
(***************************************************************************)
THEOREM EvenInvariant == Spec => [](InWindow => Even)
<1> USE CycleAssumption
<1>1. Init => Even
  <2> SUFFICES ASSUME Init
               PROVE  Even
    OBVIOUS
  <2>1. /\ reps \in Nat \ {0} /\ asked = <<>> /\ Len(asked) = 0
        /\ IsFiniteSet(verbs) /\ verbs # {}
    BY DEF Init
  <2>2. Cardinality(verbs) \in Nat \ {0}
    BY <2>1, FS_CardinalityType, FS_EmptySet
  <2>3. reps * 0 + 0 = 0 /\ reps * (Cardinality(verbs) * 0 + 0) + 0 = 0 /\ reps * 0 = 0
    BY <2>1, <2>2
  <2>4. LastVerbs(0) = {} /\ Cardinality({}) = 0
    BY FS_EmptySet DEF LastVerbs
  <2>5. ASSUME NEW v \in verbs
        PROVE  Cardinality(On(v)) = 0
    <3>1. On(v) = {}
      BY <2>1 DEF On
    <3> QED
      BY <3>1, FS_EmptySet
  <2>6. Progress(0, 0, 0)
    BY <2>1, <2>3, <2>4, <2>5 DEF Progress
  <2> QED
    BY <2>1, <2>2, <2>6 DEF Even
<1>2. IInv /\ (InWindow => Even) /\ [AskPractice]_vars => (InWindow => Even)'
  <2>1. ASSUME InWindow => Even, UNCHANGED vars
        PROVE  (InWindow => Even)'
    <3>1. verbs' = verbs /\ reps' = reps /\ asked' = asked
      BY <2>1 DEF vars
    <3>2. InWindow' <=> InWindow
      BY <3>1 DEF InWindow
    <3>3. /\ \A m : LastVerbs(m)' = LastVerbs(m)
          /\ \A v : On(v)' = On(v)
      BY <3>1 DEF LastVerbs, On, InOrder
    <3>4. \A z, b, k : Progress(z, b, k)' <=> Progress(z, b, k)
      BY <3>1, <3>3 DEF Progress
    <3>5. Even' <=> Even
      BY <3>1, <3>4 DEF Even
    <3> QED
      BY <2>1, <3>2, <3>5
  <2>2. ASSUME IInv, InWindow => Even, AskPractice, InWindow'
        PROVE  Even'
    <3>1. PICK v \in Choices : asked' = <<v>> \o asked /\ UNCHANGED <<verbs, reps>>
      BY <2>2 DEF AskPractice
    <3>2. Len(asked) \in Nat /\ Len(asked') = Len(asked) + 1
      BY <2>2, <3>1 DEF IInv, TypeOK
    <3>3. InWindow
      BY <2>2, <3>2 DEF InWindow
    <3> QED
      BY <2>2, <3>1, <3>3, EvenStep
  <2> QED
    BY <2>1, <2>2
<1> QED
  BY <1>1, <1>2, CycleInvariant, PTL DEF Spec

(***************************************************************************)
(* While the window holds the session, every verb has been asked equally   *)
(* often whenever a cycle is complete: no verb of the list is left out and *)
(* none is preferred.                                                      *)
(***************************************************************************)
THEOREM RotationIsEven == Spec => []EvenRotation
<1>1. IInv /\ (InWindow => Even) => EvenRotation
  <2> USE CycleAssumption
  <2> DEFINE n == Len(asked)
             c == Cardinality(verbs)
  <2> SUFFICES ASSUME IInv, InWindow => Even, InWindow, n % (c * reps) = 0, NEW v \in verbs
               PROVE  Cardinality({i \in DOMAIN asked : asked[i] = v}) * c = n
    BY DEF EvenRotation
  <2>1. /\ TypeOK /\ n \in Nat /\ reps \in Nat \ {0}
        /\ IsFiniteSet(verbs) /\ verbs # {}
    BY DEF IInv, TypeOK
  <2>2. c \in Nat \ {0}
    BY <2>1, FS_CardinalityType, FS_EmptySet
  <2>3. PICK z \in Nat, b \in Nat, k \in Nat : b < c /\ k < reps /\ Progress(z, b, k)
    BY DEF Even
  <2>4. n = reps * (c * z + b) + k
    BY <2>3 DEF Progress
  <2>5. PICK m : m = reps * b + k
    OBVIOUS
  <2>6. Left(n, m, c * reps, reps, c, b, k)
    <3> HIDE DEF n, c
    <3> QED
      BY <2>1, <2>2, <2>3, <2>4, <2>5, Remainders, Zenon
  <2>7. m = 0
    BY <2>6, Zenon DEF Left
  <2>8. b = 0 /\ k = 0
    <3>1. k = 0 /\ reps * b = 0
      <4>1. reps * b \in Nat
        BY <2>1
      <4> QED
        BY <2>5, <2>7, <4>1
    <3>2. b > 0 => reps * b >= reps * 0 + reps
      BY <2>1, Multiples
    <3>3. reps * 0 = 0
      BY <2>1
    <3> QED
      BY <2>1, <3>1, <3>2, <3>3
  <2>9. reps * b + k = 0 /\ reps * (c * z + b) + k = reps * (c * z)
    <3>1. PICK y \in Nat : y = c * z
      BY <2>2
    <3>2. reps * (y + 0) + 0 = reps * y
      BY <2>1
    <3> QED
      BY <2>5, <2>7, <2>8, <3>1, <3>2
  <2>10. Cardinality(On(v)) = reps * z
    <3>1. LastVerbs(0) = {}
      BY DEF LastVerbs
    <3>2. Cardinality(On(v)) = reps * z + 0
      BY <2>3, <2>9, <3>1 DEF Progress
    <3> QED
      BY <2>1, <3>2
  <2>11. Cardinality({i \in DOMAIN asked : asked[i] = v}) = reps * z
    BY <2>1, <2>10, CountedBackwards
  <2>12. n = reps * (c * z)
    BY <2>4, <2>9
  <2>13. (reps * z) * c = reps * (c * z)
    BY <2>1, <2>2
  <2> QED
    BY <2>11, <2>12, <2>13
<1> QED
  BY <1>1, CycleInvariant, EvenInvariant, PTL

(***************************************************************************)
(* While the window holds the session, hc_ask_practice has a verb to ask   *)
(* next: the choice it unwraps is there, and the rotation never stops.     *)
(***************************************************************************)
THEOREM RotationGoesOn == Spec => [](InWindow => NextVerbExists)
<1>1. IInv /\ InWindow => NextVerbExists
  <2> USE CycleAssumption
  <2> SUFFICES ASSUME IInv, InWindow
               PROVE  Choices # {}
    BY DEF NextVerbExists
  <2>1. /\ ReadBack = asked /\ asked \in Seq(verbs) /\ Len(asked) \in Nat
        /\ reps \in Nat \ {0} /\ IsFiniteSet(verbs) /\ verbs # {}
    BY ReadBackType DEF IInv, TypeOK
  <2>2. CASE ~ChangeVerbs(asked, reps)
    BY <2>1, <2>2 DEF Choices, NextVerbs
  <2>3. CASE Len(asked) = 0
    <3>1. asked = <<>>
      BY <2>1, <2>3
    <3>2. AvailableVerbsPractice(verbs, <<>>, reps) # {}
      <4>1. Cardinality(verbs) \in Nat /\ Cardinality(verbs) # 0
        BY <2>1, FS_CardinalityType, FS_EmptySet
      <4>2. Cardinality(verbs) * reps \in Nat \ {0}
        BY <2>1, <4>1
      <4>3. Len(<<>>) = 0 /\ 0 % (Cardinality(verbs) * reps) = 0
        BY <4>2
      <4>4. {<<>>[i] : i \in 1 .. 0} = {} /\ DOMAIN <<>> = {}
        OBVIOUS
      <4> QED
        BY <2>1, <4>3, <4>4 DEF AvailableVerbsPractice
    <3>3. ChangeVerbs(asked, reps)
      BY <2>3 DEF ChangeVerbs
    <3> QED
      BY <2>1, <3>1, <3>2, <3>3 DEF Choices, NextVerbs
  <2>4. CASE Len(asked) > 0 /\ ChangeVerbs(asked, reps)
    <3>1. Choices = AvailableVerbsPractice(verbs, asked, reps)
      BY <2>1, <2>4 DEF Choices, NextVerbs
    <3>2. CASE Len(asked) % reps = 0
      BY <2>4, <3>1, <3>2, OneIsLeft
    <3>3. CASE Len(asked) % reps # 0
      <4>1. CASE Cardinality(verbs) = 1
        BY <2>1, <3>1, <4>1 DEF AvailableVerbsPractice
      <4>2. Cardinality(verbs) \in Nat /\ Cardinality(verbs) # 0
        BY <2>1, FS_CardinalityType, FS_EmptySet
      <4>3. ~(Cardinality(verbs) > 1)
        BY <2>4, <3>3, BlockGoesOn
      <4> QED
        BY <4>1, <4>2, <4>3
    <3> QED
      BY <3>2, <3>3
  <2> QED
    BY <2>1, <2>2, <2>3, <2>4
<1> QED
  BY <1>1, CycleInvariant, PTL
=============================================================================
