--------------------------- MODULE SequenceLemmas ---------------------------
(***************************************************************************)
(* Lemmas on sequences, which the proofs of several modules rest on.       *)
(* Induction is over sets of numbers, as the provers want it.              *)
(***************************************************************************)
EXTENDS Integers, SequencesExt, SequenceTheorems, WellFoundedInduction, NaturalsInduction, TLAPS

(***************************************************************************)
(* A set with 0 and the successors of its members holds every number.      *)
(***************************************************************************)
LEMMA SetInduction ==
  ASSUME NEW T, 0 \in T, \A n \in Nat : n \in T => n + 1 \in T
  PROVE  \A n \in Nat : n \in T
<1> DEFINE Less == {p \in Nat \X Nat : p[1] < p[2]}
           Missing == Nat \ T
<1>1. IsWellFoundedOn(Less, Nat)
  BY NatLessThanWellFounded DEF OpToRel
<1> SUFFICES ASSUME Missing # {}
             PROVE  FALSE
  OBVIOUS
<1>2. PICK n \in Missing : \A m \in Missing : <<m, n>> \notin Less
  <2> HIDE DEF Less
  <2> QED
    BY <1>1, WFMin
<1>3. n \in Nat /\ n \notin T
  BY <1>2
<1>4. n # 0
  BY <1>3
<1>5. n - 1 \in Nat /\ (n - 1) + 1 = n
  BY <1>3, <1>4
<1>6. n - 1 \notin T
  BY <1>3, <1>5
<1>7. <<n - 1, n>> \in Less
  BY <1>3, <1>5
<1> QED
  BY <1>2, <1>5, <1>6, <1>7

(***************************************************************************)
(* Three elements in a row.                                                *)
(***************************************************************************)
LEMMA ThreeInARow ==
  ASSUME NEW S, NEW a \in S, NEW b \in S, NEW c \in S
  PROVE  /\ <<a>> \in Seq(S)
         /\ <<a, b, c>> \in Seq(S) /\ Len(<<a, b, c>>) = 3
         /\ (<<a>> \o <<b>>) \o <<c>> = <<a, b, c>>
<1>1. /\ <<a>> \in Seq(S) /\ Len(<<a>>) = 1 /\ <<a>>[1] = a
      /\ <<b>> \in Seq(S) /\ Len(<<b>>) = 1 /\ <<b>>[1] = b
      /\ <<c>> \in Seq(S) /\ Len(<<c>>) = 1 /\ <<c>>[1] = c
  OBVIOUS
<1>2. <<a, b, c>> \in Seq(S) /\ Len(<<a, b, c>>) = 3
  OBVIOUS
<1>3. PICK x, y, z : x = <<a>> /\ y = <<b>> /\ z = <<c>>
  OBVIOUS
<1>4. PICK u : u = x \o y
  OBVIOUS
<1>5. PICK t : t = u \o z
  OBVIOUS
<1>6. u \in Seq(S) /\ Len(u) = 2 /\ u[1] = a /\ u[2] = b
  BY <1>1, <1>3, <1>4, ConcatProperties
<1>7. t \in Seq(S) /\ Len(t) = 3 /\ t[1] = a /\ t[2] = b /\ t[3] = c
  <2>1. z \in Seq(S) /\ Len(z) = 1 /\ z[1] = c
    BY <1>1, <1>3
  <2>2. /\ t \in Seq(S) /\ Len(t) = Len(u) + Len(z)
        /\ \A i \in 1 .. Len(u) + Len(z) : t[i] = IF i <= Len(u) THEN u[i] ELSE z[i - Len(u)]
    BY <1>5, <1>6, <2>1, ConcatProperties
  <2>3. Len(u) + Len(z) = 3 /\ 3 - Len(u) = 1
    BY <1>6, <2>1
  <2>4. /\ 1 \in 1 .. 3 /\ 1 <= Len(u)
        /\ 2 \in 1 .. 3 /\ 2 <= Len(u)
        /\ 3 \in 1 .. 3 /\ ~(3 <= Len(u))
    BY <1>6
  <2> QED
    BY <1>6, <2>1, <2>2, <2>3, <2>4, Zenon
<1>8. \A i \in 1 .. 3 : t[i] = <<a, b, c>>[i]
  BY <1>7
<1>9. t = <<a, b, c>>
  BY <1>2, <1>7, <1>8, SeqEqual
<1> QED
  BY <1>1, <1>2, <1>3, <1>4, <1>5, <1>9, Zenon

-----------------------------------------------------------------------------
(* FlattenSeq.                                                             *)

(***************************************************************************)
(* The function by which FlattenSeq is defined.                            *)
(***************************************************************************)
Flattens(f, seqs, n) ==
  f = [i \in 1 .. n |-> IF i = 1 THEN seqs[i] ELSE f[i - 1] \o seqs[i]]

(***************************************************************************)
(* There is such a function, however many sequences there are.             *)
(***************************************************************************)
LEMMA FlattenExists ==
  ASSUME NEW seqs
  PROVE  \A n \in Nat : \E f : Flattens(f, seqs, n)
<1> DEFINE T == {n \in Nat : \E f : Flattens(f, seqs, n)}
<1>1. 0 \in T
  <2>1. Flattens(<<>>, seqs, 0)
    BY DEF Flattens
  <2> QED
    BY <2>1
<1>2. ASSUME NEW n \in Nat, n \in T
      PROVE  n + 1 \in T
  <2>1. PICK f : Flattens(f, seqs, n)
    BY <1>2
  <2> DEFINE last == IF n = 0 THEN seqs[1] ELSE f[n] \o seqs[n + 1]
             g == [i \in 1 .. n + 1 |-> IF i = n + 1 THEN last ELSE f[i]]
  <2> HIDE DEF last
  <2>2. ASSUME NEW i \in 1 .. n + 1
        PROVE  g[i] = IF i = 1 THEN seqs[i] ELSE g[i - 1] \o seqs[i]
    <3>1. CASE i = n + 1
      <4>1. g[i] = last
        BY <3>1
      <4>2. CASE n = 0
        BY <3>1, <4>1, <4>2 DEF last
      <4>3. CASE n # 0
        <5>1. i # 1 /\ i - 1 = n /\ i - 1 \in 1 .. n + 1 /\ i - 1 # n + 1
          BY <3>1, <4>3
        <5>2. g[i - 1] = f[n]
          BY <5>1
        <5> QED
          BY <3>1, <4>1, <4>3, <5>1, <5>2 DEF last
      <4> QED
        BY <4>2, <4>3
    <3>2. CASE i # n + 1
      <4>1. i \in 1 .. n
        BY <3>2
      <4>2. f[i] = IF i = 1 THEN seqs[i] ELSE f[i - 1] \o seqs[i]
        BY <2>1, <4>1 DEF Flattens
      <4>3. g[i] = f[i] /\ (i # 1 => g[i - 1] = f[i - 1])
        BY <4>1
      <4> QED
        BY <4>2, <4>3
    <3> QED
      BY <3>1, <3>2
  <2>3. g = [i \in 1 .. n + 1 |-> g[i]]
    OBVIOUS
  <2> HIDE DEF g
  <2>4. Flattens(g, seqs, n + 1)
    BY <2>2, <2>3 DEF Flattens
  <2> QED
    BY <2>4
<1>3. \A n \in Nat : n \in T
  <2> HIDE DEF T
  <2> QED
    BY <1>1, <1>2, SetInduction
<1> QED
  BY <1>3

(***************************************************************************)
(* FlattenSeq is reached by appending one sequence after the other.        *)
(***************************************************************************)
Appending(f, seqs, n) ==
  /\ f[1] = seqs[1]
  /\ \A i, j \in 1 .. n : j = i + 1 => f[j] = f[i] \o seqs[j]
  /\ FlattenSeq(seqs) = f[n]

LEMMA FlattenUnfold ==
  ASSUME NEW S, NEW n \in Nat, n > 0, NEW seqs \in [1 .. n -> Seq(S)]
  PROVE  \E f \in [1 .. n -> Seq(S)] : Appending(f, seqs, n)
<1>1. seqs \in Seq(Seq(S)) /\ Len(seqs) = n
  OBVIOUS
<1>2. PICK f : Flattens(f, seqs, n)
  BY FlattenExists
<1> DEFINE g == CHOOSE h : h = [i \in 1 .. Len(seqs) |->
                    IF i = 1 THEN seqs[i] ELSE h[i - 1] \o seqs[i]]
<1>3. Flattens(g, seqs, n)
  BY <1>1, <1>2 DEF Flattens
<1>4. Flattens(g, seqs, n) /\ FlattenSeq(seqs) = g[n]
  BY <1>1, <1>3 DEF FlattenSeq
<1> HIDE DEF g
<1>5. g[1] = seqs[1]
  BY <1>4 DEF Flattens
<1>6. ASSUME NEW i \in 1 .. n, NEW j \in 1 .. n, j = i + 1
      PROVE  g[j] = g[i] \o seqs[j]
  <2>1. j # 1 /\ j - 1 = i
    BY <1>6
  <2>2. g[j] = IF j = 1 THEN seqs[j] ELSE g[j - 1] \o seqs[j]
    BY <1>4 DEF Flattens
  <2> QED
    BY <2>1, <2>2
<1> DEFINE T == {m \in Nat : \A i \in 1 .. n : i = m + 1 => g[i] \in Seq(S)}
<1>7. 0 \in T
  BY <1>5
<1>8. ASSUME NEW m \in Nat, m \in T
      PROVE  m + 1 \in T
  <2> SUFFICES ASSUME NEW j \in 1 .. n, j = (m + 1) + 1
               PROVE  g[j] \in Seq(S)
    OBVIOUS
  <2>1. PICK i \in 1 .. n : i = m + 1 /\ j = i + 1
    OBVIOUS
  <2>2. g[i] \in Seq(S) /\ seqs[j] \in Seq(S)
    BY <1>8, <2>1
  <2>3. g[j] = g[i] \o seqs[j]
    BY <1>6, <2>1
  <2> QED
    BY <2>2, <2>3, ConcatProperties
<1>9. \A m \in Nat : m \in T
  <2> HIDE DEF T
  <2> QED
    BY <1>7, <1>8, SetInduction
<1>10. \A i \in 1 .. n : g[i] \in Seq(S)
  <2> SUFFICES ASSUME NEW i \in 1 .. n
               PROVE  g[i] \in Seq(S)
    OBVIOUS
  <2>1. PICK m \in Nat : i = m + 1
    BY i = (i - 1) + 1, i - 1 \in Nat
  <2>2. m \in T
    BY <1>9
  <2> QED
    BY <2>1, <2>2
<1>11. g \in [1 .. n -> Seq(S)]
  BY <1>4, <1>10 DEF Flattens
<1>12. Appending(g, seqs, n)
  BY <1>4, <1>5, <1>6 DEF Appending
<1> QED
  BY <1>11, <1>12

(***************************************************************************)
(* The sequences that FlattenSeq is used on here have two to six parts.    *)
(***************************************************************************)
LEMMA FlattenFew ==
  ASSUME NEW S, NEW n \in Nat, n > 0, NEW s \in [1 .. n -> Seq(S)]
  PROVE  /\ FlattenSeq(s) \in Seq(S)
         /\ n = 2 => FlattenSeq(s) = s[1] \o s[2]
         /\ n = 3 => FlattenSeq(s) = (s[1] \o s[2]) \o s[3]
         /\ n = 4 => FlattenSeq(s) = ((s[1] \o s[2]) \o s[3]) \o s[4]
         /\ n = 6 => FlattenSeq(s) = ((((s[1] \o s[2]) \o s[3]) \o s[4]) \o s[5]) \o s[6]
<1>1. PICK f \in [1 .. n -> Seq(S)] : Appending(f, s, n)
  BY FlattenUnfold
<1>2. FlattenSeq(s) \in Seq(S)
  BY <1>1 DEF Appending
<1>3. n >= 2 => f[2] = s[1] \o s[2]
  <2>1. n >= 2 => 1 \in 1 .. n /\ 2 \in 1 .. n /\ 2 = 1 + 1
    OBVIOUS
  <2> QED
    BY <1>1, <2>1, Zenon DEF Appending
<1>4. n >= 3 => f[3] = f[2] \o s[3]
  <2>1. n >= 3 => 2 \in 1 .. n /\ 3 \in 1 .. n /\ 3 = 2 + 1
    OBVIOUS
  <2> QED
    BY <1>1, <2>1, Zenon DEF Appending
<1>5. n >= 4 => f[4] = f[3] \o s[4]
  <2>1. n >= 4 => 3 \in 1 .. n /\ 4 \in 1 .. n /\ 4 = 3 + 1
    OBVIOUS
  <2> QED
    BY <1>1, <2>1, Zenon DEF Appending
<1>6. n >= 5 => f[5] = f[4] \o s[5]
  <2>1. n >= 5 => 4 \in 1 .. n /\ 5 \in 1 .. n /\ 5 = 4 + 1
    OBVIOUS
  <2> QED
    BY <1>1, <2>1, Zenon DEF Appending
<1>7. n >= 6 => f[6] = f[5] \o s[6]
  <2>1. n >= 6 => 5 \in 1 .. n /\ 6 \in 1 .. n /\ 6 = 5 + 1
    OBVIOUS
  <2> QED
    BY <1>1, <2>1, Zenon DEF Appending
<1>8. FlattenSeq(s) = f[n]
  BY <1>1 DEF Appending
<1>9. /\ n = 2 => n >= 2
      /\ n = 3 => n >= 2 /\ n >= 3
      /\ n = 4 => n >= 2 /\ n >= 3 /\ n >= 4
      /\ n = 6 => n >= 2 /\ n >= 3 /\ n >= 4 /\ n >= 5 /\ n >= 6
  OBVIOUS
<1> QED
  BY <1>2, <1>3, <1>4, <1>5, <1>6, <1>7, <1>8, <1>9, Zenon

(***************************************************************************)
(* Sequences of three: the n-th of them gives the elements 3n-2 to 3n.     *)
(***************************************************************************)
InThrees(t, s, k) ==
  /\ Len(t) = 3 * k
  /\ \A n \in 1 .. k, i \in 1 .. 3 * k :
       /\ i = 3 * n - 2 => t[i] = s[n][1]
       /\ i = 3 * n - 1 => t[i] = s[n][2]
       /\ i = 3 * n     => t[i] = s[n][3]

LEMMA OneMoreTriple ==
  ASSUME NEW S, NEW k \in Nat, NEW m \in Nat, m = k + 1, NEW s,
         NEW t \in Seq(S), InThrees(t, s, k), NEW u \in Seq(S), u = s[m], Len(u) = 3
  PROVE  InThrees(t \o u, s, m)
<1>1. Len(t) = 3 * k /\ Len(t) + Len(u) = 3 * m
  BY DEF InThrees
<1>2. /\ Len(t \o u) = 3 * m
      /\ \A i \in 1 .. 3 * m : (t \o u)[i] = IF i <= 3 * k THEN t[i] ELSE u[i - 3 * k]
  <2>1. /\ Len(t \o u) = Len(t) + Len(u)
        /\ \A i \in 1 .. Len(t) + Len(u) :
             (t \o u)[i] = IF i <= Len(t) THEN t[i] ELSE u[i - Len(t)]
    BY ConcatProperties
  <2> QED
    BY <1>1, <2>1, Zenon
<1>3. ASSUME NEW n \in 1 .. m, NEW i \in 1 .. 3 * m
      PROVE  /\ i = 3 * n - 2 => (t \o u)[i] = s[n][1]
             /\ i = 3 * n - 1 => (t \o u)[i] = s[n][2]
             /\ i = 3 * n     => (t \o u)[i] = s[n][3]
  <2>1. CASE n = m
    <3>1. i = 3 * n - 2 => ~(i <= 3 * k) /\ i - 3 * k = 1
      BY <2>1
    <3>2. i = 3 * n - 1 => ~(i <= 3 * k) /\ i - 3 * k = 2
      BY <2>1
    <3>3. i = 3 * n => ~(i <= 3 * k) /\ i - 3 * k = 3
      BY <2>1
    <3>4. (t \o u)[i] = IF i <= 3 * k THEN t[i] ELSE u[i - 3 * k]
      BY <1>2
    <3> QED
      BY <2>1, <3>1, <3>2, <3>3, <3>4
  <2>2. CASE n \in 1 .. k
    <3>1. i \in {3 * n - 2, 3 * n - 1, 3 * n} => i \in 1 .. 3 * k /\ i <= 3 * k
      BY <2>2
    <3>2. i \in 1 .. 3 * k => /\ i = 3 * n - 2 => t[i] = s[n][1]
                              /\ i = 3 * n - 1 => t[i] = s[n][2]
                              /\ i = 3 * n     => t[i] = s[n][3]
      BY <2>2 DEF InThrees
    <3>3. i <= 3 * k => (t \o u)[i] = t[i]
      BY <1>2
    <3> QED
      BY <3>1, <3>2, <3>3
  <2>3. n = m \/ n \in 1 .. k
    OBVIOUS
  <2> QED
    BY <2>1, <2>2, <2>3, Zenon
<1> QED
  BY <1>2, <1>3, Zenon DEF InThrees

LEMMA FlattenTriples ==
  ASSUME NEW S, NEW k \in Nat, k > 0, NEW s \in [1 .. k -> Seq(S)],
         \A n \in 1 .. k : Len(s[n]) = 3
  PROVE  FlattenSeq(s) \in Seq(S) /\ InThrees(FlattenSeq(s), s, k)
<1>1. PICK f \in [1 .. k -> Seq(S)] : Appending(f, s, k)
  BY FlattenUnfold
<1> DEFINE T == {m \in Nat : \A i \in 1 .. k : i = m + 1 => InThrees(f[i], s, i)}
<1>2. 0 \in T
  <2> SUFFICES ASSUME 1 \in 1 .. k
               PROVE  InThrees(f[1], s, 1)
    OBVIOUS
  <2>1. f[1] = s[1] /\ f[1] \in Seq(S) /\ Len(f[1]) = 3
    BY <1>1 DEF Appending
  <2>2. ASSUME NEW n \in 1 .. 1, NEW i \in 1 .. 3
        PROVE  /\ i = 3 * n - 2 => f[1][i] = s[n][1]
               /\ i = 3 * n - 1 => f[1][i] = s[n][2]
               /\ i = 3 * n     => f[1][i] = s[n][3]
    <3>1. n = 1
      OBVIOUS
    <3> QED
      BY <2>1, <3>1
  <2> QED
    BY <2>1, <2>2 DEF InThrees
<1>3. ASSUME NEW m \in Nat, m \in T
      PROVE  m + 1 \in T
  <2> SUFFICES ASSUME NEW j \in 1 .. k, j = (m + 1) + 1
               PROVE  InThrees(f[j], s, j)
    OBVIOUS
  <2>1. PICK i \in 1 .. k : i = m + 1 /\ j = i + 1
    OBVIOUS
  <2>2. InThrees(f[i], s, i)
    BY <1>3, <2>1
  <2>3. f[j] = f[i] \o s[j] /\ f[i] \in Seq(S) /\ s[j] \in Seq(S) /\ Len(s[j]) = 3
    BY <1>1, <2>1 DEF Appending
  <2>4. i \in Nat /\ j \in Nat
    OBVIOUS
  <2> QED
    BY <2>1, <2>2, <2>3, <2>4, OneMoreTriple
<1>4. \A m \in Nat : m \in T
  <2> HIDE DEF T
  <2> QED
    BY <1>2, <1>3, SetInduction
<1>5. PICK m \in Nat : k = m + 1
  BY k = (k - 1) + 1, k - 1 \in Nat
<1>6. InThrees(f[k], s, k)
  <2>1. m \in T /\ k \in 1 .. k
    BY <1>4
  <2> QED
    BY <1>5, <2>1
<1> QED
  BY <1>1, <1>6 DEF Appending
=============================================================================
