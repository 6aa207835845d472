-------------------------- MODULE Disassembly_proofs -------------------------
(***************************************************************************)
(* What the two listing parsers recover of a program, for every program:   *)
(* which functions they find, where these start and end, and their last    *)
(* lock release.                                                           *)
(***************************************************************************)
EXTENDS Disassembly, SequenceTheorems, FiniteSetTheorems, WellFoundedInduction, TLAPS

-----------------------------------------------------------------------------
(* Induction over natural numbers, for sets instead of predicates.         *)

(* A set of natural numbers has a least element.                           *)
LEMMA LeastOf ==
  ASSUME NEW T, T \subseteq Nat, T # {}
  PROVE  \E m \in T : \A n \in T : m <= n
<1> DEFINE R == {ss \in Nat \X Nat : ss[1] < ss[2]}
<1>1. IsWellFoundedOn(R, Nat)
  BY NatLessThanWellFounded DEF OpToRel
<1>2. PICK m \in T : \A n \in T : ~(<<n, m>> \in R)
  BY <1>1, WFMin
<1>3. ASSUME NEW n \in T PROVE m <= n
  <2>1. <<n, m>> \in Nat \X Nat /\ n \in Nat /\ m \in Nat
    OBVIOUS
  <2>2. <<n, m>>[1] = n /\ <<n, m>>[2] = m
    OBVIOUS
  <2>3. ~(n < m)
    BY <1>2, <2>1, <2>2
  <2> QED BY <2>1, <2>3
<1> QED BY <1>3

(* What holds of 0, and up to n of k + 1 when it holds of k, holds up to n. *)
LEMMA InductTo ==
  ASSUME NEW n \in Nat, NEW T, 0 \in T, \A k \in 0 .. n - 1 : k \in T => k + 1 \in T
  PROVE  0 .. n \subseteq T
<1> DEFINE out == (0 .. n) \ T
<1> SUFFICES ASSUME out # {} PROVE FALSE
  OBVIOUS
<1>1. PICK m \in out : \A k \in out : m <= k
  <2>1. out \subseteq Nat
    OBVIOUS
  <2> QED BY <2>1, LeastOf
<1>2. m \in Nat /\ m # 0 /\ m <= n
  OBVIOUS
<1>3. m - 1 \in 0 .. n - 1 /\ (m - 1) + 1 = m /\ m - 1 < m /\ m - 1 \in 0 .. n
  BY <1>2
<1>4. m - 1 \in T
  BY <1>1, <1>3
<1> QED BY <1>3, <1>4

-----------------------------------------------------------------------------
(* The greatest and the least of finitely many numbers.                    *)

LEMMA MinIs ==
  ASSUME NEW S \in SUBSET Nat, S # {}
  PROVE  Min(S) \in S /\ \A x \in S : Min(S) <= x
<1>1. \E m \in S : \A n \in S : m <= n
  BY LeastOf
<1> QED BY <1>1 DEF Min

LEMMA MaxIs ==
  ASSUME NEW n \in Nat, NEW S \in SUBSET (0 .. n), S # {}
  PROVE  Max(S) \in S /\ \A x \in S : Max(S) >= x
<1> DEFINE T == {n - x : x \in S}
<1>1. T \subseteq Nat /\ T # {}
  OBVIOUS
<1>2. PICK m \in T : \A k \in T : m <= k
  BY <1>1, LeastOf
<1>3. PICK x \in S : m = n - x
  OBVIOUS
<1>4. \A y \in S : x >= y
  <2> SUFFICES ASSUME NEW y \in S PROVE x >= y
    OBVIOUS
  <2>1. n - y \in T /\ y \in Nat /\ x \in Nat
    OBVIOUS
  <2>2. n - x <= n - y
    BY <1>2, <1>3, <2>1
  <2> HIDE DEF T
  <2> QED BY <2>1, <2>2
<1>5. \E z \in S : \A y \in S : z >= y
  BY <1>3, <1>4
<1> QED BY <1>5 DEF Max

-----------------------------------------------------------------------------
(* A sequence of sequences, one after the other.                           *)

LEMMA FlattenStep ==
  ASSUME NEW seqs, NEW n \in Nat \ {0}, Len(seqs) = n
  PROVE  \E f : /\ f = [i \in 1 .. n |-> IF i = 1 THEN seqs[i] ELSE f[i - 1] \o seqs[i]]
                /\ FlattenSeq(seqs) = f[n]
<1> DEFINE Eq(f, m) == f = [i \in 1 .. m |-> IF i = 1 THEN seqs[i] ELSE f[i - 1] \o seqs[i]]
           T == {m \in Nat : \E f : Eq(f, m)}
<1>1. 0 \in T
  <2>1. Eq([i \in 1 .. 0 |-> 0], 0)
    OBVIOUS
  <2> QED BY <2>1
<1>2. ASSUME NEW m \in 0 .. n - 1, m \in T PROVE m + 1 \in T
  <2>1. PICK f : Eq(f, m)
    BY <1>2
  <2> DEFINE g == [i \in 1 .. m + 1 |->
                     IF i = m + 1 THEN IF i = 1 THEN seqs[i] ELSE f[m] \o seqs[i] ELSE f[i]]
  <2>2. ASSUME NEW i \in 1 .. m + 1
        PROVE  g[i] = IF i = 1 THEN seqs[i] ELSE g[i - 1] \o seqs[i]
    <3>1. CASE i = m + 1
      <4>1. CASE i = 1
        BY <3>1, <4>1
      <4>2. CASE i # 1
        <5>1. i - 1 = m /\ m \in 1 .. m + 1 /\ m # m + 1
          BY <3>1, <4>2
        <5>2. g[m] = f[m] /\ g[i] = f[m] \o seqs[i]
          BY <3>1, <4>2, <5>1
        <5> QED BY <4>2, <5>1, <5>2
      <4> QED BY <4>1, <4>2
    <3>2. CASE i # m + 1
      <4>1. i \in 1 .. m /\ g[i] = f[i]
        BY <3>2
      <4>2. f[i] = IF i = 1 THEN seqs[i] ELSE f[i - 1] \o seqs[i]
        BY <2>1, <4>1
      <4>3. i # 1 => i - 1 \in 1 .. m + 1 /\ i - 1 # m + 1 /\ g[i - 1] = f[i - 1]
        BY <4>1
      <4> QED BY <4>1, <4>2, <4>3
    <3> QED BY <3>1, <3>2
  <2>3. Eq(g, m + 1)
    BY <2>2
  <2> HIDE DEF g, Eq
  <2> QED BY <2>3
<1> HIDE DEF T
<1>3. 0 .. n \subseteq T
  BY <1>1, <1>2, InductTo
<1>4. \E f : Eq(f, n)
  <2>1. n \in 0 .. n
    OBVIOUS
  <2>2. n \in T
    BY <1>3, <2>1
  <2> HIDE DEF Eq
  <2> QED BY <2>2 DEF T
<1> DEFINE F == CHOOSE f : Eq(f, n)
<1>5. Eq(F, n)
  <2> HIDE DEF Eq
  <2> QED BY <1>4
<1>6. FlattenSeq(seqs) = F[n]
  BY DEF FlattenSeq
<1> HIDE DEF F
<1> QED BY <1>5, <1>6


LEMMA NextOf ==
  ASSUME NEW i \in Nat, NEW m \in Nat
  PROVE  (i + (m + 1)) - 1 = i + m
  OBVIOUS

LEMMA ConcatIs ==
  ASSUME NEW S, NEW a \in Seq(S), NEW b \in Seq(S)
  PROVE  /\ a \o b \in Seq(S) /\ Len(a \o b) = Len(a) + Len(b)
         /\ \A i \in 1 .. Len(a) : i \in 1 .. Len(a \o b) /\ (a \o b)[i] = a[i]
         /\ \A j \in 1 .. Len(b) : /\ Len(a) + j \in 1 .. Len(a \o b)
                                   /\ (a \o b)[Len(a) + j] = b[j]
<1>1. \A i \in 1 .. Len(a) : i \in 1 .. Len(a \o b) /\ (a \o b)[i] = a[i]
  OBVIOUS
<1>2. \A j \in 1 .. Len(b) : Len(a) + j \in 1 .. Len(a \o b) /\ (a \o b)[Len(a) + j] = b[j]
  OBVIOUS
<1> QED BY <1>1, <1>2

(* Where the parts of the result lie.                                      *)
PartsAt(S, seqs, off) ==
  /\ off[1] = 0
  /\ FlattenSeq(seqs) \in Seq(S) /\ Len(FlattenSeq(seqs)) = off[Len(seqs) + 1]
  /\ \A k \in 1 .. Len(seqs) :
       /\ off[k + 1] = off[k] + Len(seqs[k])
       /\ \A j \in 1 .. Len(seqs[k]) :
            /\ off[k] + j \in 1 .. Len(FlattenSeq(seqs))
            /\ FlattenSeq(seqs)[off[k] + j] = seqs[k][j]

LEMMA Flattened ==
  ASSUME NEW S, NEW seqs \in Seq(Seq(S))
  PROVE  \E off \in [1 .. Len(seqs) + 1 -> Nat] : PartsAt(S, seqs, off)
<1> DEFINE n == Len(seqs)
<1>1. n \in Nat /\ seqs = [i \in 1 .. n |-> seqs[i]] /\ \A i \in 1 .. n : seqs[i] \in Seq(S)
  OBVIOUS
<1>2. CASE n = 0
  <2>1. seqs = <<>> /\ FlattenSeq(seqs) = seqs /\ FlattenSeq(seqs) \in Seq(S)
    BY <1>2 DEF FlattenSeq
  <2>2. [i \in 1 .. n + 1 |-> 0] \in [1 .. n + 1 -> Nat]
    OBVIOUS
  <2>3. [i \in 1 .. n + 1 |-> 0][1] = 0 /\ [i \in 1 .. n + 1 |-> 0][n + 1] = 0
    BY <1>2
  <2>4. \A k \in 1 .. n : FALSE
    BY <1>2
  <2>5. Len(FlattenSeq(seqs)) = 0
    BY <1>2, <2>1
  <2> DEFINE off == [i \in 1 .. n + 1 |-> 0]
  <2> HIDE DEF off
  <2>6. off \in [1 .. n + 1 -> Nat] /\ off[1] = 0 /\ off[n + 1] = 0
    BY <2>2, <2>3 DEF off
  <2> QED BY <2>1, <2>4, <2>5, <2>6 DEF PartsAt
<1>3. CASE n # 0
  <2>1. PICK f : /\ f = [i \in 1 .. n |-> IF i = 1 THEN seqs[i] ELSE f[i - 1] \o seqs[i]]
                 /\ FlattenSeq(seqs) = f[n]
    BY <1>1, <1>3, FlattenStep
  <2> DEFINE off == [k \in 1 .. n + 1 |-> IF k = 1 THEN 0 ELSE Len(f[k - 1])]
             So(k) == /\ f[k] \in Seq(S) /\ off[k + 1] = off[k] + Len(seqs[k])
                      /\ \A i \in 1 .. k : \A j \in 1 .. Len(seqs[i]) :
                           off[i] + j \in 1 .. Len(f[k]) /\ f[k][off[i] + j] = seqs[i][j]
             T == {k \in Nat : off[k + 1] \in Nat /\ (k # 0 => So(k))}
  <2>2. 0 \in T
    <3>1. off[1] = 0
      BY <1>1
    <3> HIDE DEF off
    <3> QED BY <3>1
  <2>3. ASSUME NEW k \in 0 .. n - 1, k \in T PROVE k + 1 \in T
    <3> DEFINE m == k + 1
    <3>1. m \in 1 .. n /\ m + 1 \in 1 .. n + 1 /\ m \in 1 .. n + 1 /\ m + 1 # 1 /\ (m + 1) - 1 = m
      BY <1>1
    <3>2. off[m + 1] = Len(f[m]) /\ off[m] \in Nat /\ seqs[m] \in Seq(S)
      BY <1>1, <2>3, <3>1
    <3>3. CASE k = 0
      <4>1. f[m] = seqs[m] /\ off[m] = 0
        BY <1>1, <2>1, <3>1, <3>3
      <4> HIDE DEF off
      <4>2. So(m)
        BY <3>2, <3>3, <4>1
      <4> QED BY <3>2, <4>1, <4>2, SMTT(30)
    <3>4. CASE k # 0
      <4>1. m - 1 = k /\ k \in 1 .. n /\ m # 1 /\ k + 1 = m
        BY <3>1, <3>4
      <4>2. f[m] = f[k] \o seqs[m] /\ off[m] = Len(f[k])
        BY <1>1, <2>1, <3>1, <4>1
      <4>3. f[k] \in Seq(S) /\ So(k)
        BY <2>3, <3>4
      <4> HIDE DEF off, n, m
      <4>4. /\ f[m] \in Seq(S) /\ Len(f[m]) = Len(f[k]) + Len(seqs[m])
            /\ \A i \in 1 .. Len(f[k]) : i \in 1 .. Len(f[m]) /\ f[m][i] = f[k][i]
            /\ \A j \in 1 .. Len(seqs[m]) :
                 Len(f[k]) + j \in 1 .. Len(f[m]) /\ f[m][Len(f[k]) + j] = seqs[m][j]
        <5> DEFINE a == f[k]
                   b == seqs[m]
        <5>1. a \in Seq(S) /\ b \in Seq(S) /\ f[m] = a \o b
          BY <3>2, <4>2, <4>3
        <5> HIDE DEF a, b
        <5>2. /\ a \o b \in Seq(S) /\ Len(a \o b) = Len(a) + Len(b)
              /\ \A i \in 1 .. Len(a) : i \in 1 .. Len(a \o b) /\ (a \o b)[i] = a[i]
              /\ \A j \in 1 .. Len(b) : /\ Len(a) + j \in 1 .. Len(a \o b)
                                        /\ (a \o b)[Len(a) + j] = b[j]
          BY <5>1, ConcatIs
        <5>3. /\ f[m] \in Seq(S) /\ Len(f[m]) = Len(a) + Len(b)
              /\ \A i \in 1 .. Len(a) : i \in 1 .. Len(f[m]) /\ f[m][i] = a[i]
              /\ \A j \in 1 .. Len(b) : Len(a) + j \in 1 .. Len(f[m]) /\ f[m][Len(a) + j] = b[j]
          BY <5>1, <5>2
        <5> QED BY <5>3 DEF a, b
      <4>5. ASSUME NEW i \in 1 .. m, NEW j \in 1 .. Len(seqs[i])
            PROVE  off[i] + j \in 1 .. Len(f[m]) /\ f[m][off[i] + j] = seqs[i][j]
        <5>1. CASE i = m
          BY <4>2, <4>4, <5>1
        <5>2. CASE i # m
          <6>1. i \in 1 .. k
            BY <5>2 DEF m
          <6>2. off[i] + j \in 1 .. Len(f[k]) /\ f[k][off[i] + j] = seqs[i][j]
            BY <4>3, <6>1
          <6> QED BY <4>4, <6>2
        <5> QED BY <5>1, <5>2
      <4>6. So(m)
        BY <3>2, <4>2, <4>4, <4>5
      <4>7. off[m + 1] \in Nat
        <5>1. Len(f[m]) \in Nat
          BY <4>4, LenProperties
        <5> QED BY <3>2, <5>1
      <4> HIDE DEF So
      <4> QED BY <4>6, <4>7 DEF m
    <3> QED BY <3>3, <3>4
  <2> HIDE DEF T
  <2>4. 0 .. n \subseteq T
    BY <1>1, <2>2, <2>3, InductTo
  <2>5. \A k \in 0 .. n : off[k + 1] \in Nat /\ (k # 0 => So(k))
    BY <2>4 DEF T
  <2>6. off \in [1 .. n + 1 -> Nat] /\ off[1] = 0
    <3>1. ASSUME NEW k \in 1 .. n + 1 PROVE off[k] \in Nat
      <4>1. k - 1 \in 0 .. n /\ (k - 1) + 1 = k
        BY <1>1
      <4> HIDE DEF off
      <4> QED BY <2>5, <4>1
    <3>2. off = [k \in 1 .. n + 1 |-> off[k]] /\ off[1] = 0
      BY <1>1
    <3> HIDE DEF off
    <3> QED BY <3>1, <3>2
  <2>7. off[n + 1] = Len(f[n])
    BY <1>1, <1>3
  <2> HIDE DEF off
  <2>8. So(n)
    <3>1. n \in 0 .. n
      BY <1>1
    <3> HIDE DEF So, n
    <3> QED BY <1>3, <2>5, <3>1
  <2>9. \A k \in 1 .. n : off[k + 1] = off[k] + Len(seqs[k])
    BY <2>5
  <2>10. FlattenSeq(seqs) \in Seq(S) /\ Len(FlattenSeq(seqs)) = off[n + 1]
    BY <2>1, <2>7, <2>8
  <2>11. \A k \in 1 .. n : \A j \in 1 .. Len(seqs[k]) :
            /\ off[k] + j \in 1 .. Len(FlattenSeq(seqs))
            /\ FlattenSeq(seqs)[off[k] + j] = seqs[k][j]
    BY <2>1, <2>8
  <2>12. PartsAt(S, seqs, off)
    BY <2>6, <2>9, <2>10, <2>11 DEF PartsAt
  <2> QED BY <2>6, <2>12
<1> QED BY <1>2, <1>3

-----------------------------------------------------------------------------
(* The recursive functions satisfy their equations.                        *)

(* Where the next function starts. *)
LEMMA EntriesStep ==
  ASSUME NEW program, NEW from, Len(program) \in Nat
  PROVE  Entries(program, from) = [i \in 1 .. Len(program) + 1 |->
                    IF i = 1 THEN from ELSE Entries(program, from)[i - 1] + Len(program[i - 1].body)]
<1> DEFINE Eq(f, m) == f = [i \in 1 .. m |-> IF i = 1 THEN from ELSE f[i - 1] + Len(program[i - 1].body)]
           T == {m \in Nat : \E f : Eq(f, m)}
<1> DEFINE last == Len(program) + 1
<1>0. last \in Nat
  OBVIOUS
<1>1. 0 \in T
  <2>1. Eq([i \in 1 .. 0 |-> from], 0)
    OBVIOUS
  <2> QED BY <2>1
<1>2. ASSUME NEW m \in 0 .. last - 1, m \in T PROVE m + 1 \in T
  <2>1. PICK f : Eq(f, m)
    BY <1>2
  <2> DEFINE g == [i \in 1 .. m + 1 |->
                     IF i = m + 1 THEN IF i = 1 THEN from ELSE f[i - 1] + Len(program[i - 1].body)
                     ELSE f[i]]
  <2>2. ASSUME NEW i \in 1 .. m + 1
        PROVE  g[i] = IF i = 1 THEN from ELSE g[i - 1] + Len(program[i - 1].body)
    <3>1. CASE i = m + 1
      <4>1. i # 1 => i - 1 \in 1 .. m + 1 /\ i - 1 # m + 1 /\ g[i - 1] = f[i - 1]
        BY <3>1
      <4>2. g[i] = IF i = 1 THEN from ELSE f[i - 1] + Len(program[i - 1].body)
        BY <3>1
      <4> HIDE DEF g
      <4> QED BY <4>1, <4>2
    <3>2. CASE i # m + 1
      <4>1. i \in 1 .. m /\ g[i] = f[i]
        BY <3>2
      <4>2. f[i] = IF i = 1 THEN from ELSE f[i - 1] + Len(program[i - 1].body)
        BY <2>1, <4>1
      <4>3. i # 1 => i - 1 \in 1 .. m + 1 /\ i - 1 # m + 1 /\ g[i - 1] = f[i - 1]
        BY <4>1
      <4> HIDE DEF g
      <4> QED BY <4>1, <4>2, <4>3
    <3> QED BY <3>1, <3>2
  <2>3. Eq(g, m + 1)
    BY <2>2
  <2> HIDE DEF g, Eq
  <2> QED BY <2>3
<1> HIDE DEF T
<1>3. 0 .. last \subseteq T
  <2> HIDE DEF last
  <2> QED BY <1>0, <1>1, <1>2, InductTo
<1>4. \E f : Eq(f, last)
  <2>1. last \in 0 .. last
    BY <1>0
  <2>2. last \in T
    BY <1>3, <2>1
  <2> HIDE DEF Eq
  <2> QED BY <2>2 DEF T
<1> DEFINE F == CHOOSE f : Eq(f, last)
<1>5. Eq(F, last)
  <2> HIDE DEF Eq
  <2> QED BY <1>4
<1>6. Entries(program, from) = F
  BY DEF Entries
<1> HIDE DEF F
<1> QED BY <1>5, <1>6

(* One line more. *)
LEMMA ReadLlvmStep ==
  ASSUME NEW lines, NEW base, Len(lines) \in Nat
  PROVE  ReadLlvm(lines, base) = [i \in 0 .. Len(lines) |->
                    IF i = 0 THEN Unread ELSE LlvmLine(lines, base, ReadLlvm(lines, base)[i - 1], i)]
<1> DEFINE Eq(f, m) == f = [i \in 0 .. m |-> IF i = 0 THEN Unread ELSE LlvmLine(lines, base, f[i - 1], i)]
           T == {m \in Nat : \E f : Eq(f, m)}
<1> DEFINE last == Len(lines)
<1>0. last \in Nat
  OBVIOUS
<1>1. 0 \in T
  <2>1. Eq([i \in 0 .. 0 |-> Unread], 0)
    OBVIOUS
  <2> QED BY <2>1
<1>2. ASSUME NEW m \in 0 .. last - 1, m \in T PROVE m + 1 \in T
  <2>1. PICK f : Eq(f, m)
    BY <1>2
  <2> DEFINE g == [i \in 0 .. m + 1 |->
                     IF i = m + 1 THEN IF i = 0 THEN Unread ELSE LlvmLine(lines, base, f[i - 1], i)
                     ELSE f[i]]
  <2>2. ASSUME NEW i \in 0 .. m + 1
        PROVE  g[i] = IF i = 0 THEN Unread ELSE LlvmLine(lines, base, g[i - 1], i)
    <3>1. CASE i = m + 1
      <4>1. i # 0 => i - 1 \in 0 .. m + 1 /\ i - 1 # m + 1 /\ g[i - 1] = f[i - 1]
        BY <3>1
      <4>2. g[i] = IF i = 0 THEN Unread ELSE LlvmLine(lines, base, f[i - 1], i)
        BY <3>1
      <4> HIDE DEF g
      <4> QED BY <4>1, <4>2
    <3>2. CASE i # m + 1
      <4>1. i \in 0 .. m /\ g[i] = f[i]
        BY <3>2
      <4>2. f[i] = IF i = 0 THEN Unread ELSE LlvmLine(lines, base, f[i - 1], i)
        BY <2>1, <4>1
      <4>3. i # 0 => i - 1 \in 0 .. m + 1 /\ i - 1 # m + 1 /\ g[i - 1] = f[i - 1]
        BY <4>1
      <4> HIDE DEF g
      <4> QED BY <4>1, <4>2, <4>3
    <3> QED BY <3>1, <3>2
  <2>3. Eq(g, m + 1)
    BY <2>2
  <2> HIDE DEF g, Eq
  <2> QED BY <2>3
<1> HIDE DEF T
<1>3. 0 .. last \subseteq T
  <2> HIDE DEF last
  <2> QED BY <1>0, <1>1, <1>2, InductTo
<1>4. \E f : Eq(f, last)
  <2>1. last \in 0 .. last
    BY <1>0
  <2>2. last \in T
    BY <1>3, <2>1
  <2> HIDE DEF Eq
  <2> QED BY <2>2 DEF T
<1> DEFINE F == CHOOSE f : Eq(f, last)
<1>5. Eq(F, last)
  <2> HIDE DEF Eq
  <2> QED BY <1>4
<1>6. ReadLlvm(lines, base) = F
  BY DEF ReadLlvm
<1> HIDE DEF F
<1> QED BY <1>5, <1>6

(* One line more. *)
LEMMA ReadChessStep ==
  ASSUME NEW lines, NEW base, Len(lines) \in Nat
  PROVE  ReadChess(lines, base) = [i \in 0 .. Len(lines) |->
                    IF i = 0 THEN Unread ELSE ChessLine(lines, base, ReadChess(lines, base)[i - 1], i)]
<1> DEFINE Eq(f, m) == f = [i \in 0 .. m |-> IF i = 0 THEN Unread ELSE ChessLine(lines, base, f[i - 1], i)]
           T == {m \in Nat : \E f : Eq(f, m)}
<1> DEFINE last == Len(lines)
<1>0. last \in Nat
  OBVIOUS
<1>1. 0 \in T
  <2>1. Eq([i \in 0 .. 0 |-> Unread], 0)
    OBVIOUS
  <2> QED BY <2>1
<1>2. ASSUME NEW m \in 0 .. last - 1, m \in T PROVE m + 1 \in T
  <2>1. PICK f : Eq(f, m)
    BY <1>2
  <2> DEFINE g == [i \in 0 .. m + 1 |->
                     IF i = m + 1 THEN IF i = 0 THEN Unread ELSE ChessLine(lines, base, f[i - 1], i)
                     ELSE f[i]]
  <2>2. ASSUME NEW i \in 0 .. m + 1
        PROVE  g[i] = IF i = 0 THEN Unread ELSE ChessLine(lines, base, g[i - 1], i)
    <3>1. CASE i = m + 1
      <4>1. i # 0 => i - 1 \in 0 .. m + 1 /\ i - 1 # m + 1 /\ g[i - 1] = f[i - 1]
        BY <3>1
      <4>2. g[i] = IF i = 0 THEN Unread ELSE ChessLine(lines, base, f[i - 1], i)
        BY <3>1
      <4> HIDE DEF g
      <4> QED BY <4>1, <4>2
    <3>2. CASE i # m + 1
      <4>1. i \in 0 .. m /\ g[i] = f[i]
        BY <3>2
      <4>2. f[i] = IF i = 0 THEN Unread ELSE ChessLine(lines, base, f[i - 1], i)
        BY <2>1, <4>1
      <4>3. i # 0 => i - 1 \in 0 .. m + 1 /\ i - 1 # m + 1 /\ g[i - 1] = f[i - 1]
        BY <4>1
      <4> HIDE DEF g
      <4> QED BY <4>1, <4>2, <4>3
    <3> QED BY <3>1, <3>2
  <2>3. Eq(g, m + 1)
    BY <2>2
  <2> HIDE DEF g, Eq
  <2> QED BY <2>3
<1> HIDE DEF T
<1>3. 0 .. last \subseteq T
  <2> HIDE DEF last
  <2> QED BY <1>0, <1>1, <1>2, InductTo
<1>4. \E f : Eq(f, last)
  <2>1. last \in 0 .. last
    BY <1>0
  <2>2. last \in T
    BY <1>3, <2>1
  <2> HIDE DEF Eq
  <2> QED BY <2>2 DEF T
<1> DEFINE F == CHOOSE f : Eq(f, last)
<1>5. Eq(F, last)
  <2> HIDE DEF Eq
  <2> QED BY <1>4
<1>6. ReadChess(lines, base) = F
  BY DEF ReadChess
<1> HIDE DEF F
<1> QED BY <1>5, <1>6

-----------------------------------------------------------------------------
LEMMA SeqDomain ==
  ASSUME NEW S, NEW s \in Seq(S)
  PROVE  Len(s) \in Nat /\ DOMAIN s = 1 .. Len(s) /\ (s # <<>> => Len(s) # 0)
  OBVIOUS

(* The functions of a program, and what their names cannot be.             *)
LEMMA ProgramFacts ==
  ASSUME NEW program, IsProgram(program)
  PROVE  /\ Len(program) \in Nat /\ DOMAIN program = 1 .. Len(program)
         /\ \A k \in 1 .. Len(program) :
              LET f == program[k]
              IN  /\ f.body \in Seq(SUBSET Ops) /\ Len(f.body) \in Nat \ {0}
                  /\ DOMAIN f.body = 1 .. Len(f.body)
                  /\ f.name # NoName /\ Demangle(f.name) # NoName
                  /\ f.name[1] # "main_init" /\ f.tail \in BOOLEAN
<1>1. Len(program) \in Nat /\ DOMAIN program = 1 .. Len(program)
  <2>1. program \in Seq(Range(program))
    BY DEF IsProgram
  <2> QED BY <2>1, SeqDomain
<1>2. ASSUME NEW k \in 1 .. Len(program)
      PROVE  LET f == program[k]
             IN  /\ f.body \in Seq(SUBSET Ops) /\ Len(f.body) \in Nat \ {0}
                 /\ DOMAIN f.body = 1 .. Len(f.body)
                 /\ f.name # NoName /\ Demangle(f.name) # NoName
                 /\ f.name[1] # "main_init" /\ f.tail \in BOOLEAN
  <2> DEFINE f == program[k]
  <2>1. /\ f.name[1] \notin {"", "main_init"} /\ f.tail \in BOOLEAN
        /\ f.body \in Seq(SUBSET Ops) /\ f.body # <<>>
    BY <1>1 DEF IsProgram
  <2> HIDE DEF f
  <2>2. Len(f.body) \in Nat \ {0} /\ DOMAIN f.body = 1 .. Len(f.body)
    BY <2>1, SeqDomain
  <2>3. f.name # NoName /\ Demangle(f.name) # NoName
    <3>1. NoName[1] = "" /\ Demangle(f.name)[1] = f.name[1]
      BY DEF NoName, Demangle
    <3>2. f.name[1] # ""
      BY <2>1
    <3> QED BY <3>1, <3>2
  <2> QED BY <2>1, <2>2, <2>3 DEF f
<1> QED BY <1>1, <1>2

(* The functions of an ELF follow one another without overlapping.         *)
LEMMA EntriesAre ==
  ASSUME NEW program, IsProgram(program), NEW from \in Nat
  PROVE  /\ \A k \in 1 .. Len(program) + 1 : FirstPc(program, k, from) \in Nat
         /\ \A k \in 1 .. Len(program) + 1 : FirstPc(program, k, from) >= from
         /\ \A k \in 1 .. Len(program) :
              FirstPc(program, k + 1, from) = FirstPc(program, k, from) + Len(program[k].body)
         /\ \A j, k \in 1 .. Len(program) :
              j < k => FirstPc(program, j, from) < FirstPc(program, k, from)
<1> DEFINE n == Len(program)
           pc(k) == FirstPc(program, k, from)
           len(k) == Len(program[k].body)
<1>1. n \in Nat /\ \A k \in 1 .. n : len(k) \in Nat \ {0}
  BY ProgramFacts
<1>2. /\ pc(1) = from
      /\ \A k \in 1 .. n : pc(k + 1) = pc(k) + len(k)
  <2>1. Entries(program, from) = [i \in 1 .. Len(program) + 1 |->
          IF i = 1 THEN from ELSE Entries(program, from)[i - 1] + Len(program[i - 1].body)]
    BY <1>1, EntriesStep
  <2>2. pc(1) = from
    BY <1>1, <2>1 DEF FirstPc
  <2>3. ASSUME NEW k \in 1 .. n PROVE pc(k + 1) = pc(k) + len(k)
    <3>1. k + 1 \in 1 .. Len(program) + 1 /\ k + 1 # 1 /\ (k + 1) - 1 = k
      BY <1>1
    <3>2. Entries(program, from)[k + 1] =
            Entries(program, from)[(k + 1) - 1] + Len(program[(k + 1) - 1].body)
      BY <2>1, <3>1
    <3> QED BY <3>1, <3>2 DEF FirstPc
  <2> QED BY <2>2, <2>3
<1> HIDE DEF n, pc, len
<1> DEFINE T == {k \in Nat : /\ pc(k + 1) \in Nat /\ pc(k + 1) >= from
                             /\ \A j \in 1 .. k : pc(j) \in Nat /\ pc(j) < pc(k + 1)}
<1>3. 0 \in T
  BY <1>2
<1>4. ASSUME NEW k \in 0 .. n - 1, k \in T PROVE k + 1 \in T
  <2> DEFINE m == k + 1
  <2>1. m \in 1 .. n /\ m \in Nat
    BY <1>1
  <2>2. /\ pc(m) \in Nat /\ pc(m) >= from
        /\ \A j \in 1 .. k : pc(j) \in Nat /\ pc(j) < pc(m)
    BY <1>4
  <2>3. pc(m + 1) = pc(m) + len(m) /\ len(m) \in Nat \ {0}
    BY <1>1, <1>2, <2>1
  <2>4. ASSUME NEW j \in 1 .. m PROVE pc(j) \in Nat /\ pc(j) < pc(m + 1)
    <3>1. CASE j = m
      BY <2>2, <2>3, <3>1
    <3>2. CASE j # m
      <4>1. j \in 1 .. k
        BY <2>1, <3>2
      <4>2. pc(j) \in Nat /\ pc(j) < pc(m)
        BY <2>2, <4>1
      <4> QED BY <2>2, <2>3, <4>2
    <3> QED BY <3>1, <3>2
  <2>5. pc(m + 1) \in Nat /\ pc(m + 1) >= from
    BY <2>2, <2>3
  <2> QED BY <2>1, <2>4, <2>5
<1> HIDE DEF T
<1>5. 0 .. n \subseteq T
  BY <1>1, <1>3, <1>4, InductTo
<1>6. \A k \in 0 .. n : /\ pc(k + 1) \in Nat /\ pc(k + 1) >= from
                        /\ \A j \in 1 .. k : pc(j) \in Nat /\ pc(j) < pc(k + 1)
  BY <1>5 DEF T
<1>7. ASSUME NEW k \in 1 .. n + 1
      PROVE  pc(k) \in Nat /\ pc(k) >= from /\ \A j \in 1 .. k - 1 : pc(j) < pc(k)
  <2>1. k - 1 \in 0 .. n /\ (k - 1) + 1 = k
    BY <1>1
  <2> QED BY <1>6, <2>1
<1>8. \A j, k \in 1 .. n : j < k => pc(j) < pc(k)
  <2> SUFFICES ASSUME NEW j \in 1 .. n, NEW k \in 1 .. n, j < k PROVE pc(j) < pc(k)
    OBVIOUS
  <2>1. j \in 1 .. k - 1 /\ k \in 1 .. n + 1
    BY <1>1
  <2> QED BY <1>7, <2>1
<1> QED BY <1>2, <1>7, <1>8 DEF n, pc, len

-----------------------------------------------------------------------------
(* The instructions of a function in a listing.                            *)
LEMMA InstructionsAre ==
  ASSUME NEW program, IsProgram(program), NEW from \in Nat, NEW k \in 1 .. Len(program)
  PROVE  LET insns == Instructions(program, k, from)
             f == program[k]
         IN  /\ insns = [i \in 1 .. Len(f.body) |-> insns[i]]
             /\ DOMAIN insns = 1 .. Len(f.body) /\ Len(insns) = Len(f.body)
             /\ \A i \in 1 .. Len(f.body) :
                  /\ insns[i].kind = "insn" /\ insns[i].ops = f.body[i]
                  /\ insns[i].pc = FirstPc(program, k, from) + i - 1
<1> DEFINE insns == Instructions(program, k, from)
           f == program[k]
           L == Len(f.body)
           line(i) == Line("insn", FirstPc(program, k, from) + i - 1, f.body[i], NoName)
           to(i) == IF i \in DOMAIN f.calls THEN FirstPc(program, f.calls[i], from) ELSE 0
<1>1. DOMAIN f.body = 1 .. L /\ L \in Nat
  BY ProgramFacts
<1>2. insns = [i \in DOMAIN f.body |-> [line(i) EXCEPT !.to = to(i)]]
  BY DEF Instructions
<1> HIDE DEF insns, L
<1>3. \A i \in 1 .. L : insns[i] = [line(i) EXCEPT !.to = to(i)]
  BY <1>1, <1>2
<1>4. \A i \in 1 .. L : /\ line(i).kind = "insn" /\ line(i).ops = f.body[i]
                        /\ line(i).pc = FirstPc(program, k, from) + i - 1
  BY DEF Line
<1>5. \A i \in 1 .. L : /\ insns[i].kind = line(i).kind /\ insns[i].ops = line(i).ops
                        /\ insns[i].pc = line(i).pc
  <2> SUFFICES ASSUME NEW i \in 1 .. L
               PROVE  /\ insns[i].kind = line(i).kind /\ insns[i].ops = line(i).ops
                      /\ insns[i].pc = line(i).pc
    OBVIOUS
  <2>1. insns[i] = [line(i) EXCEPT !.to = to(i)]
    BY <1>3
  <2> HIDE DEF to
  <2> QED BY <2>1 DEF Line
<1>6. insns = [i \in 1 .. L |-> insns[i]] /\ DOMAIN insns = 1 .. L
  BY <1>1, <1>2
<1>7. Len(insns) = L
  BY <1>1, <1>6
<1> QED BY <1>4, <1>5, <1>6, <1>7 DEF insns, L

(* Where the lines of the functions lie in an LLVM listing.                *)
LlvmLaidOut(program, from, lines, off) ==
  /\ off[1] = 0 /\ Len(lines) = off[Len(program) + 1]
  /\ DOMAIN lines = 1 .. Len(lines)
  /\ \A k \in 1 .. Len(program) :
       LET f == program[k]
       IN  /\ off[k + 1] = off[k] + 2 + Len(f.body)
           /\ off[k] + 1 \in 1 .. Len(lines) /\ off[k] + 2 \in 1 .. Len(lines)
           /\ lines[off[k] + 1] = Mark("blank")
           /\ lines[off[k] + 2] = Line("label", FirstPc(program, k, from), {}, f.name)
           /\ \A m \in 1 .. Len(f.body) :
                LET line == lines[off[k] + 2 + m]
                IN  /\ off[k] + 2 + m \in 1 .. Len(lines)
                    /\ line.kind = "insn" /\ line.ops = f.body[m]
                    /\ line.pc = FirstPc(program, k, from) + m - 1

LEMMA LlvmListing ==
  ASSUME NEW program, IsProgram(program), NEW from \in Nat
  PROVE  \E off \in [1 .. Len(program) + 1 -> Nat] :
           LlvmLaidOut(program, from, Disassemble(TRUE, program, from), off)
<1> DEFINE n == Len(program)
           insns(k) == Instructions(program, k, from)
           L(k) == Len(program[k].body)
           head(k) == <<Mark("blank"), Line("label", insns(k)[1].pc, {}, program[k].name)>>
           S == UNION {{head(k)[1], head(k)[2]} \cup {insns(k)[i] : i \in 1 .. L(k)} : k \in 1 .. n}
           parts == [k \in 1 .. n |-> head(k) \o insns(k)]
<1>1. n \in Nat /\ DOMAIN program = 1 .. n /\ \A k \in 1 .. n : L(k) \in Nat \ {0}
  BY ProgramFacts
<1>2. \A k \in 1 .. n : /\ insns(k) = [i \in 1 .. L(k) |-> insns(k)[i]]
                        /\ \A i \in 1 .. L(k) :
                             /\ insns(k)[i].kind = "insn" /\ insns(k)[i].ops = program[k].body[i]
                             /\ insns(k)[i].pc = FirstPc(program, k, from) + i - 1
  BY InstructionsAre
<1>3. Disassemble(TRUE, program, from) = FlattenSeq(parts)
  BY <1>1 DEF Disassemble, LlvmFunction
<1>4. ASSUME NEW k \in 1 .. n
      PROVE  /\ head(k) \o insns(k) \in Seq(S) /\ Len(head(k) \o insns(k)) = 2 + L(k)
             /\ (head(k) \o insns(k))[1] = Mark("blank")
             /\ (head(k) \o insns(k))[2] = Line("label", FirstPc(program, k, from), {}, program[k].name)
             /\ \A m \in 1 .. L(k) : (head(k) \o insns(k))[2 + m] = insns(k)[m]
  <2> DEFINE a == head(k)
             b == insns(k)
  <2>1. a \in Seq(S) /\ Len(a) = 2 /\ a[1] = Mark("blank")
    OBVIOUS
  <2>2. a[2] = Line("label", FirstPc(program, k, from), {}, program[k].name)
    <3>1. FirstPc(program, k, from) \in Nat /\ 1 \in 1 .. L(k)
      BY <1>1, EntriesAre, SMTT(30)
    <3>2. insns(k)[1].pc = FirstPc(program, k, from) + 1 - 1
      BY <1>2, <3>1
    <3>3. insns(k)[1].pc = FirstPc(program, k, from)
      BY <3>1, <3>2
    <3> HIDE DEF insns
    <3> QED BY <3>3
  <2>3. b \in Seq(S) /\ Len(b) = L(k)
    <3>1. b = [i \in 1 .. L(k) |-> b[i]] /\ L(k) \in Nat
      BY <1>1, <1>2
    <3>2. \A i \in 1 .. L(k) : b[i] \in S
      OBVIOUS
    <3> HIDE DEF b, S, L
    <3> QED BY <3>1, <3>2
  <2> HIDE DEF a, b, S
  <2>4. /\ a \o b \in Seq(S) /\ Len(a \o b) = 2 + L(k)
        /\ \A i \in 1 .. 2 : (a \o b)[i] = a[i]
        /\ \A m \in 1 .. L(k) : (a \o b)[2 + m] = b[m]
    <3>1. /\ a \o b \in Seq(S) /\ Len(a \o b) = Len(a) + Len(b)
          /\ \A i \in 1 .. Len(a) : (a \o b)[i] = a[i]
          /\ \A j \in 1 .. Len(b) : (a \o b)[Len(a) + j] = b[j]
      <4>1. a \in Seq(S) /\ b \in Seq(S)
        BY <2>1, <2>3
      <4> QED BY <4>1, ConcatIs
    <3>2. Len(a) = 2 /\ Len(b) = L(k)
      BY <2>1, <2>3
    <3> QED BY <3>1, <3>2
  <2>5. (a \o b)[1] = a[1] /\ (a \o b)[2] = a[2]
    BY <2>4
  <2> QED BY <2>1, <2>2, <2>4, <2>5 DEF a, b
<1> HIDE DEF head, insns, L, S, n
<1>5. parts \in Seq(Seq(S)) /\ Len(parts) = n /\ \A k \in 1 .. n : parts[k] = head(k) \o insns(k)
  BY <1>1, <1>4
<1> HIDE DEF parts
<1>6. PICK off \in [1 .. Len(parts) + 1 -> Nat] : PartsAt(S, parts, off)
  <2>1. parts \in Seq(Seq(S))
    BY <1>5
  <2> QED BY <2>1, Flattened
<1> DEFINE lines == FlattenSeq(parts)
<1> HIDE DEF lines
<1>7. ASSUME NEW k \in 1 .. n
      PROVE  /\ off[k + 1] = off[k] + 2 + L(k)
             /\ off[k] + 1 \in 1 .. Len(lines) /\ off[k] + 2 \in 1 .. Len(lines)
             /\ lines[off[k] + 1] = Mark("blank")
             /\ lines[off[k] + 2] = Line("label", FirstPc(program, k, from), {}, program[k].name)
             /\ \A m \in 1 .. L(k) : /\ off[k] + 2 + m \in 1 .. Len(lines)
                                     /\ lines[off[k] + 2 + m] = insns(k)[m]
  <2>0. k \in 1 .. Len(parts) /\ k \in 1 .. Len(parts) + 1 /\ k \in Nat
    BY <1>1, <1>5
  <2>1. Len(parts[k]) = 2 + L(k) /\ L(k) \in Nat
    BY <1>1, <1>4, <1>5
  <2>2. off[k] \in Nat
    BY <2>0
  <2>3. /\ off[k + 1] = off[k] + Len(parts[k])
        /\ \A j \in 1 .. Len(parts[k]) :
             off[k] + j \in 1 .. Len(lines) /\ lines[off[k] + j] = parts[k][j]
    BY <1>6, <2>0 DEF lines, PartsAt
  <2>4. off[k + 1] = off[k] + 2 + L(k)
    <3>1. off[k + 1] = off[k] + (2 + L(k))
      BY <2>1, <2>3
    <3>2. off[k] + (2 + L(k)) = off[k] + 2 + L(k)
      BY <2>1, <2>2
    <3> QED BY <3>1, <3>2
  <2>5. 1 \in 1 .. Len(parts[k]) /\ 2 \in 1 .. Len(parts[k])
    BY <2>1
  <2>6. ASSUME NEW m \in 1 .. L(k)
        PROVE  off[k] + 2 + m \in 1 .. Len(lines) /\ lines[off[k] + 2 + m] = insns(k)[m]
    <3>1. 2 + m \in 1 .. Len(parts[k]) /\ off[k] + (2 + m) = off[k] + 2 + m
      BY <2>1, <2>2
    <3>2. parts[k][2 + m] = insns(k)[m]
      BY <1>4, <1>5
    <3> QED BY <2>3, <3>1, <3>2
  <2>7. /\ parts[k][1] = Mark("blank")
        /\ parts[k][2] = Line("label", FirstPc(program, k, from), {}, program[k].name)
    BY <1>4, <1>5
  <2>8. /\ off[k] + 1 \in 1 .. Len(lines) /\ off[k] + 2 \in 1 .. Len(lines)
        /\ lines[off[k] + 1] = parts[k][1] /\ lines[off[k] + 2] = parts[k][2]
    BY <2>3, <2>5
  <2> QED BY <2>4, <2>6, <2>7, <2>8
<1>8. DOMAIN lines = 1 .. Len(lines) /\ Len(lines) = off[n + 1] /\ off \in [1 .. n + 1 -> Nat]
  BY <1>5, <1>6, SeqDomain DEF lines, PartsAt
<1>9. LlvmLaidOut(program, from, lines, off)
  <2>1. off[1] = 0
    BY <1>6 DEF PartsAt
  <2>2. ASSUME NEW k \in 1 .. n, NEW m \in 1 .. L(k)
        PROVE  LET line == lines[off[k] + 2 + m]
               IN  /\ off[k] + 2 + m \in 1 .. Len(lines)
                   /\ line.kind = "insn" /\ line.ops = program[k].body[m]
                   /\ line.pc = FirstPc(program, k, from) + m - 1
    <3>1. off[k] + 2 + m \in 1 .. Len(lines) /\ lines[off[k] + 2 + m] = insns(k)[m]
      BY <1>7
    <3>2. /\ insns(k)[m].kind = "insn" /\ insns(k)[m].ops = program[k].body[m]
          /\ insns(k)[m].pc = FirstPc(program, k, from) + m - 1
      BY <1>2
    <3> QED BY <3>1, <3>2
  <2> QED BY <1>7, <1>8, <2>1, <2>2 DEF LlvmLaidOut, L, n
<1> QED BY <1>3, <1>8, <1>9 DEF lines, n

-----------------------------------------------------------------------------
(* What is known of a function after m of its instructions.                *)

UpTo(X, m) == {n \in X : n <= m}

LEMMA UpToHit ==
  ASSUME NEW X \in SUBSET Nat, NEW m \in Nat, m + 1 \in X
  PROVE  UpTo(X, m + 1) # {} /\ Max(UpTo(X, m + 1)) = m + 1
<1> DEFINE S == UpTo(X, m + 1)
<1>1. m + 1 \in S
  BY DEF UpTo
<1>2. \A x \in S : x \in Nat /\ x <= m + 1
  BY DEF UpTo
<1> HIDE DEF S
<1>3. S \in SUBSET (0 .. m + 1) /\ m + 1 \in Nat
  BY <1>2
<1>4. Max(S) \in S /\ Max(S) >= m + 1
  BY <1>1, <1>3, MaxIs
<1>5. Max(S) \in Nat /\ Max(S) <= m + 1
  BY <1>2, <1>4
<1>6. Max(S) = m + 1
  BY <1>4, <1>5
<1> QED BY <1>1, <1>6 DEF S

LEMMA UpToMiss ==
  ASSUME NEW X \in SUBSET Nat, NEW m \in Nat, m + 1 \notin X
  PROVE  UpTo(X, m + 1) = UpTo(X, m)
<1>1. \A x \in X : x <= m + 1 <=> x <= m
  OBVIOUS
<1> QED BY <1>1 DEF UpTo

LEMMA UpToEnds ==
  ASSUME NEW n \in Nat, NEW X \in SUBSET (1 .. n)
  PROVE  UpTo(X, n) = X /\ UpTo(X, 0) = {}
<1>1. \A x \in X : x \in Nat /\ x <= n /\ ~(x <= 0)
  OBVIOUS
<1> QED BY <1>1 DEF UpTo

LEMMA WithIs ==
  ASSUME NEW program, IsProgram(program), NEW k \in 1 .. Len(program), NEW op
  PROVE  /\ With(program[k], op) \in SUBSET (1 .. Len(program[k].body))
         /\ With(program[k], op) \in SUBSET Nat /\ Len(program[k].body) \in Nat
         /\ UpTo(With(program[k], op), Len(program[k].body)) = With(program[k], op)
         /\ UpTo(With(program[k], op), 0) = {}
         /\ \A m \in 1 .. Len(program[k].body) :
              m \in With(program[k], op) <=> op \in program[k].body[m]
<1> DEFINE X == With(program[k], op)
           n == Len(program[k].body)
<1>1. n \in Nat /\ DOMAIN program[k].body = 1 .. n
  BY ProgramFacts
<1>2. /\ X \in SUBSET (1 .. n) /\ X \in SUBSET Nat
      /\ \A m \in 1 .. n : m \in X <=> op \in program[k].body[m]
  BY <1>1 DEF With
<1>3. UpTo(X, n) = X /\ UpTo(X, 0) = {}
  <2> HIDE DEF X, n
  <2> QED BY <1>1, <1>2, UpToEnds
<1> QED BY <1>1, <1>2, <1>3

Releases(peano, f) == {n \in With(f, "rel") : peano \/ n \notin With(f, "nobp")}

(* No release is forbidden to break on, belongs to a tail call's jump, or  *)
(* comes with a return or after one.                                       *)
Tidy(f) == /\ With(f, "nobp") = {} /\ ~(f.tail /\ Len(f.body) \in With(f, "rel"))
           /\ \A r \in With(f, "rel"), t \in With(f, "ret") : r < t

ReleaseSo(peano, f, pc, m, release) ==
  /\ release # 0 => \E n \in UpTo(Releases(peano, f), m) : release = pc - 1 + n
  /\ Tidy(f) => LET X == UpTo(With(f, "rel"), m)
                IN  release = IF X = {} THEN 0 ELSE pc - 1 + Max(X)

LEMMA ReleaseNone ==
  ASSUME NEW program, IsProgram(program), NEW k \in 1 .. Len(program), NEW peano, NEW pc
  PROVE  ReleaseSo(peano, program[k], pc, 0, 0)
<1>1. UpTo(With(program[k], "rel"), 0) = {}
  BY WithIs
<1> QED BY <1>1 DEF ReleaseSo

LEMMA ReleaseKept ==
  ASSUME NEW program, IsProgram(program), NEW k \in 1 .. Len(program), NEW peano, NEW pc,
         NEW m \in Nat, NEW release, ReleaseSo(peano, program[k], pc, m, release),
         Tidy(program[k]) => m + 1 \notin With(program[k], "rel")
  PROVE  ReleaseSo(peano, program[k], pc, m + 1, release)
<1> DEFINE X == With(program[k], "rel")
           f == program[k]
<1>1. X \in SUBSET Nat
  BY WithIs
<1>2. UpTo(Releases(peano, f), m) \subseteq UpTo(Releases(peano, f), m + 1)
  BY <1>1 DEF UpTo, Releases
<1>3. Tidy(f) => UpTo(X, m + 1) = UpTo(X, m)
  <2> HIDE DEF X
  <2>1. m + 1 \notin X => UpTo(X, m + 1) = UpTo(X, m)
    BY <1>1, UpToMiss
  <2> QED BY <2>1 DEF X
<1> HIDE DEF X, f
<1> QED BY <1>2, <1>3 DEF ReleaseSo, X, f

LEMMA ReleaseSet ==
  ASSUME NEW program, IsProgram(program), NEW k \in 1 .. Len(program), NEW peano, NEW pc \in Nat,
         NEW m \in Nat, m + 1 \in Releases(peano, program[k])
  PROVE  ReleaseSo(peano, program[k], pc, m + 1, pc + m)
<1> DEFINE X == With(program[k], "rel")
           f == program[k]
<1>1. X \in SUBSET Nat /\ m + 1 \in X
  BY WithIs DEF Releases
<1>2. UpTo(X, m + 1) # {} /\ Max(UpTo(X, m + 1)) = m + 1
  BY <1>1, UpToHit
<1>3. m + 1 \in UpTo(Releases(peano, f), m + 1) /\ pc + m = pc - 1 + (m + 1)
  BY DEF UpTo
<1> HIDE DEF X, f
<1> QED BY <1>2, <1>3 DEF ReleaseSo, X, f

(* The last acquire of main that has been read.                            *)
AcquireSo(base, program, from, k, m, acquire) ==
  base => \A q \in 1 .. k : program[q].name = Main =>
    LET X == IF q < k THEN With(program[q], "acq") ELSE UpTo(With(program[q], "acq"), m)
    IN  X # {} => acquire = FirstPc(program, q, from) - 1 + Max(X)

LEMMA AcquireNone ==
  ASSUME NEW program, IsProgram(program), NEW from, NEW base, NEW acquire, Len(program) # 0
  PROVE  AcquireSo(base, program, from, 1, 0, acquire)
<1>1. 1 \in 1 .. Len(program)
  BY ProgramFacts
<1>2. UpTo(With(program[1], "acq"), 0) = {}
  BY <1>1, WithIs
<1>3. \A q \in 1 .. 1 : q = 1 /\ ~(q < 1)
  OBVIOUS
<1> QED BY <1>2, <1>3 DEF AcquireSo

LEMMA AcquireKept ==
  ASSUME NEW program, IsProgram(program), NEW from, NEW base, NEW acquire,
         NEW k \in 1 .. Len(program), NEW m \in Nat,
         AcquireSo(base, program, from, k, m, acquire),
         ~(base /\ program[k].name = Main /\ m + 1 \in With(program[k], "acq"))
  PROVE  AcquireSo(base, program, from, k, m + 1, acquire)
<1> SUFFICES ASSUME base, NEW q \in 1 .. k, program[q].name = Main
             PROVE  LET X == IF q < k THEN With(program[q], "acq")
                             ELSE UpTo(With(program[q], "acq"), m + 1)
                    IN  X # {} => acquire = FirstPc(program, q, from) - 1 + Max(X)
  BY DEF AcquireSo
<1>1. CASE q < k
  BY <1>1 DEF AcquireSo
<1>2. CASE ~(q < k)
  <2>1. q = k
    BY <1>2
  <2>2. m + 1 \notin With(program[q], "acq")
    BY <2>1
  <2>3. UpTo(With(program[q], "acq"), m + 1) = UpTo(With(program[q], "acq"), m)
    <3>1. With(program[q], "acq") \in SUBSET Nat
      BY <2>1, WithIs
    <3> QED BY <2>2, <3>1, UpToMiss
  <2> QED BY <1>2, <2>3 DEF AcquireSo
<1> QED BY <1>1, <1>2

LEMMA AcquireSet ==
  ASSUME NEW program, IsProgram(program), MainReturns(program), NEW from \in Nat, NEW base,
         NEW k \in 1 .. Len(program), NEW m \in Nat, program[k].name = Main,
         m + 1 \in With(program[k], "acq")
  PROVE  AcquireSo(base, program, from, k, m + 1, FirstPc(program, k, from) + m)
<1> SUFFICES ASSUME NEW q \in 1 .. k, program[q].name = Main
             PROVE  LET X == IF q < k THEN With(program[q], "acq")
                             ELSE UpTo(With(program[q], "acq"), m + 1)
                    IN  X # {} => FirstPc(program, k, from) + m
                                    = FirstPc(program, q, from) - 1 + Max(X)
  BY DEF AcquireSo
<1>1. q \in 1 .. Len(program) /\ k \in DOMAIN program /\ q \in DOMAIN program
  BY ProgramFacts
<1>2. program[k].name[1] = "main"
  <2>1. Main[1] = "main"
    BY DEF Main
  <2> QED BY <2>1
<1>3. q = k
  BY <1>1, <1>2 DEF MainReturns
<1>4. Max(UpTo(With(program[k], "acq"), m + 1)) = m + 1
  <2>1. With(program[k], "acq") \in SUBSET Nat
    BY WithIs
  <2> QED BY <2>1, UpToHit
<1>5. FirstPc(program, k, from) \in Nat
  <2>1. k \in 1 .. Len(program) + 1
    BY ProgramFacts
  <2> QED BY <2>1, EntriesAre
<1> QED BY <1>3, <1>4, <1>5

LEMMA AcquireNext ==
  ASSUME NEW program, IsProgram(program), NEW from, NEW base, NEW acquire,
         NEW k \in 1 .. Len(program), k + 1 \in 1 .. Len(program),
         AcquireSo(base, program, from, k, Len(program[k].body), acquire)
  PROVE  AcquireSo(base, program, from, k + 1, 0, acquire)
<1> SUFFICES ASSUME base, NEW q \in 1 .. k + 1, program[q].name = Main
             PROVE  LET X == IF q < k + 1 THEN With(program[q], "acq")
                             ELSE UpTo(With(program[q], "acq"), 0)
                    IN  X # {} => acquire = FirstPc(program, q, from) - 1 + Max(X)
  BY DEF AcquireSo
<1>1. q \in 1 .. Len(program) /\ k \in Nat
  BY ProgramFacts
<1>2. UpTo(With(program[q], "acq"), Len(program[q].body)) = With(program[q], "acq")
  BY <1>1, WithIs
<1>3. UpTo(With(program[q], "acq"), 0) = {}
  BY <1>1, WithIs
<1>4. q \in 1 .. k =>
        LET X == IF q < k THEN With(program[q], "acq")
                 ELSE UpTo(With(program[q], "acq"), Len(program[k].body))
        IN  X # {} => acquire = FirstPc(program, q, from) - 1 + Max(X)
  BY DEF AcquireSo
<1>5. CASE q < k
  <2>1. q \in 1 .. k /\ q < k + 1
    BY <1>1, <1>5
  <2> QED BY <1>4, <1>5, <2>1
<1>6. CASE q = k
  <2>1. q \in 1 .. k /\ q < k + 1 /\ ~(q < k)
    BY <1>1, <1>6
  <2> QED BY <1>2, <1>4, <1>6, <2>1
<1>7. CASE q = k + 1
  <2>1. ~(q < k + 1)
    BY <1>1, <1>7
  <2> QED BY <1>3, <2>1
<1> QED BY <1>1, <1>5, <1>6, <1>7

-----------------------------------------------------------------------------
(* The state of a scan.                                                    *)

Names(program) == {program[k].name : k \in 1 .. Len(program)}
                    \cup {Demangle(program[k].name) : k \in 1 .. Len(program)}

FoundOf(program) ==
  [name : Names(program), start : Nat, end : Nat, release : Nat, tail : BOOLEAN]

ScanType(program) ==
  [done : Seq(FoundOf(program)), open : FoundOf(program) \cup {NoFunction},
   acquire : Nat, at : Nat]

LEMMA AppendIs ==
  ASSUME NEW S, NEW s \in Seq(S), NEW x \in S
  PROVE  /\ Append(s, x) \in Seq(S) /\ Len(Append(s, x)) = Len(s) + 1 /\ Len(s) \in Nat
         /\ \A j \in 1 .. Len(s) : Append(s, x)[j] = s[j]
         /\ Append(s, x)[Len(s) + 1] = x
  OBVIOUS

(* The open function of s is done in c.                                    *)
Closed(program, s, c, end) ==
  LET n == Len(s.done)
  IN  /\ c \in ScanType(program) /\ n \in Nat
      /\ c.open = NoFunction /\ c.acquire = s.acquire /\ c.at = s.at
      /\ Len(c.done) = n + 1 /\ \A j \in 1 .. n : c.done[j] = s.done[j]
      /\ c.done[n + 1].name = s.open.name /\ c.done[n + 1].start = s.open.start
      /\ c.done[n + 1].release = s.open.release /\ c.done[n + 1].end = end

LEMMA CloseIs ==
  ASSUME NEW program, NEW s \in ScanType(program), s.open \in FoundOf(program),
         NEW end \in Nat, NEW tail \in BOOLEAN
  PROVE  Closed(program, s, Close(s, end, tail), end)
<1> DEFINE x == [s.open EXCEPT !.end = end, !.tail = tail]
           c == Close(s, end, tail)
           n == Len(s.done)
<1>1. /\ x \in FoundOf(program) /\ x.name = s.open.name /\ x.start = s.open.start
      /\ x.release = s.open.release /\ x.end = end /\ x.tail = tail
  BY DEF FoundOf
<1>2. s.done \in Seq(FoundOf(program)) /\ s.acquire \in Nat /\ s.at \in Nat
  BY DEF ScanType
<1> HIDE DEF x
<1>3. c = [s EXCEPT !.done = Append(s.done, x), !.open = NoFunction]
  BY DEF Close, x
<1>4. /\ c.done = Append(s.done, x) /\ c.open = NoFunction /\ c.acquire = s.acquire
      /\ c.at = s.at /\ c = [done |-> c.done, open |-> c.open, acquire |-> c.acquire, at |-> c.at]
  BY <1>3 DEF ScanType
<1> HIDE DEF c
<1>5. /\ c.done \in Seq(FoundOf(program)) /\ Len(c.done) = n + 1 /\ n \in Nat
      /\ \A j \in 1 .. n : c.done[j] = s.done[j]
      /\ c.done[n + 1] = x
  BY <1>1, <1>2, <1>4, AppendIs
<1>6. c \in ScanType(program)
  BY <1>2, <1>4, <1>5 DEF ScanType
<1> QED BY <1>1, <1>4, <1>5, <1>6 DEF c, Closed

LEMMA NewFunctionIs ==
  ASSUME NEW program, NEW name \in Names(program), NEW start \in Nat
  PROVE  /\ NewFunction(name, start) \in FoundOf(program)
         /\ NewFunction(name, start).name = name /\ NewFunction(name, start).start = start
         /\ NewFunction(name, start).release = 0 /\ NewFunction(name, start).end = 0
<1> DEFINE T == [name : Names(program) \cup {NoName}, start : Nat, end : Nat, release : Nat,
                 tail : BOOLEAN]
<1>1. NoFunction \in T /\ NoFunction.end = 0 /\ NoFunction.release = 0 /\ NoFunction.tail \in BOOLEAN
  BY DEF NoFunction
<1> QED BY <1>1 DEF NewFunction, FoundOf

(* A function that has been read to its end.                               *)
Recovered(peano, program, from, k, found) ==
  LET f  == program[k]
      pc == FirstPc(program, k, from)
      returns == With(f, "ret")
  IN  /\ found.name = IF peano THEN f.name ELSE Demangle(f.name)
      /\ found.start = pc
      /\ ReleaseSo(peano, f, pc, Len(f.body), found.release)
      /\ (/\ Cardinality(returns) <= 1
          /\ ~Endless(program, k) \/ (f.tail /\ Len(f.body) > 1)) =>
           found.end = pc - 1 + IF returns = {} THEN Len(f.body) ELSE Max(returns)

-----------------------------------------------------------------------------
(* The LLVM scan.                                                          *)

(* After m instructions of function k.                                     *)
LlvmSo(program, base, from, k, m, s) ==
  LET f  == program[k]
      pc == FirstPc(program, k, from)
      returns == UpTo(With(f, "ret"), m)
      n == Len(s.done)
  IN  /\ s \in ScanType(program)
      /\ \A j \in 1 .. k - 1 : Recovered(TRUE, program, from, j, s.done[j])
      /\ AcquireSo(base, program, from, k, m, s.acquire)
      /\ returns = {} =>
           /\ n = k - 1 /\ s.open \in FoundOf(program)
           /\ s.open.name = f.name /\ s.open.start = pc
           /\ ReleaseSo(TRUE, f, pc, m, s.open.release)
      /\ returns # {} =>
           /\ n = k /\ s.open = NoFunction
           /\ s.done[k].name = f.name /\ s.done[k].start = pc
           /\ s.done[k].end = pc - 1 + Max(returns)
           /\ ReleaseSo(TRUE, f, pc, m, s.done[k].release)

LEMMA LlvmReturnStep ==
  ASSUME NEW program, IsProgram(program), NEW from \in Nat, NEW base,
         base => MainReturns(program),
         NEW k \in 1 .. Len(program), NEW m \in Nat, m < Len(program[k].body),
         NEW s, LlvmSo(program, base, from, k, m, s), m + 1 \in With(program[k], "ret")
  PROVE  LlvmSo(program, base, from, k, m + 1, LlvmReturn(s, FirstPc(program, k, from) + m))
<1> DEFINE f == program[k]
           pc == FirstPc(program, k, from)
           X == With(f, "ret")
           r == LlvmReturn(s, pc + m)
           M == m + 1
<1>1. X \in SUBSET Nat /\ m + 1 \in X
  BY WithIs
<1>2. UpTo(X, M) # {} /\ Max(UpTo(X, M)) = m + 1
  BY <1>1, UpToHit
<1>3. pc \in Nat /\ k \in Nat /\ pc + m = pc - 1 + (m + 1) /\ pc + m \in Nat
  <2>1. k \in 1 .. Len(program) + 1 /\ k \in Nat
    BY ProgramFacts
  <2>2. pc \in Nat
    BY <2>1, EntriesAre
  <2> HIDE DEF pc
  <2> QED BY <2>1, <2>2
<1>4. ~(base /\ f.name = Main /\ m + 1 \in With(f, "acq"))
  <2> SUFFICES ASSUME base, f.name = Main, m + 1 \in With(f, "acq") PROVE FALSE
    OBVIOUS
  <2>1. k \in DOMAIN program
    BY ProgramFacts
  <2>2. m + 1 < m + 1
    BY <2>1 DEF MainReturns
  <2> QED BY <2>2
<1>5. AcquireSo(base, program, from, k, M, s.acquire)
  BY <1>4, AcquireKept DEF LlvmSo
<1>6. Tidy(f) => m + 1 \notin With(f, "rel")
  <2> SUFFICES ASSUME Tidy(f), m + 1 \in With(f, "rel") PROVE FALSE
    OBVIOUS
  <2>1. m + 1 < m + 1
    BY DEF Tidy
  <2> QED BY <2>1
<1>7. \A release : ReleaseSo(TRUE, f, pc, m, release) => ReleaseSo(TRUE, f, pc, M, release)
  BY <1>6, ReleaseKept
<1>8. s \in ScanType(program) /\ \A j \in 1 .. k - 1 : Recovered(TRUE, program, from, j, s.done[j])
  BY DEF LlvmSo
<1>9. CASE UpTo(X, m) = {}
  <2>1. /\ Len(s.done) = k - 1 /\ s.open \in FoundOf(program)
        /\ s.open.name = f.name /\ s.open.start = pc
        /\ ReleaseSo(TRUE, f, pc, m, s.open.release)
    BY <1>9 DEF LlvmSo
  <2>2. s.open # NoFunction
    <3>1. NoFunction.name = NoName
      BY DEF NoFunction
    <3>2. f.name # NoName
      BY ProgramFacts
    <3> QED BY <2>1, <3>1, <3>2
  <2>3. r = Close(s, pc + m, FALSE)
    BY <2>2 DEF LlvmReturn
  <2> HIDE DEF r, f, pc, X, M
  <2>4. (k - 1) + 1 = k
    BY <1>3
  <2>5. /\ r \in ScanType(program) /\ r.open = NoFunction /\ r.acquire = s.acquire
        /\ Len(r.done) = k /\ \A j \in 1 .. k - 1 : r.done[j] = s.done[j]
        /\ r.done[k].name = s.open.name /\ r.done[k].start = s.open.start
        /\ r.done[k].release = s.open.release /\ r.done[k].end = pc + m
    <3>1. Closed(program, s, r, pc + m)
      BY <1>3, <1>8, <2>1, <2>3, CloseIs
    <3> QED BY <2>1, <2>4, <3>1 DEF Closed
  <2> QED BY <1>2, <1>3, <1>5, <1>7, <1>8, <2>1, <2>5 DEF LlvmSo, r, f, pc, X, M
<1>10. CASE UpTo(X, m) # {}
  <2>1. /\ Len(s.done) = k /\ s.open = NoFunction
        /\ s.done[k].name = f.name /\ s.done[k].start = pc
        /\ ReleaseSo(TRUE, f, pc, m, s.done[k].release)
    BY <1>10 DEF LlvmSo
  <2>2. s.done \in Seq(FoundOf(program)) /\ k \in 1 .. Len(s.done)
    BY <1>3, <1>8, <2>1 DEF ScanType
  <2>3. s.done # <<>>
    BY <2>2
  <2>4. r = [s EXCEPT !.done[k].end = pc + m]
    BY <2>1, <2>3 DEF LlvmReturn
  <2> HIDE DEF r, f, pc, X, M
  <2> DEFINE x == [s.done[k] EXCEPT !.end = pc + m]
  <2>5. s.done[k] \in FoundOf(program)
    BY <2>2
  <2>6. /\ x \in FoundOf(program) /\ x.name = s.done[k].name /\ x.start = s.done[k].start
        /\ x.release = s.done[k].release /\ x.end = pc + m
    BY <1>3, <2>5 DEF FoundOf
  <2>7. r = [s EXCEPT !.done = [s.done EXCEPT ![k] = x]]
    BY <2>4
  <2> HIDE DEF x
  <2>8. /\ r.done = [s.done EXCEPT ![k] = x] /\ r.open = s.open /\ r.acquire = s.acquire
        /\ r.at = s.at /\ r = [done |-> r.done, open |-> r.open, acquire |-> r.acquire, at |-> r.at]
    BY <1>8, <2>7 DEF ScanType
  <2>9. /\ r.done \in Seq(FoundOf(program)) /\ Len(r.done) = k
        /\ r.done[k] = x /\ \A j \in 1 .. k - 1 : r.done[j] = s.done[j]
    BY <1>3, <2>1, <2>2, <2>6, <2>8
  <2>10. r \in ScanType(program)
    BY <1>8, <2>8, <2>9 DEF ScanType
  <2> QED BY <1>2, <1>3, <1>5, <1>7, <1>8, <2>1, <2>6, <2>8, <2>9, <2>10
          DEF LlvmSo, r, f, pc, X, M
<1> QED BY <1>9, <1>10

(* No return: what is known of the end does not change.                    *)
LlvmNoReturn(program, from, k, m, s) ==
  /\ UpTo(With(program[k], "ret"), m + 1) = UpTo(With(program[k], "ret"), m)
  /\ s.open = NoFunction <=> UpTo(With(program[k], "ret"), m) # {}
  /\ s.open # NoFunction => s.open.name = program[k].name
  /\ FirstPc(program, k, from) + m \in Nat

LEMMA LlvmOpen ==
  ASSUME NEW program, IsProgram(program), NEW from \in Nat, NEW base,
         NEW k \in 1 .. Len(program), NEW m \in Nat,
         NEW s, LlvmSo(program, base, from, k, m, s), m + 1 \notin With(program[k], "ret")
  PROVE  LlvmNoReturn(program, from, k, m, s)
<1>1. With(program[k], "ret") \in SUBSET Nat
  BY WithIs
<1>2. UpTo(With(program[k], "ret"), m + 1) = UpTo(With(program[k], "ret"), m)
  BY <1>1, UpToMiss
<1>3. NoFunction.name = NoName
  BY DEF NoFunction
<1>4. program[k].name # NoName
  BY ProgramFacts
<1>5. FirstPc(program, k, from) \in Nat
  <2>1. k \in 1 .. Len(program) + 1
    BY ProgramFacts
  <2> QED BY <2>1, EntriesAre
<1>6. s.open = NoFunction <=> UpTo(With(program[k], "ret"), m) # {}
  BY <1>3, <1>4 DEF LlvmSo
<1>7. s.open # NoFunction => s.open.name = program[k].name
  BY <1>6 DEF LlvmSo
<1> QED BY <1>2, <1>5, <1>6, <1>7 DEF LlvmNoReturn

LEMMA LlvmReleaseStep ==
  ASSUME NEW program, IsProgram(program), NEW from \in Nat, NEW base,
         base => MainReturns(program),
         NEW k \in 1 .. Len(program), NEW m \in Nat, m < Len(program[k].body),
         NEW s, LlvmSo(program, base, from, k, m, s),
         m + 1 \notin With(program[k], "ret"), m + 1 \in With(program[k], "rel")
  PROVE  LlvmSo(program, base, from, k, m + 1,
                IF s.open = NoFunction THEN s
                ELSE [s EXCEPT !.open.release = FirstPc(program, k, from) + m])
<1> DEFINE f == program[k]
           pc == FirstPc(program, k, from)
           X == With(f, "ret")
           M == m + 1
           r == IF s.open = NoFunction THEN s ELSE [s EXCEPT !.open.release = pc + m]
<1>1. /\ UpTo(X, M) = UpTo(X, m) /\ (s.open = NoFunction <=> UpTo(X, m) # {})
      /\ pc + m \in Nat
  <2>1. LlvmNoReturn(program, from, k, m, s)
    BY LlvmOpen
  <2> QED BY <2>1 DEF LlvmNoReturn
<1>2. ~(base /\ f.name = Main /\ m + 1 \in With(f, "acq"))
  <2> SUFFICES ASSUME base, f.name = Main, m + 1 \in With(f, "acq") PROVE FALSE
    OBVIOUS
  <2>1. k \in DOMAIN program
    BY ProgramFacts
  <2>2. "rel" \notin f.body[m + 1]
    BY <2>1 DEF MainReturns
  <2> QED BY <2>2 DEF With
<1>3. AcquireSo(base, program, from, k, M, s.acquire)
  BY <1>2, AcquireKept DEF LlvmSo
<1>4. s \in ScanType(program) /\ \A j \in 1 .. k - 1 : Recovered(TRUE, program, from, j, s.done[j])
  BY DEF LlvmSo
<1>5. CASE s.open = NoFunction
  <2>1. UpTo(X, m) # {} /\ r = s
    BY <1>1, <1>5
  <2>2. Tidy(f) => m + 1 \notin With(f, "rel")
    <3> SUFFICES ASSUME Tidy(f) PROVE FALSE
      OBVIOUS
    <3>1. PICK n \in UpTo(X, m) : TRUE
      BY <2>1
    <3>2. n \in X /\ n <= m /\ n \in Nat
      BY <3>1, WithIs DEF UpTo
    <3>3. m + 1 < n
      BY <3>2 DEF Tidy
    <3> QED BY <3>2, <3>3
  <2>3. \A release : ReleaseSo(TRUE, f, pc, m, release) => ReleaseSo(TRUE, f, pc, M, release)
    BY <2>2, ReleaseKept
  <2>4. /\ Len(s.done) = k /\ s.open = NoFunction
        /\ s.done[k].name = f.name /\ s.done[k].start = pc
        /\ s.done[k].end = pc - 1 + Max(UpTo(X, m))
        /\ ReleaseSo(TRUE, f, pc, m, s.done[k].release)
    BY <2>1 DEF LlvmSo
  <2> HIDE DEF r, f, pc, X, M
  <2> QED BY <1>1, <1>3, <1>4, <2>1, <2>3, <2>4 DEF LlvmSo, r, f, pc, X, M
<1>6. CASE s.open # NoFunction
  <2>1. UpTo(X, m) = {} /\ r = [s EXCEPT !.open.release = pc + m]
    BY <1>1, <1>6
  <2>2. /\ Len(s.done) = k - 1 /\ s.open \in FoundOf(program)
        /\ s.open.name = f.name /\ s.open.start = pc
    BY <2>1 DEF LlvmSo
  <2>3. ReleaseSo(TRUE, f, pc, M, pc + m)
    <3>1. m + 1 \in Releases(TRUE, program[k])
      BY DEF Releases
    <3>2. pc \in Nat
      <4>1. k \in 1 .. Len(program) + 1
        BY ProgramFacts
      <4> QED BY <4>1, EntriesAre
    <3> QED BY <3>1, <3>2, ReleaseSet
  <2> HIDE DEF r, f, pc, X, M
  <2>4. r.open = [s.open EXCEPT !.release = pc + m] /\ r.done = s.done /\ r.acquire = s.acquire
    BY <1>4, <2>1 DEF ScanType
  <2>5. /\ r.open \in FoundOf(program) /\ r.open.name = f.name /\ r.open.start = pc
        /\ r.open.release = pc + m
    BY <1>1, <2>2, <2>4 DEF FoundOf
  <2>6. r \in ScanType(program)
    BY <1>4, <2>1, <2>4, <2>5 DEF ScanType
  <2> QED BY <1>1, <1>3, <1>4, <2>1, <2>2, <2>3, <2>4, <2>5, <2>6 DEF LlvmSo, r, f, pc, X, M
<1> QED BY <1>5, <1>6

LEMMA LlvmOtherStep ==
  ASSUME NEW program, IsProgram(program), NEW from \in Nat, NEW base,
         base => MainReturns(program),
         NEW k \in 1 .. Len(program), NEW m \in Nat, m < Len(program[k].body),
         NEW s, LlvmSo(program, base, from, k, m, s),
         m + 1 \notin With(program[k], "ret"), m + 1 \notin With(program[k], "rel")
  PROVE  LlvmSo(program, base, from, k, m + 1,
                IF base /\ s.open.name = Main /\ "acq" \in program[k].body[m + 1]
                  THEN [s EXCEPT !.acquire = FirstPc(program, k, from) + m] ELSE s)
<1> DEFINE f == program[k]
           pc == FirstPc(program, k, from)
           X == With(f, "ret")
           M == m + 1
           hit == base /\ s.open.name = Main /\ "acq" \in f.body[m + 1]
           r == IF hit THEN [s EXCEPT !.acquire = pc + m] ELSE s
<1>1. /\ UpTo(X, M) = UpTo(X, m) /\ (s.open = NoFunction <=> UpTo(X, m) # {})
      /\ s.open # NoFunction => s.open.name = f.name
      /\ pc + m \in Nat
  <2>1. LlvmNoReturn(program, from, k, m, s)
    BY LlvmOpen
  <2> QED BY <2>1 DEF LlvmNoReturn
<1>2. m + 1 \in With(f, "acq") <=> "acq" \in f.body[m + 1]
  <2>1. m + 1 \in 1 .. Len(f.body)
    BY ProgramFacts
  <2> QED BY <2>1, WithIs
<1>3. NoFunction.name # Main
  BY DEF NoFunction, NoName, Main
<1>4. hit <=> (base /\ f.name = Main /\ m + 1 \in With(f, "acq"))
  <2>1. ASSUME hit PROVE base /\ f.name = Main /\ m + 1 \in With(f, "acq")
    <3>1. s.open # NoFunction
      BY <1>3, <2>1
    <3> QED BY <1>1, <1>2, <2>1, <3>1
  <2>2. ASSUME base, f.name = Main, m + 1 \in With(f, "acq") PROVE hit
    <3>1. \A n \in X : m + 1 < n
      <4>1. k \in DOMAIN program
        BY ProgramFacts
      <4> QED BY <2>2, <4>1 DEF MainReturns
    <3>2. UpTo(X, m) = {}
      <4> SUFFICES ASSUME NEW n \in UpTo(X, m) PROVE FALSE
        OBVIOUS
      <4>1. n \in X /\ n <= m /\ n \in Nat
        BY WithIs DEF UpTo
      <4>2. m + 1 < n
        BY <3>1, <4>1
      <4> QED BY <4>1, <4>2
    <3> QED BY <1>1, <1>2, <2>2, <3>2
  <2> QED BY <2>1, <2>2
<1>5. AcquireSo(base, program, from, k, M, r.acquire)
  <2>1. CASE hit
    <3>1. r.acquire = pc + m
      BY <2>1 DEF LlvmSo, ScanType
    <3>2. program[k].name = Main /\ m + 1 \in With(program[k], "acq") /\ MainReturns(program)
      BY <1>4, <2>1
    <3> QED BY <3>1, <3>2, AcquireSet
  <2>2. CASE ~hit
    BY <1>4, <2>2, AcquireKept DEF LlvmSo
  <2> QED BY <2>1, <2>2
<1>6. \A release : ReleaseSo(TRUE, f, pc, m, release) => ReleaseSo(TRUE, f, pc, M, release)
  BY ReleaseKept
<1>7. r \in ScanType(program) /\ r.done = s.done /\ r.open = s.open
  BY <1>1 DEF LlvmSo, ScanType
<1> HIDE DEF r, f, pc, X, M, hit
<1> QED BY <1>1, <1>5, <1>6, <1>7 DEF LlvmSo, f, pc, X, M, r, hit

LEMMA LlvmInsn ==
  ASSUME NEW program, IsProgram(program), NEW from \in Nat, NEW base,
         base => MainReturns(program),
         NEW k \in 1 .. Len(program), NEW m \in Nat, m < Len(program[k].body),
         NEW s, LlvmSo(program, base, from, k, m, s), NEW lines, NEW i,
         lines[i].kind = "insn", lines[i].ops = program[k].body[m + 1],
         lines[i].pc = FirstPc(program, k, from) + m
  PROVE  LlvmSo(program, base, from, k, m + 1, LlvmLine(lines, base, s, i))
<1> DEFINE f == program[k]
           pc == FirstPc(program, k, from)
<1>1. m + 1 \in 1 .. Len(f.body)
  BY ProgramFacts
<1>2. \A op : m + 1 \in With(f, op) <=> op \in lines[i].ops
  <2>1. \A op : m + 1 \in With(f, op) <=> op \in f.body[m + 1]
    BY <1>1, WithIs
  <2> QED BY <2>1
<1>3. CASE "ret" \in lines[i].ops
  <2>1. LlvmLine(lines, base, s, i) = LlvmReturn(s, pc + m)
    BY <1>3 DEF LlvmLine
  <2>2. m + 1 \in With(f, "ret")
    BY <1>2, <1>3
  <2> QED BY <2>1, <2>2, LlvmReturnStep
<1>4. CASE "ret" \notin lines[i].ops /\ "rel" \in lines[i].ops
  <2>1. LlvmLine(lines, base, s, i) =
          IF s.open = NoFunction THEN s ELSE [s EXCEPT !.open.release = pc + m]
    BY <1>4 DEF LlvmLine
  <2>2. m + 1 \notin With(f, "ret") /\ m + 1 \in With(f, "rel")
    BY <1>2, <1>4
  <2> QED BY <2>1, <2>2, LlvmReleaseStep
<1>5. CASE "ret" \notin lines[i].ops /\ "rel" \notin lines[i].ops
  <2>1. LlvmLine(lines, base, s, i) =
          IF base /\ s.open.name = Main /\ "acq" \in f.body[m + 1]
            THEN [s EXCEPT !.acquire = pc + m] ELSE s
    BY <1>5 DEF LlvmLine
  <2>2. m + 1 \notin With(f, "ret") /\ m + 1 \notin With(f, "rel")
    BY <1>2, <1>5
  <2>3. LlvmSo(program, base, from, k, m + 1,
               IF base /\ s.open.name = Main /\ "acq" \in program[k].body[m + 1]
                 THEN [s EXCEPT !.acquire = FirstPc(program, k, from) + m] ELSE s)
    BY <2>2, LlvmOtherStep
  <2> QED BY <2>1, <2>3
<1> QED BY <1>3, <1>4, <1>5

(* All that is known of a function at its end.                             *)
LlvmKnown(program, base, from, k, s) ==
  LET f  == program[k]
      pc == FirstPc(program, k, from)
      X  == With(f, "ret")
      n  == Len(s.done)
  IN  /\ s \in ScanType(program) /\ pc \in Nat
      /\ \A j \in 1 .. k - 1 : Recovered(TRUE, program, from, j, s.done[j])
      /\ AcquireSo(base, program, from, k, Len(f.body), s.acquire)
      /\ X = {} => /\ n = k - 1 /\ s.open \in FoundOf(program) /\ s.open # NoFunction
                   /\ s.open.name = f.name /\ s.open.start = pc
                   /\ ReleaseSo(TRUE, f, pc, Len(f.body), s.open.release)
      /\ X # {} => /\ n = k /\ s.open = NoFunction
                   /\ Recovered(TRUE, program, from, k, s.done[k])

LEMMA LlvmWhole ==
  ASSUME NEW program, IsProgram(program), NEW from \in Nat, NEW base,
         NEW k \in 1 .. Len(program), NEW s,
         LlvmSo(program, base, from, k, Len(program[k].body), s)
  PROVE  LlvmKnown(program, base, from, k, s)
<1> DEFINE f == program[k]
           pc == FirstPc(program, k, from)
           X == With(f, "ret")
<1>1. UpTo(X, Len(f.body)) = X
  BY WithIs
<1>2. pc \in Nat
  <2>1. k \in 1 .. Len(program) + 1
    BY ProgramFacts
  <2> QED BY <2>1, EntriesAre
<1>3. f.name # NoName /\ NoFunction.name = NoName
  BY ProgramFacts DEF NoFunction
<1>4. /\ s \in ScanType(program)
      /\ \A j \in 1 .. k - 1 : Recovered(TRUE, program, from, j, s.done[j])
      /\ AcquireSo(base, program, from, k, Len(f.body), s.acquire)
  BY DEF LlvmSo
<1>5. X = {} => /\ Len(s.done) = k - 1 /\ s.open \in FoundOf(program)
                /\ s.open.name = f.name /\ s.open.start = pc
                /\ ReleaseSo(TRUE, f, pc, Len(f.body), s.open.release)
  BY <1>1 DEF LlvmSo
<1>6. X # {} => /\ Len(s.done) = k /\ s.open = NoFunction
                /\ Recovered(TRUE, program, from, k, s.done[k])
  BY <1>1 DEF LlvmSo, Recovered
<1> HIDE DEF f, pc, X
<1> QED BY <1>2, <1>3, <1>4, <1>5, <1>6 DEF LlvmKnown, f, pc, X

(* Before function k: the functions before it are done, or the last one is *)
(* open.                                                                   *)
LlvmBetween(program, base, from, k, s) ==
  IF k = 1 THEN s = Unread
  ELSE LlvmSo(program, base, from, k - 1, Len(program[k - 1].body), s)

LEMMA UnreadIs ==
  ASSUME NEW program
  PROVE  Unread \in ScanType(program) /\ Unread.open = NoFunction /\ Len(Unread.done) = 0
<1>1. <<>> \in Seq(FoundOf(program))
  OBVIOUS
<1> QED BY <1>1 DEF Unread, ScanType

LEMMA LlvmStart ==
  ASSUME NEW program, IsProgram(program), NEW from \in Nat, NEW base,
         NEW k \in 1 .. Len(program), NEW s, LlvmBetween(program, base, from, k, s),
         NEW lines, NEW i \in Nat, lines[i - 1] = Mark("blank"),
         lines[i] = Line("label", FirstPc(program, k, from), {}, program[k].name),
         k # 1 => /\ i - 2 \in DOMAIN lines /\ lines[i - 2].kind = "insn"
                  /\ lines[i - 2].pc = FirstPc(program, k, from) - 1
  PROVE  LlvmSo(program, base, from, k, 0,
                LlvmLine(lines, base, LlvmLine(lines, base, s, i - 1), i))
<1> DEFINE f == program[k]
           pc == FirstPc(program, k, from)
           c == IF s.open = NoFunction THEN s ELSE Close(s, PcAt(lines, i - 2), TRUE)
           r == [c EXCEPT !.open = NewFunction(f.name, pc)]
<1>1. LlvmLine(lines, base, s, i - 1) = s
  <2>1. lines[i - 1].kind = "blank" /\ lines[i - 1].ops = {}
    BY DEF Mark, Line
  <2> QED BY <2>1 DEF LlvmLine
<1>2. LlvmLine(lines, base, s, i) = r
  <2>1. lines[i].kind = "label" /\ lines[i].pc = pc /\ lines[i].name = f.name
    BY DEF Line
  <2> QED BY <2>1 DEF LlvmLine, LlvmLabel
<1>3. pc \in Nat /\ k \in Nat
  <2>1. k \in 1 .. Len(program) + 1 /\ k \in Nat
    BY ProgramFacts
  <2> QED BY <2>1, EntriesAre
<1>4. /\ c \in ScanType(program) /\ Len(c.done) = k - 1
      /\ \A j \in 1 .. k - 1 : Recovered(TRUE, program, from, j, c.done[j])
      /\ AcquireSo(base, program, from, k, 0, c.acquire)
  <2>1. CASE k = 1
    <3>1. s = Unread
      BY <2>1 DEF LlvmBetween
    <3>2. c = Unread
      BY <3>1, UnreadIs
    <3> HIDE DEF c
    <3>0. Len(program) # 0
      BY <2>1, ProgramFacts
    <3>3. AcquireSo(base, program, from, 1, 0, c.acquire)
      BY <3>0, AcquireNone
    <3> QED BY <2>1, <3>2, <3>3, UnreadIs
  <2>2. CASE k # 1
    <3> DEFINE q == k - 1
               g == program[q]
               X == With(g, "ret")
               end == PcAt(lines, i - 2)
    <3>1. q \in 1 .. Len(program) /\ q + 1 = k /\ q \in Nat
      BY <1>3, <2>2
    <3>2. LlvmSo(program, base, from, q, Len(g.body), s)
      BY <2>2 DEF LlvmBetween
    <3>3. /\ s \in ScanType(program) /\ FirstPc(program, q, from) \in Nat
          /\ \A j \in 1 .. q - 1 : Recovered(TRUE, program, from, j, s.done[j])
          /\ AcquireSo(base, program, from, q, Len(g.body), s.acquire)
          /\ X = {} => /\ Len(s.done) = q - 1 /\ s.open \in FoundOf(program)
                       /\ s.open # NoFunction
                       /\ s.open.name = g.name /\ s.open.start = FirstPc(program, q, from)
                       /\ ReleaseSo(TRUE, g, FirstPc(program, q, from), Len(g.body), s.open.release)
          /\ X # {} => /\ Len(s.done) = q /\ s.open = NoFunction
                       /\ Recovered(TRUE, program, from, q, s.done[q])
      <4>1. LlvmKnown(program, base, from, q, s)
        BY <3>1, <3>2, LlvmWhole
      <4> QED BY <4>1 DEF LlvmKnown
    <3>4. AcquireSo(base, program, from, k, 0, s.acquire)
      BY <3>1, <3>3, AcquireNext
    <3>5. pc = FirstPc(program, q, from) + Len(g.body) /\ Len(g.body) \in Nat
      BY <3>1, EntriesAre, ProgramFacts
    <3>6. end = FirstPc(program, q, from) - 1 + Len(g.body) /\ end \in Nat
      <4>1. end = pc - 1
        BY <2>2 DEF PcAt
      <4>2. Len(g.body) # 0
        BY <3>1, ProgramFacts
      <4> QED BY <3>3, <3>5, <4>1, <4>2, SMTT(30)
    <3>7. CASE X = {}
      <4>1. c = Close(s, end, TRUE)
        BY <3>3, <3>7
      <4>2. Closed(program, s, c, end)
        BY <3>3, <3>6, <3>7, <4>1, CloseIs
      <4>3. Recovered(TRUE, program, from, q, c.done[q])
        <5>0. (q - 1) + 1 = q
          BY <3>1
        <5>1. Len(s.done) = q - 1 /\ (q - 1) + 1 = q
          BY <3>3, <3>7, <5>0
        <5>2. /\ c.done[q].name = g.name /\ c.done[q].start = FirstPc(program, q, from)
              /\ c.done[q].release = s.open.release /\ c.done[q].end = end
          BY <3>3, <3>7, <4>2, <5>1 DEF Closed
        <5> HIDE DEF end, c
        <5> QED BY <3>3, <3>6, <3>7, <5>2 DEF Recovered
      <4> HIDE DEF c
      <4>4. /\ c \in ScanType(program) /\ Len(c.done) = q /\ c.acquire = s.acquire
            /\ \A j \in 1 .. q - 1 : c.done[j] = s.done[j]
        <5>1. (q - 1) + 1 = q
          BY <3>1
        <5>2. Len(s.done) = q - 1
          BY <3>3, <3>7
        <5> HIDE DEF q, g, X, end
        <5> QED BY <4>2, <5>1, <5>2 DEF Closed
      <4>5. \A j \in 1 .. q : j \in 1 .. q - 1 \/ j = q
        BY <3>1
      <4>6. \A j \in 1 .. q : Recovered(TRUE, program, from, j, c.done[j])
        <5> HIDE DEF q, g, X, end
        <5> QED BY <3>3, <4>3, <4>4, <4>5
      <4> QED BY <3>4, <4>4, <4>6
    <3>8. CASE X # {}
      <4>1. c = s
        BY <3>3, <3>8
      <4>2. \A j \in 1 .. q : j \in 1 .. q - 1 \/ j = q
        BY <3>1
      <4>3. \A j \in 1 .. q : Recovered(TRUE, program, from, j, s.done[j])
        <5> HIDE DEF q, g
        <5> QED BY <3>3, <3>8, <4>2
      <4> HIDE DEF c
      <4> QED BY <3>3, <3>4, <3>8, <4>1, <4>3
    <3> QED BY <3>7, <3>8
  <2> QED BY <2>1, <2>2
<1>5. NewFunction(f.name, pc) \in FoundOf(program)
  <2>1. f.name \in Names(program)
    BY DEF Names
  <2> QED BY <1>3, <2>1, NewFunctionIs
<1>6. /\ NewFunction(f.name, pc).name = f.name /\ NewFunction(f.name, pc).start = pc
      /\ NewFunction(f.name, pc).release = 0
  <2>1. f.name \in Names(program)
    BY DEF Names
  <2> QED BY <1>3, <2>1, NewFunctionIs
<1> HIDE DEF c
<1>7. /\ r.open = NewFunction(f.name, pc) /\ r.done = c.done /\ r.acquire = c.acquire
      /\ r \in ScanType(program)
  BY <1>4, <1>5 DEF ScanType
<1>8. UpTo(With(f, "ret"), 0) = {}
  BY WithIs
<1>9. ReleaseSo(TRUE, f, pc, 0, 0)
  BY ReleaseNone
<1>10. LlvmSo(program, base, from, k, 0, r)
  <2> HIDE DEF r, f, pc
  <2> QED BY <1>4, <1>5, <1>6, <1>7, <1>8, <1>9 DEF LlvmSo, f, pc
<1> QED BY <1>1, <1>2, <1>10

(* From function to function, and from instruction to instruction.         *)
LEMMA LlvmReads ==
  ASSUME NEW program, IsProgram(program), NEW from \in Nat, NEW base,
         base => MainReturns(program), NEW lines,
         NEW off \in [1 .. Len(program) + 1 -> Nat], LlvmLaidOut(program, from, lines, off)
  PROVE  /\ ReadLlvm(lines, base)[0] = Unread
         /\ \A k \in 1 .. Len(program) :
              LlvmSo(program, base, from, k, Len(program[k].body), ReadLlvm(lines, base)[off[k + 1]])
<1> DEFINE n == Len(program)
           L(k) == Len(program[k].body)
           read == ReadLlvm(lines, base)
           T == {k \in Nat : k # 0 => LlvmSo(program, base, from, k, L(k), read[off[k + 1]])}
<1>1. n \in Nat /\ \A k \in 1 .. n : L(k) \in Nat \ {0} /\ off[k] \in Nat /\ off[k + 1] \in Nat
  <2>1. n \in Nat /\ \A k \in 1 .. n : L(k) \in Nat \ {0}
    BY ProgramFacts
  <2>2. \A k \in 1 .. n : k \in 1 .. n + 1 /\ k + 1 \in 1 .. n + 1
    BY <2>1
  <2> QED BY <2>1, <2>2
<1>2. /\ off[1] = 0 /\ Len(lines) = off[n + 1] /\ DOMAIN lines = 1 .. Len(lines)
      /\ Len(lines) \in Nat
  <2>1. n + 1 \in 1 .. n + 1
    BY <1>1
  <2>2. off[1] = 0 /\ Len(lines) = off[n + 1] /\ DOMAIN lines = 1 .. Len(lines)
    BY DEF LlvmLaidOut
  <2> QED BY <2>1, <2>2
<1>3. /\ read[0] = Unread
      /\ \A i \in 1 .. Len(lines) : read[i] = LlvmLine(lines, base, read[i - 1], i)
  <2>1. read = [i \in 0 .. Len(lines) |->
                  IF i = 0 THEN Unread ELSE LlvmLine(lines, base, read[i - 1], i)]
    BY <1>2, ReadLlvmStep
  <2>2. 0 \in 0 .. Len(lines) /\ \A i \in 1 .. Len(lines) : i \in 0 .. Len(lines) /\ i # 0
    BY <1>2
  <2> HIDE DEF read
  <2> QED BY <2>1, <2>2
<1> HIDE DEF read, n, L
<1>4. 0 \in T
  OBVIOUS
<1>5. ASSUME NEW p \in 0 .. n - 1, p \in T PROVE p + 1 \in T
  <2> DEFINE k == p + 1
             pc == FirstPc(program, k, from)
  <2>1. k \in 1 .. n /\ k \in Nat /\ p \in Nat /\ k - 1 = p
    BY <1>1
  <2>2. /\ off[k + 1] = off[k] + 2 + L(k)
        /\ off[k] + 1 \in 1 .. Len(lines) /\ off[k] + 2 \in 1 .. Len(lines)
        /\ lines[off[k] + 1] = Mark("blank")
        /\ lines[off[k] + 2] = Line("label", pc, {}, program[k].name)
        /\ \A m \in 1 .. L(k) :
             LET line == lines[off[k] + 2 + m]
             IN  /\ off[k] + 2 + m \in 1 .. Len(lines)
                 /\ line.kind = "insn" /\ line.ops = program[k].body[m]
                 /\ line.pc = pc + m - 1
    BY <2>1 DEF LlvmLaidOut, n, L
  <2>3. pc \in Nat
    <3>1. k \in 1 .. Len(program) + 1
      BY <1>1, <2>1 DEF n
    <3> QED BY <3>1, EntriesAre
  <2>4. off[k] \in Nat /\ L(k) \in Nat
    BY <1>1, <2>1
  <2> DEFINE s == read[off[k]]
             i == off[k] + 2
  <2>5. LlvmBetween(program, base, from, k, s)
    <3>1. CASE p = 0
      <4>1. k = 1
        BY <3>1
      <4>2. s = Unread
        BY <1>2, <1>3, <4>1
      <4> HIDE DEF s
      <4> QED BY <4>1, <4>2 DEF LlvmBetween
    <3>2. CASE p # 0
      <4>1. LlvmSo(program, base, from, p, L(p), read[off[p + 1]])
        BY <1>5, <3>2
      <4>2. k # 1
        BY <2>1, <3>2
      <4> QED BY <2>1, <4>1, <4>2 DEF LlvmBetween, L
    <3> QED BY <3>1, <3>2
  <2>6. k # 1 => /\ i - 2 \in DOMAIN lines /\ lines[i - 2].kind = "insn"
                 /\ lines[i - 2].pc = pc - 1
    <3> SUFFICES ASSUME k # 1
                 PROVE  /\ i - 2 \in DOMAIN lines /\ lines[i - 2].kind = "insn"
                        /\ lines[i - 2].pc = pc - 1
      OBVIOUS
    <3>0. k # 1
      OBVIOUS
    <3>1. p \in 1 .. n /\ L(p) \in 1 .. L(p) /\ p + 1 = k
      <4>1. p \in 1 .. n
        <5> HIDE DEF k
        <5> QED BY <1>1, <2>1, <3>0
      <4>2. L(p) \in Nat \ {0}
        BY <1>1, <4>1
      <4> QED BY <4>1, <4>2
    <3>2. off[p + 1] = off[p] + 2 + L(p)
      BY <3>1 DEF LlvmLaidOut, n, L
    <3>3. /\ off[p] + 2 + L(p) \in 1 .. Len(lines)
          /\ lines[off[p] + 2 + L(p)].kind = "insn"
          /\ lines[off[p] + 2 + L(p)].pc = FirstPc(program, p, from) + L(p) - 1
      BY <3>1 DEF LlvmLaidOut, n, L
    <3>4. pc = FirstPc(program, p, from) + L(p)
      BY <3>1, EntriesAre DEF n, L
    <3>5. i - 2 = off[p] + 2 + L(p)
      <4>1. i - 2 = off[k]
        BY <2>4
      <4> QED BY <3>1, <3>2, <4>1
    <3>6. /\ FirstPc(program, p, from) \in Nat /\ L(p) \in Nat
          /\ FirstPc(program, p, from) + L(p) - 1 = pc - 1
      <4>1. p \in 1 .. Len(program) + 1
        BY <1>1, <3>1 DEF n
      <4>2. FirstPc(program, p, from) \in Nat
        BY <4>1, EntriesAre
      <4> QED BY <1>1, <3>1, <3>4, <4>2
    <3> HIDE DEF i, pc
    <3> QED BY <1>2, <3>3, <3>5, <3>6
  <2>7. LlvmSo(program, base, from, k, 0, read[i])
    <3>1. /\ i \in 1 .. Len(lines) /\ i - 1 \in 1 .. Len(lines) /\ i - 1 = off[k] + 1
          /\ (i - 1) - 1 = off[k] /\ i \in Nat
      <4>1. off[k] \in Nat /\ off[k] + 1 \in 1 .. Len(lines) /\ off[k] + 2 \in 1 .. Len(lines)
        BY <2>2, <2>4
      <4> DEFINE o == off[k]
      <4>2. o \in Nat => /\ (o + 2) - 1 = o + 1 /\ ((o + 2) - 1) - 1 = o /\ o + 2 \in Nat
        <5> HIDE DEF o
        <5> QED OBVIOUS
      <4> HIDE DEF k
      <4> QED BY <4>1, <4>2
    <3>2. read[i - 1] = LlvmLine(lines, base, s, i - 1)
      BY <1>3, <3>1
    <3>3. read[i] = LlvmLine(lines, base, LlvmLine(lines, base, s, i - 1), i)
      BY <1>3, <3>1, <3>2
    <3>4. lines[i - 1] = Mark("blank") /\ lines[i] = Line("label", pc, {}, program[k].name)
      BY <2>2, <3>1
    <3> HIDE DEF s, i, pc, k
    <3>5. LlvmSo(program, base, from, k, 0,
                 LlvmLine(lines, base, LlvmLine(lines, base, s, i - 1), i))
      BY <2>1, <2>5, <2>6, <3>1, <3>4, LlvmStart DEF n, pc
    <3> QED BY <3>3, <3>5
  <2> HIDE DEF s
  <2> DEFINE U == {m \in Nat : LlvmSo(program, base, from, k, m, read[i + m])}
  <2>8. 0 \in U
    <3>1. i + 0 = i
      BY <2>4
    <3> HIDE DEF i, k
    <3> QED BY <2>7, <3>1
  <2>9. ASSUME NEW m \in 0 .. L(k) - 1, m \in U PROVE m + 1 \in U
    <3>1. m + 1 \in 1 .. L(k) /\ m \in Nat /\ m < L(k)
      BY <2>4
    <3>2. i + (m + 1) = off[k] + 2 + (m + 1) /\ (i + (m + 1)) - 1 = i + m
      <4>1. i = off[k] + 2 /\ i \in Nat /\ m \in Nat
        BY <2>4, <3>1
      <4> HIDE DEF i, k, U, T, pc
      <4>2. (i + (m + 1)) - 1 = i + m
        BY <4>1, NextOf
      <4> QED BY <4>1, <4>2
    <3>3. /\ i + (m + 1) \in 1 .. Len(lines)
          /\ lines[i + (m + 1)].kind = "insn"
          /\ lines[i + (m + 1)].ops = program[k].body[m + 1]
          /\ lines[i + (m + 1)].pc = pc + (m + 1) - 1
      BY <2>2, <3>1, <3>2
    <3>4. lines[i + (m + 1)].pc = pc + m
      BY <2>3, <3>3
    <3>5. read[i + (m + 1)] = LlvmLine(lines, base, read[i + m], i + (m + 1))
      BY <1>3, <3>2, <3>3
    <3>6. LlvmSo(program, base, from, k, m, read[i + m])
      BY <2>9
    <3> HIDE DEF i, k, pc
    <3>7. LlvmSo(program, base, from, k, m + 1, LlvmLine(lines, base, read[i + m], i + (m + 1)))
      BY <2>1, <3>1, <3>3, <3>4, <3>6, LlvmInsn DEF n, L, pc
    <3> QED BY <3>1, <3>5, <3>7
  <2> HIDE DEF U
  <2>10. 0 .. L(k) \subseteq U
    BY <2>4, <2>8, <2>9, InductTo
  <2>11. LlvmSo(program, base, from, k, L(k), read[i + L(k)])
    <3>1. L(k) \in 0 .. L(k)
      BY <2>4
    <3> QED BY <2>10, <3>1 DEF U
  <2>12. off[k + 1] = i + L(k)
    BY <2>2
  <2> HIDE DEF i
  <2> QED BY <2>1, <2>11, <2>12
<1> HIDE DEF T
<1>6. 0 .. n \subseteq T
  BY <1>1, <1>4, <1>5, InductTo
<1>7. \A k \in 1 .. n : LlvmSo(program, base, from, k, L(k), read[off[k + 1]])
  <2>1. \A k \in 1 .. n : k \in 0 .. n /\ k # 0
    BY <1>1
  <2> QED BY <1>6, <2>1 DEF T
<1> QED BY <1>3, <1>7 DEF read, n, L

-----------------------------------------------------------------------------
(* What a scan has found of the functions is true of them.                 *)
LEMMA RecoveredTrue ==
  ASSUME NEW program, IsProgram(program), NEW from \in Nat, NEW base, NEW peano \in BOOLEAN,
         base => MainReturns(program), Len(program) # 0,
         NEW s, \A k \in DOMAIN s.done : /\ k \in 1 .. Len(program)
                                         /\ Recovered(peano, program, from, k, s.done[k]),
         AcquireSo(base, program, from, Len(program), Len(program[Len(program)].body), s.acquire),
         DOMAIN s.done = 1 .. IF peano /\ \E k \in DOMAIN program : Endless(program, k)
                                THEN Len(program) - 1 ELSE Len(program)
  PROVE  TrueTo(peano, base, program, from, s)
<1> SUFFICES ASSUME NEW k \in DOMAIN s.done
             PROVE  LET f  == program[k]
                        pc == FirstPc(program, k, from)
                        returns  == With(f, "ret")
                        releases == {n \in With(f, "rel") : peano \/ n \notin With(f, "nobp")}
                        found == s.done[k]
                    IN  /\ found.name = IF peano THEN f.name ELSE Demangle(f.name)
                        /\ found.start = pc
                        /\ (/\ Cardinality(returns) <= 1
                            /\ ~Endless(program, k) \/ (f.tail /\ Len(f.body) > 1)) =>
                             found.end = pc - 1 + IF returns = {} THEN Len(f.body) ELSE Max(returns)
                        /\ found.release # 0 => found.release - pc + 1 \in releases
                        /\ (/\ With(f, "nobp") = {} /\ ~(f.tail /\ Len(f.body) \in With(f, "rel"))
                            /\ \A r \in With(f, "rel"), t \in returns : r < t) =>
                             found.release = IF releases = {} THEN 0 ELSE pc - 1 + Max(releases)
                        /\ (base /\ f.name = Main) => s.acquire = pc - 1 + Max(With(f, "acq"))
  BY DEF TrueTo
<1> DEFINE f  == program[k]
           pc == FirstPc(program, k, from)
           found == s.done[k]
<1>1. k \in 1 .. Len(program) /\ Len(program) \in Nat /\ k \in DOMAIN program
  BY ProgramFacts
<1>2. Recovered(peano, program, from, k, found) /\ ReleaseSo(peano, f, pc, Len(f.body), found.release)
  BY DEF Recovered
<1>3. pc \in Nat
  <2>1. k \in 1 .. Len(program) + 1
    BY <1>1
  <2> QED BY <2>1, EntriesAre
<1>4. found.release # 0 => found.release - pc + 1 \in Releases(peano, f)
  <2> SUFFICES ASSUME found.release # 0 PROVE found.release - pc + 1 \in Releases(peano, f)
    OBVIOUS
  <2>1. PICK m \in UpTo(Releases(peano, f), Len(f.body)) : found.release = pc - 1 + m
    BY <1>2 DEF ReleaseSo
  <2>2. With(f, "rel") \in SUBSET Nat
    BY <1>1, WithIs
  <2>3. m \in Releases(peano, f) /\ m \in Nat
    BY <2>2 DEF UpTo, Releases
  <2>4. found.release - pc + 1 = m
    <3> HIDE DEF found, pc
    <3> QED BY <1>3, <2>1, <2>3
  <2> QED BY <2>3, <2>4
<1>5. Tidy(f) => found.release = IF Releases(peano, f) = {} THEN 0
                                 ELSE pc - 1 + Max(Releases(peano, f))
  <2> SUFFICES ASSUME Tidy(f)
               PROVE  found.release = IF Releases(peano, f) = {} THEN 0
                                      ELSE pc - 1 + Max(Releases(peano, f))
    OBVIOUS
  <2>1. Releases(peano, f) = With(f, "rel")
    BY DEF Releases, Tidy
  <2>2. UpTo(With(f, "rel"), Len(f.body)) = With(f, "rel")
    BY <1>1, WithIs
  <2> QED BY <1>2, <2>1, <2>2 DEF ReleaseSo
<1>6. (base /\ f.name = Main) => s.acquire = pc - 1 + Max(With(f, "acq"))
  <2> SUFFICES ASSUME base, f.name = Main PROVE s.acquire = pc - 1 + Max(With(f, "acq"))
    OBVIOUS
  <2>1. With(f, "acq") # {}
    BY <1>1 DEF MainReturns
  <2>2. UpTo(With(f, "acq"), Len(f.body)) = With(f, "acq")
    BY <1>1, WithIs
  <2>3. k < Len(program) \/ k = Len(program)
    BY <1>1
  <2> QED BY <1>1, <2>1, <2>2, <2>3 DEF AcquireSo
<1> QED BY <1>2, <1>4, <1>5, <1>6 DEF Recovered, Releases, Tidy

(* LLVM listings.                                                          *)
LEMMA LlvmTrue ==
  ASSUME NEW program, IsProgram(program), NEW from \in Nat, NEW base,
         base => MainReturns(program)
  PROVE  TrueTo(TRUE, base, program, from, ParseLlvm(Disassemble(TRUE, program, from), base))
<1> DEFINE lines == Disassemble(TRUE, program, from)
           n == Len(program)
           s == ParseLlvm(lines, base)
<1>1. PICK off \in [1 .. n + 1 -> Nat] : LlvmLaidOut(program, from, lines, off)
  BY LlvmListing
<1>2. /\ ReadLlvm(lines, base)[0] = Unread
      /\ \A k \in 1 .. n :
           LlvmSo(program, base, from, k, Len(program[k].body), ReadLlvm(lines, base)[off[k + 1]])
  <2> HIDE DEF lines
  <2> QED BY <1>1, LlvmReads
<1>3. s = ReadLlvm(lines, base)[off[n + 1]] /\ off[1] = 0
  <2>1. off[1] = 0 /\ Len(lines) = off[n + 1]
    <3> HIDE DEF lines
    <3> QED BY <1>1 DEF LlvmLaidOut
  <2> QED BY <2>1 DEF ParseLlvm
<1> HIDE DEF lines, s
<1>4. n \in Nat /\ DOMAIN program = 1 .. n
  BY ProgramFacts
<1>5. CASE n = 0
  <2>1. s = Unread
    BY <1>2, <1>3, <1>5
  <2>2. DOMAIN s.done = {} /\ DOMAIN program = {} /\ 1 .. 0 = {}
    BY <1>4, <1>5, <2>1, UnreadIs DEF Unread
  <2>3. TrueTo(TRUE, base, program, from, s)
    BY <1>5, <2>2 DEF TrueTo
  <2> QED BY <2>3 DEF s, lines
<1>6. CASE n # 0
  <2>1. n \in 1 .. n
    BY <1>4, <1>6
  <2>2. LlvmSo(program, base, from, n, Len(program[n].body), s)
    BY <1>2, <1>3, <2>1
  <2>3. LlvmKnown(program, base, from, n, s)
    BY <2>1, <2>2, LlvmWhole
  <2>4. Len(s.done) \in Nat /\ DOMAIN s.done = 1 .. Len(s.done)
    <3>1. s.done \in Seq(FoundOf(program))
      BY <2>3 DEF LlvmKnown, ScanType
    <3> QED BY <3>1, SeqDomain
  <2>5. (\E k \in DOMAIN program : Endless(program, k)) <=> With(program[n], "ret") = {}
    BY <1>4, <2>1 DEF Endless
  <2>6. CASE With(program[n], "ret") = {}
    <3>1. Len(s.done) = n - 1 /\ \A j \in 1 .. n - 1 : Recovered(TRUE, program, from, j, s.done[j])
      BY <2>3, <2>6 DEF LlvmKnown
    <3>2. \A j \in 1 .. n - 1 : j \in 1 .. n
      BY <1>4
    <3>3. AcquireSo(base, program, from, n, Len(program[n].body), s.acquire)
      BY <2>3 DEF LlvmKnown
    <3>4. TrueTo(TRUE, base, program, from, s)
      BY <1>6, <2>4, <2>5, <2>6, <3>1, <3>2, <3>3, RecoveredTrue
    <3> QED BY <3>4 DEF s, lines
  <2>7. CASE With(program[n], "ret") # {}
    <3>1. /\ Len(s.done) = n /\ Recovered(TRUE, program, from, n, s.done[n])
          /\ \A j \in 1 .. n - 1 : Recovered(TRUE, program, from, j, s.done[j])
      BY <2>3, <2>7 DEF LlvmKnown
    <3>2. \A j \in 1 .. n : j = n \/ j \in 1 .. n - 1
      <4> HIDE DEF n
      <4> QED BY <1>4
    <3>3. AcquireSo(base, program, from, n, Len(program[n].body), s.acquire)
      BY <2>3 DEF LlvmKnown
    <3>4. \A j \in 1 .. n : Recovered(TRUE, program, from, j, s.done[j])
      BY <3>1, <3>2
    <3>5. TrueTo(TRUE, base, program, from, s)
      BY <1>6, <2>4, <2>5, <2>7, <3>1, <3>3, <3>4, RecoveredTrue
    <3> QED BY <3>5 DEF s, lines
  <2> QED BY <2>6, <2>7
<1> QED BY <1>5, <1>6
-----------------------------------------------------------------------------
(* Chess listings: the directives before an instruction.                   *)
Directives(f, insn, m) ==
  (IF f.tail /\ m = Len(f.body) THEN <<Mark("tail_call")>> ELSE <<>>) \o
  (IF "nobp" \in insn.ops THEN <<Mark("nohwbrkpt")>> ELSE <<>>)

(* Between the lines of two instructions, a and b.                         *)
ChessGap(f, m, lines, a, b) ==
  LET tail == f.tail /\ m = Len(f.body)
      nobp == "nobp" \in f.body[m]
  IN  /\ b = a + 1 + (IF tail THEN 1 ELSE 0) + (IF nobp THEN 1 ELSE 0)
      /\ tail => lines[a + 1] = Mark("tail_call")
      /\ nobp => lines[b - 1] = Mark("nohwbrkpt")

(* The lines of a function, from line o on: instruction m is at o + e[m].  *)
ChessAt(f, pc, lines, o, e) ==
  /\ e[0] = 2 /\ o + 1 \in 1 .. Len(lines) /\ o + 2 \in 1 .. Len(lines)
  /\ lines[o + 1] = Line("label", 0, {}, f.name) /\ lines[o + 2] = Mark("function_start")
  /\ \A m \in 1 .. Len(f.body) :
       LET line == lines[o + e[m]]
       IN  /\ o + e[m] \in 1 .. Len(lines)
           /\ line.kind = "insn" /\ line.ops = f.body[m] /\ line.pc = pc + m - 1
           /\ ChessGap(f, m, lines, o + e[m - 1], o + e[m])

LEMMA ChunkIs ==
  ASSUME NEW S, Mark("tail_call") \in S, Mark("nohwbrkpt") \in S,
         NEW f, NEW m, NEW insn \in S, f.tail \in BOOLEAN
  PROVE  LET d == Directives(f, insn, m)
             c == Append(d, insn)
             tail == f.tail /\ m = Len(f.body)
             nobp == "nobp" \in insn.ops
         IN  /\ c \in Seq(S)
             /\ Len(c) = 1 + (IF tail THEN 1 ELSE 0) + (IF nobp THEN 1 ELSE 0)
             /\ Len(c) \in Nat \ {0} /\ c[Len(c)] = insn
             /\ tail => 1 \in 1 .. Len(c) /\ c[1] = Mark("tail_call")
             /\ nobp => Len(c) - 1 \in 1 .. Len(c) /\ c[Len(c) - 1] = Mark("nohwbrkpt")
<1> DEFINE t == Mark("tail_call")
           b == Mark("nohwbrkpt")
           d == Directives(f, insn, m)
           c == Append(d, insn)
           tail == f.tail /\ m = Len(f.body)
           nobp == "nobp" \in insn.ops
           u == IF tail THEN <<t>> ELSE <<>>
           v == IF nobp THEN <<b>> ELSE <<>>
           x == IF tail THEN 1 ELSE 0
           y == IF nobp THEN 1 ELSE 0
<1>1. t \in S /\ b \in S
  OBVIOUS
<1>2. d = u \o v
  BY DEF Directives
<1> HIDE DEF t, b, d, tail, nobp
<1>3. u \in Seq(S) /\ Len(u) = x /\ x \in Nat /\ (tail => x = 1 /\ u[1] = t)
  BY <1>1
<1>4. v \in Seq(S) /\ Len(v) = y /\ y \in Nat /\ (nobp => y = 1 /\ v[1] = b)
  BY <1>1
<1> HIDE DEF u, v, x, y
<1>5. /\ d \in Seq(S) /\ Len(d) = x + y
      /\ \A i \in 1 .. x : d[i] = u[i]
      /\ \A j \in 1 .. y : d[x + j] = v[j]
  <2>1. /\ u \o v \in Seq(S) /\ Len(u \o v) = Len(u) + Len(v)
        /\ \A i \in 1 .. Len(u) : (u \o v)[i] = u[i]
        /\ \A j \in 1 .. Len(v) : (u \o v)[Len(u) + j] = v[j]
    <3>1. u \in Seq(S) /\ v \in Seq(S)
      BY <1>3, <1>4
    <3> QED BY <3>1, ConcatIs
  <2> QED BY <1>2, <1>3, <1>4, <2>1
<1>6. /\ c \in Seq(S) /\ Len(c) = Len(d) + 1 /\ c[Len(d) + 1] = insn
      /\ \A j \in 1 .. Len(d) : c[j] = d[j]
  BY <1>5, AppendIs
<1> HIDE DEF c
<1>7. Len(c) = 1 + x + y /\ Len(c) \in Nat \ {0} /\ c[Len(c)] = insn
  BY <1>3, <1>4, <1>5, <1>6
<1>8. tail => 1 \in 1 .. Len(c) /\ c[1] = t
  <2> SUFFICES ASSUME tail PROVE 1 \in 1 .. Len(c) /\ c[1] = t
    OBVIOUS
  <2>1. 1 \in 1 .. x /\ 1 \in 1 .. Len(d)
    BY <1>3, <1>4, <1>5
  <2> QED BY <1>3, <1>5, <1>6, <1>7, <2>1
<1>9. nobp => Len(c) - 1 \in 1 .. Len(c) /\ c[Len(c) - 1] = b
  <2> SUFFICES ASSUME nobp PROVE Len(c) - 1 \in 1 .. Len(c) /\ c[Len(c) - 1] = b
    OBVIOUS
  <2>1. /\ 1 \in 1 .. y /\ x + 1 \in 1 .. Len(d) /\ Len(c) - 1 = x + 1
        /\ Len(c) - 1 \in 1 .. Len(c)
    BY <1>3, <1>4, <1>5, <1>6, <1>7
  <2>2. d[x + 1] = v[1]
    BY <1>5, <2>1
  <2> QED BY <1>4, <1>6, <2>1, <2>2
<1> QED BY <1>6, <1>7, <1>8, <1>9 DEF t, b, d, c, tail, nobp, x, y

LEMMA ChessFunctionIs ==
  ASSUME NEW program, IsProgram(program), NEW from \in Nat, NEW k \in 1 .. Len(program),
         NEW S, Mark("tail_call") \in S, Mark("nohwbrkpt") \in S, Mark("function_start") \in S,
         Line("label", 0, {}, program[k].name) \in S,
         \A m \in 1 .. Len(program[k].body) : Instructions(program, k, from)[m] \in S
  PROVE  LET f == program[k]
             c == ChessFunction(f, Instructions(program, k, from))
         IN  /\ c \in Seq(S)
             /\ \E e \in [0 .. Len(f.body) -> Nat] :
                  Len(c) = e[Len(f.body)] /\ ChessAt(f, FirstPc(program, k, from), c, 0, e)
<1> DEFINE f == program[k]
           L == Len(f.body)
           pc == FirstPc(program, k, from)
           insns == Instructions(program, k, from)
           chunk(m) == Append(Directives(f, insns[m], m), insns[m])
           parts == [m \in 1 .. L |-> chunk(m)]
           head == <<Line("label", 0, {}, f.name), Mark("function_start")>>
           c == ChessFunction(f, insns)
           tail(m) == f.tail /\ m = L
           nobp(m) == "nobp" \in f.body[m]
<1>1. /\ DOMAIN insns = 1 .. L /\ Len(insns) = L
      /\ \A m \in 1 .. L : /\ insns[m].kind = "insn" /\ insns[m].ops = f.body[m]
                           /\ insns[m].pc = pc + m - 1
  BY InstructionsAre
<1>2. L \in Nat \ {0} /\ f.tail \in BOOLEAN
  BY ProgramFacts
<1>3. ChessFunction(f, insns) = head \o FlattenSeq(parts)
  BY <1>1 DEF ChessFunction, Directives
<1>4. ASSUME NEW m \in 1 .. L
      PROVE  /\ chunk(m) \in Seq(S)
             /\ Len(chunk(m)) = 1 + (IF tail(m) THEN 1 ELSE 0) + (IF nobp(m) THEN 1 ELSE 0)
             /\ Len(chunk(m)) \in Nat \ {0} /\ chunk(m)[Len(chunk(m))] = insns[m]
             /\ tail(m) => 1 \in 1 .. Len(chunk(m)) /\ chunk(m)[1] = Mark("tail_call")
             /\ nobp(m) => /\ Len(chunk(m)) - 1 \in 1 .. Len(chunk(m))
                           /\ chunk(m)[Len(chunk(m)) - 1] = Mark("nohwbrkpt")
  <2>1. insns[m] \in S /\ insns[m].ops = f.body[m]
    BY <1>1
  <2> HIDE DEF insns, f, L
  <2>2. /\ chunk(m) \in Seq(S)
        /\ Len(chunk(m)) = 1 + (IF f.tail /\ m = Len(f.body) THEN 1 ELSE 0)
                             + (IF "nobp" \in insns[m].ops THEN 1 ELSE 0)
        /\ Len(chunk(m)) \in Nat \ {0} /\ chunk(m)[Len(chunk(m))] = insns[m]
        /\ f.tail /\ m = Len(f.body) =>
             1 \in 1 .. Len(chunk(m)) /\ chunk(m)[1] = Mark("tail_call")
        /\ "nobp" \in insns[m].ops =>
             /\ Len(chunk(m)) - 1 \in 1 .. Len(chunk(m))
             /\ chunk(m)[Len(chunk(m)) - 1] = Mark("nohwbrkpt")
    BY <1>2, <2>1, ChunkIs, SMTT(30)
  <2> HIDE DEF chunk
  <2> QED BY <2>1, <2>2 DEF L
<1>5. head \in Seq(S) /\ Len(head) = 2 /\ head[1] = Line("label", 0, {}, f.name)
      /\ head[2] = Mark("function_start")
  OBVIOUS
<1> HIDE DEF chunk, head
<1>6. parts \in Seq(Seq(S)) /\ Len(parts) = L /\ \A m \in 1 .. L : parts[m] = chunk(m)
  BY <1>2, <1>4
<1> HIDE DEF parts, f, L, pc, insns, c
<1>7. PICK off \in [1 .. L + 1 -> Nat] : PartsAt(S, parts, off)
  <2>1. parts \in Seq(Seq(S))
    BY <1>6
  <2>2. \E off \in [1 .. Len(parts) + 1 -> Nat] : PartsAt(S, parts, off)
    BY <2>1, Flattened
  <2> QED BY <1>6, <2>2
<1> DEFINE flat == FlattenSeq(parts)
           e == [m \in 0 .. L |-> 2 + off[m + 1]]
<1>8. /\ off[1] = 0 /\ flat \in Seq(S) /\ Len(flat) = off[L + 1]
      /\ \A m \in 1 .. L :
           /\ off[m + 1] = off[m] + Len(chunk(m))
           /\ \A j \in 1 .. Len(chunk(m)) : off[m] + j \in 1 .. Len(flat)
                                            /\ flat[off[m] + j] = chunk(m)[j]
  BY <1>6, <1>7 DEF PartsAt
<1> HIDE DEF flat
<1>9. /\ c \in Seq(S) /\ Len(c) = 2 + Len(flat) /\ Len(flat) \in Nat
      /\ c[1] = head[1] /\ c[2] = head[2]
      /\ \A j \in 1 .. Len(flat) : 2 + j \in 1 .. Len(c) /\ c[2 + j] = flat[j]
  <2>1. c = head \o flat
    BY <1>3 DEF c, flat
  <2>2. /\ head \o flat \in Seq(S) /\ Len(head \o flat) = Len(head) + Len(flat)
        /\ \A i \in 1 .. Len(head) : i \in 1 .. Len(head \o flat) /\ (head \o flat)[i] = head[i]
        /\ \A j \in 1 .. Len(flat) : /\ Len(head) + j \in 1 .. Len(head \o flat)
                                     /\ (head \o flat)[Len(head) + j] = flat[j]
    <3>1. head \in Seq(S) /\ flat \in Seq(S)
      BY <1>5, <1>8
    <3> HIDE DEF e, tail, nobp
    <3> QED BY <3>1, ConcatIs, SMTT(30)
  <2>3. 1 \in 1 .. Len(head) /\ 2 \in 1 .. Len(head)
    BY <1>5
  <2>4. Len(flat) \in Nat
    BY <1>8, SeqDomain
  <2> QED BY <1>5, <2>1, <2>2, <2>3, <2>4
<1>10. e \in [0 .. L -> Nat] /\ e[0] = 2 /\ Len(c) = e[L]
  <2>1. \A m \in 0 .. L : off[m + 1] \in Nat /\ 2 + off[m + 1] \in Nat
    BY <1>2, <1>7
  <2>2. 0 \in 0 .. L /\ L \in 0 .. L
    BY <1>2
  <2>3. e[0] = 2 + off[0 + 1] /\ e[L] = 2 + off[L + 1]
    BY <2>2
  <2>4. e \in [0 .. L -> Nat]
    BY <2>1
  <2>5. e[0] = 2
    <3>1. off[0 + 1] = 0
      BY <1>8
    <3> QED BY <2>3, <3>1
  <2> QED BY <1>8, <1>9, <2>3, <2>4, <2>5
<1>11. ASSUME NEW m \in 1 .. L
       PROVE  LET line == c[0 + e[m]]
              IN  /\ 0 + e[m] \in 1 .. Len(c)
                  /\ line.kind = "insn" /\ line.ops = f.body[m] /\ line.pc = pc + m - 1
                  /\ ChessGap(f, m, c, 0 + e[m - 1], 0 + e[m])
  <2> DEFINE a == off[m]
             g == Len(chunk(m))
  <2>1. a \in Nat /\ g \in Nat \ {0} /\ off[m + 1] = a + g
    BY <1>2, <1>4, <1>7, <1>8
  <2>2. e[m] = 2 + (a + g) /\ e[m - 1] = 2 + a
    <3>1. m \in 0 .. L /\ m - 1 \in 0 .. L /\ (m - 1) + 1 = m
      BY <1>2
    <3> QED BY <2>1, <3>1
  <2> HIDE DEF a, g, e
  <2>3. \A j \in 1 .. g : 2 + (a + j) \in 1 .. Len(c) /\ c[2 + (a + j)] = chunk(m)[j]
    BY <1>8, <1>9 DEF a, g
  <2>4. g \in 1 .. g /\ chunk(m)[g] = insns[m]
    BY <1>4, <2>1 DEF g
  <2>5. 2 + (a + g) \in 1 .. Len(c) /\ c[2 + (a + g)] = insns[m]
    BY <2>3, <2>4
  <2>6. 0 + e[m] = 2 + (a + g) /\ 0 + e[m - 1] = 2 + a
    BY <2>1, <2>2
  <2>7. ChessGap(f, m, c, 2 + a, 2 + (a + g))
    <3>1. g = 1 + (IF tail(m) THEN 1 ELSE 0) + (IF nobp(m) THEN 1 ELSE 0)
      BY <1>4 DEF g
    <3>2. 2 + (a + g) = (2 + a) + 1 + (IF tail(m) THEN 1 ELSE 0) + (IF nobp(m) THEN 1 ELSE 0)
      <4> DEFINE x == IF tail(m) THEN 1 ELSE 0
                 y == IF nobp(m) THEN 1 ELSE 0
      <4>1. x \in Nat /\ y \in Nat /\ g = 1 + x + y
        BY <3>1
      <4> HIDE DEF x, y
      <4>2. 2 + (a + g) = (2 + a) + 1 + x + y
        BY <2>1, <4>1
      <4> QED BY <4>2 DEF x, y
    <3>3. tail(m) => c[(2 + a) + 1] = Mark("tail_call")
      <4>1. (2 + a) + 1 = 2 + (a + 1)
        BY <2>1
      <4>2. tail(m) => 1 \in 1 .. g /\ chunk(m)[1] = Mark("tail_call")
        BY <1>4 DEF g
      <4> QED BY <2>3, <4>1, <4>2
    <3>4. nobp(m) => c[(2 + (a + g)) - 1] = Mark("nohwbrkpt")
      <4>1. (2 + (a + g)) - 1 = 2 + (a + (g - 1))
        BY <2>1
      <4>2. nobp(m) => g - 1 \in 1 .. g /\ chunk(m)[g - 1] = Mark("nohwbrkpt")
        BY <1>4 DEF g
      <4> QED BY <2>3, <4>1, <4>2
    <3> QED BY <3>2, <3>3, <3>4 DEF ChessGap, L
  <2> QED BY <1>1, <2>5, <2>6, <2>7
<1>12. ChessAt(f, pc, c, 0, e)
  <2>1. /\ 0 + 1 = 1 /\ 0 + 2 = 2 /\ 1 \in 1 .. Len(c) /\ 2 \in 1 .. Len(c)
        /\ c[1] = Line("label", 0, {}, f.name) /\ c[2] = Mark("function_start")
    BY <1>5, <1>9
  <2> HIDE DEF e
  <2> QED BY <1>10, <1>11, <2>1 DEF ChessAt, L
<1> QED BY <1>9, <1>10, <1>12 DEF f, L, pc, insns, c
(* The same lines further on in a listing.                                 *)
LEMMA ChessShift ==
  ASSUME NEW f, NEW pc, NEW c, NEW lines, Len(f.body) \in Nat, Len(c) \in Nat,
         NEW e \in [0 .. Len(f.body) -> Nat], ChessAt(f, pc, c, 0, e), NEW o \in Nat,
         \A j \in 1 .. Len(c) : o + j \in 1 .. Len(lines) /\ lines[o + j] = c[j]
  PROVE  ChessAt(f, pc, lines, o, e)
<1> DEFINE L == Len(f.body)
<1>1. /\ e[0] = 2 /\ 1 \in 1 .. Len(c) /\ 2 \in 1 .. Len(c)
      /\ c[1] = Line("label", 0, {}, f.name) /\ c[2] = Mark("function_start")
  BY DEF ChessAt
<1>2. ASSUME NEW m \in 1 .. L
      PROVE  LET line == lines[o + e[m]]
             IN  /\ o + e[m] \in 1 .. Len(lines)
                 /\ line.kind = "insn" /\ line.ops = f.body[m] /\ line.pc = pc + m - 1
                 /\ ChessGap(f, m, lines, o + e[m - 1], o + e[m])
  <2>1. m \in 0 .. L /\ m - 1 \in 0 .. L
    OBVIOUS
  <2>2. e[m] \in Nat /\ e[m - 1] \in Nat
    BY <2>1
  <2> DEFINE a == e[m - 1]
             b == e[m]
  <2>3. 0 + b = b /\ 0 + a = a
    BY <2>2
  <2>4. /\ b \in 1 .. Len(c) /\ c[b].kind = "insn" /\ c[b].ops = f.body[m]
        /\ c[b].pc = pc + m - 1 /\ ChessGap(f, m, c, a, b)
    BY <2>3 DEF ChessAt
  <2>5. lines[o + b] = c[b] /\ o + b \in 1 .. Len(lines)
    BY <2>4
  <2> DEFINE tail == f.tail /\ m = Len(f.body)
             nobp == "nobp" \in f.body[m]
             x == IF tail THEN 1 ELSE 0
             y == IF nobp THEN 1 ELSE 0
  <2>6. /\ b = a + 1 + x + y /\ (tail => c[a + 1] = Mark("tail_call"))
        /\ (nobp => c[b - 1] = Mark("nohwbrkpt"))
    BY <2>4 DEF ChessGap
  <2>7. x \in Nat /\ y \in Nat /\ (tail => x = 1) /\ (nobp => y = 1)
    OBVIOUS
  <2>12. a \in Nat /\ b \in Nat
    BY <2>2
  <2> HIDE DEF a, b, x, y, tail, nobp
  <2>8. o + b = (o + a) + 1 + x + y
    BY <2>6, <2>7, <2>12
  <2>9. tail => lines[(o + a) + 1] = Mark("tail_call")
    <3> SUFFICES ASSUME tail PROVE lines[(o + a) + 1] = Mark("tail_call")
      OBVIOUS
    <3>0. x = 1 /\ b = a + 1 + x + y /\ b <= Len(c)
      BY <2>4, <2>6, <2>7
    <3>1. (o + a) + 1 = o + (a + 1) /\ a + 1 \in 1 .. Len(c)
      BY <2>7, <2>12, <3>0
    <3> QED BY <2>6, <3>1
  <2>10. nobp => lines[(o + b) - 1] = Mark("nohwbrkpt")
    <3> SUFFICES ASSUME nobp PROVE lines[(o + b) - 1] = Mark("nohwbrkpt")
      OBVIOUS
    <3>0. y = 1 /\ b = a + 1 + x + y /\ b <= Len(c)
      BY <2>4, <2>6, <2>7
    <3>1. (o + b) - 1 = o + (b - 1) /\ b - 1 \in 1 .. Len(c)
      BY <2>7, <2>12, <3>0
    <3> QED BY <2>6, <3>1
  <2>11. ChessGap(f, m, lines, o + a, o + b)
    BY <2>8, <2>9, <2>10 DEF ChessGap, tail, nobp, x, y
  <2> QED BY <2>4, <2>5, <2>11 DEF a, b
<1> QED BY <1>1, <1>2 DEF ChessAt

(* Where the lines of the functions lie in a Chess listing.                *)
ChessLaidOut(program, from, lines, off) ==
  /\ off[1] = 0 /\ Len(lines) = off[Len(program) + 1]
  /\ DOMAIN lines = 1 .. Len(lines) /\ Len(lines) \in Nat
  /\ \A k \in 1 .. Len(program) :
       LET f == program[k]
       IN  \E e \in [0 .. Len(f.body) -> Nat] :
             /\ off[k + 1] = off[k] + e[Len(f.body)]
             /\ ChessAt(f, FirstPc(program, k, from), lines, off[k], e)

LEMMA ChessListing ==
  ASSUME NEW program, IsProgram(program), NEW from \in Nat
  PROVE  \E off \in [1 .. Len(program) + 1 -> Nat] :
           ChessLaidOut(program, from, Disassemble(FALSE, program, from), off)
<1> DEFINE n == Len(program)
           insns(k) == Instructions(program, k, from)
           L(k) == Len(program[k].body)
           pc(k) == FirstPc(program, k, from)
           S == {Mark("tail_call"), Mark("nohwbrkpt"), Mark("function_start")}
                  \cup UNION {{Line("label", 0, {}, program[k].name)}
                                \cup {insns(k)[i] : i \in 1 .. L(k)} : k \in 1 .. n}
           part(k) == ChessFunction(program[k], insns(k))
           parts == [k \in 1 .. n |-> part(k)]
           At(k, c, o, e) == ChessAt(program[k], pc(k), c, o, e)
<1>1. n \in Nat /\ DOMAIN program = 1 .. n
      /\ \A k \in 1 .. n : L(k) \in Nat \ {0} /\ program[k].tail \in BOOLEAN
  BY ProgramFacts
<1>2. Disassemble(FALSE, program, from) = FlattenSeq(parts)
  BY <1>1 DEF Disassemble
<1>3. ASSUME NEW k \in 1 .. n
      PROVE  /\ part(k) \in Seq(S)
             /\ \E e \in [0 .. L(k) -> Nat] : Len(part(k)) = e[L(k)] /\ At(k, part(k), 0, e)
  <2>1. /\ Mark("tail_call") \in S /\ Mark("nohwbrkpt") \in S /\ Mark("function_start") \in S
        /\ Line("label", 0, {}, program[k].name) \in S
        /\ \A m \in 1 .. L(k) : insns(k)[m] \in S
    OBVIOUS
  <2> HIDE DEF S
  <2> QED BY <2>1, ChessFunctionIs
<1> HIDE DEF part, S
<1>4. parts \in Seq(Seq(S)) /\ Len(parts) = n /\ \A k \in 1 .. n : parts[k] = part(k)
  BY <1>1, <1>3
<1> HIDE DEF parts
<1>5. PICK off \in [1 .. Len(parts) + 1 -> Nat] : PartsAt(S, parts, off)
  <2>1. parts \in Seq(Seq(S))
    BY <1>4
  <2> QED BY <2>1, Flattened
<1> DEFINE lines == FlattenSeq(parts)
<1> HIDE DEF lines
<1>6. ASSUME NEW k \in 1 .. n
      PROVE  \E e \in [0 .. L(k) -> Nat] : off[k + 1] = off[k] + e[L(k)] /\ At(k, lines, off[k], e)
  <2>0. k \in 1 .. Len(parts) /\ k \in 1 .. Len(parts) + 1
    BY <1>1, <1>4
  <2>1. PICK e \in [0 .. L(k) -> Nat] : Len(part(k)) = e[L(k)] /\ At(k, part(k), 0, e)
    BY <1>3
  <2>2. off[k] \in Nat /\ Len(part(k)) \in Nat /\ L(k) \in Nat /\ program[k].tail \in BOOLEAN
    <3>1. part(k) \in Seq(S)
      BY <1>3
    <3> QED BY <1>1, <2>0, <3>1, SeqDomain
  <2>3. /\ off[k + 1] = off[k] + Len(part(k))
        /\ \A j \in 1 .. Len(part(k)) :
             off[k] + j \in 1 .. Len(lines) /\ lines[off[k] + j] = part(k)[j]
    BY <1>4, <1>5, <2>0 DEF lines, PartsAt
  <2> DEFINE c == part(k)
             f == program[k]
             o == off[k]
             p == pc(k)
  <2>5. /\ f.tail \in BOOLEAN /\ Len(f.body) \in Nat /\ e \in [0 .. Len(f.body) -> Nat]
        /\ Len(c) \in Nat /\ ChessAt(f, p, c, 0, e) /\ o \in Nat
        /\ \A j \in 1 .. Len(c) : o + j \in 1 .. Len(lines) /\ lines[o + j] = c[j]
    BY <2>1, <2>2, <2>3
  <2> HIDE DEF pc, insns, c, f, o, p
  <2>6. ChessAt(f, p, lines, o, e)
    <3>1. Len(f.body) \in Nat
      BY <2>5
    <3>2. e \in [0 .. Len(f.body) -> Nat] /\ Len(c) \in Nat /\ ChessAt(f, p, c, 0, e)
      BY <2>5
    <3>3. o \in Nat /\ \A j \in 1 .. Len(c) : o + j \in 1 .. Len(lines) /\ lines[o + j] = c[j]
      BY <2>5
    <3> QED BY <3>1, <3>2, <3>3, ChessShift
  <2>4. At(k, lines, off[k], e)
    BY <2>6 DEF f, o, p
  <2> QED BY <2>1, <2>3, <2>4
<1>7. /\ DOMAIN lines = 1 .. Len(lines) /\ Len(lines) \in Nat
      /\ Len(lines) = off[n + 1] /\ off[1] = 0 /\ off \in [1 .. n + 1 -> Nat]
  BY <1>4, <1>5, SeqDomain DEF lines, PartsAt
<1>8. ChessLaidOut(program, from, lines, off)
  BY <1>6, <1>7 DEF ChessLaidOut
<1> QED BY <1>2, <1>7, <1>8 DEF lines, n

-----------------------------------------------------------------------------
(* Around the line of an instruction.                                      *)

LEMMA NextPcIs ==
  ASSUME NEW lines, Len(lines) \in Nat, NEW i \in Nat, NEW j \in i + 1 .. Len(lines),
         lines[j].kind = "insn", \A x \in i + 1 .. j - 1 : lines[x].kind # "insn"
  PROVE  NextPcLine(lines, i) = j
<1> DEFINE T == {x \in i + 1 .. Len(lines) : lines[x].kind = "insn"} \cup {Len(lines)}
           t == Min(T)
<1>1. T \in SUBSET Nat /\ j \in T /\ T # {}
  OBVIOUS
<1>2. t \in T /\ \A x \in T : t <= x
  <2> HIDE DEF T
  <2> QED BY <1>1, MinIs
<1>3. NextPcLine(lines, i) = t
  BY DEF NextPcLine
<1>4. t \in Nat /\ t <= j /\ t >= i + 1
  BY <1>1, <1>2
<1>5. CASE t = j
  BY <1>3, <1>5
<1>6. CASE t # j
  <2>1. t \in i + 1 .. j - 1 /\ t # Len(lines)
    <3> HIDE DEF t
    <3> QED BY <1>4, <1>6
  <2>2. lines[t].kind = "insn"
    <3>1. t \in T
      BY <1>2
    <3> HIDE DEF t
    <3> QED BY <2>1, <3>1
  <2> QED BY <2>1, <2>2
<1> QED BY <1>5, <1>6

(* The lines of a function that are not directives.                        *)
LEMMA ChessStops ==
  ASSUME NEW f, NEW pc, NEW lines, Len(f.body) \in Nat,
         NEW o \in Nat, NEW e \in [0 .. Len(f.body) -> Nat], ChessAt(f, pc, lines, o, e)
  PROVE  /\ \A m \in 0 .. Len(f.body) : lines[o + e[m]].kind # "nohwbrkpt"
         /\ \A m \in 1 .. Len(f.body) : /\ e[m] \in Nat /\ e[m - 1] \in Nat
                                        /\ e[m - 1] < e[m] /\ e[m - 1] >= 2
<1> DEFINE L == Len(f.body)
<1>1. \A m \in 1 .. L : /\ e[m] \in Nat /\ e[m - 1] \in Nat /\ e[m - 1] < e[m]
  <2> SUFFICES ASSUME NEW m \in 1 .. L
               PROVE  e[m] \in Nat /\ e[m - 1] \in Nat /\ e[m - 1] < e[m]
    OBVIOUS
  <2>1. m \in 0 .. L /\ m - 1 \in 0 .. L
    OBVIOUS
  <2>2. e[m] \in Nat /\ e[m - 1] \in Nat
    BY <2>1
  <2> DEFINE a == e[m - 1]
             b == e[m]
             x == IF f.tail /\ m = Len(f.body) THEN 1 ELSE 0
             y == IF "nobp" \in f.body[m] THEN 1 ELSE 0
  <2>3. o + b = (o + a) + 1 + x + y
    BY DEF ChessAt, ChessGap
  <2>4. a \in Nat /\ b \in Nat /\ x \in Nat /\ y \in Nat
    BY <2>2
  <2>5. a < b
    <3> HIDE DEF a, b, x, y
    <3> QED BY <2>3, <2>4
  <2> QED BY <2>2, <2>5
<1>2. \A m \in 0 .. L : lines[o + e[m]].kind # "nohwbrkpt"
  <2> SUFFICES ASSUME NEW m \in 0 .. L PROVE lines[o + e[m]].kind # "nohwbrkpt"
    OBVIOUS
  <2>1. CASE m = 0
    BY <2>1 DEF ChessAt, Mark, Line
  <2>2. CASE m # 0
    BY <2>2, SMTT(30) DEF ChessAt
  <2> QED BY <2>1, <2>2
<1> DEFINE T == {m \in Nat : m <= L => e[m] >= 2}
<1>3. 0 \in T
  BY DEF ChessAt
<1>4. ASSUME NEW m \in 0 .. L - 1, m \in T PROVE m + 1 \in T
  <2>1. m + 1 \in 1 .. L /\ (m + 1) - 1 = m /\ m <= L
    OBVIOUS
  <2>2. e[m] < e[m + 1] /\ e[m] \in Nat /\ e[m + 1] \in Nat
    BY <1>1, <2>1
  <2> QED BY <1>4, <2>1, <2>2
<1> HIDE DEF T
<1>5. 0 .. L \subseteq T
  BY <1>3, <1>4, InductTo
<1>6. ASSUME NEW m \in 1 .. L PROVE e[m - 1] >= 2
  <2>1. m - 1 \in 0 .. L /\ m - 1 <= L
    OBVIOUS
  <2> QED BY <1>5, <2>1 DEF T
<1> QED BY <1>1, <1>2, <1>6

LEMMA ChessAllowed ==
  ASSUME NEW f, NEW pc, NEW lines, DOMAIN lines = 1 .. Len(lines), Len(lines) \in Nat,
         Len(f.body) \in Nat,
         NEW o \in Nat, NEW e \in [0 .. Len(f.body) -> Nat], ChessAt(f, pc, lines, o, e),
         NEW m \in 1 .. Len(f.body)
  PROVE  /\ BreakpointAllowed(lines, o + e[m]) => m \notin With(f, "nobp")
         /\ (With(f, "nobp") = {} /\ DOMAIN f.body = 1 .. Len(f.body)) =>
              BreakpointAllowed(lines, o + e[m])
<1> DEFINE L == Len(f.body)
           b == o + e[m]
           a == o + e[m - 1]
           tail == f.tail /\ m = L
           nobp == "nobp" \in f.body[m]
           x == IF tail THEN 1 ELSE 0
           y == IF nobp THEN 1 ELSE 0
<1>1. /\ e[m] \in Nat /\ e[m - 1] \in Nat /\ e[m - 1] >= 2 /\ a \in Nat /\ b \in Nat
      /\ b \in 1 .. Len(lines) /\ a >= 2
  <2>1. e[m] \in Nat /\ e[m - 1] \in Nat /\ e[m - 1] >= 2
    BY ChessStops
  <2>2. b \in 1 .. Len(lines)
    BY DEF ChessAt
  <2> QED BY <2>1, <2>2
<1>2. /\ b = a + 1 + x + y /\ (tail => lines[a + 1] = Mark("tail_call"))
      /\ (nobp => lines[b - 1] = Mark("nohwbrkpt"))
  BY DEF ChessAt, ChessGap
<1>3. x \in Nat /\ y \in Nat /\ (tail => x = 1) /\ (~tail => x = 0)
      /\ (nobp => y = 1) /\ (~nobp => y = 0)
  OBVIOUS
<1>4. lines[a].kind # "nohwbrkpt"
  <2>1. m - 1 \in 0 .. L
    OBVIOUS
  <2> QED BY <2>1, ChessStops
<1>5. BreakpointAllowed(lines, b) => m \notin With(f, "nobp")
  <2> SUFFICES ASSUME m \in With(f, "nobp") PROVE ~BreakpointAllowed(lines, b)
    OBVIOUS
  <2>1. nobp
    BY DEF With
  <2> HIDE DEF a, b, x, y, tail, nobp
  <2>2. lines[b - 1].kind = "nohwbrkpt"
    <3>1. lines[b - 1] = Mark("nohwbrkpt")
      BY <1>2, <2>1
    <3> QED BY <3>1 DEF Mark, Line
  <2>3. y = 1 /\ a >= 2 /\ a \in Nat /\ b = a + 1 + x + y /\ x \in Nat /\ b \in 1 .. Len(lines)
    BY <1>1, <1>2, <1>3, <2>1
  <2>4. b - 1 \in DOMAIN lines
    <3>1. b - 1 \in 1 .. Len(lines)
      BY <2>3
    <3> QED BY <3>1
  <2> QED BY <2>2, <2>4 DEF BreakpointAllowed
<1>6. ASSUME With(f, "nobp") = {}, DOMAIN f.body = 1 .. L PROVE BreakpointAllowed(lines, b)
  <2>1. ~nobp
    BY <1>6 DEF With
  <2>2. lines[b - 1].kind # "nohwbrkpt" /\ lines[b - 2].kind # "nohwbrkpt"
    <3>1. CASE tail
      <4>1. b = a + 1 + 1
        <5> HIDE DEF a, b, x, y, tail, nobp
        <5> QED BY <1>1, <1>2, <1>3, <2>1, <3>1
      <4>2. b - 1 = a + 1 /\ b - 2 = a
        <5> HIDE DEF a, b
        <5> QED BY <1>1, <4>1
      <4>3. lines[a + 1].kind # "nohwbrkpt"
        <5>1. lines[a + 1] = Mark("tail_call")
          BY <1>2, <3>1
        <5> QED BY <5>1 DEF Mark, Line
      <4> QED BY <1>4, <4>2, <4>3
    <3>2. CASE ~tail
      <4>1. b = a + 1
        <5> HIDE DEF a, b, x, y, tail, nobp
        <5> QED BY <1>1, <1>2, <1>3, <2>1, <3>2
      <4>2. b - 1 = a /\ b - 2 = a - 1
        <5> HIDE DEF a, b
        <5> QED BY <1>1, <4>1
      <4>3. CASE m = 1
        <5>1. e[m - 1] = 2
          BY <4>3 DEF ChessAt
        <5>2. a - 1 = o + 1
          BY <5>1
        <5>3. lines[o + 1].kind # "nohwbrkpt"
          BY DEF ChessAt, Mark, Line
        <5> QED BY <1>4, <4>2, <5>2, <5>3
      <4>4. CASE m # 1
        <5> DEFINE p == m - 1
                   c == o + e[p - 1]
        <5>1. p \in 1 .. L /\ p # L /\ p - 1 \in 0 .. L
          BY <4>4
        <5>2. ChessGap(f, p, lines, c, o + e[p])
          BY <5>1 DEF ChessAt
        <5>3. ~("nobp" \in f.body[p])
          BY <1>6, <5>1 DEF With
        <5>4. a = c + 1 + 0 + 0
          BY <5>1, <5>2, <5>3 DEF ChessGap
        <5>5. c \in Nat
          <6>1. e[p - 1] \in Nat
            BY <5>1, ChessStops
          <6> QED BY <6>1
        <5>6. a - 1 = c
          <6> HIDE DEF a, c
          <6> QED BY <5>4, <5>5
        <5>7. lines[c].kind # "nohwbrkpt"
          BY <5>1, ChessStops
        <5> QED BY <1>4, <4>2, <5>6, <5>7
      <4> QED BY <4>3, <4>4
    <3> QED BY <3>1, <3>2
  <2> HIDE DEF b
  <2> QED BY <2>2 DEF BreakpointAllowed
<1> QED BY <1>5, <1>6

-----------------------------------------------------------------------------
(* The Chess scan.                                                         *)

(* A function is done with its first return, or with its tail call.        *)
ChessClosed(f, m) ==
  UpTo(With(f, "ret"), m) # {} \/ (f.tail /\ m = Len(f.body) /\ m > 1)

(* After m instructions of function k.                                     *)
ChessSo(program, base, from, k, m, s) ==
  LET f  == program[k]
      pc == FirstPc(program, k, from)
      returns == UpTo(With(f, "ret"), m)
      n == Len(s.done)
  IN  /\ s \in ScanType(program)
      /\ \A j \in 1 .. k - 1 : Recovered(FALSE, program, from, j, s.done[j])
      /\ AcquireSo(base, program, from, k, m, s.acquire)
      /\ ~ChessClosed(f, m) =>
           /\ n = k - 1 /\ s.open \in FoundOf(program)
           /\ s.open.name = Demangle(f.name) /\ s.open.start = pc
           /\ m # 0 => s.open.end = pc - 1 + m
           /\ ReleaseSo(FALSE, f, pc, m, s.open.release)
      /\ ChessClosed(f, m) =>
           /\ n = k /\ s.open = NoFunction
           /\ s.done[k].name = Demangle(f.name) /\ s.done[k].start = pc
           /\ IF returns = {} THEN s.done[k].end = pc - 1 + Len(f.body)
              ELSE \E r \in returns : s.done[k].end = pc - 1 + r
           /\ ReleaseSo(FALSE, f, pc, m, s.done[k].release)

(* What ChessInside reads of any line.                                     *)
ChessRead(lines, base, s, i) ==
  LET line == lines[i]
      acq  == base /\ s.open.name = Main /\ "acq" \in line.ops
  IN  [s EXCEPT !.acquire = IF acq THEN line.pc ELSE @,
                !.open.end = IF line.kind = "insn" THEN line.pc ELSE @,
                !.open.release = IF "rel" \in line.ops /\ BreakpointAllowed(lines, i)
                                   THEN line.pc ELSE @]

ChessReadSo(program, base, lines, s, i, r) ==
  LET line == lines[i]
  IN  /\ r \in ScanType(program) /\ r.open \in FoundOf(program)
      /\ r.done = s.done /\ r.at = s.at
      /\ r.open.name = s.open.name /\ r.open.start = s.open.start
      /\ r.open.end = (IF line.kind = "insn" THEN line.pc ELSE s.open.end)
      /\ r.open.release = (IF "rel" \in line.ops /\ BreakpointAllowed(lines, i)
                             THEN line.pc ELSE s.open.release)
      /\ r.acquire = (IF base /\ s.open.name = Main /\ "acq" \in line.ops
                        THEN line.pc ELSE s.acquire)

LEMMA ChessReadIs ==
  ASSUME NEW program, NEW lines, NEW base, NEW i, NEW s \in ScanType(program),
         s.open \in FoundOf(program), lines[i].pc \in Nat
  PROVE  ChessReadSo(program, base, lines, s, i, ChessRead(lines, base, s, i))
<1> DEFINE line == lines[i]
           r == ChessRead(lines, base, s, i)
           A == IF base /\ s.open.name = Main /\ "acq" \in line.ops THEN line.pc ELSE s.acquire
           E == IF line.kind = "insn" THEN line.pc ELSE s.open.end
           R == IF "rel" \in line.ops /\ BreakpointAllowed(lines, i)
                  THEN line.pc ELSE s.open.release
           o == [s.open EXCEPT !.end = E, !.release = R]
<1>1. /\ s.done \in Seq(FoundOf(program)) /\ s.acquire \in Nat /\ s.at \in Nat
      /\ s = [done |-> s.done, open |-> s.open, acquire |-> s.acquire, at |-> s.at]
  BY DEF ScanType
<1>2. /\ s.open.end \in Nat /\ s.open.release \in Nat
      /\ s.open = [name |-> s.open.name, start |-> s.open.start, end |-> s.open.end,
                   release |-> s.open.release, tail |-> s.open.tail]
  BY DEF FoundOf
<1>3. r = [s EXCEPT !.acquire = A, !.open.end = E, !.open.release = R]
  BY DEF ChessRead
<1>4. A \in Nat /\ E \in Nat /\ R \in Nat
  BY <1>1, <1>2
<1> HIDE DEF A, E, R, r
<1>5. r = [done |-> s.done, open |-> o, acquire |-> A, at |-> s.at]
  BY <1>1, <1>2, <1>3
<1>6. o \in FoundOf(program) /\ o.name = s.open.name /\ o.start = s.open.start
      /\ o.end = E /\ o.release = R
  BY <1>2, <1>4 DEF FoundOf
<1> HIDE DEF o
<1>7. /\ r \in ScanType(program) /\ r.open = o /\ r.done = s.done /\ r.at = s.at
      /\ r.acquire = A
  BY <1>1, <1>4, <1>5, <1>6 DEF ScanType
<1> QED BY <1>6, <1>7 DEF A, E, R, r, ChessReadSo

(* What a line makes of it, when a function is open.                       *)
ChessLineSo(lines, base, s, i) ==
  LET r == ChessRead(lines, base, s, i)
  IN  /\ ("ret" \in lines[i].ops /\ lines[i].kind = "insn") =>
           ChessLine(lines, base, s, i) = Close(r, lines[i].pc, FALSE)
      /\ ("ret" \notin lines[i].ops /\ lines[i].kind \notin {"tail_call", "function_start"}) =>
           ChessLine(lines, base, s, i) = r
      /\ ("ret" \notin lines[i].ops /\ lines[i].kind = "tail_call") =>
           ChessLine(lines, base, s, i) =
             [Close(r, PcAt(lines, NextPcLine(lines, i)), TRUE)
                EXCEPT !.at = NextPcLine(lines, i) + 1]
      /\ ("ret" \notin lines[i].ops /\ StartsFunction(lines, i)) =>
           ChessLine(lines, base, s, i) =
             ChessOutside(lines, Close(r, r.open.end, FALSE), i)

LEMMA ChessLineIs ==
  ASSUME NEW lines, NEW base, NEW s, NEW i, s.open # NoFunction, ~(i < s.at)
  PROVE  ChessLineSo(lines, base, s, i)
<1>1. ChessLine(lines, base, s, i) = ChessInside(lines, base, s, i)
  BY DEF ChessLine
<1> DEFINE r == ChessRead(lines, base, s, i)
<1>2. ChessInside(lines, base, s, i) =
        CASE "ret" \in lines[i].ops -> Close(r, lines[i].pc, FALSE)
          [] lines[i].kind = "tail_call" ->
               [Close(r, PcAt(lines, NextPcLine(lines, i)), TRUE)
                  EXCEPT !.at = NextPcLine(lines, i) + 1]
          [] StartsFunction(lines, i) -> ChessOutside(lines, Close(r, r.open.end, FALSE), i)
          [] OTHER -> r
  BY DEF ChessInside, ChessRead
<1>3. StartsFunction(lines, i) => lines[i].kind = "function_start"
  BY DEF StartsFunction
<1> HIDE DEF r
<1>4. ASSUME "ret" \in lines[i].ops, lines[i].kind = "insn"
      PROVE  ChessInside(lines, base, s, i) = Close(r, lines[i].pc, FALSE)
  BY <1>2, <1>3, <1>4
<1>5. ASSUME "ret" \notin lines[i].ops, lines[i].kind \notin {"tail_call", "function_start"}
      PROVE  ChessInside(lines, base, s, i) = r
  BY <1>2, <1>3, <1>5
<1>6. ASSUME "ret" \notin lines[i].ops, lines[i].kind = "tail_call"
      PROVE  ChessInside(lines, base, s, i) =
               [Close(r, PcAt(lines, NextPcLine(lines, i)), TRUE)
                  EXCEPT !.at = NextPcLine(lines, i) + 1]
  BY <1>2, <1>3, <1>6
<1>7. ASSUME "ret" \notin lines[i].ops, StartsFunction(lines, i)
      PROVE  ChessInside(lines, base, s, i) =
               ChessOutside(lines, Close(r, r.open.end, FALSE), i)
  BY <1>2, <1>3, <1>7
<1> QED BY <1>1, <1>4, <1>5, <1>6, <1>7 DEF r, ChessLineSo

(* Outside a function only the start of one matters.                       *)
LEMMA ChessNoStart ==
  ASSUME NEW lines, NEW base, NEW s, NEW i, s.open = NoFunction,
         lines[i].kind # "function_start"
  PROVE  ChessLine(lines, base, s, i) = s
BY DEF ChessLine, ChessOutside, StartsFunction

(* Inside one, a mark changes nothing.                                     *)
LEMMA ChessMark ==
  ASSUME NEW program, NEW lines, NEW base, NEW i, NEW s \in ScanType(program),
         s.open \in FoundOf(program), lines[i].ops = {}, lines[i].kind # "insn"
  PROVE  ChessRead(lines, base, s, i) = s
<1> DEFINE A == s.acquire
           E == s.open.end
           R == s.open.release
<1>1. ChessRead(lines, base, s, i) =
        [s EXCEPT !.acquire = A, !.open.end = E, !.open.release = R]
  BY DEF ChessRead
<1>2. /\ s = [done |-> s.done, open |-> s.open, acquire |-> s.acquire, at |-> s.at]
      /\ s.open = [name |-> s.open.name, start |-> s.open.start, end |-> s.open.end,
                   release |-> s.open.release, tail |-> s.open.tail]
  BY DEF ScanType, FoundOf
<1> QED BY <1>1, <1>2

LEMMA ChessQuiet ==
  ASSUME NEW program, NEW lines, NEW base, NEW i, NEW s \in ScanType(program),
         lines[i].ops = {}, lines[i].kind \in {"label", "nohwbrkpt"}
  PROVE  ChessLine(lines, base, s, i) = s
<1>1. CASE i < s.at
  BY <1>1 DEF ChessLine
<1>2. CASE s.open = NoFunction
  BY <1>2, ChessNoStart
<1>3. CASE s.open # NoFunction /\ ~(i < s.at)
  <2>1. s.open \in FoundOf(program)
    BY <1>3 DEF ScanType
  <2>2. ChessRead(lines, base, s, i) = s
    BY <2>1, ChessMark
  <2>3. "ret" \notin lines[i].ops /\ lines[i].kind \notin {"tail_call", "function_start"}
    OBVIOUS
  <2>4. ChessLine(lines, base, s, i) = ChessRead(lines, base, s, i)
    <3>1. ChessLineSo(lines, base, s, i)
      BY <1>3, ChessLineIs
    <3> QED BY <2>3, <3>1 DEF ChessLineSo
  <2> QED BY <2>2, <2>4
<1> QED BY <1>1, <1>2, <1>3

LEMMA MainIs ==
  ASSUME NEW name
  PROVE  Main[1] = "main" /\ (Demangle(name) = Main <=> name[1] = "main")
<1>1. Main[1] = "main"
  BY DEF Main
<1>2. Demangle(name)[1] = name[1]
  BY DEF Demangle
<1>3. name[1] = "main" => Demangle(name) = Main
  BY DEF Demangle, Main
<1> QED BY <1>1, <1>2, <1>3

(* A main with template arguments takes no acquire from the other one.     *)
LEMMA AcquireOther ==
  ASSUME NEW program, IsProgram(program), NEW from, NEW base, base => MainReturns(program),
         NEW k \in 1 .. Len(program), NEW m, NEW acquire,
         program[k].name # Main, program[k].name[1] = "main"
  PROVE  AcquireSo(base, program, from, k, m, acquire)
<1> SUFFICES ASSUME base, NEW q \in 1 .. k, program[q].name = Main PROVE FALSE
  BY DEF AcquireSo
<1>1. q \in DOMAIN program /\ k \in DOMAIN program
  BY ProgramFacts
<1>2. k = q
  BY <1>1 DEF MainReturns
<1> QED BY <1>2

(* main acquires before it returns and before its tail call.               *)
LEMMA AcquireEarly ==
  ASSUME NEW program, IsProgram(program), MainReturns(program),
         NEW k \in 1 .. Len(program), program[k].name = Main, NEW m \in Nat,
         m + 1 \in With(program[k], "acq")
  PROVE  UpTo(With(program[k], "ret"), m) = {} /\ m + 1 # Len(program[k].body)
<1> DEFINE X == With(program[k], "ret")
<1>1. X \in SUBSET Nat /\ X \in SUBSET (1 .. Len(program[k].body)) /\ Len(program[k].body) \in Nat
  BY WithIs
<1>2. X # {} /\ \A n \in X : m + 1 < n
  <2>1. k \in DOMAIN program
    BY ProgramFacts
  <2> QED BY <2>1 DEF MainReturns
<1> HIDE DEF X
<1>3. UpTo(X, m) = {}
  <2> SUFFICES ASSUME NEW n \in UpTo(X, m) PROVE FALSE
    OBVIOUS
  <2>1. n \in Nat /\ n <= m /\ m + 1 < n
    BY <1>1, <1>2 DEF UpTo
  <2> QED BY <2>1
<1>4. m + 1 # Len(program[k].body)
  <2>1. PICK n \in X : TRUE
    BY <1>2
  <2>2. n \in 1 .. Len(program[k].body) /\ m + 1 < n
    BY <1>1, <1>2
  <2> QED BY <1>1, <2>2
<1> QED BY <1>3, <1>4 DEF X

(* When a function is done, its acquires and its releases have been read.  *)
LEMMA ChessKeeps ==
  ASSUME NEW program, IsProgram(program), NEW from \in Nat, NEW base,
         base => MainReturns(program),
         NEW k \in 1 .. Len(program), NEW m \in Nat, m < Len(program[k].body),
         NEW s, ChessSo(program, base, from, k, m, s), ChessClosed(program[k], m)
  PROVE  ChessSo(program, base, from, k, m + 1, s)
<1> DEFINE f == program[k]
           pc == FirstPc(program, k, from)
           X == With(f, "ret")
           M == m + 1
<1>1. X \in SUBSET Nat
  BY WithIs
<1>2. UpTo(X, m) # {} /\ UpTo(X, m) \subseteq UpTo(X, M)
  <2>1. UpTo(X, m) # {}
    BY DEF ChessClosed
  <2>2. \A n \in X : n \in Nat /\ (n <= m => n <= M)
    BY <1>1
  <2> QED BY <2>1, <2>2 DEF UpTo
<1>3. UpTo(X, M) # {} /\ ChessClosed(f, M)
  BY <1>2 DEF ChessClosed
<1>4. ~(base /\ f.name = Main /\ m + 1 \in With(f, "acq"))
  BY <1>2, AcquireEarly
<1>5. AcquireSo(base, program, from, k, M, s.acquire)
  BY <1>4, AcquireKept DEF ChessSo
<1>6. Tidy(f) => m + 1 \notin With(f, "rel")
  <2> SUFFICES ASSUME Tidy(f), m + 1 \in With(f, "rel") PROVE FALSE
    OBVIOUS
  <2>1. PICK n \in UpTo(X, m) : TRUE
    BY <1>2
  <2>2. n \in X /\ n <= m /\ n \in Nat
    BY <1>1, <2>1 DEF UpTo
  <2>3. m + 1 < n
    BY <2>2 DEF Tidy
  <2> QED BY <2>2, <2>3
<1>7. \A release : ReleaseSo(FALSE, f, pc, m, release) => ReleaseSo(FALSE, f, pc, M, release)
  BY <1>6, ReleaseKept
<1>8. /\ s \in ScanType(program)
      /\ \A j \in 1 .. k - 1 : Recovered(FALSE, program, from, j, s.done[j])
      /\ Len(s.done) = k /\ s.open = NoFunction
      /\ s.done[k].name = Demangle(f.name) /\ s.done[k].start = pc
      /\ \E r \in UpTo(X, m) : s.done[k].end = pc - 1 + r
      /\ ReleaseSo(FALSE, f, pc, m, s.done[k].release)
  BY <1>2 DEF ChessSo
<1>9. \E r \in UpTo(X, M) : s.done[k].end = pc - 1 + r
  BY <1>2, <1>8
<1> HIDE DEF f, pc, X, M
<1> QED BY <1>3, <1>5, <1>7, <1>8, <1>9 DEF ChessSo, f, pc, X, M

(* Another instruction of the function that is open.                       *)
ChessTaken(program, base, from, k, m, s, c) ==
  ChessSo(program, base, from, k, m + 1, c) /\ c.at = s.at

LEMMA ChessStep ==
  ASSUME NEW program, IsProgram(program), NEW from \in Nat, NEW base,
         base => MainReturns(program),
         NEW k \in 1 .. Len(program), NEW m \in Nat, m < Len(program[k].body),
         ~(program[k].tail /\ m + 1 = Len(program[k].body) /\ m + 1 > 1),
         NEW s, ChessSo(program, base, from, k, m, s), ~ChessClosed(program[k], m),
         NEW lines, NEW i, ~(i < s.at),
         lines[i].kind = "insn", lines[i].ops = program[k].body[m + 1],
         lines[i].pc = FirstPc(program, k, from) + m,
         BreakpointAllowed(lines, i) => m + 1 \notin With(program[k], "nobp"),
         With(program[k], "nobp") = {} => BreakpointAllowed(lines, i)
  PROVE  ChessTaken(program, base, from, k, m, s, ChessLine(lines, base, s, i))
<1> DEFINE f == program[k]
           pc == FirstPc(program, k, from)
           X == With(f, "ret")
           M == m + 1
           r == ChessRead(lines, base, s, i)
           c == ChessLine(lines, base, s, i)
<1>1. X \in SUBSET Nat /\ \A op : m + 1 \in With(f, op) <=> op \in lines[i].ops
  <2>1. m + 1 \in 1 .. Len(f.body)
    BY ProgramFacts
  <2>2. \A op : m + 1 \in With(f, op) <=> op \in f.body[m + 1]
    BY <2>1, WithIs
  <2> QED BY <2>2, WithIs
<1>2. pc \in Nat /\ k \in Nat /\ pc + m = pc - 1 + M /\ pc + m \in Nat
  <2>1. k \in 1 .. Len(program) + 1 /\ k \in Nat
    BY ProgramFacts
  <2>2. pc \in Nat
    BY <2>1, EntriesAre
  <2> HIDE DEF pc
  <2> QED BY <2>1, <2>2
<1>3. /\ UpTo(X, m) = {} /\ s \in ScanType(program)
      /\ \A j \in 1 .. k - 1 : Recovered(FALSE, program, from, j, s.done[j])
      /\ Len(s.done) = k - 1 /\ s.open \in FoundOf(program)
      /\ s.open.name = Demangle(f.name) /\ s.open.start = pc
      /\ ReleaseSo(FALSE, f, pc, m, s.open.release)
      /\ AcquireSo(base, program, from, k, m, s.acquire)
  BY DEF ChessSo, ChessClosed
<1>4. s.open # NoFunction
  <2>1. NoFunction.name = NoName
    BY DEF NoFunction
  <2>2. Demangle(f.name) # NoName
    BY ProgramFacts
  <2> QED BY <1>3, <2>1, <2>2
<1>5. ChessReadSo(program, base, lines, s, i, r)
  <2>1. lines[i].pc \in Nat
    BY <1>2
  <2> QED BY <1>3, <2>1, ChessReadIs
<1>6. AcquireSo(base, program, from, k, M, r.acquire)
  <2>1. r.acquire = (IF base /\ s.open.name = Main /\ "acq" \in lines[i].ops
                       THEN pc + m ELSE s.acquire)
    BY <1>5 DEF ChessReadSo
  <2>2. s.open.name = Main <=> f.name[1] = "main"
    BY <1>3, MainIs
  <2>3. f.name = Main => f.name[1] = "main"
    BY MainIs
  <2>4. CASE base /\ f.name = Main /\ m + 1 \in With(f, "acq")
    <3>1. r.acquire = pc + m
      BY <1>1, <2>1, <2>2, <2>3, <2>4
    <3>2. program[k].name = Main /\ m + 1 \in With(program[k], "acq") /\ MainReturns(program)
      BY <2>4
    <3> QED BY <3>1, <3>2, AcquireSet
  <2>5. CASE f.name # Main /\ f.name[1] = "main"
    BY <2>5, AcquireOther
  <2>6. CASE ~(base /\ f.name = Main /\ m + 1 \in With(f, "acq"))
             /\ ~(f.name # Main /\ f.name[1] = "main")
    <3>1. r.acquire = s.acquire
      BY <1>1, <2>1, <2>2, <2>6
    <3> QED BY <1>3, <2>6, <3>1, AcquireKept
  <2> QED BY <2>4, <2>5, <2>6
<1>7. ReleaseSo(FALSE, f, pc, M, r.open.release)
  <2>1. r.open.release = (IF "rel" \in lines[i].ops /\ BreakpointAllowed(lines, i)
                            THEN pc + m ELSE s.open.release)
    BY <1>5 DEF ChessReadSo
  <2>2. CASE "rel" \in lines[i].ops /\ BreakpointAllowed(lines, i)
    <3>1. m + 1 \in Releases(FALSE, f)
      BY <1>1, <2>2 DEF Releases
    <3>2. r.open.release = pc + m
      BY <2>1, <2>2
    <3> HIDE DEF r
    <3> QED BY <1>2, <3>1, <3>2, ReleaseSet
  <2>3. CASE ~("rel" \in lines[i].ops /\ BreakpointAllowed(lines, i))
    <3>1. Tidy(f) => m + 1 \notin With(f, "rel")
      BY <1>1, <2>3 DEF Tidy
    <3>2. r.open.release = s.open.release
      BY <2>1, <2>3
    <3> HIDE DEF r
    <3> QED BY <1>3, <3>1, <3>2, ReleaseKept
  <2> QED BY <2>2, <2>3
<1>8. /\ r \in ScanType(program) /\ r.open \in FoundOf(program) /\ r.done = s.done
      /\ r.at = s.at /\ r.open.name = Demangle(f.name) /\ r.open.start = pc
      /\ r.open.end = pc - 1 + M
  BY <1>2, <1>3, <1>5 DEF ChessReadSo
<1>9. CASE "ret" \in lines[i].ops
  <2>1. UpTo(X, M) # {} /\ M \in UpTo(X, M) /\ ChessClosed(f, M)
    <3>1. m + 1 \in X
      BY <1>1, <1>9
    <3>2. m + 1 <= m + 1
      OBVIOUS
    <3> QED BY <3>1, <3>2 DEF UpTo, ChessClosed
  <2>2. c = Close(r, pc + m, FALSE)
    <3>1. ChessLineSo(lines, base, s, i)
      BY <1>4, ChessLineIs
    <3> QED BY <1>9, <3>1 DEF ChessLineSo
  <2> HIDE DEF f, pc, X, M, r, c
  <2>3. Closed(program, r, c, pc + m)
    BY <1>2, <1>8, <2>2, CloseIs
  <2>4. (k - 1) + 1 = k
    BY <1>2
  <2>5. /\ c \in ScanType(program) /\ c.open = NoFunction /\ c.acquire = r.acquire
        /\ c.at = s.at /\ Len(c.done) = k /\ \A j \in 1 .. k - 1 : c.done[j] = s.done[j]
        /\ c.done[k].name = r.open.name /\ c.done[k].start = r.open.start
        /\ c.done[k].release = r.open.release /\ c.done[k].end = pc - 1 + M
    BY <1>2, <1>3, <1>8, <2>3, <2>4 DEF Closed
  <2>6. ChessSo(program, base, from, k, M, c)
    BY <1>3, <1>6, <1>7, <1>8, <2>1, <2>5 DEF ChessSo, f, pc, X
  <2> QED BY <2>5, <2>6 DEF M, c, ChessTaken
<1>10. CASE "ret" \notin lines[i].ops
  <2>1. UpTo(X, M) = {}
    <3>1. m + 1 \notin X
      BY <1>1, <1>10
    <3> QED BY <1>1, <1>3, <3>1, UpToMiss
  <2>2. ~ChessClosed(f, M)
    BY <2>1 DEF ChessClosed
  <2>3. c = r
    <3>1. ChessLineSo(lines, base, s, i)
      BY <1>4, ChessLineIs
    <3> QED BY <1>10, <3>1 DEF ChessLineSo
  <2> HIDE DEF f, pc, X, M, r, c
  <2>4. ChessSo(program, base, from, k, M, c)
    BY <1>3, <1>6, <1>7, <1>8, <2>1, <2>2, <2>3 DEF ChessSo, f, pc, X
  <2> QED BY <1>8, <2>3, <2>4 DEF M, c, ChessTaken
<1> QED BY <1>9, <1>10

(* The directive before the jump of a tail call ends the function that is  *)
(* open.                                                                   *)
LEMMA ChessTail ==
  ASSUME NEW program, IsProgram(program), NEW from \in Nat, NEW base,
         base => MainReturns(program),
         NEW k \in 1 .. Len(program), NEW m \in Nat \ {0}, program[k].tail,
         m + 1 = Len(program[k].body),
         NEW s, ChessSo(program, base, from, k, m, s), ~ChessClosed(program[k], m),
         NEW lines, NEW i, ~(i < s.at), lines[i] = Mark("tail_call"), NextPcLine(lines, i) \in Nat,
         PcAt(lines, NextPcLine(lines, i)) = FirstPc(program, k, from) + m
  PROVE  LET c == ChessLine(lines, base, s, i)
         IN  /\ ChessSo(program, base, from, k, m + 1, c)
             /\ c.open = NoFunction /\ c.at = NextPcLine(lines, i) + 1
<1> DEFINE f == program[k]
           pc == FirstPc(program, k, from)
           X == With(f, "ret")
           M == m + 1
           j == NextPcLine(lines, i)
           d == Close(s, pc + m, TRUE)
           c == ChessLine(lines, base, s, i)
<1>1. X \in SUBSET Nat /\ X \in SUBSET (1 .. M)
  BY WithIs
<1>2. pc \in Nat /\ k \in Nat /\ pc + m = pc - 1 + M /\ pc + m \in Nat
  <2>1. k \in 1 .. Len(program) + 1 /\ k \in Nat
    BY ProgramFacts
  <2>2. pc \in Nat
    BY <2>1, EntriesAre
  <2> HIDE DEF pc
  <2> QED BY <2>1, <2>2
<1>3. /\ UpTo(X, m) = {} /\ s \in ScanType(program)
      /\ \A q \in 1 .. k - 1 : Recovered(FALSE, program, from, q, s.done[q])
      /\ Len(s.done) = k - 1 /\ s.open \in FoundOf(program)
      /\ s.open.name = Demangle(f.name) /\ s.open.start = pc
      /\ ReleaseSo(FALSE, f, pc, m, s.open.release)
      /\ AcquireSo(base, program, from, k, m, s.acquire)
  BY DEF ChessSo, ChessClosed
<1>4. s.open # NoFunction
  <2>1. NoFunction.name = NoName
    BY DEF NoFunction
  <2>2. Demangle(f.name) # NoName
    BY ProgramFacts
  <2> QED BY <1>3, <2>1, <2>2
<1>5. c = [d EXCEPT !.at = j + 1]
  <2>1. lines[i].ops = {} /\ lines[i].kind = "tail_call"
    BY DEF Mark, Line
  <2>2. ChessRead(lines, base, s, i) = s
    BY <1>3, <2>1, ChessMark
  <2>3. ChessLineSo(lines, base, s, i)
    BY <1>4, ChessLineIs
  <2> QED BY <2>1, <2>2, <2>3 DEF ChessLineSo
<1>6. Closed(program, s, d, pc + m)
  BY <1>2, <1>3, CloseIs
<1>7. ~(base /\ f.name = Main /\ m + 1 \in With(f, "acq"))
  BY AcquireEarly
<1>8. AcquireSo(base, program, from, k, M, s.acquire)
  BY <1>3, <1>7, AcquireKept
<1>9. Tidy(f) => m + 1 \notin With(f, "rel")
  BY DEF Tidy
<1>10. ReleaseSo(FALSE, f, pc, M, s.open.release)
  BY <1>3, <1>9, ReleaseKept
<1>11. ChessClosed(f, M)
  <2>1. M = Len(f.body) /\ M > 1
    OBVIOUS
  <2> HIDE DEF M
  <2> QED BY <2>1 DEF ChessClosed
<1>12. (k - 1) + 1 = k
  BY <1>2
<1> HIDE DEF d, c, j
<1>13. /\ d \in ScanType(program) /\ d.open = NoFunction /\ d.acquire = s.acquire
       /\ Len(d.done) = k /\ \A q \in 1 .. k - 1 : d.done[q] = s.done[q]
       /\ d.done[k].name = s.open.name /\ d.done[k].start = s.open.start
       /\ d.done[k].release = s.open.release /\ d.done[k].end = pc + m
  <2> HIDE DEF pc, f
  <2> QED BY <1>3, <1>6, <1>12 DEF Closed
<1>14. /\ c \in ScanType(program) /\ c.open = NoFunction /\ c.acquire = s.acquire
       /\ c.done = d.done /\ c.at = j + 1
  <2>1. j + 1 \in Nat
    BY DEF j
  <2> HIDE DEF pc, f
  <2> QED BY <1>5, <1>13, <2>1 DEF ScanType
<1>15. IF UpTo(X, M) = {} THEN c.done[k].end = pc - 1 + Len(f.body)
       ELSE \E r \in UpTo(X, M) : c.done[k].end = pc - 1 + r
  <2>1. c.done[k].end = pc - 1 + M /\ M = Len(f.body)
    BY <1>2, <1>13, <1>14
  <2>2. \A r \in UpTo(X, M) : r = M
    <3> SUFFICES ASSUME NEW r \in UpTo(X, M) PROVE r = M
      OBVIOUS
    <3>1. r \in X /\ r \in 1 .. M /\ r \notin UpTo(X, m)
      BY <1>1, <1>3 DEF UpTo
    <3>2. ~(r <= m)
      BY <3>1 DEF UpTo
    <3> QED BY <3>1, <3>2
  <2> HIDE DEF X, M, pc, f
  <2> QED BY <2>1, <2>2
<1> HIDE DEF f, pc, X, M
<1>16. ChessSo(program, base, from, k, M, c)
  BY <1>3, <1>8, <1>10, <1>11, <1>13, <1>14, <1>15 DEF ChessSo, f, pc, X
<1> QED BY <1>14, <1>16 DEF M, c, j

-----------------------------------------------------------------------------
(* The only element of a set is the greatest.                              *)
LEMMA OnlyOne ==
  ASSUME NEW n \in Nat, NEW X \in SUBSET (0 .. n), Cardinality(X) <= 1, NEW x \in X
  PROVE  Max(X) = x
<1>1. IsFiniteSet(X)
  <2>1. IsFiniteSet(0 .. n)
    BY FS_Interval
  <2> QED BY <2>1, FS_Subset
<1>2. Max(X) \in X
  BY MaxIs
<1> DEFINE y == Max(X)
<1> SUFFICES ASSUME y # x PROVE FALSE
  OBVIOUS
<1> HIDE DEF y
<1>3. y \in X
  BY <1>2 DEF y
<1>4. Cardinality({x}) = 1 /\ IsFiniteSet({x})
  BY FS_Singleton
<1>5. Cardinality({x} \cup {y}) = 2 /\ IsFiniteSet({x} \cup {y})
  <2>1. y \notin {x}
    OBVIOUS
  <2>2. Cardinality({x} \cup {y}) = Cardinality({x}) + 1 /\ IsFiniteSet({x} \cup {y})
    BY <1>4, <2>1, FS_AddElement
  <2> QED BY <1>4, <2>2
<1>6. {x} \cup {y} \subseteq X
  BY <1>3
<1>7. Cardinality({x} \cup {y}) <= Cardinality(X)
  BY <1>1, <1>6, FS_Subset
<1>8. Cardinality(X) \in Nat
  BY <1>1, FS_CardinalityType
<1> QED BY <1>5, <1>7, <1>8

(* All that is known of a function at its end.                             *)
ChessKnown(program, base, from, k, s) ==
  LET f  == program[k]
      pc == FirstPc(program, k, from)
      L  == Len(f.body)
      n  == Len(s.done)
  IN  /\ s \in ScanType(program) /\ pc \in Nat
      /\ \A j \in 1 .. k - 1 : Recovered(FALSE, program, from, j, s.done[j])
      /\ AcquireSo(base, program, from, k, L, s.acquire)
      /\ ~ChessClosed(f, L) =>
           /\ n = k - 1 /\ s.open \in FoundOf(program) /\ s.open # NoFunction
           /\ With(f, "ret") = {} /\ ~(f.tail /\ L > 1)
           /\ s.open.name = Demangle(f.name) /\ s.open.start = pc
           /\ s.open.end = pc - 1 + L
           /\ ReleaseSo(FALSE, f, pc, L, s.open.release)
      /\ ChessClosed(f, L) =>
           /\ n = k /\ s.open = NoFunction /\ Recovered(FALSE, program, from, k, s.done[k])

LEMMA ChessWhole ==
  ASSUME NEW program, IsProgram(program), NEW from \in Nat, NEW base,
         NEW k \in 1 .. Len(program), NEW s,
         ChessSo(program, base, from, k, Len(program[k].body), s)
  PROVE  ChessKnown(program, base, from, k, s)
<1> DEFINE f == program[k]
           pc == FirstPc(program, k, from)
           X == With(f, "ret")
           L == Len(f.body)
<1>1. /\ X \in SUBSET (1 .. L) /\ UpTo(X, L) = X /\ L \in Nat /\ L # 0
      /\ pc \in Nat
  <2>1. k \in 1 .. Len(program) + 1
    BY ProgramFacts
  <2>2. X \in SUBSET (1 .. L) /\ UpTo(X, L) = X
    BY WithIs
  <2>3. L \in Nat /\ L # 0
    BY ProgramFacts
  <2>4. pc \in Nat
    BY <2>1, EntriesAre
  <2> QED BY <2>2, <2>3, <2>4
<1>2. /\ s \in ScanType(program)
      /\ \A j \in 1 .. k - 1 : Recovered(FALSE, program, from, j, s.done[j])
      /\ AcquireSo(base, program, from, k, L, s.acquire)
  BY DEF ChessSo
<1>3. CASE ~ChessClosed(f, L)
  <2>1. /\ Len(s.done) = k - 1 /\ s.open \in FoundOf(program)
        /\ s.open.name = Demangle(f.name) /\ s.open.start = pc
        /\ s.open.end = pc - 1 + L
        /\ ReleaseSo(FALSE, f, pc, L, s.open.release)
    BY <1>1, <1>3 DEF ChessSo
  <2>2. X = {} /\ ~(f.tail /\ L > 1)
    BY <1>1, <1>3 DEF ChessClosed
  <2>3. s.open # NoFunction
    <3>1. NoFunction.name = NoName
      BY DEF NoFunction
    <3>2. Demangle(f.name) # NoName
      BY ProgramFacts
    <3> QED BY <2>1, <3>1, <3>2
  <2> HIDE DEF f, pc, X, L
  <2> QED BY <1>1, <1>2, <1>3, <2>1, <2>2, <2>3 DEF ChessKnown, f, pc, X, L
<1>4. CASE ChessClosed(f, L)
  <2>1. /\ Len(s.done) = k /\ s.open = NoFunction
        /\ s.done[k].name = Demangle(f.name) /\ s.done[k].start = pc
        /\ (IF X = {} THEN s.done[k].end = pc - 1 + L
            ELSE \E r \in X : s.done[k].end = pc - 1 + r)
        /\ ReleaseSo(FALSE, f, pc, L, s.done[k].release)
    BY <1>1, <1>4 DEF ChessSo
  <2>2. ASSUME Cardinality(X) <= 1
        PROVE  s.done[k].end = pc - 1 + IF X = {} THEN L ELSE Max(X)
    <3>1. CASE X = {}
      BY <2>1, <3>1
    <3>2. CASE X # {}
      <4>1. PICK r \in X : s.done[k].end = pc - 1 + r
        BY <2>1, <3>2
      <4>2. X \in SUBSET (0 .. L)
        BY <1>1
      <4> HIDE DEF X, L
      <4>3. Max(X) = r
        BY <1>1, <2>2, <4>2, OnlyOne
      <4> QED BY <3>2, <4>1, <4>3
    <3> QED BY <3>1, <3>2
  <2> HIDE DEF f, pc, X, L
  <2>3. Recovered(FALSE, program, from, k, s.done[k])
    BY <2>1, <2>2 DEF Recovered, f, pc, X, L
  <2> QED BY <1>1, <1>2, <1>4, <2>1, <2>3 DEF ChessKnown, f, pc, X, L
<1> QED BY <1>3, <1>4

(* Before function k: the functions before it are done, or the last one is *)
(* open.                                                                   *)
ChessBetween(program, base, from, k, s) ==
  IF k = 1 THEN s = Unread
  ELSE ChessSo(program, base, from, k - 1, Len(program[k - 1].body), s)

ChessBegun(program, base, from, k, c, at) ==
  ChessSo(program, base, from, k, 0, c) /\ c.at = at

LEMMA ChessStart ==
  ASSUME NEW program, IsProgram(program), NEW from \in Nat, NEW base,
         NEW k \in 1 .. Len(program), NEW s, ChessBetween(program, base, from, k, s),
         NEW lines, NEW i \in Nat, i > 1, ~(i < s.at),
         lines[i - 1] = Line("label", 0, {}, program[k].name),
         lines[i] = Mark("function_start"), NextPcLine(lines, i) \in Nat,
         PcAt(lines, NextPcLine(lines, i)) = FirstPc(program, k, from)
  PROVE  ChessBegun(program, base, from, k, ChessLine(lines, base, s, i), NextPcLine(lines, i))
<1> DEFINE f == program[k]
           pc == FirstPc(program, k, from)
           j == NextPcLine(lines, i)
           d == IF s.open = NoFunction THEN s ELSE Close(s, s.open.end, FALSE)
           new == NewFunction(Demangle(f.name), pc)
           c == ChessLine(lines, base, s, i)
<1>1. StartsFunction(lines, i) /\ lines[i - 1].name = f.name /\ lines[i].ops = {}
      /\ lines[i].kind = "function_start" /\ f.name[1] # "main_init"
  <2>1. lines[i - 1].kind = "label" /\ lines[i - 1].name = f.name
    BY DEF Line
  <2>2. lines[i].ops = {} /\ lines[i].kind = "function_start"
    BY DEF Mark, Line
  <2>3. f.name[1] # "main_init"
    BY ProgramFacts
  <2> QED BY <2>1, <2>2, <2>3 DEF StartsFunction
<1>2. ASSUME NEW x
      PROVE  ChessOutside(lines, x, i) = [x EXCEPT !.open = new, !.at = j]
  BY <1>1 DEF ChessOutside
<1>3. pc \in Nat /\ k \in Nat
  <2>1. k \in 1 .. Len(program) + 1 /\ k \in Nat
    BY ProgramFacts
  <2> QED BY <2>1, EntriesAre
<1>4. c = [d EXCEPT !.open = new, !.at = j]
  <2>1. CASE s.open = NoFunction
    <3>1. c = ChessOutside(lines, s, i)
      BY <2>1 DEF ChessLine
    <3> QED BY <1>2, <2>1, <3>1
  <2>2. CASE s.open # NoFunction
    <3>1. s \in ScanType(program)
      <4>1. CASE k = 1
        BY <4>1, UnreadIs DEF ChessBetween
      <4>2. CASE k # 1
        BY <4>2 DEF ChessBetween, ChessSo
      <4> QED BY <4>1, <4>2
    <3>2. s.open \in FoundOf(program)
      BY <2>2, <3>1 DEF ScanType
    <3>3. ChessRead(lines, base, s, i) = s
      <4>1. lines[i].kind # "insn"
        BY <1>1
      <4> QED BY <1>1, <3>1, <3>2, <4>1, ChessMark
    <3>4. ChessLineSo(lines, base, s, i)
      BY <2>2, ChessLineIs
    <3>5. c = ChessOutside(lines, d, i)
      BY <1>1, <2>2, <3>3, <3>4 DEF ChessLineSo
    <3> HIDE DEF d
    <3> QED BY <1>2, <3>5
  <2> QED BY <2>1, <2>2
<1>5. /\ d \in ScanType(program) /\ Len(d.done) = k - 1
      /\ \A q \in 1 .. k - 1 : Recovered(FALSE, program, from, q, d.done[q])
      /\ AcquireSo(base, program, from, k, 0, d.acquire)
  <2>1. CASE k = 1
    <3>1. s = Unread
      BY <2>1 DEF ChessBetween
    <3>2. d = Unread
      BY <3>1, UnreadIs
    <3> HIDE DEF d
    <3>0. Len(program) # 0
      BY <2>1, ProgramFacts
    <3>3. AcquireSo(base, program, from, 1, 0, d.acquire)
      BY <3>0, AcquireNone
    <3> QED BY <2>1, <3>2, <3>3, UnreadIs
  <2>2. CASE k # 1
    <3> DEFINE q == k - 1
               g == program[q]
               L == Len(g.body)
               end == s.open.end
    <3>1. q \in 1 .. Len(program) /\ q + 1 = k /\ q \in Nat /\ q # Len(program)
      BY <1>3, <2>2
    <3>2. ChessKnown(program, base, from, q, s)
      <4>1. ChessSo(program, base, from, q, Len(g.body), s)
        BY <2>2 DEF ChessBetween
      <4> HIDE DEF q
      <4> QED BY <3>1, <4>1, ChessWhole
    <3> HIDE DEF q
    <3>3. /\ s \in ScanType(program)
          /\ \A x \in 1 .. q - 1 : Recovered(FALSE, program, from, x, s.done[x])
          /\ AcquireSo(base, program, from, q, L, s.acquire)
      BY <3>2 DEF ChessKnown
    <3>4. AcquireSo(base, program, from, k, 0, s.acquire)
      BY <3>1, <3>3, AcquireNext
    <3>5. \A x \in 1 .. q : x \in 1 .. q - 1 \/ x = q
      BY <3>1
    <3>6. CASE ~ChessClosed(g, L)
      <4>1. /\ Len(s.done) = q - 1 /\ s.open \in FoundOf(program) /\ s.open # NoFunction
            /\ With(g, "ret") = {}
            /\ s.open.name = Demangle(g.name) /\ s.open.start = FirstPc(program, q, from)
            /\ end = FirstPc(program, q, from) - 1 + L
            /\ ReleaseSo(FALSE, g, FirstPc(program, q, from), L, s.open.release)
        BY <3>2, <3>6 DEF ChessKnown
      <4>2. d = Close(s, end, FALSE) /\ end \in Nat
        BY <4>1 DEF FoundOf
      <4>3. Closed(program, s, d, end)
        BY <3>3, <4>1, <4>2, CloseIs
      <4>4. (q - 1) + 1 = q
        BY <3>1
      <4> HIDE DEF d, end, g, L
      <4>5. /\ d \in ScanType(program) /\ Len(d.done) = q /\ d.acquire = s.acquire
            /\ \A x \in 1 .. q - 1 : d.done[x] = s.done[x]
            /\ d.done[q].name = s.open.name /\ d.done[q].start = s.open.start
            /\ d.done[q].release = s.open.release /\ d.done[q].end = end
        BY <4>1, <4>3, <4>4 DEF Closed
      <4>6. Recovered(FALSE, program, from, q, d.done[q])
        BY <4>1, <4>5 DEF Recovered, g, L
      <4>7. \A x \in 1 .. q : Recovered(FALSE, program, from, x, d.done[x])
        BY <3>3, <3>5, <4>5, <4>6
      <4> QED BY <3>4, <4>5, <4>7 DEF q
    <3>7. CASE ChessClosed(g, L)
      <4>1. Len(s.done) = q /\ s.open = NoFunction /\ Recovered(FALSE, program, from, q, s.done[q])
        BY <3>2, <3>7 DEF ChessKnown
      <4>2. d = s
        BY <4>1
      <4> HIDE DEF d
      <4>3. \A x \in 1 .. q : Recovered(FALSE, program, from, x, s.done[x])
        BY <3>3, <3>5, <4>1
      <4> QED BY <3>3, <3>4, <4>1, <4>2, <4>3 DEF q
    <3> QED BY <3>6, <3>7
  <2> QED BY <2>1, <2>2
<1>6. /\ new \in FoundOf(program) /\ new.name = Demangle(f.name) /\ new.start = pc
      /\ new.release = 0
  <2>1. Demangle(f.name) \in Names(program)
    BY DEF Names
  <2> QED BY <1>3, <2>1, NewFunctionIs
<1> HIDE DEF c, d, new, j
<1>7. /\ c.open = new /\ c.done = d.done /\ c.acquire = d.acquire /\ c.at = j
      /\ c \in ScanType(program)
  <2>1. j \in Nat
    BY DEF j
  <2> QED BY <1>4, <1>5, <1>6, <2>1 DEF ScanType
<1>8. ~ChessClosed(f, 0)
  <2>1. UpTo(With(f, "ret"), 0) = {}
    BY WithIs
  <2> QED BY <2>1 DEF ChessClosed
<1>9. ReleaseSo(FALSE, f, pc, 0, 0)
  BY ReleaseNone
<1>10. ChessSo(program, base, from, k, 0, c)
  <2> HIDE DEF f, pc
  <2> QED BY <1>5, <1>6, <1>7, <1>8, <1>9 DEF ChessSo, f, pc
<1> QED BY <1>7, <1>10 DEF c, j, ChessBegun

(* Lines that change nothing.                                              *)
Steady(lines, base, read, a, b) ==
  /\ a \in Nat /\ b \in Nat /\ a <= b
  /\ \A i \in a + 1 .. b : /\ read[i] = ChessLine(lines, base, read[i - 1], i)
                           /\ ChessLine(lines, base, read[a], i) = read[a]

LEMMA ChessRuns ==
  ASSUME NEW lines, NEW base, NEW read, NEW a, NEW b, Steady(lines, base, read, a, b)
  PROVE  read[b] = read[a]
<1> USE DEF Steady
<1> DEFINE T == {d \in Nat : read[a + d] = read[a]}
<1>1. 0 \in T
  OBVIOUS
<1>2. ASSUME NEW d \in 0 .. (b - a) - 1, d \in T PROVE d + 1 \in T
  <2>1. a + (d + 1) \in a + 1 .. b /\ (a + (d + 1)) - 1 = a + d
    OBVIOUS
  <2>2. read[a + (d + 1)] = ChessLine(lines, base, read[a + d], a + (d + 1))
    BY <2>1
  <2>3. read[a + d] = read[a]
    BY <1>2
  <2> QED BY <2>1, <2>2, <2>3
<1> HIDE DEF T
<1>3. b - a \in Nat
  OBVIOUS
<1>4. 0 .. b - a \subseteq T
  BY <1>1, <1>2, <1>3, InductTo
<1>5. b - a \in T
  BY <1>3, <1>4
<1>6. a + (b - a) = b
  OBVIOUS
<1> QED BY <1>5, <1>6 DEF T

(* The lines between those of two instructions.                            *)
ChessGapSo(f, m, lines, a, b) ==
  /\ b >= a + 1
  /\ f.tail /\ m = Len(f.body) =>
       /\ b >= a + 2 /\ lines[a + 1] = Mark("tail_call")
       /\ \A i \in a + 2 .. b - 1 : lines[i] = Mark("nohwbrkpt")
  /\ ~(f.tail /\ m = Len(f.body)) =>
       \A i \in a + 1 .. b - 1 : lines[i] = Mark("nohwbrkpt")

LEMMA ChessGapIs ==
  ASSUME NEW f, NEW m, NEW lines, NEW a \in Nat, NEW b \in Nat, ChessGap(f, m, lines, a, b)
  PROVE  ChessGapSo(f, m, lines, a, b)
<1> DEFINE tail == f.tail /\ m = Len(f.body)
           nobp == "nobp" \in f.body[m]
           x == IF tail THEN 1 ELSE 0
           y == IF nobp THEN 1 ELSE 0
<1>1. /\ b = a + 1 + x + y /\ (tail => lines[a + 1] = Mark("tail_call"))
      /\ (nobp => lines[b - 1] = Mark("nohwbrkpt"))
  BY DEF ChessGap
<1>2. /\ x \in 0 .. 1 /\ y \in 0 .. 1 /\ (tail => x = 1) /\ (~tail => x = 0)
      /\ (~nobp => y = 0)
  OBVIOUS
<1> HIDE DEF tail, nobp, x, y
<1>3. b >= a + 1 /\ (tail => b >= a + 2)
  BY <1>1, <1>2
<1>4. ASSUME NEW i \in a + 1 .. b - 1, ~tail \/ i # a + 1 PROVE lines[i] = Mark("nohwbrkpt")
  <2>1. i = b - 1 /\ y = 1
    BY <1>1, <1>2, <1>4
  <2>2. nobp
    BY <1>2, <2>1
  <2> QED BY <1>1, <2>1, <2>2
<1>5. \A i \in a + 2 .. b - 1 : i \in a + 1 .. b - 1 /\ i # a + 1
  OBVIOUS
<1>6. tail => \A i \in a + 2 .. b - 1 : lines[i] = Mark("nohwbrkpt")
  BY <1>4, <1>5
<1>7. ~tail => \A i \in a + 1 .. b - 1 : lines[i] = Mark("nohwbrkpt")
  BY <1>4
<1> QED BY <1>1, <1>3, <1>6, <1>7 DEF tail, ChessGapSo

LEMMA MarkIs ==
  /\ Mark("nohwbrkpt").kind = "nohwbrkpt" /\ Mark("nohwbrkpt").ops = {}
  /\ Mark("tail_call").kind = "tail_call" /\ Mark("tail_call").ops = {}
  /\ Mark("function_start").kind = "function_start" /\ Mark("function_start").ops = {}
BY DEF Mark, Line

(* Up to where the lines have been read.                                   *)
ChessReady(o, e, m, s) == IF m = 0 THEN s.at = o + e[1] ELSE s.at <= o + e[m] + 1

LEMMA ChessInsn ==
  ASSUME NEW program, IsProgram(program), NEW from \in Nat, NEW base,
         base => MainReturns(program), NEW k \in 1 .. Len(program),
         NEW lines, DOMAIN lines = 1 .. Len(lines), Len(lines) \in Nat,
         NEW o \in Nat, NEW e \in [0 .. Len(program[k].body) -> Nat],
         ChessAt(program[k], FirstPc(program, k, from), lines, o, e),
         NEW read, \A i \in 1 .. Len(lines) : read[i] = ChessLine(lines, base, read[i - 1], i),
         NEW m \in Nat, m < Len(program[k].body),
         ChessSo(program, base, from, k, m, read[o + e[m]]), ChessReady(o, e, m, read[o + e[m]])
  PROVE  /\ ChessSo(program, base, from, k, m + 1, read[o + e[m + 1]])
         /\ ChessReady(o, e, m + 1, read[o + e[m + 1]])
<1> DEFINE f == program[k]
           L == Len(f.body)
           pc == FirstPc(program, k, from)
           M == m + 1
           a == o + e[m]
           b == o + e[M]
           s == read[a]
           last == f.tail /\ M = L
<1>1. /\ L \in Nat \ {0} /\ f.body \in Seq(SUBSET Ops) /\ DOMAIN f.body = 1 .. L
      /\ M \in 1 .. L /\ M - 1 = m /\ m \in 0 .. L /\ M # 0
  <2>1. L \in Nat \ {0} /\ f.body \in Seq(SUBSET Ops) /\ DOMAIN f.body = 1 .. L
    BY ProgramFacts
  <2> QED BY <2>1
<1>2. pc \in Nat /\ pc + M - 1 = pc + m
  <2>1. k \in 1 .. Len(program) + 1
    BY ProgramFacts
  <2>2. pc \in Nat
    BY <2>1, EntriesAre
  <2> HIDE DEF pc
  <2> QED BY <2>2
<1> HIDE DEF L
<1>3. /\ b \in 1 .. Len(lines) /\ lines[b].kind = "insn" /\ lines[b].ops = f.body[M]
      /\ lines[b].pc = pc + m /\ ChessGap(f, M, lines, a, b)
  BY <1>1, <1>2 DEF ChessAt, L
<1>4. a \in Nat /\ b \in Nat
  <2>1. M \in 0 .. L
    BY <1>1
  <2>2. e[m] \in Nat /\ e[M] \in Nat
    BY <1>1, <2>1 DEF L
  <2> DEFINE x == e[m]
             y == e[M]
  <2>3. x \in Nat /\ y \in Nat /\ a = o + x /\ b = o + y
    BY <2>2
  <2> HIDE DEF x, y, a, b
  <2> QED BY <2>3
<1>5. /\ b >= a + 1
      /\ last => /\ b >= a + 2 /\ lines[a + 1] = Mark("tail_call")
                 /\ \A i \in a + 2 .. b - 1 : lines[i] = Mark("nohwbrkpt")
      /\ ~last => \A i \in a + 1 .. b - 1 : lines[i] = Mark("nohwbrkpt")
  <2>1. ChessGap(f, M, lines, a, b)
    BY <1>3
  <2> HIDE DEF f, M, a, b
  <2>2. ChessGapSo(f, M, lines, a, b)
    BY <1>4, <2>1, ChessGapIs
  <2> QED BY <2>2 DEF ChessGapSo, L
<1>6. /\ BreakpointAllowed(lines, b) => M \notin With(f, "nobp")
      /\ With(f, "nobp") = {} => BreakpointAllowed(lines, b)
  <2>1. M \in 1 .. Len(program[k].body) /\ Len(program[k].body) \in Nat
    BY <1>1 DEF L
  <2>2. DOMAIN program[k].body = 1 .. Len(program[k].body)
    BY <1>1 DEF L
  <2> HIDE DEF M, pc
  <2>3. ChessAt(program[k], pc, lines, o, e)
    BY DEF pc
  <2> QED BY <2>1, <2>2, <2>3, ChessAllowed
<1>7. s \in ScanType(program) /\ s.at \in Nat
  BY DEF ChessSo, ScanType
<1>8. \A i \in a + 1 .. b : i \in 1 .. Len(lines) /\ i \in Nat
  <2>1. b \in 1 .. Len(lines) /\ a \in Nat
    BY <1>3, <1>4
  <2> HIDE DEF a, b, s, last, M, pc, f
  <2> QED BY <2>1
<1>9. b - 1 \in Nat /\ a <= b - 1 /\ b \in a + 1 .. b /\ \A i \in a + 1 .. b - 1 : i \in a + 1 .. b
  <2> HIDE DEF a, b
  <2> QED BY <1>4, <1>5
<1>10. \A i \in a + 1 .. b - 1 :
         lines[i].kind \in {"tail_call", "nohwbrkpt"} /\ lines[i].ops = {}
  <2> SUFFICES ASSUME NEW i \in a + 1 .. b - 1
               PROVE  lines[i] = Mark("tail_call") \/ lines[i] = Mark("nohwbrkpt")
    BY MarkIs
  <2> HIDE DEF a, b, last
  <2>1. i = a + 1 \/ i \in a + 2 .. b - 1
    BY <1>4
  <2> QED BY <1>5, <2>1
(* The instruction is read in the state that its function was left in.     *)
<1>11. ASSUME read[b - 1] = s, ~(b < s.at), ~ChessClosed(f, m), ~(last /\ M > 1)
       PROVE  ChessSo(program, base, from, k, M, read[b]) /\ read[b].at = s.at
  <2>1. read[b] = ChessLine(lines, base, s, b)
    BY <1>3, <1>11
  <2>2. ~(program[k].tail /\ m + 1 = Len(program[k].body) /\ m + 1 > 1)
    BY <1>11 DEF L
  <2>3. ChessSo(program, base, from, k, m, s)
    OBVIOUS
  <2>4. /\ lines[b].kind = "insn" /\ lines[b].ops = program[k].body[m + 1]
        /\ lines[b].pc = FirstPc(program, k, from) + m
        /\ BreakpointAllowed(lines, b) => m + 1 \notin With(program[k], "nobp")
        /\ With(program[k], "nobp") = {} => BreakpointAllowed(lines, b)
        /\ ~ChessClosed(program[k], m)
    BY <1>3, <1>6, <1>11
  <2> HIDE DEF s, b, f, pc
  <2>5. ~(b < s.at)
    BY <1>11
  <2>6. ChessTaken(program, base, from, k, m, s, ChessLine(lines, base, s, b))
    <3>1. lines[b].kind = "insn" /\ lines[b].ops = program[k].body[m + 1]
      BY <2>4
    <3>2. lines[b].pc = FirstPc(program, k, from) + m
      BY <2>4
    <3>3. BreakpointAllowed(lines, b) => m + 1 \notin With(program[k], "nobp")
      BY <2>4
    <3>4. With(program[k], "nobp") = {} => BreakpointAllowed(lines, b)
      BY <2>4
    <3> QED BY <2>2, <2>3, <2>4, <2>5, <3>1, <3>2, <3>3, <3>4, ChessStep
  <2> QED BY <2>1, <2>6 DEF ChessTaken
<1>12. ASSUME read[b] = s, ChessClosed(f, m), m # 0
       PROVE  ChessSo(program, base, from, k, M, read[b]) /\ read[b].at <= b + 1
  <2>1. ChessSo(program, base, from, k, m, s)
    OBVIOUS
  <2>2. s.at <= a + 1
    BY <1>12 DEF ChessReady
  <2>3. s.at <= b + 1
    <3> HIDE DEF s, a, b
    <3> QED BY <1>4, <1>5, <1>7, <2>2
  <2> HIDE DEF s, a, b
  <2> QED BY <1>12, <2>1, <2>3, ChessKeeps
<1> HIDE DEF a, b, s, last
<1>13. CASE m = 0
  <2>1. s.at = b
    <3>1. M = 1
      BY <1>13
    <3> QED BY <1>13, <3>1 DEF ChessReady, s, a, b
  <2>2. \A i \in a + 1 .. b - 1 : ChessLine(lines, base, s, i) = s
    <3> SUFFICES ASSUME NEW i \in a + 1 .. b - 1 PROVE ChessLine(lines, base, s, i) = s
      OBVIOUS
    <3>1. i < s.at
      BY <1>4, <2>1
    <3> QED BY <3>1 DEF ChessLine
  <2>3. read[b - 1] = s
    <3>1. \A i \in a + 1 .. b - 1 : read[i] = ChessLine(lines, base, read[i - 1], i)
      BY <1>8, <1>9
    <3>2. \A i \in a + 1 .. b - 1 : ChessLine(lines, base, read[a], i) = read[a]
      BY <2>2 DEF s
    <3>3. Steady(lines, base, read, a, b - 1)
      BY <1>4, <1>9, <3>1, <3>2 DEF Steady
    <3> QED BY <3>3, ChessRuns DEF s
  <2>4. ~ChessClosed(f, m)
    <3>1. UpTo(With(f, "ret"), 0) = {}
      BY WithIs
    <3> QED BY <1>13, <3>1 DEF ChessClosed
  <2>5. ~(b < s.at) /\ ~(last /\ M > 1)
    BY <1>4, <1>13, <2>1
  <2>6. ChessSo(program, base, from, k, M, read[b]) /\ read[b].at = b
    BY <1>11, <2>1, <2>3, <2>4, <2>5
  <2>7. read[b].at <= b + 1
    BY <1>4, <2>6
  <2> QED BY <1>1, <2>6, <2>7 DEF ChessReady, b
<1>14. CASE m # 0 /\ ChessClosed(f, m)
  <2>1. \A i \in a + 1 .. b : ChessLine(lines, base, s, i) = s
    <3> SUFFICES ASSUME NEW i \in a + 1 .. b PROVE ChessLine(lines, base, s, i) = s
      OBVIOUS
    <3>1. s.open = NoFunction
      BY <1>14 DEF ChessSo, s, a
    <3>2. i = b \/ i \in a + 1 .. b - 1
      BY <1>4
    <3>3. lines[i].kind # "function_start"
      BY <1>3, <1>10, <3>2
    <3> QED BY <3>1, <3>3, ChessNoStart
  <2>2. read[b] = s
    <3>1. \A i \in a + 1 .. b : read[i] = ChessLine(lines, base, read[i - 1], i)
      BY <1>8
    <3>2. \A i \in a + 1 .. b : ChessLine(lines, base, read[a], i) = read[a]
      BY <2>1 DEF s
    <3>3. a <= b
      BY <1>4, <1>5
    <3>4. Steady(lines, base, read, a, b)
      BY <1>4, <3>1, <3>2, <3>3 DEF Steady
    <3> QED BY <3>4, ChessRuns DEF s
  <2> QED BY <1>1, <1>12, <1>14, <2>2 DEF ChessReady, b
<1>15. CASE m # 0 /\ ~ChessClosed(f, m) /\ ~last
  <2>1. \A i \in a + 1 .. b - 1 : ChessLine(lines, base, s, i) = s
    <3> SUFFICES ASSUME NEW i \in a + 1 .. b - 1 PROVE ChessLine(lines, base, s, i) = s
      OBVIOUS
    <3>1. lines[i].ops = {} /\ lines[i].kind \in {"label", "nohwbrkpt"}
      BY <1>5, <1>15, MarkIs
    <3> QED BY <1>7, <3>1, ChessQuiet
  <2>2. read[b - 1] = s
    <3>1. \A i \in a + 1 .. b - 1 : read[i] = ChessLine(lines, base, read[i - 1], i)
      BY <1>8, <1>9
    <3>2. \A i \in a + 1 .. b - 1 : ChessLine(lines, base, read[a], i) = read[a]
      BY <2>1 DEF s
    <3>3. Steady(lines, base, read, a, b - 1)
      BY <1>4, <1>9, <3>1, <3>2 DEF Steady
    <3> QED BY <3>3, ChessRuns DEF s
  <2>3. s.at <= a + 1
    BY <1>15 DEF ChessReady, s, a
  <2>4. ~(b < s.at)
    BY <1>4, <1>5, <1>7, <2>3
  <2>5. ChessSo(program, base, from, k, M, read[b]) /\ read[b].at = s.at
    BY <1>11, <1>15, <2>2, <2>4
  <2>6. read[b].at <= b + 1
    BY <1>4, <1>5, <1>7, <2>3, <2>5
  <2> QED BY <1>1, <2>5, <2>6 DEF ChessReady, b
<1>16. CASE m # 0 /\ ~ChessClosed(f, m) /\ last
  <2> DEFINE i == a + 1
             c == read[i]
  <2>1. /\ b >= a + 2 /\ lines[i] = Mark("tail_call")
        /\ \A x \in a + 2 .. b - 1 : lines[x] = Mark("nohwbrkpt")
        /\ i + 1 = a + 2 /\ i \in Nat /\ i - 1 = a
    BY <1>4, <1>5, <1>16
  <2>2. i \in a + 1 .. b /\ b \in i + 1 .. Len(lines)
    BY <1>3, <1>4, <2>1
  <2>3. NextPcLine(lines, i) = b
    <3>1. \A x \in i + 1 .. b - 1 : lines[x].kind # "insn"
      BY <2>1, MarkIs
    <3> HIDE DEF i
    <3> QED BY <1>3, <2>1, <2>2, <3>1, NextPcIs
  <2>4. PcAt(lines, b) = pc + m
    BY <1>3 DEF PcAt
  <2>5. ~(i < s.at)
    <3>1. s.at <= a + 1
      BY <1>16 DEF ChessReady, s, a
    <3> QED BY <1>4, <1>7, <3>1
  <2> HIDE DEF i
  <2>6. c = ChessLine(lines, base, s, i)
    <3>1. i \in 1 .. Len(lines)
      BY <1>8, <2>2
    <3> QED BY <2>1, <3>1 DEF s
  <2>7. /\ ChessSo(program, base, from, k, M, c) /\ c.open = NoFunction /\ c.at = b + 1
    <3>1. program[k].tail /\ m + 1 = Len(program[k].body) /\ m \in Nat \ {0}
      BY <1>16 DEF last, L
    <3>2. ChessSo(program, base, from, k, m, s)
      BY DEF s, a
    <3>3. NextPcLine(lines, i) \in Nat /\ PcAt(lines, NextPcLine(lines, i)) = pc + m
      BY <1>4, <2>3, <2>4
    <3> HIDE DEF c, M
    <3>4. /\ ChessSo(program, base, from, k, m + 1, ChessLine(lines, base, s, i))
          /\ ChessLine(lines, base, s, i).open = NoFunction
          /\ ChessLine(lines, base, s, i).at = NextPcLine(lines, i) + 1
      BY <1>16, <2>1, <2>5, <3>1, <3>2, <3>3, ChessTail, SMTT(30)
    <3> QED BY <2>3, <2>6, <3>4 DEF M
  <2>8. \A x \in i + 1 .. b : ChessLine(lines, base, c, x) = c
    <3> SUFFICES ASSUME NEW x \in i + 1 .. b PROVE ChessLine(lines, base, c, x) = c
      OBVIOUS
    <3>1. x = b \/ x \in a + 2 .. b - 1
      BY <1>4, <2>1
    <3>2. lines[x].kind # "function_start"
      BY <1>3, <2>1, <3>1, MarkIs
    <3> QED BY <2>7, <3>2, ChessNoStart
  <2>9. read[b] = c
    <3>1. \A x \in i + 1 .. b : read[x] = ChessLine(lines, base, read[x - 1], x)
      <4>1. \A x \in i + 1 .. b : x \in a + 1 .. b
        BY <1>4, <2>1
      <4> QED BY <1>8, <4>1
    <3>2. i <= b
      BY <1>4, <2>1
    <3>3. Steady(lines, base, read, i, b)
      BY <1>4, <2>1, <2>8, <3>1, <3>2 DEF Steady
    <3> QED BY <3>3, ChessRuns
  <2>10. read[b].at <= b + 1
    BY <1>4, <2>7, <2>9
  <2> QED BY <1>1, <2>7, <2>9, <2>10 DEF ChessReady, b
<1> QED BY <1>13, <1>14, <1>15, <1>16

(* A function, from before its label to its last instruction.              *)
LEMMA ChessWholeFunction ==
  ASSUME NEW program, IsProgram(program), NEW from \in Nat, NEW base,
         base => MainReturns(program), NEW k \in 1 .. Len(program),
         NEW lines, DOMAIN lines = 1 .. Len(lines), Len(lines) \in Nat,
         NEW o \in Nat, NEW e \in [0 .. Len(program[k].body) -> Nat],
         ChessAt(program[k], FirstPc(program, k, from), lines, o, e),
         NEW read, \A i \in 1 .. Len(lines) : read[i] = ChessLine(lines, base, read[i - 1], i),
         ChessBetween(program, base, from, k, read[o]), read[o].at <= o + 1
  PROVE  LET b == o + e[Len(program[k].body)]
         IN  /\ ChessSo(program, base, from, k, Len(program[k].body), read[b])
             /\ read[b].at <= b + 1
<1> DEFINE f == program[k]
           L == Len(f.body)
           pc == FirstPc(program, k, from)
           s == read[o]
           i == o + 2
<1>1. L \in Nat /\ 1 \in 1 .. L /\ L # 0 /\ 0 \in 0 .. L /\ 1 \in 0 .. L
  BY ProgramFacts
<1>2. pc \in Nat
  <2>1. k \in 1 .. Len(program) + 1
    BY ProgramFacts
  <2> QED BY <2>1, EntriesAre
<1>3. s \in ScanType(program) /\ s.at \in Nat
  <2>1. CASE k = 1
    <3>1. s = Unread
      BY <2>1 DEF ChessBetween
    <3> HIDE DEF s
    <3> QED BY <3>1, UnreadIs DEF ScanType
  <2>2. CASE k # 1
    <3>1. s \in ScanType(program)
      BY <2>2 DEF ChessBetween, ChessSo
    <3> HIDE DEF s
    <3> QED BY <3>1 DEF ScanType
  <2> QED BY <2>1, <2>2
<1>4. /\ e[0] = 2 /\ o + 1 \in 1 .. Len(lines) /\ i \in 1 .. Len(lines)
      /\ lines[o + 1] = Line("label", 0, {}, f.name) /\ lines[i] = Mark("function_start")
      /\ (o + 1) - 1 = o /\ i - 1 = o + 1 /\ i > 1 /\ i \in Nat
  BY DEF ChessAt
<1>5. read[o + 1] = s
  <2>1. read[o + 1] = ChessLine(lines, base, s, o + 1)
    BY <1>4
  <2>2. lines[o + 1].ops = {} /\ lines[o + 1].kind \in {"label", "nohwbrkpt"}
    BY <1>4 DEF Line
  <2> HIDE DEF s
  <2> QED BY <1>3, <2>1, <2>2, ChessQuiet
<1> DEFINE b == o + e[1]
<1>6. NextPcLine(lines, i) = b /\ PcAt(lines, b) = pc /\ b \in Nat
  <2>1. /\ b \in 1 .. Len(lines) /\ lines[b].kind = "insn" /\ lines[b].pc = pc + 1 - 1
        /\ ChessGap(f, 1, lines, o + e[1 - 1], b)
    BY <1>1 DEF ChessAt
  <2>2. lines[b].pc = pc /\ b \in Nat /\ o + e[1 - 1] = i
    <3>1. pc + 1 - 1 = pc
      <4> HIDE DEF pc
      <4> QED BY <1>2
    <3>2. e[1 - 1] = 2
      BY <1>4
    <3> HIDE DEF b
    <3> QED BY <2>1, <3>1, <3>2
  <2> HIDE DEF b, i
  <2>3. ChessGapSo(f, 1, lines, i, b)
    <3>1. ChessGap(f, 1, lines, i, b)
      BY <2>1, <2>2
    <3> QED BY <1>4, <2>2, <3>1, ChessGapIs
  <2>4. b \in i + 1 .. Len(lines)
    BY <1>4, <2>1, <2>2, <2>3 DEF ChessGapSo
  <2>5. ASSUME NEW x \in i + 1 .. b - 1 PROVE lines[x].kind # "insn"
    <3>1. x = i + 1 \/ x \in i + 2 .. b - 1
      BY <1>4
    <3>2. lines[x] = Mark("tail_call") \/ lines[x] = Mark("nohwbrkpt")
      BY <2>3, <3>1 DEF ChessGapSo
    <3> QED BY <3>2, MarkIs
  <2>6. NextPcLine(lines, i) = b
    <3>1. i \in Nat /\ lines[b].kind = "insn"
      BY <1>4, <2>1
    <3> QED BY <2>4, <2>5, <3>1, NextPcIs
  <2> QED BY <2>1, <2>2, <2>6 DEF PcAt
<1>7. ChessSo(program, base, from, k, 0, read[i]) /\ read[i].at = b
  <2>1. read[i] = ChessLine(lines, base, s, i)
    BY <1>4, <1>5
  <2>2. ~(i < s.at)
    <3> HIDE DEF s
    <3> QED BY <1>3 DEF s
  <2>3. ChessBetween(program, base, from, k, s)
    OBVIOUS
  <2> HIDE DEF i, s, b
  <2>4. /\ lines[i - 1] = Line("label", 0, {}, program[k].name)
        /\ NextPcLine(lines, i) \in Nat
        /\ PcAt(lines, NextPcLine(lines, i)) = FirstPc(program, k, from)
    BY <1>4, <1>6
  <2>5. ChessBegun(program, base, from, k, ChessLine(lines, base, s, i), NextPcLine(lines, i))
    <3>1. lines[i - 1] = Line("label", 0, {}, program[k].name) /\ lines[i] = Mark("function_start")
      BY <1>4, <2>4
    <3>2. i \in Nat /\ i > 1
      BY <1>4
    <3> HIDE DEF f, pc
    <3> QED BY <2>2, <2>3, <2>4, <3>1, <3>2, ChessStart
  <2> QED BY <1>6, <2>1, <2>5 DEF ChessBegun
<1> DEFINE T == {m \in Nat : /\ ChessSo(program, base, from, k, m, read[o + e[m]])
                             /\ ChessReady(o, e, m, read[o + e[m]])}
<1>8. 0 \in T
  <2>1. o + e[0] = i
    BY <1>4
  <2>2. ChessReady(o, e, 0, read[i])
    BY <1>7 DEF ChessReady
  <2> HIDE DEF i
  <2> QED BY <1>7, <2>1, <2>2
<1>9. ASSUME NEW m \in 0 .. L - 1, m \in T PROVE m + 1 \in T
  <2>1. m \in Nat /\ m < Len(program[k].body) /\ m + 1 \in Nat
    BY <1>1
  <2>2. /\ ChessSo(program, base, from, k, m, read[o + e[m]])
        /\ ChessReady(o, e, m, read[o + e[m]])
    BY <1>9
  <2>3. /\ ChessSo(program, base, from, k, m + 1, read[o + e[m + 1]])
        /\ ChessReady(o, e, m + 1, read[o + e[m + 1]])
    <3> HIDE DEF f, L, pc, s, i, b
    <3> QED BY <2>1, <2>2, ChessInsn
  <2> QED BY <2>1, <2>3
<1> HIDE DEF T
<1>10. 0 .. L \subseteq T
  BY <1>1, <1>8, <1>9, InductTo
<1>11. L \in T
  BY <1>1, <1>10
<1> QED BY <1>1, <1>11 DEF T, ChessReady

(* From function to function.                                              *)
LEMMA ChessReads ==
  ASSUME NEW program, IsProgram(program), NEW from \in Nat, NEW base,
         base => MainReturns(program), NEW lines,
         NEW off \in [1 .. Len(program) + 1 -> Nat], ChessLaidOut(program, from, lines, off)
  PROVE  /\ ReadChess(lines, base)[0] = Unread
         /\ \A k \in 1 .. Len(program) :
              ChessSo(program, base, from, k, Len(program[k].body), ReadChess(lines, base)[off[k + 1]])
<1> DEFINE n == Len(program)
           L(k) == Len(program[k].body)
           read == ReadChess(lines, base)
           Done(k) == /\ ChessSo(program, base, from, k, L(k), read[off[k + 1]])
                      /\ read[off[k + 1]].at <= off[k + 1] + 1
           T == {k \in Nat : k # 0 => Done(k)}
<1>1. n \in Nat
  BY ProgramFacts
<1>2. off[1] = 0 /\ DOMAIN lines = 1 .. Len(lines) /\ Len(lines) \in Nat
  BY DEF ChessLaidOut
<1>3. /\ read[0] = Unread
      /\ \A i \in 1 .. Len(lines) : read[i] = ChessLine(lines, base, read[i - 1], i)
  <2>1. read = [i \in 0 .. Len(lines) |->
                  IF i = 0 THEN Unread ELSE ChessLine(lines, base, read[i - 1], i)]
    BY <1>2, ReadChessStep
  <2>2. 0 \in 0 .. Len(lines) /\ \A i \in 1 .. Len(lines) : i \in 0 .. Len(lines) /\ i # 0
    BY <1>2
  <2> HIDE DEF read
  <2> QED BY <2>1, <2>2
<1> HIDE DEF read
<1>4. 0 \in T
  OBVIOUS
<1>5. ASSUME NEW p \in 0 .. n - 1, p \in T PROVE p + 1 \in T
  <2> DEFINE k == p + 1
             o == off[k]
  <2>1. k \in 1 .. n /\ k \in Nat /\ k - 1 = p /\ k \in 1 .. n + 1
    BY <1>1
  <2>2. PICK e \in [0 .. L(k) -> Nat] :
           /\ off[k + 1] = o + e[L(k)]
           /\ ChessAt(program[k], FirstPc(program, k, from), lines, o, e)
    BY <2>1 DEF ChessLaidOut
  <2>3. o \in Nat
    BY <2>1
  <2>4. ChessBetween(program, base, from, k, read[o]) /\ read[o].at <= o + 1
    <3>1. CASE p = 0
      <4>1. k = 1 /\ read[o] = Unread /\ o = 0
        BY <1>2, <1>3, <3>1
      <4> HIDE DEF k, o
      <4> QED BY <4>1 DEF ChessBetween, Unread
    <3>2. CASE p # 0
      <4>1. Done(p)
        BY <1>5, <3>2
      <4>2. k # 1
        BY <2>1, <3>2
      <4>3. ChessSo(program, base, from, p, L(p), read[o]) /\ read[o].at <= o + 1
        BY <4>1
      <4> HIDE DEF k, o
      <4> QED BY <2>1, <4>2, <4>3 DEF ChessBetween
    <3> QED BY <3>1, <3>2
  <2> HIDE DEF k, o
  <2>5. LET b == o + e[Len(program[k].body)]
        IN  /\ ChessSo(program, base, from, k, Len(program[k].body), read[b])
            /\ read[b].at <= b + 1
    <3> HIDE DEF T
    <3> QED BY <1>2, <1>3, <2>1, <2>2, <2>3, <2>4, ChessWholeFunction
  <2>6. Done(k)
    BY <2>2, <2>5
  <2> HIDE DEF Done
  <2>7. k \in T
    BY <2>1, <2>6
  <2> QED BY <2>7 DEF k
<1> HIDE DEF T
<1>6. 0 .. n \subseteq T
  BY <1>1, <1>4, <1>5, InductTo
<1>7. \A k \in 1 .. n : ChessSo(program, base, from, k, L(k), read[off[k + 1]])
  <2>1. \A k \in 1 .. n : k \in 0 .. n /\ k # 0
    BY <1>1
  <2> QED BY <1>6, <2>1 DEF T
<1> QED BY <1>3, <1>7 DEF read

-----------------------------------------------------------------------------
(* Chess listings.                                                         *)
LEMMA ChessTrue ==
  ASSUME NEW program, IsProgram(program), NEW from \in Nat, NEW base,
         base => MainReturns(program)
  PROVE  TrueTo(FALSE, base, program, from, ParseChess(Disassemble(FALSE, program, from), base))
<1> DEFINE lines == Disassemble(FALSE, program, from)
           n == Len(program)
           s == ReadChess(lines, base)[Len(lines)]
           c == ParseChess(lines, base)
<1>1. PICK off \in [1 .. n + 1 -> Nat] : ChessLaidOut(program, from, lines, off)
  BY ChessListing
<1>2. /\ ReadChess(lines, base)[0] = Unread
      /\ \A k \in 1 .. n :
           ChessSo(program, base, from, k, Len(program[k].body), ReadChess(lines, base)[off[k + 1]])
  <2> HIDE DEF lines
  <2> QED BY <1>1, ChessReads
<1>3. s = ReadChess(lines, base)[off[n + 1]] /\ off[1] = 0
  <2>1. off[1] = 0 /\ Len(lines) = off[n + 1]
    <3> HIDE DEF lines
    <3> QED BY <1>1 DEF ChessLaidOut
  <2> QED BY <2>1
<1>4. c = IF s.open = NoFunction THEN s ELSE Close(s, 0, FALSE)
  <2> HIDE DEF lines
  <2> QED BY DEF ParseChess
<1> HIDE DEF lines, s, c
<1>5. n \in Nat /\ DOMAIN program = 1 .. n
  BY ProgramFacts
<1>6. CASE n = 0
  <2>1. s = Unread
    BY <1>2, <1>3, <1>6
  <2>2. c = Unread
    BY <1>4, <2>1, UnreadIs
  <2>3. DOMAIN c.done = {} /\ DOMAIN program = {} /\ 1 .. 0 = {}
    BY <1>5, <1>6, <2>2, UnreadIs DEF Unread
  <2>4. TrueTo(FALSE, base, program, from, c)
    BY <1>6, <2>3 DEF TrueTo
  <2> QED BY <2>4 DEF c, lines
<1>7. CASE n # 0
  <2> DEFINE f == program[n]
             L == Len(f.body)
  <2>1. n \in 1 .. n /\ (n - 1) + 1 = n
    <3> HIDE DEF n
    <3> QED BY <1>5, <1>7
  <2>2. ChessKnown(program, base, from, n, s)
    <3>1. ChessSo(program, base, from, n, Len(program[n].body), s)
      BY <1>2, <1>3, <2>1
    <3> QED BY <2>1, <3>1, ChessWhole
  <2>3. s \in ScanType(program) /\ AcquireSo(base, program, from, n, L, s.acquire)
        /\ \A j \in 1 .. n - 1 : Recovered(FALSE, program, from, j, s.done[j])
    BY <2>2 DEF ChessKnown
  <2>4. \A j \in 1 .. n : j = n \/ j \in 1 .. n - 1
    <3> HIDE DEF n
    <3> QED BY <1>5
  <2>5. /\ c \in ScanType(program) /\ Len(c.done) = n /\ c.acquire = s.acquire
        /\ \A j \in 1 .. n - 1 : Recovered(FALSE, program, from, j, c.done[j])
        /\ Recovered(FALSE, program, from, n, c.done[n])
    <3>1. CASE ~ChessClosed(f, L)
      <4>1. /\ Len(s.done) = n - 1 /\ s.open \in FoundOf(program) /\ s.open # NoFunction
            /\ With(f, "ret") = {} /\ ~(f.tail /\ L > 1)
            /\ s.open.name = Demangle(f.name) /\ s.open.start = FirstPc(program, n, from)
            /\ ReleaseSo(FALSE, f, FirstPc(program, n, from), L, s.open.release)
        BY <2>2, <3>1 DEF ChessKnown
      <4>2. c = Close(s, 0, FALSE)
        BY <1>4, <4>1
      <4>3. Closed(program, s, c, 0)
        BY <2>3, <4>1, <4>2, CloseIs
      <4>4. Endless(program, n)
        BY <4>1 DEF Endless
      <4> HIDE DEF n, f, L
      <4>5. /\ c \in ScanType(program) /\ Len(c.done) = n /\ c.acquire = s.acquire
            /\ \A j \in 1 .. n - 1 : c.done[j] = s.done[j]
            /\ c.done[n].name = s.open.name /\ c.done[n].start = s.open.start
            /\ c.done[n].release = s.open.release
        BY <2>1, <4>1, <4>3 DEF Closed
      <4>6. Recovered(FALSE, program, from, n, c.done[n])
        BY <4>1, <4>4, <4>5 DEF Recovered, f, L
      <4> QED BY <2>3, <4>5, <4>6
    <3>2. CASE ChessClosed(f, L)
      <4>1. /\ Len(s.done) = n /\ s.open = NoFunction
            /\ Recovered(FALSE, program, from, n, s.done[n])
        BY <2>2, <3>2 DEF ChessKnown
      <4>2. c = s
        BY <1>4, <4>1
      <4> HIDE DEF n, f, L
      <4> QED BY <2>3, <4>1, <4>2
    <3> QED BY <3>1, <3>2
  <2>6. \A j \in DOMAIN c.done : j \in 1 .. n /\ Recovered(FALSE, program, from, j, c.done[j])
    <3>1. c.done \in Seq(FoundOf(program))
      BY <2>5 DEF ScanType
    <3>2. DOMAIN c.done = 1 .. n
      BY <2>5, <3>1, SeqDomain
    <3> HIDE DEF n
    <3> QED BY <2>4, <2>5, <3>2
  <2>7. AcquireSo(base, program, from, n, L, c.acquire)
    BY <2>3, <2>5
  <2>8. DOMAIN c.done = 1 .. IF FALSE /\ \E k \in DOMAIN program : Endless(program, k)
                               THEN n - 1 ELSE n
    <3>1. c.done \in Seq(FoundOf(program))
      BY <2>5 DEF ScanType
    <3> QED BY <2>5, <3>1, SeqDomain
  <2>9. TrueTo(FALSE, base, program, from, c)
    BY <1>7, <2>6, <2>7, <2>8, RecoveredTrue
  <2> QED BY <2>9 DEF c, lines
<1> QED BY <1>6, <1>7

(* The two parsers recover the functions of every ELF.                     *)
THEOREM ParseRecovers ==
  ASSUME NEW program, IsProgram(program), NEW from \in Nat, NEW base, NEW peano \in BOOLEAN,
         base => MainReturns(program)
  PROVE  TrueTo(peano, base, program, from,
                Parse(peano, Disassemble(peano, program, from), base))
<1>1. CASE peano = TRUE
  BY <1>1, LlvmTrue DEF Parse
<1>2. CASE peano = FALSE
  BY <1>2, ChessTrue DEF Parse
<1> QED BY <1>1, <1>2

=============================================================================
