-------------------------- MODULE LayerInfo_proofs --------------------------
(***************************************************************************)
(* The execution list that is prepared is right for every design of which  *)
(* the assumptions on the input hold.                                      *)
(***************************************************************************)
EXTENDS LayerInfo, Disassembly_proofs

-----------------------------------------------------------------------------
(* Bounds and orders of finite sets.                                       *)

LEMMA Bounded ==
  ASSUME NEW n \in Nat, NEW f, \A i \in 1 .. n : f[i] \in Nat
  PROVE  \E b \in Nat : \A i \in 1 .. n : f[i] <= b
<1> DEFINE T == {k \in Nat : \E b \in Nat : \A i \in 1 .. n : i <= k => f[i] <= b}
<1>1. 0 \in T
  <2>1. \A i \in 1 .. n : i <= 0 => f[i] <= 0
    OBVIOUS
  <2> QED BY <2>1
<1>2. ASSUME NEW k \in 0 .. n - 1, k \in T PROVE k + 1 \in T
  <2>1. PICK b \in Nat : \A i \in 1 .. n : i <= k => f[i] <= b
    BY <1>2
  <2>2. f[k + 1] \in Nat
    OBVIOUS
  <2> DEFINE c == IF b < f[k + 1] THEN f[k + 1] ELSE b
  <2>3. c \in Nat /\ \A i \in 1 .. n : i <= k + 1 => f[i] <= c
    <3>1. ASSUME NEW i \in 1 .. n, i <= k + 1 PROVE f[i] <= c
      <4>1. CASE i = k + 1
        BY <2>2, <4>1
      <4>2. CASE i # k + 1
        <5>1. i <= k /\ f[i] \in Nat
          BY <3>1, <4>2
        <5>2. f[i] <= b
          BY <2>1, <5>1
        <5> QED BY <2>2, <5>1, <5>2
      <4> QED BY <4>1, <4>2
    <3> QED BY <2>2, <3>1
  <2> HIDE DEF c
  <2> QED BY <2>3
<1> HIDE DEF T
<1>3. 0 .. n \subseteq T
  BY <1>1, <1>2, InductTo
<1>4. n \in T
  BY <1>3
<1>5. PICK b \in Nat : \A i \in 1 .. n : i <= n => f[i] <= b
  BY <1>4 DEF T
<1> QED BY <1>5

(* The greatest of a set, when it is known. *)
LEMMA MaxOf ==
  ASSUME NEW S \in SUBSET Int, NEW m \in S, \A x \in S : m >= x
  PROVE  Max(S) = m
<1>1. \E y \in S : \A x \in S : y >= x
  OBVIOUS
<1>2. Max(S) \in S /\ \A x \in S : Max(S) >= x
  BY <1>1 DEF Max
<1>3. Max(S) \in Int /\ Max(S) >= m /\ m >= Max(S) /\ m \in Int
  BY <1>2
<1> QED BY <1>3

(* A strict total order. *)
Orders(S, before) ==
  /\ \A x \in S : <<x, x>> \notin before
  /\ \A x, y \in S : x # y => <<x, y>> \in before \/ <<y, x>> \in before
  /\ \A x, y, z \in S : <<x, y>> \in before /\ <<y, z>> \in before => <<x, z>> \in before

Below(S, before, x) == {y \in S : <<y, x>> \in before}

LEMMA RankGrows ==
  ASSUME NEW S, IsFiniteSet(S), NEW before, Orders(S, before), NEW x \in S, NEW y \in S,
         <<x, y>> \in before
  PROVE  Cardinality(Below(S, before, x)) < Cardinality(Below(S, before, y))
<1>1. Below(S, before, x) \subseteq Below(S, before, y)
  BY DEF Below, Orders
<1>2. x \in Below(S, before, y) /\ x \notin Below(S, before, x)
  BY DEF Below, Orders
<1>3. Below(S, before, y) \in SUBSET S
  BY DEF Below
<1> DEFINE A == Below(S, before, x)
           B == Below(S, before, y)
<1>4. IsFiniteSet(B) /\ A \in SUBSET B /\ A # B
  BY <1>1, <1>2, <1>3, FS_Subset
<1> HIDE DEF A, B
<1>5. IsFiniteSet(A) /\ Cardinality(A) <= Cardinality(B) /\ Cardinality(A) # Cardinality(B)
  BY <1>4, FS_Subset
<1>6. Cardinality(A) \in Nat /\ Cardinality(B) \in Nat
  BY <1>4, <1>5, FS_CardinalityType
<1>7. Cardinality(A) < Cardinality(B)
  BY <1>5, <1>6
<1> QED BY <1>7 DEF A, B

LEMMA InOrderIs ==
  ASSUME NEW S, IsFiniteSet(S), NEW before, Orders(S, before)
  PROVE  /\ Cardinality(S) \in Nat
         /\ InOrder(S, before) \in [1 .. Cardinality(S) -> S]
         /\ \A i, j \in 1 .. Cardinality(S) :
              i < j => <<InOrder(S, before)[i], InOrder(S, before)[j]>> \in before
<1> DEFINE n == Cardinality(S)
           rank == [x \in S |-> Cardinality(Below(S, before, x))]
           o == InOrder(S, before)
<1>1. n \in Nat
  BY FS_CardinalityType
<1>2. \A x \in S : rank[x] \in 0 .. n - 1
  <2> SUFFICES ASSUME NEW x \in S PROVE Cardinality(Below(S, before, x)) \in 0 .. n - 1
    OBVIOUS
  <2>1. Below(S, before, x) \in SUBSET S /\ x \notin Below(S, before, x)
    BY DEF Below, Orders
  <2>2. /\ IsFiniteSet(Below(S, before, x)) /\ Cardinality(Below(S, before, x)) <= n
        /\ n # Cardinality(Below(S, before, x))
    BY <2>1, FS_Subset
  <2>3. Cardinality(Below(S, before, x)) \in Nat
    BY <2>2, FS_CardinalityType
  <2> QED BY <1>1, <2>2, <2>3
<1>3. \A x, y \in S : <<x, y>> \in before => rank[x] < rank[y]
  BY RankGrows
<1>4. \A x \in S : rank[x] \in Int
  BY <1>1, <1>2
<1>5. \A x, y \in S : rank[x] < rank[y] => <<x, y>> \in before
  <2> SUFFICES ASSUME NEW x \in S, NEW y \in S, rank[x] < rank[y] PROVE <<x, y>> \in before
    OBVIOUS
  <2> HIDE DEF rank
  <2>1. x # y
    BY <1>4
  <2>2. ~(<<y, x>> \in before)
    BY <1>3, <1>4
  <2> QED BY <2>1, <2>2 DEF Orders
<1>6. rank \in Injection(S, 0 .. n - 1)
  <2>1. \A x, y \in S : rank[x] = rank[y] => x = y
    <3> SUFFICES ASSUME NEW x \in S, NEW y \in S, rank[x] = rank[y], x # y PROVE FALSE
      OBVIOUS
    <3> HIDE DEF rank
    <3>1. ~(rank[x] < rank[y]) /\ ~(rank[y] < rank[x])
      BY <1>4
    <3> QED BY <1>3, <3>1 DEF Orders
  <2>2. rank \in [S -> 0 .. n - 1]
    BY <1>2
  <2> HIDE DEF rank
  <2> QED BY <2>1, <2>2 DEF Injection, IsInjective
<1> HIDE DEF rank
<1>7. rank \in Surjection(S, 0 .. n - 1)
  <2>1. IsFiniteSet(0 .. n - 1) /\ Cardinality(0 .. n - 1) = n
    BY <1>1, FS_Interval
  <2> DEFINE D == 0 .. n - 1
  <2>2. IsFiniteSet(D) /\ Cardinality(S) = Cardinality(D) /\ rank \in Injection(S, D)
    BY <1>6, <2>1
  <2> HIDE DEF D, n
  <2>3. rank \in Surjection(S, D)
    BY <2>2, FS_Injection
  <2> QED BY <2>3 DEF D
<1>8. \A i \in 1 .. n : o[i] \in S /\ rank[o[i]] = i - 1
  <2> SUFFICES ASSUME NEW i \in 1 .. n PROVE o[i] \in S /\ rank[o[i]] = i - 1
    OBVIOUS
  <2>1. i - 1 \in 0 .. n - 1
    BY <1>1
  <2>2. \E x \in S : rank[x] = i - 1
    BY <1>7, <2>1 DEF Surjection
  <2>3. \A x \in S : rank[x] = Cardinality({y \in S : <<y, x>> \in before})
    BY DEF rank, Below
  <2>4. o[i] = CHOOSE x \in S : Cardinality({y \in S : <<y, x>> \in before}) = i - 1
    BY DEF InOrder
  <2>5. \E x \in S : Cardinality({y \in S : <<y, x>> \in before}) = i - 1
    BY <2>2, <2>3
  <2>6. o[i] \in S /\ Cardinality({y \in S : <<y, o[i]>> \in before}) = i - 1
    <3> HIDE DEF o
    <3> QED BY <2>4, <2>5
  <2> QED BY <2>3, <2>6
<1>9. o = [i \in 1 .. n |-> o[i]]
  <2> DEFINE g == [i \in 1 .. n |-> CHOOSE x \in S : Cardinality({y \in S : <<y, x>> \in before}) = i - 1]
  <2>1. g = [i \in 1 .. n |-> g[i]]
    <3>1. \A h : DOMAIN g = 1 .. n /\ (h = g => h = [i \in 1 .. n |-> h[i]])
      OBVIOUS
    <3> QED BY <3>1, Zenon
  <2>2. o = g
    BY DEF InOrder
  <2> HIDE DEF o, n, g
  <2> QED BY <2>1, <2>2
<1> HIDE DEF o
<1>10. o \in [1 .. n -> S]
  BY <1>8, <1>9
<1>11. \A i, j \in 1 .. n : i < j => <<o[i], o[j]>> \in before
  <2> SUFFICES ASSUME NEW i \in 1 .. n, NEW j \in 1 .. n, i < j PROVE <<o[i], o[j]>> \in before
    OBVIOUS
  <2>1. rank[o[i]] < rank[o[j]]
    BY <1>1, <1>8
  <2> QED BY <1>5, <1>8, <2>1
<1> QED BY <1>1, <1>10, <1>11 DEF o

-----------------------------------------------------------------------------
(* What the report says of a layer.                                        *)

LEMMA OwnedIs ==
  ASSUME design \in Designs, design.reported, NEW info \in Range(design.raw)
  PROVE  Owned(design.report, info) = Own(design, info.order)
<1>1. /\ Exactly(design.report, info) \in {{}, Own(design, info.order)}
      /\ Exactly(design.report, info) = {} => Loosely(design.report, info) = Own(design, info.order)
  BY ReportAssumption
<1> QED BY <1>1 DEF Owned

(* What the report has for a stamp is what the stamp runs, or nothing.     *)
CoreOf(d, o, s, core) ==
  \/ core = NoCore
  \/ /\ core.present
     /\ core.kernel = IF s \in Running(d, o) THEN d.kernels[o] ELSE NoKernel
     /\ core.elf = IF s \in Running(d, o) THEN d.runs[o][s] ELSE NoElf

LEMMA CoresAre ==
  ASSUME design \in Designs, design.reported, NEW info \in Range(design.raw),
         NEW k \in Own(design, info.order), NEW s \in 0 .. StampCount - 1
  PROVE  CoreOf(design, info.order, s, design.report[k].core[s])
<1>1. s \in 0 .. StampCountOf(design) - 1
  BY DEF StampCount
<1> QED BY <1>1, ReportAssumption DEF CoreOf

LEMMA FirstCoreIs ==
  ASSUME design \in Designs, design.reported, NEW info \in Range(design.raw),
         NEW s \in 0 .. StampCount - 1
  PROVE  /\ CoreOf(design, info.order, s, FirstCore(design.report, info, s))
         /\ Own(design, info.order) = {} => FirstCore(design.report, info, s) = NoCore
<1> DEFINE S == Own(design, info.order)
<1>1. Owned(design.report, info) = S
  BY OwnedIs
<1>2. CASE S = {}
  <2>1. FirstCore(design.report, info, s) = NoCore
    BY <1>1, <1>2 DEF FirstCore
  <2> QED BY <1>2, <2>1 DEF CoreOf
<1>3. CASE S # {}
  <2>1. DOMAIN design.report \subseteq Nat
    <3>1. design.report \in Seq(Range(design.report))
      BY ReportAssumption
    <3>2. DOMAIN design.report = 1 .. Len(design.report) /\ Len(design.report) \in Nat
      BY <3>1, LenProperties
    <3> QED BY <3>2
  <2>2. S \in SUBSET Nat
    BY <2>1 DEF Own
  <2>3. Min(S) \in S
    <3> HIDE DEF S
    <3> QED BY <1>3, <2>2, MinIs
  <2>4. FirstCore(design.report, info, s) = design.report[Min(S)].core[s]
    BY <1>1, <1>3 DEF FirstCore
  <2>5. CoreOf(design, info.order, s, design.report[Min(S)].core[s])
    BY <2>3, CoresAre
  <2> QED BY <1>3, <2>4, <2>5
<1> QED BY <1>2, <1>3

-----------------------------------------------------------------------------
(* The stamps of a layer.                                                  *)

StampsTrue(d, info, n) ==
  /\ n = Cardinality(Running(d, info.order)) /\ n \in 1 .. StampCountOf(d)
  /\ Running(d, info.order) = 0 .. n - 1

LEMMA RunningIs ==
  ASSUME design \in Designs, NEW info \in Range(design.raw)
  PROVE  StampsTrue(design, info, Cardinality(Running(design, info.order)))
<1> DEFINE R == Running(design, info.order)
           n == Cardinality(R)
           c == StampCountOf(design)
<1>1. c \in Nat \ {0}
  BY MetadataAssumption
<1>2. R = 0 .. n - 1 /\ n # 0
  BY StampAssumption
<1>3. R \in SUBSET (0 .. c - 1)
  BY DEF Running
<1> HIDE DEF R, c
<1>4. IsFiniteSet(0 .. c - 1) /\ Cardinality(0 .. c - 1) = c
  BY <1>1, FS_Interval
<1>5. IsFiniteSet(R) /\ Cardinality(R) <= c
  BY <1>3, <1>4, FS_Subset
<1>6. n \in Nat
  BY <1>5, FS_CardinalityType
<1>7. n \in 1 .. c
  BY <1>1, <1>2, <1>5, <1>6
<1> QED BY <1>2, <1>7 DEF StampsTrue, R, c

LEMMA Divides ==
  ASSUME NEW n \in Nat, NEW b \in Nat \ {0}
  PROVE  (n * b) \div b = n
  OBVIOUS

LEMMA ReportCounts ==
  ASSUME design \in Designs, design.reported, NEW info \in Range(design.raw)
  PROVE  LET n == RunningStampCount(design.report, info, StampCount)
         IN  /\ n \in {0, Cardinality(Running(design, info.order))}
             /\ (\A s \in 0 .. StampCountOf(design) - 1 :
                   \E k \in Own(design, info.order) : design.report[k].core[s].present)
                => n = Cardinality(Running(design, info.order))
<1> DEFINE o == info.order
           S == Own(design, o)
           present(s) == \E k \in S : design.report[k].core[s].present
           runs(s) == \E k \in S : design.report[k].core[s].kernel # NoKernel
           D == 0 .. StampCount - 1
<1>1. RunningStampCount(design.report, info, StampCount) =
        IF \A s \in D : present(s) THEN Cardinality({s \in D : runs(s)}) ELSE 0
  BY OwnedIs DEF RunningStampCount
<1>2. ASSUME \A s \in D : present(s) PROVE {s \in D : runs(s)} = Running(design, o)
  <2>1. ASSUME NEW s \in D PROVE runs(s) <=> s \in Running(design, o)
    <3>1. \A k \in S : CoreOf(design, o, s, design.report[k].core[s])
      BY CoresAre
    <3>2. NoCore.kernel = NoKernel /\ ~NoCore.present
      BY DEF NoCore
    <3>3. design.kernels[o] # NoKernel
      BY StampAssumption
    <3>4. ASSUME runs(s) PROVE s \in Running(design, o)
      BY <3>1, <3>2, <3>4 DEF CoreOf
    <3>5. ASSUME s \in Running(design, o) PROVE runs(s)
      <4>1. PICK k \in S : design.report[k].core[s].present
        BY <1>2
      <4>2. design.report[k].core[s] # NoCore
        BY <3>2, <4>1
      <4>3. design.report[k].core[s].kernel = design.kernels[o]
        BY <3>1, <3>5, <4>2 DEF CoreOf
      <4> QED BY <3>3, <4>3
    <3> QED BY <3>4, <3>5
  <2>2. Running(design, o) \subseteq D
    BY DEF Running, StampCount
  <2> QED BY <2>1, <2>2
<1> QED BY <1>1, <1>2 DEF StampCount

(* A layer has the stamps that really take part in it. *)
LEMMA StampsAre ==
  ASSUME design \in Designs, NEW info \in Range(design.raw)
  PROVE  StampsTrue(design, info, StampsOf(info))
<1> DEFINE o == info.order
           n == Cardinality(Running(design, o))
           c == StampCountOf(design)
           counted == info.no_of_stamps
           b == design.batches
           perBatch == IF counted # 0 /\ b > 1 THEN Max({1, counted \div b}) ELSE counted
           reported == IF design.reported /\ c > 1
                         THEN RunningStampCount(design.report, info, StampCount) ELSE 0
           m == IF reported # 0 THEN reported ELSE perBatch
<1>1. StampsOf(info) = IF m # 0 /\ m < c THEN m ELSE c
  BY DEF StampsOf, StampCount
<1>2. StampsTrue(design, info, n)
  BY RunningIs
<1>3. n \in 1 .. c /\ c \in Nat
  BY <1>2, MetadataAssumption DEF StampsTrue
<1>4. counted \in Nat /\ b \in Nat \ {0}
  <2>1. PICK i \in DOMAIN design.raw : info = design.raw[i]
    BY DEF Range
  <2>2. {info.order, info.no_of_stamps, info.num_iter} \subseteq Nat
    BY <2>1, MetadataAssumption
  <2> QED BY <2>2, MetadataAssumption
<1>5. perBatch \in Nat
  <2>1. CASE counted # 0 /\ b > 1
    <3>1. counted \div b \in Nat
      BY <1>4
    <3> DEFINE q == counted \div b
    <3> HIDE DEF q
    <3>2. {1, q} \in SUBSET (0 .. q + 1) /\ q + 1 \in Nat /\ {1, q} # {}
      BY <3>1 DEF q
    <3>3. Max({1, q}) \in {1, q}
      BY <3>2, MaxIs
    <3>4. Max({1, q}) \in Nat
      BY <3>1, <3>3 DEF q
    <3> QED BY <2>1, <3>4 DEF q
  <2>2. CASE ~(counted # 0 /\ b > 1)
    BY <1>4, <2>2
  <2> QED BY <2>1, <2>2
<1>6. counted = n * b => perBatch = n
  <2> SUFFICES ASSUME counted = n * b PROVE perBatch = n
    OBVIOUS
  <2>1. CASE b = 1
    BY <1>3, <2>1
  <2>2. CASE b # 1
    <3>1. counted \div b = n
      BY <1>3, <1>4, Divides
    <3>2. \A x \in {1, n} : n >= x
      BY <1>3
    <3>3. {1, n} \in SUBSET Int /\ n \in {1, n}
      BY <1>3
    <3>4. Max({1, n}) = n
      <4> HIDE DEF n
      <4> QED BY <3>2, <3>3, MaxOf
    <3>5. counted # 0 /\ b > 1
      <4>1. n \in Nat \ {0} /\ b \in Nat \ {0}
        BY <1>3, <1>4
      <4> HIDE DEF n, b
      <4>2. n * b # 0
        BY <4>1
      <4> QED BY <2>2, <4>1, <4>2
    <3> QED BY <3>1, <3>4, <3>5
  <2> QED BY <2>1, <2>2
<1>7. reported \in {0, n}
  BY ReportCounts
<1>8. c = 1 \/ counted = n * b \/ reported = n
  <2>1. \/ c = 1 \/ counted = n * b
        \/ design.reported /\ \A s \in 0 .. c - 1 : \E k \in Own(design, o) : design.report[k].core[s].present
    BY StampAssumption
  <2>2. CASE c # 1 /\ design.reported /\ \A s \in 0 .. c - 1 : \E k \in Own(design, o) : design.report[k].core[s].present
    <3>1. RunningStampCount(design.report, info, StampCount) = n
      BY <2>2, ReportCounts
    <3>2. c > 1
      BY <1>3, <2>2
    <3> QED BY <2>2, <3>1, <3>2
  <2> QED BY <2>1, <2>2
<1>9. StampsOf(info) = n
  <2> HIDE DEF n, c, counted, b, perBatch, reported
  <2> QED BY <1>1, <1>3, <1>5, <1>6, <1>7, <1>8
<1> QED BY <1>2, <1>9

-----------------------------------------------------------------------------
(* What holds of a layer as soon as it is created, and is kept.            *)

LayerFields == {"order", "ids", "is_tg", "unsupported", "stamps", "num_iter", "flexml_ids",
                "l3_names", "l3_buffers"}
StampFields == {"name", "elf", "start_pc", "end_pc"}

(* The PC is the entry of the function that stamp n runs for the layer.    *)
TruePc(d, o, n, stamp) ==
  \E elf \in d.elfs[n] :
    /\ elf.id = d.runs[o][n - 1] /\ stamp.elf = d.runs[o][n - 1]
    /\ \E k \in DOMAIN elf.program :
         /\ elf.program[k].name = d.kernels[o]
         /\ stamp.start_pc = FirstPc(elf.program, k, elf.from)

StampTrue(d, l, n) ==
  LET o == l.order
      stamp == l.stamps[n]
  IN  /\ stamp.name = d.kernels[o]
      /\ l.is_tg => stamp.elf = d.runs[o][n - 1]
      /\ stamp.start_pc # 0 => TruePc(d, o, n, stamp)

Debugged(d, l) ==
  /\ StampsTrue(d, l, Len(l.stamps)) /\ d.kernels[l.order][1] \notin Unsupported
  /\ \A n \in 1 .. Len(l.stamps) : StampTrue(d, l, n)

InfoOf(d, l, info) ==
  l.order = info.order /\ l.is_tg = info.is_tg /\ l.flexml_ids = info.flexml_ids

StampsShaped(l, c) ==
  /\ Len(l.stamps) \in 0 .. c /\ DOMAIN l.stamps = 1 .. Len(l.stamps)
  /\ \A n \in 1 .. Len(l.stamps) : DOMAIN l.stamps[n] = StampFields

LayerTrue(d, l) ==
  /\ DOMAIN l = LayerFields
  /\ \E info \in Range(d.raw) : InfoOf(d, l, info)
  /\ StampsShaped(l, StampCountOf(d))
  /\ l.l3_buffers \subseteq d.spills
  /\ ~l.unsupported => Debugged(d, l)

IterTrue(d, l) ==
  ~l.unsupported => l.num_iter = d.iterations[l.order] /\ l.num_iter \in Nat \ {0}

LEMMA NewStampIs ==
  ASSUME NEW name, NEW elf
  PROVE  LET stamp == NewStamp(name, elf)
         IN  /\ stamp.name = name /\ stamp.elf = elf /\ stamp.start_pc = 0
             /\ DOMAIN stamp = StampFields
  BY DEF NewStamp, StampFields

LEMMA LayerStampsAre ==
  ASSUME design \in Designs, NEW info \in Range(design.raw)
  PROVE  LET stamps == LayerStamps(info)
         IN  /\ Len(stamps) = StampsOf(info) /\ DOMAIN stamps = 1 .. StampsOf(info)
             /\ \A n \in 1 .. StampsOf(info) :
                  stamps[n] = IF info.is_tg
                                THEN NewStamp(SkName(design.report, info, n - 1),
                                              ElfId(design.report, info, n - 1))
                                ELSE NewStamp(info.kernel, "")
<1>1. StampsOf(info) \in Nat
  <2>1. StampsTrue(design, info, StampsOf(info)) /\ StampCountOf(design) \in Nat
    BY StampsAre, MetadataAssumption
  <2> QED BY <2>1 DEF StampsTrue
<1> DEFINE c == StampsOf(info)
           e(n) == IF info.is_tg THEN NewStamp(SkName(design.report, info, n - 1),
                                               ElfId(design.report, info, n - 1))
                   ELSE NewStamp(info.kernel, "")
<1>2. LayerStamps(info) = [n \in 1 .. c |-> e(n)]
  BY DEF LayerStamps
<1> HIDE DEF c, e
<1>3. Len([n \in 1 .. c |-> e(n)]) = c
  BY <1>1 DEF c
<1>4. \A n \in 1 .. c : LayerStamps(info)[n] = e(n)
  BY <1>2
<1> QED BY <1>2, <1>3, <1>4 DEF c, e

(* The stamps of a layer that is not unsupported are what they should be.  *)
LEMMA SupportedStamps ==
  ASSUME design \in Designs, NEW info \in Range(design.raw), ~IsUnsupported(info)
  PROVE  /\ design.kernels[info.order][1] \notin Unsupported
         /\ \A n \in 1 .. StampsOf(info) :
              /\ LayerStamps(info)[n].name = design.kernels[info.order]
              /\ LayerStamps(info)[n].start_pc = 0
              /\ info.is_tg => LayerStamps(info)[n].elf = design.runs[info.order][n - 1]
         /\ info.is_tg => design.reported /\ Own(design, info.order) # {}
<1>1. StampsTrue(design, info, StampsOf(info))
  BY StampsAre
<1>2. StampsOf(info) \in 1 .. StampCount /\ StampCount \in Nat
  BY <1>1, MetadataAssumption DEF StampsTrue, StampCount
<1>3. Running(design, info.order) = 0 .. StampsOf(info) - 1
  BY <1>1 DEF StampsTrue
<1>4. CASE info.is_tg
  <2>1. design.reported
    BY <1>4 DEF IsUnsupported
  <2>2. ASSUME NEW n \in 1 .. StampsOf(info)
        PROVE  /\ LayerStamps(info)[n].name = design.kernels[info.order]
               /\ LayerStamps(info)[n].start_pc = 0
               /\ LayerStamps(info)[n].elf = design.runs[info.order][n - 1]
               /\ design.kernels[info.order][1] \notin Unsupported
               /\ Own(design, info.order) # {}
    <3> DEFINE core == FirstCore(design.report, info, n - 1)
    <3>1. LayerStamps(info)[n] = NewStamp(core.kernel, core.elf)
      BY <1>4, LayerStampsAre DEF SkName, ElfId
    <3>2. /\ LayerStamps(info)[n].name = core.kernel /\ LayerStamps(info)[n].elf = core.elf
          /\ LayerStamps(info)[n].start_pc = 0
      BY <3>1, NewStampIs
    <3>3. core.kernel # NoKernel /\ core.kernel[1] \notin Unsupported
      BY <1>4, <3>2 DEF IsUnsupported
    <3>4. n - 1 \in 0 .. StampCount - 1 /\ n - 1 \in 0 .. StampsOf(info) - 1
      BY <1>2
    <3>5. /\ CoreOf(design, info.order, n - 1, core)
          /\ Own(design, info.order) = {} => core = NoCore
      BY <2>1, <3>4, FirstCoreIs
    <3>6. core # NoCore
      BY <3>3 DEF NoCore
    <3>7. n - 1 \in Running(design, info.order)
      BY <1>3, <3>4
    <3>8. core.kernel = design.kernels[info.order] /\ core.elf = design.runs[info.order][n - 1]
      BY <3>5, <3>6, <3>7 DEF CoreOf
    <3> QED BY <3>2, <3>3, <3>5, <3>6, <3>8
  <2>3. 1 \in 1 .. StampsOf(info)
    BY <1>2
  <2> QED BY <2>1, <2>2, <2>3
<1>5. CASE ~info.is_tg
  <2>1. info.kernel = design.kernels[info.order]
    BY <1>5, StampAssumption
  <2>2. info.kernel[1] \notin Unsupported
    BY DEF IsUnsupported
  <2>3. ASSUME NEW n \in 1 .. StampsOf(info)
        PROVE  /\ LayerStamps(info)[n].name = info.kernel /\ LayerStamps(info)[n].start_pc = 0
    <3> DEFINE name == info.kernel
               elf == ""
    <3>1. LayerStamps(info)[n] = NewStamp(name, elf)
      BY <1>5, LayerStampsAre
    <3>2. LayerStamps(info)[n].name = name /\ LayerStamps(info)[n].start_pc = 0
      <4> HIDE DEF name, elf
      <4> QED BY <3>1, NewStampIs
    <3> QED BY <3>2
  <2> QED BY <1>5, <2>1, <2>2, <2>3
<1> QED BY <1>4, <1>5

LEMMA NewLayerIs ==
  ASSUME NEW info
  PROVE  LET l == NewLayer(info)
         IN  /\ DOMAIN l = LayerFields /\ InfoOf(design, l, info) /\ l.l3_buffers = {}
             /\ l.ids = IF design.reported THEN LayerIds(design.report, info) ELSE {}
             /\ l.stamps = IF IsUnsupported(info) THEN <<>> ELSE LayerStamps(info)
             /\ ~l.unsupported => ~IsUnsupported(info)
             /\ l.num_iter = IF info.is_tg /\ ~IsUnsupported(info) THEN Iters(design.report, info)
                             ELSE InfoIterations(info)
<1> DEFINE bad == IsUnsupported(info)
           off == bad \/ info.order \in design.skip_layers
           ids == IF design.reported THEN LayerIds(design.report, info) ELSE {}
           stamps == IF bad THEN <<>> ELSE LayerStamps(info)
           iter == IF info.is_tg /\ ~bad THEN Iters(design.report, info) ELSE InfoIterations(info)
           names == IF bad THEN {} ELSE info.l3_names
<1>1. NewLayer(info) = [order |-> info.order, ids |-> ids, is_tg |-> info.is_tg,
                        unsupported |-> off, stamps |-> stamps, num_iter |-> iter,
                        flexml_ids |-> info.flexml_ids, l3_names |-> names, l3_buffers |-> {}]
  BY DEF NewLayer
<1>2. ~off => ~bad
  OBVIOUS
<1> HIDE DEF bad, off, ids, stamps, iter, names
<1>3. LET l == NewLayer(info)
      IN  /\ DOMAIN l = LayerFields /\ l.l3_buffers = {} /\ l.ids = ids /\ l.stamps = stamps
          /\ l.num_iter = iter /\ l.unsupported = off
          /\ l.order = info.order /\ l.is_tg = info.is_tg /\ l.flexml_ids = info.flexml_ids
  BY <1>1 DEF LayerFields
<1> QED BY <1>2, <1>3 DEF InfoOf, bad, ids, stamps, iter

LEMMA NewLayerTrue ==
  ASSUME design \in Designs, NEW info \in Range(design.raw)
  PROVE  LayerTrue(design, NewLayer(info)) /\ IterTrue(design, NewLayer(info))
<1> DEFINE l == NewLayer(info)
           bad == IsUnsupported(info)
<1>1. /\ DOMAIN l = LayerFields /\ InfoOf(design, l, info) /\ l.l3_buffers = {}
      /\ l.stamps = IF bad THEN <<>> ELSE LayerStamps(info)
      /\ ~l.unsupported => ~bad
      /\ l.num_iter = IF info.is_tg /\ ~bad THEN Iters(design.report, info)
                      ELSE InfoIterations(info)
  BY NewLayerIs
<1>2. StampsTrue(design, info, StampsOf(info))
  BY StampsAre
<1>3. StampCountOf(design) \in Nat /\ StampsOf(info) \in 1 .. StampCountOf(design)
  BY <1>2, MetadataAssumption DEF StampsTrue
<1>4. ~bad => /\ Len(l.stamps) = StampsOf(info) /\ DOMAIN l.stamps = 1 .. StampsOf(info)
              /\ \A n \in 1 .. StampsOf(info) : DOMAIN l.stamps[n] = StampFields
  <2> SUFFICES ASSUME ~bad PROVE /\ Len(l.stamps) = StampsOf(info) /\ DOMAIN l.stamps = 1 .. StampsOf(info)
              /\ \A n \in 1 .. StampsOf(info) : DOMAIN l.stamps[n] = StampFields
    OBVIOUS
  <2>1. l.stamps = LayerStamps(info)
    BY <1>1
  <2> HIDE DEF l
  <2>2. ASSUME NEW n \in 1 .. StampsOf(info) PROVE DOMAIN LayerStamps(info)[n] = StampFields
    <3> DEFINE name == IF info.is_tg THEN SkName(design.report, info, n - 1) ELSE info.kernel
               elf == IF info.is_tg THEN ElfId(design.report, info, n - 1) ELSE ""
    <3>1. LayerStamps(info)[n] = NewStamp(name, elf)
      BY LayerStampsAre
    <3> HIDE DEF name, elf
    <3> QED BY <3>1, NewStampIs
  <2> QED BY <2>1, <2>2, LayerStampsAre
<1>5. StampsShaped(l, StampCountOf(design))
  <2>1. CASE bad
    <3>1. l.stamps = <<>>
      BY <1>1, <2>1
    <3> HIDE DEF l
    <3> QED BY <1>3, <3>1 DEF StampsShaped
  <2>2. CASE ~bad
    <3> HIDE DEF l
    <3> QED BY <1>3, <1>4, <2>2 DEF StampsShaped
  <2> QED BY <2>1, <2>2
<1> HIDE DEF l
<1>6. ASSUME ~bad PROVE Debugged(design, l)
  <2>1. l.stamps = LayerStamps(info) /\ l.order = info.order /\ l.is_tg = info.is_tg
    BY <1>1, <1>6 DEF InfoOf
  <2>2. StampsTrue(design, l, Len(l.stamps))
    BY <1>2, <1>4, <1>6, <2>1 DEF StampsTrue
  <2>3. /\ design.kernels[info.order][1] \notin Unsupported
        /\ \A n \in 1 .. StampsOf(info) :
              /\ LayerStamps(info)[n].name = design.kernels[info.order]
              /\ LayerStamps(info)[n].start_pc = 0
              /\ info.is_tg => LayerStamps(info)[n].elf = design.runs[info.order][n - 1]
    BY <1>6, SupportedStamps
  <2>4. \A n \in 1 .. StampsOf(info) : StampTrue(design, l, n)
    BY <2>1, <2>3 DEF StampTrue
  <2> QED BY <1>4, <1>6, <2>1, <2>2, <2>3, <2>4 DEF Debugged
<1>7. LayerTrue(design, l)
  BY <1>1, <1>5, <1>6 DEF LayerTrue
<1>8. ASSUME ~bad PROVE /\ l.num_iter = design.iterations[info.order] /\ l.num_iter \in Nat \ {0}
  <2>1. CASE info.is_tg
    <3>1. design.reported /\ Own(design, info.order) # {}
      BY <1>8, <2>1, SupportedStamps
    <3>2. l.num_iter = Repetitions(design.report, Own(design, info.order))
      BY <1>1, <1>8, <2>1, <3>1, OwnedIs DEF Iters
    <3>3. /\ design.iterations[info.order] = Repetitions(design.report, Own(design, info.order))
          /\ design.iterations[info.order] \in Nat \ {0}
      BY <2>1, <3>1, ReportAssumption
    <3> QED BY <3>2, <3>3
  <2>2. CASE ~info.is_tg
    <3>1. l.num_iter = IF info.num_iter = 0 THEN 1 ELSE info.num_iter
      BY <1>1, <2>2 DEF InfoIterations
    <3>2. design.iterations[info.order] = Max({1, info.num_iter})
      BY <2>2, StampAssumption
    <3>3. info.num_iter \in Nat
      <4>1. PICK i \in DOMAIN design.raw : info = design.raw[i]
        BY DEF Range
      <4>2. {info.order, info.no_of_stamps, info.num_iter} \subseteq Nat
        BY <4>1, MetadataAssumption
      <4> QED BY <4>2
    <3> DEFINE m == IF info.num_iter = 0 THEN 1 ELSE info.num_iter
               S == {1, info.num_iter}
    <3>4. m \in S /\ S \in SUBSET Int /\ \A x \in S : m >= x
      BY <3>3
    <3>5. m \in Nat \ {0}
      BY <3>3
    <3> HIDE DEF m, S
    <3>6. Max(S) = m
      BY <3>4, MaxOf
    <3> QED BY <3>1, <3>2, <3>5, <3>6 DEF m, S
  <2> QED BY <2>1, <2>2
<1>9. IterTrue(design, l)
  BY <1>1, <1>8 DEF IterTrue, InfoOf
<1> QED BY <1>7, <1>9 DEF l


-----------------------------------------------------------------------------
(* Execution order.                                                        *)
(* The key of a layer comes from its ids or from the layer before it. *)
LEMMA ExecOrderStep ==
  ASSUME NEW list, Len(list) \in Nat
  PROVE  ExecOrder(list) = [i \in 0 .. Len(list) |->
                    IF i = 0 THEN -1 ELSE IF list[i].ids = {} THEN ExecOrder(list)[i - 1] ELSE Max(list[i].ids)]
<1> DEFINE Eq(f, m) == f = [i \in 0 .. m |-> IF i = 0 THEN -1 ELSE IF list[i].ids = {} THEN f[i - 1] ELSE Max(list[i].ids)]
           T == {m \in Nat : \E f : Eq(f, m)}
<1> DEFINE last == Len(list)
<1>0. last \in Nat
  OBVIOUS
<1>1. 0 \in T
  <2>1. Eq([i \in 0 .. 0 |-> -1], 0)
    OBVIOUS
  <2> QED BY <2>1
<1>2. ASSUME NEW m \in 0 .. last - 1, m \in T PROVE m + 1 \in T
  <2>1. PICK f : Eq(f, m)
    BY <1>2
  <2> DEFINE g == [i \in 0 .. m + 1 |->
                     IF i = m + 1 THEN IF i = 0 THEN -1 ELSE IF list[i].ids = {} THEN f[i - 1] ELSE Max(list[i].ids)
                     ELSE f[i]]
  <2>2. ASSUME NEW i \in 0 .. m + 1
        PROVE  g[i] = IF i = 0 THEN -1 ELSE IF list[i].ids = {} THEN g[i - 1] ELSE Max(list[i].ids)
    <3>1. CASE i = m + 1
      <4>1. i # 0 => i - 1 \in 0 .. m + 1 /\ i - 1 # m + 1 /\ g[i - 1] = f[i - 1]
        BY <3>1
      <4>2. g[i] = IF i = 0 THEN -1 ELSE IF list[i].ids = {} THEN f[i - 1] ELSE Max(list[i].ids)
        BY <3>1
      <4> HIDE DEF g
      <4> QED BY <4>1, <4>2
    <3>2. CASE i # m + 1
      <4>1. i \in 0 .. m /\ g[i] = f[i]
        BY <3>2
      <4>2. f[i] = IF i = 0 THEN -1 ELSE IF list[i].ids = {} THEN f[i - 1] ELSE Max(list[i].ids)
        BY <2>1, <4>1
      <4>3. i # 0 => i - 1 \in 0 .. m + 1 /\ i - 1 # m + 1 /\ g[i - 1] = f[i - 1]
        BY <4>1
      <4> HIDE DEF g
      <4> QED BY <4>1, <4>2, <4>3
    <3> QED BY <3>1, <3>2
  <2>3. Eq(g, m + 1)
    BY <2>2
  <2> HIDE DEF g, Eq
  <2> QED BY <2>3
<1> HIDE DEF T
<1>3. 0 .. last \subseteq T
  <2> HIDE DEF last
  <2> QED BY <1>0, <1>1, <1>2, InductTo
<1>4. \E f : Eq(f, last)
  <2>1. last \in 0 .. last
    BY <1>0
  <2>2. last \in T
    BY <1>3, <2>1
  <2> HIDE DEF Eq
  <2> QED BY <2>2 DEF T
<1> DEFINE F == CHOOSE f : Eq(f, last)
<1>5. Eq(F, last)
  <2> HIDE DEF Eq
  <2> QED BY <1>4
<1>6. ExecOrder(list) = F
  BY DEF ExecOrder
<1> HIDE DEF F
<1> QED BY <1>5, <1>6

LEMMA RawIs ==
  ASSUME design \in Designs
  PROVE  /\ Len(design.raw) \in Nat /\ DOMAIN design.raw = 1 .. Len(design.raw)
         /\ \A i \in 1 .. Len(design.raw) :
              design.raw[i] \in Range(design.raw) /\ design.raw[i].order \in Nat
         /\ \A i, j \in 1 .. Len(design.raw) :
              i < j <=> design.raw[i].order < design.raw[j].order
         /\ DOMAIN design.ran = {design.raw[i].order : i \in 1 .. Len(design.raw)}
<1>1. Len(design.raw) \in Nat /\ DOMAIN design.raw = 1 .. Len(design.raw)
  <2>1. design.raw \in Seq(Range(design.raw))
    BY MetadataAssumption
  <2> QED BY <2>1, LenProperties
<1>2. /\ \A i \in DOMAIN design.raw :
           /\ {design.raw[i].order, design.raw[i].no_of_stamps, design.raw[i].num_iter} \subseteq Nat
           /\ \A j \in DOMAIN design.raw : i < j => design.raw[i].order < design.raw[j].order
      /\ DOMAIN design.ran = {info.order : info \in Range(design.raw)}
  BY MetadataAssumption
<1>3. \A i \in 1 .. Len(design.raw) :
        design.raw[i] \in Range(design.raw) /\ design.raw[i].order \in Nat
  BY <1>1, <1>2 DEF Range
<1>4. \A i, j \in 1 .. Len(design.raw) :
        i < j <=> design.raw[i].order < design.raw[j].order
  <2> SUFFICES ASSUME NEW i \in 1 .. Len(design.raw), NEW j \in 1 .. Len(design.raw)
               PROVE  i < j <=> design.raw[i].order < design.raw[j].order
    OBVIOUS
  <2>1. i < j => design.raw[i].order < design.raw[j].order
    BY <1>1, <1>2
  <2>2. j < i => design.raw[j].order < design.raw[i].order
    BY <1>1, <1>2
  <2>3. design.raw[i].order \in Nat /\ design.raw[j].order \in Nat
    BY <1>3
  <2> QED BY <1>1, <2>1, <2>2, <2>3
<1>5. DOMAIN design.ran = {design.raw[i].order : i \in 1 .. Len(design.raw)}
  BY <1>1, <1>2 DEF Range
<1> QED BY <1>1, <1>3, <1>4, <1>5

LEMMA LayerIdsAre ==
  ASSUME design \in Designs, design.reported, NEW info \in Range(design.raw)
  PROVE  /\ LayerIds(design.report, info) = design.ran[info.order]
         /\ design.ran[info.order] # {} => Max(design.ran[info.order]) \in Nat
<1> DEFINE S == design.ran[info.order]
           n == Len(design.report)
           id == [k \in 1 .. n |-> design.report[k].id]
<1>1. {design.report[k].id : k \in Own(design, info.order)} = S
  BY ReportAssumption
<1>2. LayerIds(design.report, info) = S
  BY <1>1, OwnedIs DEF LayerIds
<1>3. n \in Nat /\ DOMAIN design.report = 1 .. n
  <2>1. design.report \in Seq(Range(design.report))
    BY ReportAssumption
  <2> QED BY <2>1, LenProperties
<1>4. \A k \in 1 .. n : id[k] \in Nat
  BY <1>3, ReportAssumption
<1>5. PICK b \in Nat : \A k \in 1 .. n : id[k] <= b
  <2> HIDE DEF id, n
  <2> QED BY <1>3, <1>4, Bounded
<1>6. S \in SUBSET (0 .. b)
  <2>1. ASSUME NEW x \in S PROVE x \in 0 .. b
    <3>1. PICK k \in Own(design, info.order) : x = design.report[k].id
      BY <1>1
    <3>2. k \in 1 .. n /\ x = id[k]
      BY <1>3, <3>1 DEF Own
    <3>3. id[k] \in Nat /\ id[k] <= b /\ b \in Nat
      <4> HIDE DEF id, n
      <4> QED BY <1>4, <1>5, <3>2
    <3> HIDE DEF id, n
    <3> QED BY <3>2, <3>3
  <2> QED BY <2>1
<1>7. S # {} => Max(S) \in Nat
  <2> HIDE DEF S
  <2>1. S # {} => Max(S) \in S
    BY <1>5, <1>6, MaxIs
  <2>2. \A x \in S : x \in Nat
    BY <1>5, <1>6
  <2> DEFINE m == Max(S)
  <2>3. S # {} => m \in S
    BY <2>1
  <2> HIDE DEF m
  <2>4. S # {} => m \in Nat
    BY <2>2, <2>3
  <2> QED BY <2>4 DEF m
<1> QED BY <1>2, <1>7

(* The sort keys are the anchors. *)
LEMMA KeysAre ==
  ASSUME design \in Designs, design.reported, NEW list, Len(list) = Len(design.raw),
         \A i \in 1 .. Len(design.raw) : list[i].ids = design.ran[design.raw[i].order]
  PROVE  \A i \in 1 .. Len(design.raw) :
           /\ ExecOrder(list)[i] = Anchor(design, design.raw[i].order)
           /\ ExecOrder(list)[i] \in Int
<1> DEFINE n == Len(design.raw)
           ord(i) == design.raw[i].order
           key == ExecOrder(list)
           known == {x \in DOMAIN design.ran : design.ran[x] # {}}
           before(o) == {x \in known : x < o}
           Is(i) == key[i] = Anchor(design, ord(i)) /\ key[i] \in Int
           T == {k \in Nat : k # 0 => Is(k)}
<1>1. /\ n \in Nat
      /\ \A i \in 1 .. n : ord(i) \in Nat /\ design.raw[i] \in Range(design.raw)
      /\ \A i, j \in 1 .. n : i < j <=> ord(i) < ord(j)
      /\ DOMAIN design.ran = {ord(i) : i \in 1 .. n}
  BY RawIs
<1>2. /\ key[0] = -1
      /\ \A i \in 1 .. n : key[i] = IF list[i].ids = {} THEN key[i - 1] ELSE Max(list[i].ids)
  <2>1. ExecOrder(list) = [i \in 0 .. n |-> IF i = 0 THEN -1
          ELSE IF list[i].ids = {} THEN ExecOrder(list)[i - 1] ELSE Max(list[i].ids)]
    BY <1>1, ExecOrderStep
  <2> HIDE DEF n
  <2>2. 0 \in 0 .. n /\ \A i \in 1 .. n : i \in 0 .. n /\ i # 0
    BY <1>1
  <2>3. key[0] = -1
    BY <2>1, <2>2
  <2>4. \A i \in 1 .. n : key[i] = IF list[i].ids = {} THEN key[i - 1] ELSE Max(list[i].ids)
    BY <2>1, <2>2
  <2> QED BY <2>3, <2>4
<1>3. \A o : Anchor(design, o) = IF o \in known THEN Max(design.ran[o])
                                 ELSE IF before(o) = {} THEN -1 ELSE Max(design.ran[Max(before(o))])
  BY DEF Anchor
<1>4. 0 \in T
  OBVIOUS
<1>5. ASSUME NEW k \in 0 .. n - 1, k \in T PROVE k + 1 \in T
  <2> DEFINE i == k + 1
  <2>1. i \in 1 .. n /\ i - 1 = k
    BY <1>1
  <2>2. list[i].ids = design.ran[ord(i)] /\ ord(i) \in DOMAIN design.ran
    BY <1>1, <2>1
  <2>3. CASE design.ran[ord(i)] # {}
    <3>1. key[i] = Max(design.ran[ord(i)])
      BY <1>2, <2>1, <2>2, <2>3
    <3>2. Anchor(design, ord(i)) = Max(design.ran[ord(i)])
      BY <1>3, <2>2, <2>3
    <3>3. Max(design.ran[ord(i)]) \in Nat
      BY <1>1, <2>1, <2>3, LayerIdsAre
    <3>4. Is(i)
      BY <3>1, <3>2, <3>3
    <3> HIDE DEF Is
    <3> QED BY <3>4
  <2>4. CASE design.ran[ord(i)] = {}
    <3>1. key[i] = key[k] /\ ord(i) \notin known
      BY <1>2, <2>1, <2>2, <2>4
    <3>2. \A x \in before(ord(i)) : \E j \in 1 .. k : x = ord(j)
      <4> SUFFICES ASSUME NEW x \in known, x < ord(i) PROVE \E j \in 1 .. k : x = ord(j)
        OBVIOUS
      <4>1. PICK j \in 1 .. n : x = ord(j)
        BY <1>1
      <4>2. j < i
        BY <1>1, <2>1, <4>1
      <4>3. j \in 1 .. k
        BY <4>2
      <4> QED BY <4>1, <4>3
    <3>3. CASE k = 0
      <4>1. before(ord(i)) = {}
        BY <3>2, <3>3
      <4>2. Anchor(design, ord(i)) = -1
        BY <1>3, <3>1, <4>1
      <4>3. Is(i)
        BY <1>2, <3>1, <3>3, <4>2
      <4> HIDE DEF Is
      <4> QED BY <4>3
    <3>4. CASE k # 0
      <4>1. k \in 1 .. n /\ Is(k)
        BY <1>5, <3>4
      <4>2. ord(k) < ord(i) /\ ord(k) \in DOMAIN design.ran
        BY <1>1, <2>1, <4>1
      <4>3. \A x \in before(ord(i)) : x \in Nat /\ x <= ord(k)
        <5> SUFFICES ASSUME NEW x \in before(ord(i)) PROVE x \in Nat /\ x <= ord(k)
          OBVIOUS
        <5>1. PICK j \in 1 .. k : x = ord(j)
          BY <3>2
        <5>2. j \in 1 .. n /\ (j = k \/ j < k)
          BY <4>1, <5>1
        <5>3. ord(j) \in Nat /\ ord(k) \in Nat /\ (j < k => ord(j) < ord(k))
          BY <1>1, <4>1, <5>2
        <5> QED BY <5>1, <5>2, <5>3
      <4>4. CASE ord(k) \in known
        <5> DEFINE B == before(ord(i))
        <5>0. ord(k) \in Nat
          BY <1>1, <4>1
        <5>1. ord(k) \in B /\ B \in SUBSET Int /\ \A x \in B : ord(k) >= x
          <6>1. ord(k) \in B
            BY <4>2, <4>4
          <6>2. \A x \in B : x \in Nat /\ x <= ord(k)
            BY <4>3
          <6> HIDE DEF B, ord
          <6> QED BY <5>0, <6>1, <6>2
        <5>2. Max(B) = ord(k)
          <6> HIDE DEF B
          <6> QED BY <5>1, MaxOf
        <5>3. Anchor(design, ord(i)) = Max(design.ran[ord(k)])
          <6>1. B # {} /\ ord(i) \notin known
            BY <3>1, <5>1
          <6>2. Anchor(design, ord(i)) = Max(design.ran[Max(B)])
            BY <1>3, <6>1
          <6> QED BY <5>2, <6>2
        <5>4. Anchor(design, ord(k)) = Max(design.ran[ord(k)])
          BY <1>3, <4>4
        <5>5. Is(i)
          BY <3>1, <4>1, <5>3, <5>4
        <5> HIDE DEF Is
        <5> QED BY <5>5
      <4>5. CASE ord(k) \notin known
        <5>1. before(ord(i)) = before(ord(k))
          <6>1. ASSUME NEW x \in before(ord(i)) PROVE x \in before(ord(k))
            <7>1. x \in Nat /\ x <= ord(k) /\ x # ord(k) /\ ord(k) \in Nat
              BY <1>1, <4>1, <4>3, <4>5
            <7> QED BY <7>1
          <6>2. ASSUME NEW x \in before(ord(k)) PROVE x \in before(ord(i))
            <7>1. PICK j \in 1 .. n : x = ord(j)
              BY <1>1
            <7>2. x \in Nat /\ ord(k) \in Nat /\ ord(i) \in Nat
              BY <1>1, <2>1, <4>1, <7>1
            <7> QED BY <4>2, <7>2
          <6> QED BY <6>1, <6>2
        <5>2. Anchor(design, ord(i)) = Anchor(design, ord(k))
          <6> DEFINE A(B) == IF B = {} THEN -1 ELSE Max(design.ran[Max(B)])
          <6>1. Anchor(design, ord(i)) = A(before(ord(i)))
            BY <1>3, <3>1
          <6>2. Anchor(design, ord(k)) = A(before(ord(k)))
            BY <1>3, <4>5
          <6> HIDE DEF A, before
          <6> QED BY <5>1, <6>1, <6>2
        <5>3. Is(i)
          BY <3>1, <4>1, <5>2
        <5> HIDE DEF Is
        <5> QED BY <5>3
      <4> QED BY <4>4, <4>5
    <3> QED BY <3>3, <3>4
  <2> QED BY <2>3, <2>4
<1> HIDE DEF T
<1>6. 0 .. n \subseteq T
  BY <1>1, <1>4, <1>5, InductTo
<1>7. \A i \in 1 .. n : Is(i)
  <2> SUFFICES ASSUME NEW i \in 1 .. n PROVE Is(i)
    OBVIOUS
  <2>1. i \in T /\ i # 0
    BY <1>1, <1>6
  <2> HIDE DEF Is
  <2> QED BY <2>1 DEF T
<1> QED BY <1>7

LexBefore(key, i, j) == key[i] < key[j] \/ (key[i] = key[j] /\ i < j)

LEMMA ReorderedIs ==
  ASSUME NEW list, NEW n \in Nat, DOMAIN list = 1 .. n, \A i \in 1 .. n : ExecOrder(list)[i] \in Int
  PROVE  /\ DOMAIN Reordered(list) = 1 .. n /\ Len(Reordered(list)) = n
         /\ \E o \in [1 .. n -> 1 .. n] :
              /\ \A i \in 1 .. n :
                   \/ Reordered(list)[i] = list[o[i]]
                   \/ Reordered(list)[i] = [list[o[i]] EXCEPT !.unsupported = TRUE]
              /\ \A i, j \in 1 .. n : i < j => LexBefore(ExecOrder(list), o[i], o[j])
<1> DEFINE key == ExecOrder(list)
           S == 1 .. n
           before == {p \in S \X S : key[p[1]] < key[p[2]] \/ (key[p[1]] = key[p[2]] /\ p[1] < p[2])}
           o == InOrder(S, before)
           known(l) == IF l.ids = {} /\ l.is_tg THEN [l EXCEPT !.unsupported = TRUE] ELSE l
<1>1. Reordered(list) = [i \in 1 .. n |-> known(list[o[i]])]
  BY DEF Reordered
<1>2. IsFiniteSet(S) /\ Cardinality(S) = n
  BY FS_Interval
<1> HIDE DEF key
<1>3. \A i, j \in S : <<i, j>> \in before <=> LexBefore(key, i, j)
  <2> SUFFICES ASSUME NEW i \in S, NEW j \in S PROVE <<i, j>> \in before <=> LexBefore(key, i, j)
    OBVIOUS
  <2>1. <<i, j>> \in S \X S /\ <<i, j>>[1] = i /\ <<i, j>>[2] = j
    OBVIOUS
  <2> HIDE DEF S
  <2> QED BY <2>1, Zenon DEF LexBefore
<1> HIDE DEF before
<1>4. Orders(S, before)
  <2>1. \A i \in S : key[i] \in Int /\ i \in Int
    BY DEF key
  <2> HIDE DEF S
  <2>2. \A i \in S : ~LexBefore(key, i, i)
    BY <2>1 DEF LexBefore
  <2>3. \A i, j \in S : i # j => LexBefore(key, i, j) \/ LexBefore(key, j, i)
    BY <2>1 DEF LexBefore
  <2>4. \A i, j, k \in S : LexBefore(key, i, j) /\ LexBefore(key, j, k) => LexBefore(key, i, k)
    BY <2>1 DEF LexBefore
  <2> QED BY <1>3, <2>2, <2>3, <2>4 DEF Orders
<1>5. o \in [1 .. n -> S] /\ \A i, j \in 1 .. n : i < j => <<o[i], o[j]>> \in before
  <2> HIDE DEF S
  <2> QED BY <1>2, <1>4, InOrderIs
<1> HIDE DEF o
<1>6. \A i, j \in 1 .. n : i < j => LexBefore(key, o[i], o[j])
  BY <1>3, <1>5
<1>7. \A i \in 1 .. n : \/ Reordered(list)[i] = list[o[i]]
                        \/ Reordered(list)[i] = [list[o[i]] EXCEPT !.unsupported = TRUE]
  BY <1>1
<1>8. DOMAIN Reordered(list) = 1 .. n /\ Len(Reordered(list)) = n
  <2> HIDE DEF known
  <2>1. Len([i \in 1 .. n |-> known(list[o[i]])]) = n
    OBVIOUS
  <2> QED BY <1>1, <2>1
<1> QED BY <1>5, <1>6, <1>7, <1>8 DEF key

LEMMA SameLayer ==
  ASSUME NEW d, NEW l, LayerTrue(d, l), NEW m, DOMAIN m = LayerFields,
         m.order = l.order, m.is_tg = l.is_tg, m.flexml_ids = l.flexml_ids, m.stamps = l.stamps,
         m.l3_buffers \subseteq d.spills, ~m.unsupported => ~l.unsupported
  PROVE  /\ LayerTrue(d, m)
         /\ m.num_iter = l.num_iter /\ IterTrue(d, l) => IterTrue(d, m)
<1>1. \E info \in Range(d.raw) : InfoOf(d, m, info)
  BY DEF LayerTrue, InfoOf
<1>2. StampsShaped(m, StampCountOf(d))
  BY DEF LayerTrue, StampsShaped
<1>3. Debugged(d, l) => Debugged(d, m)
  BY DEF Debugged, StampsTrue, StampTrue
<1>4. LayerTrue(d, m)
  BY <1>1, <1>2, <1>3 DEF LayerTrue
<1> QED BY <1>4 DEF IterTrue

LEMMA DisabledTrue ==
  ASSUME NEW d, NEW l, LayerTrue(d, l), IterTrue(d, l)
  PROVE  LET m == [l EXCEPT !.unsupported = TRUE]
         IN  LayerTrue(d, m) /\ IterTrue(d, m) /\ m.order = l.order
<1> DEFINE m == [l EXCEPT !.unsupported = TRUE]
<1>1. DOMAIN l = LayerFields /\ l.l3_buffers \subseteq d.spills
  BY DEF LayerTrue
<1>2. /\ DOMAIN m = LayerFields /\ m.order = l.order /\ m.is_tg = l.is_tg
      /\ m.flexml_ids = l.flexml_ids /\ m.stamps = l.stamps /\ m.l3_buffers = l.l3_buffers
      /\ m.num_iter = l.num_iter /\ m.unsupported = TRUE
  BY <1>1 DEF LayerFields
<1> HIDE DEF m
<1>3. LayerTrue(d, m) /\ (m.num_iter = l.num_iter /\ IterTrue(d, l) => IterTrue(d, m))
  BY <1>1, <1>2, SameLayer
<1> QED BY <1>2, <1>3 DEF m

-----------------------------------------------------------------------------
LayersTrue(d, list) ==
  /\ Len(list) \in Nat /\ DOMAIN list = 1 .. Len(list)
  /\ \A i \in 1 .. Len(list) : LayerTrue(d, list[i])

Sorted(d, list) ==
  \A i, j \in 1 .. Len(list) : i < j =>
    LET a == list[i].order
        b == list[j].order
    IN  Anchor(d, a) <= Anchor(d, b) /\ (Anchor(d, a) = Anchor(d, b) => a < b)

LEMMA InitLayersTrue ==
  ASSUME design \in Designs, InitLayers
  PROVE  /\ LayersTrue(design, layers') /\ \A i \in 1 .. Len(layers') : IterTrue(design, layers'[i])
         /\ design.reported => Sorted(design, layers')
<1> DEFINE n == Len(design.raw)
           list == [i \in DOMAIN design.raw |-> NewLayer(design.raw[i])]
           ord(i) == design.raw[i].order
           key == ExecOrder(list)
<1>1. /\ n \in Nat /\ DOMAIN design.raw = 1 .. n
      /\ \A i \in 1 .. n : design.raw[i] \in Range(design.raw) /\ ord(i) \in Nat
      /\ \A i, j \in 1 .. n : i < j <=> ord(i) < ord(j)
  BY RawIs
<1>2. layers' = IF design.reported THEN Reordered(list) ELSE list
  BY DEF InitLayers
<1>3. DOMAIN list = 1 .. n /\ Len(list) = n
  <2>1. list = [i \in 1 .. n |-> NewLayer(design.raw[i])]
    BY <1>1
  <2> HIDE DEF list, n
  <2>2. Len([i \in 1 .. n |-> NewLayer(design.raw[i])]) = n
    BY <1>1
  <2> QED BY <2>1, <2>2
<1>4. \A i \in 1 .. n : /\ LayerTrue(design, list[i]) /\ IterTrue(design, list[i])
                        /\ list[i].order = ord(i)
  <2> SUFFICES ASSUME NEW i \in 1 .. n
               PROVE  /\ LayerTrue(design, list[i]) /\ IterTrue(design, list[i])
                      /\ list[i].order = ord(i)
    OBVIOUS
  <2>1. list[i] = NewLayer(design.raw[i]) /\ design.raw[i] \in Range(design.raw)
    BY <1>1
  <2> HIDE DEF list
  <2>2. NewLayer(design.raw[i]).order = ord(i)
    BY NewLayerIs DEF InfoOf
  <2> QED BY <2>1, <2>2, NewLayerTrue
<1>5. CASE ~design.reported
  <2> HIDE DEF list
  <2> QED BY <1>1, <1>2, <1>3, <1>4, <1>5 DEF LayersTrue
<1>6. CASE design.reported
  <2>1. \A i \in 1 .. n : list[i].ids = design.ran[ord(i)]
    <3> SUFFICES ASSUME NEW i \in 1 .. n PROVE list[i].ids = design.ran[ord(i)]
      OBVIOUS
    <3>1. list[i] = NewLayer(design.raw[i]) /\ design.raw[i] \in Range(design.raw)
      BY <1>1
    <3> HIDE DEF list
    <3>2. NewLayer(design.raw[i]).ids = LayerIds(design.report, design.raw[i])
      BY <1>6, NewLayerIs
    <3>3. LayerIds(design.report, design.raw[i]) = design.ran[ord(i)]
      BY <1>6, <3>1, LayerIdsAre
    <3> QED BY <3>1, <3>2, <3>3
  <2> HIDE DEF list
  <2>2. \A i \in 1 .. n : key[i] = Anchor(design, ord(i)) /\ key[i] \in Int
    BY <1>3, <1>6, <2>1, KeysAre
  <2>3. DOMAIN Reordered(list) = 1 .. n /\ Len(Reordered(list)) = n
    BY <1>1, <1>3, <2>2, ReorderedIs
  <2>4. PICK o \in [1 .. n -> 1 .. n] :
          /\ \A i \in 1 .. n :
               \/ Reordered(list)[i] = list[o[i]]
               \/ Reordered(list)[i] = [list[o[i]] EXCEPT !.unsupported = TRUE]
          /\ \A i, j \in 1 .. n : i < j => LexBefore(key, o[i], o[j])
    BY <1>1, <1>3, <2>2, ReorderedIs
  <2>5. \A i \in 1 .. n : /\ LayerTrue(design, layers'[i]) /\ IterTrue(design, layers'[i])
                          /\ layers'[i].order = ord(o[i]) /\ o[i] \in 1 .. n
    <3> SUFFICES ASSUME NEW i \in 1 .. n
                 PROVE  /\ LayerTrue(design, layers'[i]) /\ IterTrue(design, layers'[i])
                        /\ layers'[i].order = ord(o[i]) /\ o[i] \in 1 .. n
      OBVIOUS
    <3>1. o[i] \in 1 .. n
      OBVIOUS
    <3> DEFINE l == list[o[i]]
    <3>2. LayerTrue(design, l) /\ IterTrue(design, l) /\ l.order = ord(o[i])
      BY <1>4, <3>1
    <3>3. layers'[i] = l \/ layers'[i] = [l EXCEPT !.unsupported = TRUE]
      BY <1>2, <1>6, <2>4
    <3> HIDE DEF l, ord
    <3> DEFINE m == [l EXCEPT !.unsupported = TRUE]
    <3>4. LayerTrue(design, m) /\ IterTrue(design, m) /\ m.order = l.order
      BY <3>2, DisabledTrue
    <3>5. layers'[i] = l \/ layers'[i] = m
      BY <3>3
    <3> HIDE DEF m
    <3> QED BY <3>1, <3>2, <3>4, <3>5
  <2>6. Len(layers') = n /\ DOMAIN layers' = 1 .. n
    BY <1>2, <1>6, <2>3
  <2>7. Sorted(design, layers')
    <3> SUFFICES ASSUME NEW i \in 1 .. n, NEW j \in 1 .. n, i < j
                 PROVE  LET a == layers'[i].order
                            b == layers'[j].order
                        IN  /\ Anchor(design, a) <= Anchor(design, b)
                            /\ Anchor(design, a) = Anchor(design, b) => a < b
      BY <2>6 DEF Sorted
    <3>1. LexBefore(key, o[i], o[j]) /\ o[i] \in 1 .. n /\ o[j] \in 1 .. n
      BY <2>4, <2>5
    <3>2. /\ layers'[i].order = ord(o[i]) /\ layers'[j].order = ord(o[j])
          /\ key[o[i]] = Anchor(design, ord(o[i])) /\ key[o[j]] = Anchor(design, ord(o[j]))
          /\ key[o[i]] \in Int /\ key[o[j]] \in Int
      BY <2>2, <2>5, <3>1
    <3>3. o[i] < o[j] => ord(o[i]) < ord(o[j])
      BY <1>1, <3>1
    <3> HIDE DEF key, ord, n
    <3> QED BY <3>1, <3>2, <3>3 DEF LexBefore
  <2> QED BY <1>1, <2>5, <2>6, <2>7 DEF LayersTrue
<1> QED BY <1>5, <1>6

-----------------------------------------------------------------------------
(* The ELFs of a stamp.                                                    *)

(* What is kept of an ELF is true to it. *)
ElfTrue(d, elf, e) ==
  /\ e.id = elf.id /\ e.layers = elf.layers
  /\ TrueTo(d.peano, elf.base, elf.program, elf.from,
            [done |-> e.functions, acquire |-> e.acquire])

ElfsTrue(d, s, list) ==
  /\ Len(list) = Cardinality(d.elfs[s]) /\ Len(list) \in Nat /\ DOMAIN list = 1 .. Len(list)
  /\ \A k \in 1 .. Len(list) : \E elf \in d.elfs[s] : ElfTrue(d, elf, list[k])

LEMMA SameRead ==
  ASSUME NEW peano, NEW base, NEW program, NEW from, NEW r, NEW q,
         TrueTo(peano, base, program, from, r), q.done = r.done, q.acquire = r.acquire
  PROVE  TrueTo(peano, base, program, from, q)
  BY DEF TrueTo

LEMMA ElfFacts ==
  ASSUME design \in Designs, NEW s \in 1 .. StampCountOf(design)
  PROVE  /\ IsFiniteSet(design.elfs[s]) /\ design.peano \in BOOLEAN
         /\ \A elf \in design.elfs[s] :
              /\ elf.id # NoElf /\ \A other \in design.elfs[s] : other.id = elf.id => other = elf
              /\ IsProgram(elf.program) /\ elf.from \in Nat /\ elf.base \in BOOLEAN
              /\ elf.base => MainReturns(elf.program)
  BY ElfAssumption, MetadataAssumption

LEMMA ParsedTrue ==
  ASSUME design \in Designs, NEW s \in 1 .. StampCountOf(design), NEW elf \in design.elfs[s]
  PROVE  ElfTrue(design, elf, ParsedElf(elf))
<1> DEFINE r == Parse(design.peano, Disassemble(design.peano, elf.program, elf.from), elf.base)
           e == ParsedElf(elf)
           q == [done |-> e.functions, acquire |-> e.acquire]
<1>1. /\ IsProgram(elf.program) /\ elf.from \in Nat /\ design.peano \in BOOLEAN
      /\ elf.base => MainReturns(elf.program)
  BY ElfFacts
<1>2. TrueTo(design.peano, elf.base, elf.program, elf.from, r)
  BY <1>1, ParseRecovers
<1>3. e = [id |-> elf.id, layers |-> elf.layers, functions |-> r.done, acquire |-> r.acquire]
  BY DEF ParsedElf
<1> HIDE DEF r, e
<1>4. e.id = elf.id /\ e.layers = elf.layers /\ e.functions = r.done /\ e.acquire = r.acquire
  BY <1>3
<1>5. q.done = r.done /\ q.acquire = r.acquire
  BY <1>4
<1>6. TrueTo(design.peano, elf.base, elf.program, elf.from, q)
  <2> HIDE DEF q
  <2> QED BY <1>2, <1>5, SameRead
<1> QED BY <1>4, <1>6 DEF ElfTrue, e

LEMMA ParseElfsTrue ==
  ASSUME design \in Designs, sid + 1 \in 1 .. StampCountOf(design), ParseElfs
  PROVE  \E list : elfs' = Append(elfs, list) /\ ElfsTrue(design, sid + 1, list)
<1> DEFINE S == design.elfs[sid + 1]
           n == Cardinality(S)
<1>1. PICK found \in SetToSeqs(S) : elfs' = Append(elfs, [i \in DOMAIN found |-> ParsedElf(found[i])])
  BY DEF ParseElfs
<1>2. found \in [1 .. n -> S]
  BY DEF SetToSeqs
<1>3. n \in Nat
  BY ElfFacts, FS_CardinalityType
<1> DEFINE list == [i \in 1 .. n |-> ParsedElf(found[i])]
<1>4. elfs' = Append(elfs, list)
  BY <1>1, <1>2
<1>5. Len(list) = n
  <2> HIDE DEF n
  <2> QED BY <1>3
<1>6. ASSUME NEW i \in 1 .. n PROVE \E elf \in S : ElfTrue(design, elf, list[i])
  <2>1. found[i] \in S /\ list[i] = ParsedElf(found[i])
    BY <1>2
  <2> HIDE DEF list
  <2>2. ElfTrue(design, found[i], ParsedElf(found[i]))
    BY <2>1, ParsedTrue
  <2> QED BY <2>1, <2>2
<1>7. ElfsTrue(design, sid + 1, list)
  <2>1. DOMAIN list = 1 .. n
    OBVIOUS
  <2> HIDE DEF list
  <2> QED BY <1>3, <1>5, <1>6, <2>1 DEF ElfsTrue
<1> QED BY <1>4, <1>7

-----------------------------------------------------------------------------
(* The choice of a function and of an ELF.                                 *)

LEMMA OneMember ==
  ASSUME NEW S, IsFiniteSet(S), Cardinality(S) = 1, NEW x \in S
  PROVE  S = {x}
<1>1. \E y : S = {y}
  BY FS_Singleton
<1> QED BY <1>1

LEMMA MinOfOne ==
  ASSUME NEW x \in Nat
  PROVE  Min({x}) = x
<1>1. {x} \in SUBSET Nat /\ {x} # {}
  OBVIOUS
<1>2. Min({x}) \in {x}
  BY <1>1, MinIs
<1> QED BY <1>2

LEMMA DemangleIs ==
  ASSUME NEW name
  PROVE  Demangle(name)[1] = name[1] /\ Demangle(Demangle(name)) = Demangle(name)
  BY DEF Demangle

(* The scan has found the function k of the program. *)
LEMMA FunctionFound ==
  ASSUME NEW d, NEW elf, NEW e, ElfTrue(d, elf, e), IsProgram(elf.program), d.peano \in BOOLEAN,
         NEW k \in DOMAIN elf.program, ~(d.peano /\ Endless(elf.program, k))
  PROVE  k \in DOMAIN e.functions
<1> DEFINE q == [done |-> e.functions, acquire |-> e.acquire]
           program == elf.program
<1>1. TrueTo(d.peano, elf.base, program, elf.from, q)
  BY DEF ElfTrue
<1>2. q.done = e.functions
  OBVIOUS
<1>3. Len(program) \in Nat /\ DOMAIN program = 1 .. Len(program)
  BY ProgramFacts
<1> HIDE DEF q, program
<1>4. DOMAIN e.functions = 1 .. IF d.peano /\ \E j \in DOMAIN program : Endless(program, j)
                                  THEN Len(program) - 1 ELSE Len(program)
  BY <1>1, <1>2 DEF TrueTo
<1>5. (d.peano /\ \E j \in DOMAIN program : Endless(program, j)) => k # Len(program)
  BY DEF Endless, program
<1> QED BY <1>3, <1>4, <1>5 DEF program

FunctionTrue(d, elf, k, f) ==
  /\ f.name = IF d.peano THEN elf.program[k].name ELSE Demangle(elf.program[k].name)
  /\ f.start = FirstPc(elf.program, k, elf.from)

LEMMA FunctionIs ==
  ASSUME NEW d, NEW elf, NEW e, ElfTrue(d, elf, e), NEW k \in DOMAIN e.functions
  PROVE  FunctionTrue(d, elf, k, e.functions[k])
<1> DEFINE q == [done |-> e.functions, acquire |-> e.acquire]
<1>1. TrueTo(d.peano, elf.base, elf.program, elf.from, q) /\ q.done = e.functions
  BY DEF ElfTrue
<1> HIDE DEF q
<1>2. /\ q.done[k].name = IF d.peano THEN elf.program[k].name ELSE Demangle(elf.program[k].name)
      /\ q.done[k].start = FirstPc(elf.program, k, elf.from)
  BY <1>1 DEF TrueTo
<1> QED BY <1>1, <1>2 DEF FunctionTrue

(* If a function is picked, it is the one that has the kernel's name. *)
Holds(d, elf, e, k, name) ==
  /\ ElfTrue(d, elf, e) /\ IsProgram(elf.program) /\ d.peano \in BOOLEAN
  /\ k \in DOMAIN elf.program /\ ~(d.peano /\ Endless(elf.program, k))
  /\ elf.program[k].name = name

Picks(elf, e, k, name) ==
  e.functions[Min(PickInstantiation(e, name))].start = FirstPc(elf.program, k, elf.from)

LEMMA PickTrue ==
  ASSUME NEW d, NEW elf, NEW e, NEW k, NEW name, Holds(d, elf, e, k, name),
         PickInstantiation(e, name) # {}
  PROVE  Picks(elf, e, k, name)
<1> SUFFICES e.functions[Min(PickInstantiation(e, name))].start = FirstPc(elf.program, k, elf.from)
  BY DEF Picks
<1> DEFINE found == Instances(e, name)
           same  == {j \in found : e.functions[j].name = name}
           pick  == PickInstantiation(e, name)
<1>0. /\ ElfTrue(d, elf, e) /\ IsProgram(elf.program) /\ d.peano \in BOOLEAN
      /\ k \in DOMAIN elf.program /\ ~(d.peano /\ Endless(elf.program, k))
      /\ elf.program[k].name = name
  BY DEF Holds
<1>1. k \in DOMAIN e.functions /\ FunctionTrue(d, elf, k, e.functions[k])
  BY <1>0, FunctionFound, FunctionIs
<1>2. e.functions[k].name = IF d.peano THEN name ELSE Demangle(name)
  BY <1>0, <1>1 DEF FunctionTrue
<1>3. k \in found
  <2>1. e.functions[k].name[1] = name[1]
    BY <1>2, DemangleIs
  <2> QED BY <1>1, <2>1 DEF Instances
<1>4. IsFiniteSet(found) /\ IsFiniteSet(same) /\ k \in Nat
  <2> DEFINE q == [done |-> e.functions, acquire |-> e.acquire]
  <2>1. TrueTo(d.peano, elf.base, elf.program, elf.from, q) /\ q.done = e.functions
    BY <1>0 DEF ElfTrue
  <2> HIDE DEF q
  <2>2. \/ DOMAIN e.functions = 1 .. Len(elf.program)
        \/ DOMAIN e.functions = 1 .. Len(elf.program) - 1
    BY <2>1 DEF TrueTo
  <2>3. Len(elf.program) \in Nat /\ DOMAIN elf.program = 1 .. Len(elf.program)
    BY <1>0, ProgramFacts
  <2>4. IsFiniteSet(1 .. Len(elf.program)) /\ IsFiniteSet(1 .. Len(elf.program) - 1)
    <3> DEFINE n == Len(elf.program)
               m == n - 1
    <3>1. n \in Int /\ m \in Int /\ 1 \in Int
      BY <2>3
    <3> HIDE DEF n, m
    <3>2. IsFiniteSet(1 .. n) /\ IsFiniteSet(1 .. m)
      BY <3>1, FS_Interval
    <3> QED BY <3>2 DEF n, m
  <2>5. found \in SUBSET (DOMAIN e.functions) /\ same \in SUBSET found
    BY DEF Instances
  <2> HIDE DEF found, same
  <2>6. IsFiniteSet(found)
    BY <2>2, <2>4, <2>5, FS_Subset
  <2> QED BY <1>0, <2>3, <2>5, <2>6, FS_Subset
<1>5. pick = {k}
  <2>1. pick = IF Cardinality(found) = 1 THEN found ELSE IF Cardinality(same) = 1 THEN same ELSE {}
    BY DEF PickInstantiation
  <2>2. CASE Cardinality(found) = 1
    <3>1. found = {k}
      <4> HIDE DEF found
      <4> QED BY <1>3, <1>4, <2>2, OneMember
    <3> QED BY <2>1, <2>2, <3>1
  <2>3. CASE Cardinality(found) # 1
    <3>1. pick = same /\ Cardinality(same) = 1
      BY <2>1, <2>3
    <3>2. PICK x : same = {x}
      BY <1>4, <3>1, FS_Singleton
    <3>3. x \in DOMAIN e.functions /\ e.functions[x].name = name
      BY <3>2 DEF Instances
    <3>4. e.functions[k].name = name
      <4>1. CASE d.peano
        BY <1>2, <4>1
      <4>2. CASE ~d.peano
        <5>1. name = Demangle(elf.program[x].name)
          BY <1>0, <3>3, <4>2, FunctionIs DEF FunctionTrue
        <5>2. Demangle(name) = name
          BY <5>1, DemangleIs
        <5> QED BY <1>2, <4>2, <5>2
      <4> QED BY <4>1, <4>2
    <3>5. k \in same
      BY <1>3, <3>4
    <3> QED BY <3>1, <3>2, <3>5
  <2> QED BY <2>2, <2>3
<1>6. Min(pick) = k
  BY <1>4, <1>5, MinOfOne
<1> QED BY <1>1, <1>6 DEF FunctionTrue

-----------------------------------------------------------------------------
(* The PCs of a layer on one stamp.                                        *)

(* The ELF the stamp runs the layer from, and the function in it.          *)
IsHome(d, o, s, elf, k) ==
  /\ elf \in d.elfs[s + 1] /\ k \in DOMAIN elf.program
  /\ elf.id = d.runs[o][s] /\ elf.program[k].name = d.kernels[o]
  /\ ~(d.peano /\ Endless(elf.program, k))

LEMMA HomeIs ==
  ASSUME design \in Designs, NEW l, LayerTrue(design, l), ~l.unsupported,
         NEW s \in 0 .. Len(l.stamps) - 1
  PROVE  /\ s \in Running(design, l.order) /\ s + 1 \in 1 .. StampCountOf(design)
         /\ \E elf, k : IsHome(design, l.order, s, elf, k)
         /\ Cardinality(design.elfs[s + 1]) > 1 => \A elf \in design.elfs[s + 1] :
              elf.layers \cap l.flexml_ids # {} => elf.id = design.runs[l.order][s]
<1> DEFINE o == l.order
           S == s + 1
<1>1. PICK info \in Range(design.raw) : InfoOf(design, l, info)
  BY DEF LayerTrue
<1>2. StampsTrue(design, l, Len(l.stamps)) /\ design.kernels[o][1] \notin Unsupported
  BY DEF LayerTrue, Debugged
<1>3. StampCountOf(design) \in Nat
  BY MetadataAssumption
<1>4. s \in Running(design, o) /\ S \in 1 .. StampCountOf(design) /\ S - 1 = s
  <2>1. Len(l.stamps) \in 1 .. StampCountOf(design) /\ Running(design, o) = 0 .. Len(l.stamps) - 1
    BY <1>2 DEF StampsTrue
  <2>2. s \in Running(design, o)
    BY <2>1
  <2> DEFINE n == Len(l.stamps)
             c == StampCountOf(design)
  <2>3. n \in 1 .. c /\ c \in Nat /\ s \in 0 .. n - 1
    BY <1>3, <2>1
  <2> HIDE DEF n, c
  <2>4. s + 1 \in 1 .. c /\ (s + 1) - 1 = s
    BY <2>3
  <2> QED BY <2>2, <2>4 DEF c
<1>5. o = info.order /\ l.flexml_ids = info.flexml_ids
  BY <1>1 DEF InfoOf
<1> HIDE DEF S, o
<1>6. /\ \E elf \in design.elfs[S] : \E k \in DOMAIN elf.program :
           /\ elf.id = design.runs[o][S - 1] /\ elf.program[k].name = design.kernels[o]
           /\ ~(design.peano /\ Endless(elf.program, k))
      /\ Cardinality(design.elfs[S]) > 1 => \A elf \in design.elfs[S] :
           elf.layers \cap info.flexml_ids # {} => elf.id = design.runs[o][S - 1]
  BY <1>2, <1>4, <1>5, ElfAssumption
<1> QED BY <1>4, <1>5, <1>6 DEF IsHome, S, o

LEMMA AtMostOne ==
  ASSUME NEW S, IsFiniteSet(S), Cardinality(S) <= 1, NEW x \in S, NEW y \in S
  PROVE  x = y
<1>1. Cardinality(S) \in Nat /\ Cardinality(S) # 0
  BY FS_CardinalityType, FS_EmptySet
<1>2. Cardinality(S) = 1
  BY <1>1
<1>3. S = {x}
  BY <1>2, OneMember
<1> QED BY <1>3

(* Every candidate is the ELF that the stamp runs the layer from.          *)
LEMMA IndexTrue ==
  ASSUME design \in Designs, NEW l, LayerTrue(design, l), ~l.unsupported,
         NEW s \in 0 .. Len(l.stamps) - 1, ElfsTrue(design, s + 1, elfs[s + 1]),
         NEW k \in ElfIndex(l, s, l.stamps[s + 1])
  PROVE  k \in 1 .. Len(elfs[s + 1]) /\ elfs[s + 1][k].id = design.runs[l.order][s]
<1> DEFINE o == l.order
           list == elfs[s + 1]
           stamp == l.stamps[s + 1]
           fits == ElfOfLayer(l, s, stamp.name)
           named(id) == {j \in DOMAIN list : list[j].id = id}
<1>1. /\ s \in Running(design, o) /\ s + 1 \in 1 .. StampCountOf(design)
      /\ \E elf, j : IsHome(design, o, s, elf, j)
      /\ Cardinality(design.elfs[s + 1]) > 1 => \A elf \in design.elfs[s + 1] :
           elf.layers \cap l.flexml_ids # {} => elf.id = design.runs[o][s]
  BY HomeIs
<1>2. /\ Len(list) = Cardinality(design.elfs[s + 1]) /\ Len(list) \in Nat
      /\ DOMAIN list = 1 .. Len(list)
      /\ \A j \in 1 .. Len(list) : \E elf \in design.elfs[s + 1] : ElfTrue(design, elf, list[j])
  BY DEF ElfsTrue
<1>3. /\ IsFiniteSet(design.elfs[s + 1])
      /\ \A elf \in design.elfs[s + 1] : elf.id # NoElf
  BY <1>1, ElfFacts
<1>4. ElfIndex(l, s, stamp) =
        IF l.is_tg THEN named(stamp.elf)
        ELSE IF fits # {} THEN {Min(fits)}
        ELSE IF PmReloadEn(s) /\ design.reported
          THEN named(ElfId(design.report, Info(l), s)) ELSE {}
  BY DEF ElfIndex
<1>5. CASE l.is_tg
  <2>1. StampTrue(design, l, s + 1)
    <3>1. s + 1 \in 1 .. Len(l.stamps)
      BY DEF LayerTrue, StampsShaped
    <3> QED BY <3>1 DEF LayerTrue, Debugged
  <2>2. stamp.elf = design.runs[o][s]
    <3>1. (s + 1) - 1 = s
      OBVIOUS
    <3> QED BY <1>5, <2>1, <3>1 DEF StampTrue
  <2> QED BY <1>2, <1>4, <1>5, <2>2
<1>6. CASE ~l.is_tg /\ fits # {}
  <2>1. fits \in SUBSET Nat
    BY <1>2 DEF ElfOfLayer
  <2>2. Min(fits) \in fits
    <3> HIDE DEF fits
    <3> QED BY <1>6, <2>1, MinIs
  <2>3. k \in fits
    BY <1>4, <1>6, <2>2
  <2>4. k \in 1 .. Len(list) /\ (Len(list) > 1 => list[k].layers \cap l.flexml_ids # {})
    BY <1>2, <2>3 DEF ElfOfLayer, PmReloadEn
  <2>5. PICK elf \in design.elfs[s + 1] : ElfTrue(design, elf, list[k])
    BY <1>2, <2>4
  <2>6. list[k].id = elf.id /\ list[k].layers = elf.layers
    BY <2>5 DEF ElfTrue
  <2>7. elf.id = design.runs[o][s]
    <3>1. CASE Len(list) > 1
      BY <1>1, <1>2, <2>4, <2>6, <3>1
    <3>2. CASE ~(Len(list) > 1)
      <4>1. Cardinality(design.elfs[s + 1]) <= 1
        BY <1>2, <3>2
      <4>2. PICK home, j : IsHome(design, o, s, home, j)
        BY <1>1
      <4>3. home \in design.elfs[s + 1] /\ home.id = design.runs[o][s]
        BY <4>2 DEF IsHome
      <4>4. elf = home
        BY <1>3, <4>1, <4>3, AtMostOne
      <4> QED BY <4>3, <4>4
    <3> QED BY <3>1, <3>2
  <2> QED BY <2>4, <2>6, <2>7
<1>7. CASE ~l.is_tg /\ fits = {}
  <2> DEFINE info == Info(l)
  <2>1. design.reported /\ k \in named(ElfId(design.report, info, s))
    BY <1>4, <1>7
  <2>2. info \in Range(design.raw) /\ info.order = o
    <3>1. \E x \in Range(design.raw) : x.order = l.order
      BY DEF LayerTrue, InfoOf
    <3> QED BY <3>1 DEF Info
  <2> HIDE DEF info
  <2>3. s \in 0 .. StampCount - 1
    BY <1>1 DEF Running, StampCount
  <2> DEFINE core == FirstCore(design.report, info, s)
  <2>4. CoreOf(design, o, s, core)
    BY <2>1, <2>2, <2>3, FirstCoreIs
  <2>5. k \in 1 .. Len(list) /\ list[k].id = core.elf
    BY <1>2, <2>1 DEF ElfId
  <2>6. list[k].id # NoElf
    <3>1. PICK elf \in design.elfs[s + 1] : ElfTrue(design, elf, list[k])
      BY <1>2, <2>5
    <3> QED BY <1>3, <3>1 DEF ElfTrue
  <2>7. core # NoCore
    BY <2>5, <2>6 DEF NoCore
  <2>8. core.elf = design.runs[o][s]
    <3> HIDE DEF core
    <3> QED BY <1>1, <2>4, <2>7 DEF CoreOf
  <2> QED BY <2>5, <2>8
<1> QED BY <1>5, <1>6, <1>7

(* The PC that is found is true. *)
PickedPc(d, l, s, e, found) ==
  LET f == e.functions[Min(found)]
  IN  \E elf \in d.elfs[s + 1] :
        /\ elf.id = d.runs[l.order][s] /\ e.id = elf.id
        /\ \E k \in DOMAIN elf.program :
             /\ elf.program[k].name = d.kernels[l.order]
             /\ f.start = FirstPc(elf.program, k, elf.from)

LEMMA PickedTrue ==
  ASSUME design \in Designs, NEW l, LayerTrue(design, l), ~l.unsupported,
         NEW s \in 0 .. Len(l.stamps) - 1, ElfsTrue(design, s + 1, elfs[s + 1]),
         NEW index, index = ElfIndex(l, s, l.stamps[s + 1]), index # {},
         NEW e, e = elfs[s + 1][Min(index)],
         NEW found, found = PickInstantiation(e, l.stamps[s + 1].name), found # {}
  PROVE  PickedPc(design, l, s, e, found)
<1> DEFINE o == l.order
<1>1. /\ s + 1 \in 1 .. StampCountOf(design) /\ \E elf, k : IsHome(design, o, s, elf, k)
  BY HomeIs
<1>2. \A k \in index : k \in 1 .. Len(elfs[s + 1]) /\ elfs[s + 1][k].id = design.runs[o][s]
  BY IndexTrue
<1>3. Min(index) \in index
  <2>1. index \in SUBSET Nat
    BY <1>2
  <2> QED BY <2>1, MinIs
<1>4. e.id = design.runs[o][s]
  BY <1>2, <1>3
<1>5. PICK elf \in design.elfs[s + 1] : ElfTrue(design, elf, e)
  BY <1>2, <1>3 DEF ElfsTrue
<1>6. PICK home, k : IsHome(design, o, s, home, k)
  BY <1>1
<1>7. e.id = elf.id /\ elf = home
  <2>1. e.id = elf.id /\ home.id = elf.id /\ home \in design.elfs[s + 1]
    BY <1>4, <1>5, <1>6 DEF ElfTrue, IsHome
  <2> QED BY <1>1, <2>1, ElfFacts
<1>8. /\ k \in DOMAIN elf.program /\ elf.program[k].name = design.kernels[o]
      /\ ~(design.peano /\ Endless(elf.program, k)) /\ elf.id = design.runs[o][s]
  BY <1>6, <1>7 DEF IsHome
<1>9. IsProgram(elf.program) /\ design.peano \in BOOLEAN
  BY <1>1, ElfFacts
<1>10. l.stamps[s + 1].name = design.kernels[o]
  <2>1. s + 1 \in 1 .. Len(l.stamps)
    BY DEF LayerTrue, StampsShaped
  <2> QED BY <2>1 DEF LayerTrue, Debugged, StampTrue
<1>11. e.functions[Min(found)].start = FirstPc(elf.program, k, elf.from)
  <2> DEFINE name == design.kernels[o]
  <2>1. elf.program[k].name = name /\ found = PickInstantiation(e, name)
    BY <1>8, <1>10
  <2> HIDE DEF name
  <2>2. PickInstantiation(e, name) # {}
    BY <2>1
  <2>3. Holds(design, elf, e, k, name)
    BY <1>5, <1>8, <1>9, <2>1 DEF Holds
  <2>4. e.functions[Min(PickInstantiation(e, name))].start = FirstPc(elf.program, k, elf.from)
    <3> HIDE DEF o
    <3>1. Picks(elf, e, k, name)
      BY <2>2, <2>3, PickTrue
    <3> QED BY <3>1 DEF Picks
  <2> QED BY <2>1, <2>4
<1> QED BY <1>7, <1>8, <1>11 DEF PickedPc

SameBut(m, l, ns, n) ==
  /\ DOMAIN m = LayerFields /\ m.order = l.order /\ m.is_tg = l.is_tg
  /\ m.flexml_ids = l.flexml_ids /\ m.l3_buffers = l.l3_buffers /\ m.num_iter = l.num_iter
  /\ m.unsupported = l.unsupported
  /\ m.stamps = [l.stamps EXCEPT ![n] = ns]

LEMMA ResolvedIs ==
  ASSUME NEW l, DOMAIN l = LayerFields, NEW n, NEW ns, NEW m,
         m = [l EXCEPT !.stamps = [l.stamps EXCEPT ![n] = ns]]
  PROVE  SameBut(m, l, ns, n)
  BY DEF LayerFields, SameBut

LEMMA StampReplaced ==
  ASSUME NEW d, NEW l, LayerTrue(d, l), ~l.unsupported, NEW n \in 1 .. Len(l.stamps),
         NEW ns, DOMAIN ns = StampFields, ns.name = l.stamps[n].name,
         ns.elf = d.runs[l.order][n - 1], TruePc(d, l.order, n, ns),
         NEW m, SameBut(m, l, ns, n)
  PROVE  LayerTrue(d, m)
<1> DEFINE c == Len(l.stamps)
<1>1. /\ c \in 0 .. StampCountOf(d) /\ DOMAIN l.stamps = 1 .. c
      /\ \A j \in 1 .. c : DOMAIN l.stamps[j] = StampFields
  BY DEF LayerTrue, StampsShaped
<1>2. Len(m.stamps) = c /\ DOMAIN m.stamps = 1 .. c
  <2>1. m.stamps = [l.stamps EXCEPT ![n] = ns]
    BY DEF SameBut
  <2>2. DOMAIN m.stamps = 1 .. c
    BY <1>1, <2>1
  <2>3. Len(m.stamps) = Len(l.stamps)
    BY <2>1
  <2> QED BY <2>2, <2>3
<1>3. m.stamps[n] = ns /\ \A j \in 1 .. c : j # n => m.stamps[j] = l.stamps[j]
  <2>1. m.stamps = [l.stamps EXCEPT ![n] = ns]
    BY DEF SameBut
  <2> QED BY <1>1, <2>1
<1> HIDE DEF c
<1>4. StampsShaped(m, StampCountOf(d))
  <2>1. ASSUME NEW j \in 1 .. c PROVE DOMAIN m.stamps[j] = StampFields
    <3>1. CASE j = n
      BY <1>3, <3>1
    <3>2. CASE j # n
      BY <1>1, <1>3, <3>2
    <3> QED BY <3>1, <3>2
  <2> QED BY <1>1, <1>2, <2>1 DEF StampsShaped
<1>5. Debugged(d, l)
  BY DEF LayerTrue
<1>6. Debugged(d, m)
  <2>1. StampsTrue(d, m, Len(m.stamps)) /\ d.kernels[m.order][1] \notin Unsupported
    BY <1>2, <1>5 DEF Debugged, StampsTrue, SameBut, c
  <2>2. ASSUME NEW j \in 1 .. c PROVE StampTrue(d, m, j)
    <3>0. StampTrue(d, l, j) /\ m.order = l.order /\ m.is_tg = l.is_tg
      BY <1>5 DEF Debugged, SameBut, c
    <3>1. CASE j = n
      BY <1>3, <3>0, <3>1 DEF StampTrue
    <3>2. CASE j # n
      BY <1>3, <3>0, <3>2 DEF StampTrue
    <3> QED BY <3>1, <3>2
  <2> QED BY <1>2, <2>1, <2>2 DEF Debugged
<1>7. \E info \in Range(d.raw) : InfoOf(d, m, info)
  BY DEF LayerTrue, InfoOf, SameBut
<1> QED BY <1>4, <1>6, <1>7 DEF LayerTrue, SameBut

LEMMA ResolvedTrue ==
  ASSUME design \in Designs, NEW l, LayerTrue(design, l), ~l.unsupported,
         NEW s \in 0 .. Len(l.stamps) - 1, ElfsTrue(design, s + 1, elfs[s + 1])
  PROVE  LET m == Resolved(l, s)
         IN  /\ LayerTrue(design, m) /\ m.unsupported = l.unsupported
             /\ m.order = l.order /\ m.num_iter = l.num_iter
<1> DEFINE m == Resolved(l, s)
           n == s + 1
           stamp == l.stamps[n]
           index == ElfIndex(l, s, stamp)
           e == elfs[n][Min(index)]
           found == IF index = {} THEN {} ELSE PickInstantiation(e, stamp.name)
           f == e.functions[Min(found)]
           last == IF f.name \in SkipEndPc THEN stamp.end_pc ELSE f.release
           ns == [stamp EXCEPT !.elf = e.id, !.start_pc = f.start, !.end_pc = last]
<1>1. CASE found = {}
  <2>1. m = l
    BY <1>1 DEF Resolved
  <2> HIDE DEF m
  <2> QED BY <2>1 DEF m
<1>2. CASE found # {}
  <2>1. index # {} /\ found = PickInstantiation(e, stamp.name)
    BY <1>2
  <2>2. /\ DOMAIN l = LayerFields /\ n \in 1 .. Len(l.stamps) /\ DOMAIN stamp = StampFields
        /\ DOMAIN l.stamps = 1 .. Len(l.stamps) /\ n - 1 = s
    BY DEF LayerTrue, StampsShaped
  <2>3. m = [l EXCEPT !.stamps = [l.stamps EXCEPT ![n] = ns]]
    <3>1. m = IF found = {} THEN l ELSE [l EXCEPT !.stamps[n] = ns]
      BY Zenon DEF Resolved
    <3>2. m = [l EXCEPT !.stamps[n] = ns]
      BY <1>2, <3>1
    <3> HIDE DEF m, ns
    <3> QED BY <3>2
  <2> HIDE DEF m, index, found
  <2>4. PickedPc(design, l, s, e, found)
    BY <1>2, <2>1, PickedTrue DEF index
  <2> HIDE DEF e
  <2>5. PICK elf \in design.elfs[n] :
          /\ elf.id = design.runs[l.order][s] /\ e.id = elf.id
          /\ \E k \in DOMAIN elf.program :
               /\ elf.program[k].name = design.kernels[l.order]
               /\ f.start = FirstPc(elf.program, k, elf.from)
    BY <2>4 DEF PickedPc
  <2> HIDE DEF f, last
  <2>6. DOMAIN ns = StampFields /\ ns.name = stamp.name /\ ns.elf = e.id /\ ns.start_pc = f.start
    BY <2>2 DEF StampFields
  <2> HIDE DEF ns
  <2>7. SameBut(m, l, ns, n)
    BY <2>2, <2>3, ResolvedIs
  <2>8. TruePc(design, l.order, n, ns)
    BY <2>2, <2>5, <2>6 DEF TruePc
  <2>9. ns.elf = design.runs[l.order][n - 1]
    BY <2>2, <2>5, <2>6
  <2>10. LayerTrue(design, m)
    BY <2>2, <2>6, <2>7, <2>8, <2>9, StampReplaced
  <2> QED BY <2>7, <2>10 DEF SameBut, m
<1> QED BY <1>1, <1>2

-----------------------------------------------------------------------------
(* The inductive invariant.                                                *)

Stages == {"layers", "workdir", "l3", "trim", "resolve", "skip", "ready"}

Staged ==
  /\ design \in Designs /\ stage \in Stages
  /\ sid \in 0 .. StampCountOf(design) - 1 /\ (stage = "layers" => sid = 0)

(* The ELFs that are read so far are read as they are. *)
Read ==
  /\ elfs \in Seq(Range(elfs))
  /\ Len(elfs) = (CASE stage = "layers" -> 0 [] stage = "workdir" -> sid
                    [] OTHER -> StampCountOf(design))
  /\ \A s \in 1 .. Len(elfs) : ElfsTrue(design, s, elfs[s])

(* The layers are what they should be, in order, and only those that are   *)
(* supported get a PC.                                                     *)
Listed ==
  /\ LayersTrue(design, layers)
  /\ stage # "layers" /\ design.reported => Sorted(design, layers)
  /\ stage \in {"resolve", "skip", "ready"} =>
       \A i \in 1 .. Len(layers) : ~layers[i].unsupported

(* Iterations are given up where that is safe. *)
Skipped(i) == stage = "ready" /\ layers[i].num_iter = 1 /\ SkipsSteps(i)

Iterated == \A i \in 1 .. Len(layers) : IterTrue(design, layers[i]) \/ Skipped(i)

PreparationInv == Staged /\ Read /\ Listed /\ Iterated

LEMMA CountIs ==
  ASSUME design \in Designs
  PROVE  StampCountOf(design) \in Nat \ {0}
  BY MetadataAssumption

LEMMA InitInv ==
  ASSUME Init
  PROVE  PreparationInv
<1>1. design \in Designs /\ stage = "layers" /\ sid = 0 /\ layers = <<>> /\ elfs = <<>>
  BY DEF Init
<1>2. Staged
  BY <1>1, CountIs DEF Staged, Stages
<1>3. Len(<<>>) = 0 /\ DOMAIN <<>> = 1 .. 0 /\ 1 .. 0 = {}
  OBVIOUS
<1>4. Read
  BY <1>1, <1>3 DEF Read
<1>5. Listed
  BY <1>1, <1>3 DEF Listed, LayersTrue
<1>6. Iterated
  BY <1>1, <1>3 DEF Iterated
<1> QED BY <1>2, <1>4, <1>5, <1>6 DEF PreparationInv

LEMMA SameElfs ==
  ASSUME Read, UNCHANGED <<elfs, design>>,
         stage # "layers" /\ stage # "workdir", stage' # "layers" /\ stage' # "workdir"
  PROVE  Read'
<1>1. Len(elfs) = StampCountOf(design)
  BY DEF Read
<1>2. Len(elfs') = (CASE stage' = "layers" -> 0 [] stage' = "workdir" -> sid'
                      [] OTHER -> StampCountOf(design'))
  BY <1>1
<1> QED BY <1>2 DEF Read

LEMMA InitLayersInv ==
  ASSUME PreparationInv, InitLayers
  PROVE  PreparationInv'
<1>1. /\ stage = "layers" /\ stage' = "workdir" /\ UNCHANGED <<design, sid, elfs>>
      /\ design \in Designs /\ sid = 0
  BY DEF InitLayers, PreparationInv, Staged
<1>2. Staged'
  BY <1>1 DEF PreparationInv, Staged, Stages
<1>3. Read'
  <2>1. Len(elfs) = 0
    BY <1>1 DEF PreparationInv, Read
  <2>2. Len(elfs') = (CASE stage' = "layers" -> 0 [] stage' = "workdir" -> sid'
                        [] OTHER -> StampCountOf(design'))
    BY <1>1, <2>1
  <2> QED BY <1>1, <2>2 DEF PreparationInv, Read
<1>4. /\ LayersTrue(design, layers') /\ \A i \in 1 .. Len(layers') : IterTrue(design, layers'[i])
      /\ design.reported => Sorted(design, layers')
  BY <1>1, InitLayersTrue
<1>5. Listed'
  BY <1>1, <1>4 DEF Listed
<1>6. Iterated'
  BY <1>1, <1>4 DEF Iterated
<1> QED BY <1>2, <1>3, <1>5, <1>6 DEF PreparationInv

LEMMA ParseElfsInv ==
  ASSUME PreparationInv, ParseElfs
  PROVE  PreparationInv'
<1> DEFINE c == StampCountOf(design)
<1>1. /\ stage = "workdir" /\ UNCHANGED <<design, layers>>
      /\ design \in Designs /\ sid \in 0 .. c - 1 /\ Len(elfs) = sid
      /\ elfs \in Seq(Range(elfs))
  BY DEF ParseElfs, PreparationInv, Staged, Read
<1>2. c \in Nat \ {0}
  BY <1>1, CountIs
<1>3. IF sid + 1 < c THEN sid' = sid + 1 /\ UNCHANGED stage ELSE sid' = 0 /\ stage' = "l3"
  BY DEF ParseElfs, StampCount
<1>4. sid + 1 \in 1 .. c
  <2> HIDE DEF c
  <2> QED BY <1>1, <1>2
<1>5. PICK list : elfs' = Append(elfs, list) /\ ElfsTrue(design, sid + 1, list)
  BY <1>1, <1>4, ParseElfsTrue
<1>6. /\ elfs' \in Seq(Range(elfs) \cup {list}) /\ Len(elfs') = sid + 1
      /\ elfs'[sid + 1] = list /\ \A s \in 1 .. sid : elfs'[s] = elfs[s]
  <2> DEFINE R == Range(elfs) \cup {list}
  <2>1. elfs \in Seq(R) /\ list \in R
    <3>1. Range(elfs) \subseteq R
      OBVIOUS
    <3> HIDE DEF R
    <3>2. elfs \in Seq(R)
      BY <1>1, <3>1, SeqMonotonic
    <3> QED BY <3>2 DEF R
  <2> HIDE DEF R
  <2>2. /\ Append(elfs, list) \in Seq(R) /\ Len(Append(elfs, list)) = Len(elfs) + 1
        /\ Append(elfs, list)[Len(elfs) + 1] = list
        /\ \A s \in 1 .. Len(elfs) : Append(elfs, list)[s] = elfs[s]
    BY <2>1, AppendIs
  <2> QED BY <1>1, <1>5, <2>2 DEF R
<1>7. \A s \in 1 .. sid + 1 : ElfsTrue(design, s, elfs'[s])
  <2> SUFFICES ASSUME NEW s \in 1 .. sid + 1 PROVE ElfsTrue(design, s, elfs'[s])
    OBVIOUS
  <2>1. CASE s = sid + 1
    BY <1>5, <1>6, <2>1
  <2>2. CASE s # sid + 1
    <3>1. s \in 1 .. sid
      BY <1>1, <2>2
    <3>2. ElfsTrue(design, s, elfs[s])
      BY <1>1, <3>1 DEF PreparationInv, Read
    <3> QED BY <1>6, <3>1, <3>2
  <2> QED BY <2>1, <2>2
<1>8. elfs' \in Seq(Range(elfs'))
  <2>1. DOMAIN elfs' = 1 .. Len(elfs') /\ Len(elfs') \in Nat
    BY <1>6, LenProperties
  <2>2. elfs' = [s \in 1 .. Len(elfs') |-> elfs'[s]]
    BY <1>6, LenProperties
  <2>3. \A s \in 1 .. Len(elfs') : elfs'[s] \in Range(elfs')
    BY <2>1 DEF Range
  <2> QED BY <2>1, <2>2, <2>3
<1>9. Staged' /\ Read'
  <2>1. CASE sid + 1 < c
    <3>1. sid' = sid + 1 /\ stage' = "workdir"
      BY <1>1, <1>3, <2>1
    <3>2. sid' \in 0 .. c - 1
      <4> HIDE DEF c
      <4> QED BY <1>1, <1>2, <2>1, <3>1
    <3>3. Staged'
      BY <1>1, <3>1, <3>2 DEF Staged, Stages
    <3>4. Read'
      BY <1>1, <1>6, <1>7, <1>8, <3>1 DEF Read
    <3> QED BY <3>3, <3>4
  <2>2. CASE ~(sid + 1 < c)
    <3>1. sid' = 0 /\ stage' = "l3"
      BY <1>3, <2>2
    <3>2. sid + 1 = c
      <4> HIDE DEF c
      <4> QED BY <1>2, <1>4, <2>2
    <3>3. Staged'
      BY <1>1, <1>2, <3>1 DEF Staged, Stages
    <3>4. Read'
      BY <1>1, <1>6, <1>7, <1>8, <3>1, <3>2 DEF Read
    <3> QED BY <3>3, <3>4
  <2> QED BY <2>1, <2>2
<1>10. stage' \in {"workdir", "l3"}
  BY <1>1, <1>3
<1>11. Listed'
  BY <1>1, <1>10 DEF PreparationInv, Listed
<1>12. Iterated'
  BY <1>1, <1>10 DEF PreparationInv, Iterated, Skipped
<1> QED BY <1>9, <1>11, <1>12 DEF PreparationInv

LEMMA SameOrder ==
  ASSUME NEW d, NEW list, Sorted(d, list), NEW new, Len(new) = Len(list),
         \A i \in 1 .. Len(list) : new[i].order = list[i].order
  PROVE  Sorted(d, new)
  BY DEF Sorted

LEMMA MapL3BuffersInv ==
  ASSUME PreparationInv, MapL3Buffers
  PROVE  PreparationInv'
<1> DEFINE n == Len(layers)
           mapped(i) == (UNION {Copies(name) : name \in layers[i].l3_names}) \cap design.spills
<1>1. /\ stage = "l3" /\ stage' = "trim" /\ UNCHANGED <<design, sid, elfs>>
      /\ layers' = [i \in DOMAIN layers |-> [layers[i] EXCEPT !.l3_buffers = mapped(i)]]
  BY DEF MapL3Buffers
<1> HIDE DEF mapped
<1>2. n \in Nat /\ DOMAIN layers = 1 .. n /\ \A i \in 1 .. n : LayerTrue(design, layers[i])
  BY DEF PreparationInv, Listed, LayersTrue
<1>3. \A i \in 1 .. n : IterTrue(design, layers[i])
  BY <1>1 DEF PreparationInv, Iterated, Skipped
<1>4. Len(layers') = n /\ DOMAIN layers' = 1 .. n
  <2>1. layers' = [i \in 1 .. n |-> [layers[i] EXCEPT !.l3_buffers = mapped(i)]]
    BY <1>1, <1>2
  <2> HIDE DEF n
  <2>2. Len([i \in 1 .. n |-> [layers[i] EXCEPT !.l3_buffers = mapped(i)]]) = n
    BY <1>2
  <2> QED BY <2>1, <2>2
<1>5. ASSUME NEW i \in 1 .. n
      PROVE  /\ LayerTrue(design, layers'[i]) /\ IterTrue(design, layers'[i])
             /\ layers'[i].order = layers[i].order
  <2> DEFINE l == layers[i]
             m == layers'[i]
  <2>1. m = [l EXCEPT !.l3_buffers = mapped(i)]
    BY <1>1, <1>2
  <2>2. LayerTrue(design, l) /\ IterTrue(design, l) /\ DOMAIN l = LayerFields
    BY <1>2, <1>3 DEF LayerTrue
  <2>3. mapped(i) \subseteq design.spills
    BY DEF mapped
  <2> HIDE DEF l, m
  <2>4. /\ DOMAIN m = LayerFields /\ m.order = l.order /\ m.is_tg = l.is_tg
        /\ m.flexml_ids = l.flexml_ids /\ m.stamps = l.stamps /\ m.num_iter = l.num_iter
        /\ m.unsupported = l.unsupported /\ m.l3_buffers = mapped(i)
    BY <2>1, <2>2 DEF LayerFields
  <2>5. LayerTrue(design, m) /\ (m.num_iter = l.num_iter /\ IterTrue(design, l) => IterTrue(design, m))
    BY <2>2, <2>3, <2>4, SameLayer
  <2>6. LayerTrue(design, m) /\ IterTrue(design, m) /\ m.order = l.order
    BY <2>2, <2>4, <2>5
  <2> QED BY <2>6 DEF l, m
<1>6. Staged'
  BY <1>1 DEF PreparationInv, Staged, Stages
<1>7. Read'
  BY <1>1, SameElfs DEF PreparationInv
<1>8. design.reported => Sorted(design, layers')
  BY <1>1, <1>4, <1>5, SameOrder DEF PreparationInv, Listed
<1>9. Listed'
  BY <1>1, <1>2, <1>4, <1>5, <1>8 DEF Listed, LayersTrue
<1>10. Iterated'
  BY <1>1, <1>4, <1>5 DEF Iterated
<1> QED BY <1>6, <1>7, <1>9, <1>10 DEF PreparationInv

LEMMA TrimLayersInv ==
  ASSUME PreparationInv, TrimLayers
  PROVE  PreparationInv'
<1> DEFINE n == Len(layers)
           kept == {i \in DOMAIN layers : ~layers[i].unsupported}
           before == {p \in kept \X kept : p[1] < p[2]}
           o == InOrder(kept, before)
           c == Cardinality(kept)
<1>1. /\ stage = "trim" /\ stage' \in {"ready", "resolve"} /\ UNCHANGED <<design, sid, elfs>>
      /\ layers' = [i \in DOMAIN o |-> layers[o[i]]]
  BY DEF TrimLayers
<1>2. n \in Nat /\ DOMAIN layers = 1 .. n /\ \A i \in 1 .. n : LayerTrue(design, layers[i])
  BY DEF PreparationInv, Listed, LayersTrue
<1>3. \A i \in 1 .. n : IterTrue(design, layers[i])
  BY <1>1 DEF PreparationInv, Iterated, Skipped
<1>4. kept \in SUBSET (1 .. n)
  BY <1>2
<1>5. IsFiniteSet(kept)
  <2>1. IsFiniteSet(1 .. n)
    BY <1>2, FS_Interval
  <2> HIDE DEF kept
  <2> QED BY <1>4, <2>1, FS_Subset
<1>6. \A i, j \in kept : <<i, j>> \in before <=> i < j
  <2> SUFFICES ASSUME NEW i \in kept, NEW j \in kept PROVE <<i, j>> \in before <=> i < j
    OBVIOUS
  <2>1. <<i, j>> \in kept \X kept /\ <<i, j>>[1] = i /\ <<i, j>>[2] = j
    OBVIOUS
  <2> HIDE DEF kept
  <2> QED BY <2>1, Zenon
<1>7. Orders(kept, before)
  <2>1. \A i \in kept : i \in Int
    BY <1>4
  <2> HIDE DEF kept, before
  <2> QED BY <1>6, <2>1 DEF Orders
<1>8. /\ c \in Nat /\ o \in [1 .. c -> kept]
      /\ \A i, j \in 1 .. c : i < j => <<o[i], o[j]>> \in before
  <2> HIDE DEF kept, before
  <2> QED BY <1>5, <1>7, InOrderIs
<1>9. \A i \in 1 .. c : /\ o[i] \in 1 .. n /\ ~layers[o[i]].unsupported /\ o[i] \in kept
  <2>1. \A i \in kept : i \in 1 .. n /\ ~layers[i].unsupported
    BY <1>2
  <2> HIDE DEF kept, o, c
  <2> QED BY <1>8, <2>1
<1>10. \A i, j \in 1 .. c : i < j => o[i] < o[j]
  <2> HIDE DEF before, kept, o, c
  <2> QED BY <1>6, <1>8, <1>9
<1>11. Len(layers') = c /\ DOMAIN layers' = 1 .. c /\ \A i \in 1 .. c : layers'[i] = layers[o[i]]
  <2> HIDE DEF o, c, kept
  <2>1. layers' = [i \in 1 .. c |-> layers[o[i]]]
    BY <1>1, <1>8
  <2>2. Len([i \in 1 .. c |-> layers[o[i]]]) = c
    BY <1>8
  <2> QED BY <2>1, <2>2
<1> HIDE DEF o, c, kept, before
<1>12. Staged'
  BY <1>1 DEF PreparationInv, Staged, Stages
<1>13. Read'
  BY <1>1, SameElfs DEF PreparationInv
<1>14. design.reported => Sorted(design, layers')
  <2> SUFFICES ASSUME design.reported, NEW i \in 1 .. c, NEW j \in 1 .. c, i < j
               PROVE  LET a == layers'[i].order
                          b == layers'[j].order
                      IN  /\ Anchor(design, a) <= Anchor(design, b)
                          /\ Anchor(design, a) = Anchor(design, b) => a < b
    BY <1>11 DEF Sorted
  <2>1. Sorted(design, layers)
    BY <1>1 DEF PreparationInv, Listed
  <2>2. o[i] \in 1 .. n /\ o[j] \in 1 .. n /\ o[i] < o[j]
    BY <1>9, <1>10
  <2>3. layers'[i] = layers[o[i]] /\ layers'[j] = layers[o[j]]
    BY <1>11
  <2> QED BY <2>1, <2>2, <2>3 DEF Sorted
<1>15. \A i \in 1 .. c : /\ LayerTrue(design, layers'[i]) /\ IterTrue(design, layers'[i])
                         /\ ~layers'[i].unsupported
  BY <1>2, <1>3, <1>9, <1>11
<1>16. Listed'
  BY <1>1, <1>8, <1>11, <1>14, <1>15 DEF Listed, LayersTrue
<1>17. Iterated'
  BY <1>1, <1>11, <1>15 DEF Iterated
<1> QED BY <1>12, <1>13, <1>16, <1>17 DEF PreparationInv

LEMMA ResolvePcsInv ==
  ASSUME PreparationInv, ResolvePcs
  PROVE  PreparationInv'
<1> DEFINE n == Len(layers)
           c == StampCountOf(design)
           new(i) == IF sid < Len(layers[i].stamps) THEN Resolved(layers[i], sid) ELSE layers[i]
<1>1. /\ stage = "resolve" /\ UNCHANGED <<design, elfs>>
      /\ layers' = [i \in DOMAIN layers |-> new(i)]
      /\ design \in Designs /\ sid \in 0 .. c - 1
  BY DEF ResolvePcs, PreparationInv, Staged
<1>2. IF sid + 1 < c THEN sid' = sid + 1 /\ UNCHANGED stage
      ELSE sid' = 0 /\ stage' = IF design.skip_iter THEN "skip" ELSE "ready"
  BY DEF ResolvePcs, StampCount
<1>3. /\ n \in Nat /\ DOMAIN layers = 1 .. n
      /\ \A i \in 1 .. n : LayerTrue(design, layers[i]) /\ ~layers[i].unsupported
  BY <1>1 DEF PreparationInv, Listed, LayersTrue
<1>4. \A i \in 1 .. n : IterTrue(design, layers[i])
  BY <1>1 DEF PreparationInv, Iterated, Skipped
<1>5. c \in Nat \ {0} /\ sid + 1 \in 1 .. c
  <2>1. c \in Nat \ {0}
    BY <1>1, CountIs
  <2> HIDE DEF c
  <2> QED BY <1>1, <2>1
<1>6. ElfsTrue(design, sid + 1, elfs[sid + 1])
  <2>1. Len(elfs) = c
    BY <1>1 DEF PreparationInv, Read
  <2> QED BY <1>5, <2>1 DEF PreparationInv, Read
<1>7. ASSUME NEW i \in 1 .. n
      PROVE  /\ LayerTrue(design, layers'[i]) /\ IterTrue(design, layers'[i])
             /\ layers'[i].order = layers[i].order /\ ~layers'[i].unsupported
  <2>1. layers'[i] = new(i)
    BY <1>1, <1>3
  <2>2. CASE sid < Len(layers[i].stamps)
    <3>1. layers'[i] = Resolved(layers[i], sid)
      BY <2>1, <2>2
    <3>2. sid \in 0 .. Len(layers[i].stamps) - 1
      <4>1. Len(layers[i].stamps) \in 0 .. c
        BY <1>3 DEF LayerTrue, StampsShaped
      <4> HIDE DEF c
      <4> QED BY <1>1, <1>5, <2>2, <4>1
    <3> DEFINE l == layers[i]
               m == Resolved(l, sid)
    <3>3. LayerTrue(design, l) /\ ~l.unsupported /\ IterTrue(design, l)
      BY <1>3, <1>4
    <3> HIDE DEF l, m
    <3>4. /\ LayerTrue(design, m) /\ m.unsupported = l.unsupported
          /\ m.order = l.order /\ m.num_iter = l.num_iter
      BY <1>1, <1>6, <3>2, <3>3, ResolvedTrue DEF l, m
    <3>5. LayerTrue(design, m) /\ IterTrue(design, m) /\ m.order = l.order /\ ~m.unsupported
      BY <3>3, <3>4 DEF IterTrue
    <3> QED BY <3>1, <3>5 DEF l, m
  <2>3. CASE ~(sid < Len(layers[i].stamps))
    BY <1>3, <1>4, <2>1, <2>3
  <2> QED BY <2>2, <2>3
<1>8. Len(layers') = n /\ DOMAIN layers' = 1 .. n
  <2> HIDE DEF new
  <2>1. layers' = [i \in 1 .. n |-> new(i)]
    BY <1>1, <1>3
  <2> HIDE DEF n
  <2>2. Len([i \in 1 .. n |-> new(i)]) = n
    BY <1>3
  <2> QED BY <2>1, <2>2
<1> HIDE DEF new
<1>9. stage' \in {"resolve", "skip", "ready"} /\ sid' \in 0 .. c - 1
  <2>1. CASE sid + 1 < c
    <3>1. sid' = sid + 1 /\ stage' = "resolve"
      BY <1>1, <1>2, <2>1
    <3> HIDE DEF c
    <3> QED BY <1>1, <1>5, <2>1, <3>1
  <2>2. CASE ~(sid + 1 < c)
    <3>1. sid' = 0 /\ stage' \in {"skip", "ready"}
      BY <1>2, <2>2
    <3> HIDE DEF c
    <3> QED BY <1>5, <3>1
  <2> QED BY <2>1, <2>2
<1>10. Staged'
  BY <1>1, <1>9 DEF Staged, Stages
<1>11. Read'
  BY <1>1, <1>9, SameElfs DEF PreparationInv
<1>12. design.reported => Sorted(design, layers')
  BY <1>1, <1>7, <1>8, SameOrder DEF PreparationInv, Listed
<1>13. Listed'
  BY <1>1, <1>3, <1>7, <1>8, <1>12 DEF Listed, LayersTrue
<1>14. Iterated'
  BY <1>1, <1>7, <1>8 DEF Iterated
<1> QED BY <1>10, <1>11, <1>13, <1>14 DEF PreparationInv

LEMMA SkipIterationsInv ==
  ASSUME PreparationInv, SkipIterations
  PROVE  PreparationInv'
<1> DEFINE n == Len(layers)
           new(i) == IF SkipsSteps(i) THEN [layers[i] EXCEPT !.num_iter = 1] ELSE layers[i]
<1>1. /\ stage = "skip" /\ stage' = "ready" /\ UNCHANGED <<design, sid, elfs>>
      /\ layers' = [i \in DOMAIN layers |-> new(i)]
  BY DEF SkipIterations
<1>2. /\ n \in Nat /\ DOMAIN layers = 1 .. n
      /\ \A i \in 1 .. n : LayerTrue(design, layers[i]) /\ ~layers[i].unsupported
  BY <1>1 DEF PreparationInv, Listed, LayersTrue
<1>3. \A i \in 1 .. n : IterTrue(design, layers[i])
  BY <1>1 DEF PreparationInv, Iterated, Skipped
<1>4. Len(layers') = n /\ DOMAIN layers' = 1 .. n
  <2> HIDE DEF new
  <2>1. layers' = [i \in 1 .. n |-> new(i)]
    BY <1>1, <1>2
  <2> HIDE DEF n
  <2>2. Len([i \in 1 .. n |-> new(i)]) = n
    BY <1>2
  <2> QED BY <2>1, <2>2
<1>5. ASSUME NEW i \in 1 .. n
      PROVE  /\ LayerTrue(design, layers'[i]) /\ ~layers'[i].unsupported
             /\ layers'[i].order = layers[i].order /\ layers'[i].stamps = layers[i].stamps
             /\ IF SkipsSteps(i) THEN layers'[i].num_iter = 1 ELSE IterTrue(design, layers'[i])
  <2>1. layers'[i] = new(i)
    BY <1>1, <1>2
  <2>2. CASE SkipsSteps(i)
    <3> DEFINE l == layers[i]
               m == layers'[i]
    <3>1. m = [l EXCEPT !.num_iter = 1]
      BY <2>1, <2>2
    <3>2. /\ LayerTrue(design, l) /\ ~l.unsupported
          /\ DOMAIN l = LayerFields /\ l.l3_buffers \subseteq design.spills
      BY <1>2 DEF LayerTrue
    <3> HIDE DEF l, m
    <3>3. /\ DOMAIN m = LayerFields /\ m.order = l.order /\ m.is_tg = l.is_tg
          /\ m.flexml_ids = l.flexml_ids /\ m.stamps = l.stamps /\ m.num_iter = 1
          /\ m.unsupported = l.unsupported /\ m.l3_buffers = l.l3_buffers
      BY <3>1, <3>2 DEF LayerFields
    <3>4. LayerTrue(design, m)
      BY <3>2, <3>3, SameLayer
    <3>5. /\ LayerTrue(design, m) /\ ~m.unsupported /\ m.order = l.order
          /\ m.stamps = l.stamps /\ m.num_iter = 1
      BY <3>2, <3>3, <3>4
    <3> QED BY <2>2, <3>5 DEF l, m
  <2>3. CASE ~SkipsSteps(i)
    BY <1>2, <1>3, <2>1, <2>3
  <2> QED BY <2>2, <2>3
<1> HIDE DEF new
<1>6. ASSUME NEW i \in 1 .. n, SkipsSteps(i)
      PROVE  SkipsSteps(i)'
  <2>1. CASE i = n
    BY <1>4, <2>1 DEF SkipsSteps
  <2>2. CASE i # n
    <3>1. i + 1 \in 1 .. n
      <4> HIDE DEF n
      <4> QED BY <1>2, <2>2
    <3>2. layers'[i].stamps = layers[i].stamps /\ layers'[i + 1].stamps = layers[i + 1].stamps
      BY <1>5, <3>1
    <3> QED BY <1>1, <1>6, <2>2, <3>2 DEF SkipsSteps
  <2> QED BY <2>1, <2>2
<1>7. Staged'
  BY <1>1 DEF PreparationInv, Staged, Stages
<1>8. Read'
  BY <1>1, SameElfs DEF PreparationInv
<1>9. design.reported => Sorted(design, layers')
  BY <1>1, <1>4, <1>5, SameOrder DEF PreparationInv, Listed
<1>10. Listed'
  BY <1>1, <1>2, <1>4, <1>5, <1>9 DEF Listed, LayersTrue
<1>11. \A i \in 1 .. n : IterTrue(design, layers'[i]) \/ Skipped(i)'
  BY <1>1, <1>5, <1>6 DEF Skipped
<1>12. Iterated'
  BY <1>1, <1>4, <1>11 DEF Iterated
<1> QED BY <1>7, <1>8, <1>10, <1>12 DEF PreparationInv

LEMMA StepInv ==
  ASSUME PreparationInv, [Next]_vars
  PROVE  PreparationInv'
<1>1. CASE InitLayers
  BY <1>1, InitLayersInv
<1>2. CASE ParseElfs
  BY <1>2, ParseElfsInv
<1>3. CASE MapL3Buffers
  BY <1>3, MapL3BuffersInv
<1>4. CASE TrimLayers
  BY <1>4, TrimLayersInv
<1>5. CASE ResolvePcs
  BY <1>5, ResolvePcsInv
<1>6. CASE SkipIterations
  BY <1>6, SkipIterationsInv
<1>7. CASE UNCHANGED vars
  <2>1. UNCHANGED <<design, stage, sid, layers, elfs>>
    BY <1>7 DEF vars
  <2>2. Staged' /\ Read' /\ Listed'
    BY <2>1 DEF PreparationInv, Staged, Read, Listed
  <2>3. \A i : SkipsSteps(i) => SkipsSteps(i)'
    BY <2>1 DEF SkipsSteps
  <2>4. Iterated'
    BY <2>1, <2>3 DEF PreparationInv, Iterated, Skipped
  <2> QED BY <2>2, <2>4 DEF PreparationInv
<1> QED BY <1>1, <1>2, <1>3, <1>4, <1>5, <1>6, <1>7 DEF Next

(* The inductive invariant holds throughout: whatever has been read, laid  *)
(* out and resolved so far is true to the design.                          *)
THEOREM Prepared == Spec => []PreparationInv
<1>1. Init => PreparationInv
  BY InitInv
<1>2. PreparationInv /\ [Next]_vars => PreparationInv'
  BY StepInv
<1> QED BY <1>1, <1>2, PTL DEF Spec

-----------------------------------------------------------------------------
(* What follows.                                                           *)

LEMMA ListIs ==
  ASSUME PreparationInv
  PROVE  /\ design \in Designs /\ Len(layers) \in Nat /\ DOMAIN layers = 1 .. Len(layers)
         /\ \A i \in 1 .. Len(layers) :
              /\ LayerTrue(design, layers[i]) /\ StampsShaped(layers[i], StampCountOf(design))
              /\ IterTrue(design, layers[i]) \/ Skipped(i)
  BY DEF PreparationInv, Staged, Listed, LayersTrue, Iterated, LayerTrue

LEMMA ReadyLayer ==
  ASSUME PreparationInv, stage = "ready", NEW i \in 1 .. Len(layers)
  PROVE  /\ ~layers[i].unsupported /\ Debugged(design, layers[i])
         /\ Len(layers[i].stamps) = Cardinality(Running(design, layers[i].order))
         /\ Len(layers[i].stamps) \in 1 .. StampCountOf(design)
         /\ DOMAIN layers[i].stamps = 1 .. Len(layers[i].stamps)
<1>1. LayerTrue(design, layers[i]) /\ StampsShaped(layers[i], StampCountOf(design))
  BY ListIs
<1>2. ~layers[i].unsupported
  BY DEF PreparationInv, Listed
<1>3. Debugged(design, layers[i])
  BY <1>1, <1>2 DEF LayerTrue
<1> QED BY <1>1, <1>2, <1>3 DEF Debugged, StampsTrue, StampsShaped

LEMMA TypeIs ==
  ASSUME PreparationInv
  PROVE  TypeOK
<1> DEFINE c == StampCountOf(design)
<1>1. c \in Nat \ {0}
  BY ListIs, CountIs
<1>2. /\ stage \in Stages /\ sid \in 0 .. StampCount - 1
      /\ Len(elfs) = (CASE stage = "layers" -> 0 [] stage = "workdir" -> sid
                        [] OTHER -> StampCount)
  BY DEF PreparationInv, Staged, Read, StampCount
<1>3. ASSUME NEW i \in DOMAIN layers
      PROVE  /\ Len(layers[i].stamps) \in 0 .. c
             /\ ~layers[i].unsupported => layers[i].stamps # <<>> /\ layers[i].num_iter \in Nat \ {0}
             /\ layers[i].l3_buffers \subseteq design.spills
  <2> DEFINE l == layers[i]
  <2>1. LayerTrue(design, l) /\ StampsShaped(l, c) /\ (IterTrue(design, l) \/ Skipped(i))
    BY ListIs
  <2>2. ~l.unsupported => l.num_iter \in Nat \ {0}
    BY <2>1 DEF IterTrue, Skipped
  <2>3. ~l.unsupported => Len(l.stamps) \in 1 .. c
    BY <2>1 DEF LayerTrue, Debugged, StampsTrue
  <2>4. Len(<<>>) = 0 /\ 0 \notin 1 .. c
    OBVIOUS
  <2>5. ~l.unsupported => l.stamps # <<>>
    BY <2>3, <2>4
  <2> QED BY <2>1, <2>2, <2>5 DEF LayerTrue, StampsShaped
<1> QED BY <1>2, <1>3 DEF TypeOK, Stages, StampCount

LEMMA OrderIs ==
  ASSUME PreparationInv
  PROVE  ExecutionOrder
<1> SUFFICES ASSUME stage = "ready", design.reported PROVE \A i, j \in DOMAIN layers : i < j =>
      LET a == layers[i].order
          b == layers[j].order
      IN  /\ Anchor(design, a) <= Anchor(design, b)
          /\ Anchor(design, a) = Anchor(design, b) => a < b
  BY DEF ExecutionOrder, Ready
<1>1. Sorted(design, layers)
  BY DEF PreparationInv, Listed
<1>2. DOMAIN layers = 1 .. Len(layers)
  BY ListIs
<1> QED BY <1>1, <1>2 DEF Sorted

LEMMA CountsAre ==
  ASSUME PreparationInv
  PROVE  StampCountTrue
<1>1. DOMAIN layers = 1 .. Len(layers)
  BY ListIs
<1> QED BY <1>1, ReadyLayer DEF StampCountTrue, Ready

LEMMA PcsAre ==
  ASSUME PreparationInv
  PROVE  PcsAreTrue
<1> SUFFICES ASSUME stage = "ready", NEW i \in DOMAIN layers, NEW n \in DOMAIN layers[i].stamps,
                    layers[i].stamps[n].start_pc # 0
             PROVE  TruePc(design, layers[i].order, n, layers[i].stamps[n])
  BY DEF PcsAreTrue, Ready, TruePc
<1>1. i \in 1 .. Len(layers)
  BY ListIs
<1>2. Debugged(design, layers[i]) /\ n \in 1 .. Len(layers[i].stamps)
  BY <1>1, ReadyLayer
<1> QED BY <1>2 DEF Debugged, StampTrue

(* A kernel of another name starts elsewhere in the same ELF. *)
LEMMA OtherStart ==
  ASSUME design \in Designs, NEW o, NEW p, NEW a, NEW b,
         TruePc(design, o, 1, a), TruePc(design, p, 1, b), a.elf = b.elf,
         design.kernels[o] # design.kernels[p]
  PROVE  a.start_pc # b.start_pc /\ design.runs[o][0] = design.runs[p][0]
<1>1. 1 \in 1 .. StampCountOf(design) /\ 1 - 1 = 0
  BY CountIs
<1>2. PICK elf \in design.elfs[1] :
        /\ elf.id = design.runs[o][0] /\ a.elf = design.runs[o][0]
        /\ \E k \in DOMAIN elf.program :
             /\ elf.program[k].name = design.kernels[o]
             /\ a.start_pc = FirstPc(elf.program, k, elf.from)
  BY <1>1 DEF TruePc
<1>3. PICK other \in design.elfs[1] :
        /\ other.id = design.runs[p][0] /\ b.elf = design.runs[p][0]
        /\ \E k \in DOMAIN other.program :
             /\ other.program[k].name = design.kernels[p]
             /\ b.start_pc = FirstPc(other.program, k, other.from)
  BY <1>1 DEF TruePc
<1>4. other.id = elf.id
  BY <1>2, <1>3
<1>5. other = elf /\ IsProgram(elf.program) /\ elf.from \in Nat
  BY <1>1, <1>4, ElfFacts
<1>6. PICK j \in DOMAIN elf.program :
        elf.program[j].name = design.kernels[o] /\ a.start_pc = FirstPc(elf.program, j, elf.from)
  BY <1>2
<1>7. PICK k \in DOMAIN elf.program :
        elf.program[k].name = design.kernels[p] /\ b.start_pc = FirstPc(elf.program, k, elf.from)
  BY <1>3, <1>5
<1>8. j # k
  BY <1>6, <1>7
<1>9. DOMAIN elf.program = 1 .. Len(elf.program) /\ Len(elf.program) \in Nat
  BY <1>5, ProgramFacts
<1>10. j < k \/ k < j
  BY <1>8, <1>9
<1>11. \A x, y \in 1 .. Len(elf.program) : x < y =>
         /\ FirstPc(elf.program, x, elf.from) < FirstPc(elf.program, y, elf.from)
         /\ FirstPc(elf.program, x, elf.from) \in Nat /\ FirstPc(elf.program, y, elf.from) \in Nat
  <2>1. /\ \A x \in 1 .. Len(elf.program) + 1 : FirstPc(elf.program, x, elf.from) \in Nat
        /\ \A x, y \in 1 .. Len(elf.program) :
             x < y => FirstPc(elf.program, x, elf.from) < FirstPc(elf.program, y, elf.from)
    BY <1>5, EntriesAre
  <2>2. \A x \in 1 .. Len(elf.program) : x \in 1 .. Len(elf.program) + 1
    BY <1>9
  <2> QED BY <2>1, <2>2
<1>12. FirstPc(elf.program, j, elf.from) # FirstPc(elf.program, k, elf.from)
  BY <1>9, <1>10, <1>11
<1> QED BY <1>2, <1>3, <1>4, <1>6, <1>7, <1>12

LEMMA SkipIs ==
  ASSUME PreparationInv
  PROVE  SkipIsSafe
<1> SUFFICES ASSUME stage = "ready", NEW i \in 1 .. Len(layers) - 1,
                    layers[i].num_iter < design.iterations[layers[i].order],
                    layers[i].stamps[1].start_pc # 0, layers[i + 1].stamps[1].start_pc # 0
             PROVE  /\ layers[i].stamps[1].start_pc # layers[i + 1].stamps[1].start_pc
                    /\ design.runs[layers[i].order][0] = design.runs[layers[i + 1].order][0]
  BY DEF SkipIsSafe, Ready
<1> DEFINE l == layers[i]
           m == layers[i + 1]
<1>1. i \in 1 .. Len(layers) /\ i + 1 \in 1 .. Len(layers) /\ i # Len(layers)
  BY ListIs
<1>2. /\ ~l.unsupported /\ Debugged(design, l) /\ Len(l.stamps) \in 1 .. StampCountOf(design)
      /\ DOMAIN l.stamps = 1 .. Len(l.stamps)
      /\ Debugged(design, m) /\ Len(m.stamps) \in 1 .. StampCountOf(design)
  BY <1>1, ReadyLayer
<1>3. ~IterTrue(design, l)
  <2>1. l.num_iter = design.iterations[l.order] /\ l.num_iter \in Nat
          => ~(l.num_iter < design.iterations[l.order])
    OBVIOUS
  <2> QED BY <1>2, <2>1 DEF IterTrue
<1>4. SkipsSteps(i)
  <2>1. Skipped(i)
    BY <1>1, <1>3, ListIs
  <2> QED BY <2>1 DEF Skipped
<1>5. 1 \in 1 .. Len(l.stamps) /\ 1 \in 1 .. Len(m.stamps)
  BY <1>2
<1>6. /\ StampTrue(design, l, 1) /\ StampTrue(design, m, 1)
  BY <1>2, <1>5 DEF Debugged
<1>7. /\ l.stamps[1].name = design.kernels[l.order] /\ m.stamps[1].name = design.kernels[m.order]
      /\ TruePc(design, l.order, 1, l.stamps[1]) /\ TruePc(design, m.order, 1, m.stamps[1])
  BY <1>6 DEF StampTrue
<1>8. l.stamps[1].name # m.stamps[1].name /\ l.stamps[1].elf = m.stamps[1].elf
  BY <1>1, <1>2, <1>4, <1>5 DEF SkipsSteps
<1> QED BY <1>7, <1>8, ListIs, OtherStart

LEMMA FunctionsAre ==
  ASSUME PreparationInv
  PROVE  FunctionsRecovered
<1>1. DOMAIN elfs = 1 .. Len(elfs) /\ \A s \in 1 .. Len(elfs) : ElfsTrue(design, s, elfs[s])
  BY DEF PreparationInv, Read
<1>2. \A s \in 1 .. Len(elfs) : s \in 1 .. StampCountOf(design)
  <2>1. Len(elfs) \in {0, sid, StampCountOf(design)}
    BY DEF PreparationInv, Read
  <2>2. sid \in 0 .. StampCountOf(design) - 1 /\ StampCountOf(design) \in Nat
    BY ListIs, CountIs DEF PreparationInv, Staged
  <2> QED BY <2>1, <2>2
<1>3. ASSUME NEW s \in DOMAIN elfs, NEW e \in DOMAIN elfs[s]
      PROVE  LET elf == CHOOSE x \in design.elfs[s] : x.id = elfs[s][e].id
             IN  TrueTo(design.peano, elf.base, elf.program, elf.from,
                        [done |-> elfs[s][e].functions, acquire |-> elfs[s][e].acquire])
  <2>1. s \in 1 .. StampCountOf(design) /\ ElfsTrue(design, s, elfs[s])
    BY <1>1, <1>2
  <2>2. PICK elf \in design.elfs[s] : ElfTrue(design, elf, elfs[s][e])
    BY <2>1 DEF ElfsTrue
  <2>3. \A x \in design.elfs[s] : x.id = elfs[s][e].id => x = elf
    BY <2>1, <2>2, ListIs, ElfFacts DEF ElfTrue
  <2>4. (CHOOSE x \in design.elfs[s] : x.id = elfs[s][e].id) = elf
    BY <2>2, <2>3 DEF ElfTrue
  <2> QED BY <2>2, <2>4 DEF ElfTrue
<1> QED BY <1>3 DEF FunctionsRecovered

(* Type correctness: at every stage of the preparation as many ELFs are    *)
(* read as the stage says, a layer has at most the stamps that are         *)
(* debugged, and one that is supported has a stamp and an iteration.       *)
THEOREM TypeCorrect == Spec => []TypeOK
<1>1. PreparationInv => TypeOK
  BY TypeIs
<1> QED BY <1>1, Prepared, PTL

(* The execution list _reorder_layers_by_execution makes is in the order   *)
(* in which the compiler layers really run, whatever report and            *)
(* buffer_info look like within the assumptions.                           *)
THEOREM ListedInExecutionOrder == Spec => []ExecutionOrder
<1>1. PreparationInv => ExecutionOrder
  BY OrderIs
<1> QED BY <1>1, Prepared, PTL

(* A PC that _initialize_layers_from_workdir gives a stamp is the entry of *)
(* the kernel the stamp runs for the layer, in the ELF it runs it from.    *)
THEOREM BreakpointsAreEntries == Spec => []PcsAreTrue
<1>1. PreparationInv => PcsAreTrue
  BY PcsAre
<1> QED BY <1>1, Prepared, PTL

(* A layer is given exactly the stamps that take part in it: the division  *)
(* by the batches is exact, or the report puts the count right.            *)
THEOREM StampsTakePart == Spec => []StampCountTrue
<1>1. PreparationInv => StampCountTrue
  BY CountsAre
<1> QED BY <1>1, Prepared, PTL

(* skip_iter gives up only iterations whose start cannot be taken for that *)
(* of the next layer: two kernels of one ELF do not start at the same PC.  *)
THEOREM SkippingIsSafe == Spec => []SkipIsSafe
<1>1. PreparationInv => SkipIsSafe
  BY SkipIs
<1> QED BY <1>1, Prepared, PTL

(* The functions kept for an ELF are those of its program, whatever order  *)
(* the ELFs are found in.                                                  *)
THEOREM FunctionsAreThoseOfTheElf == Spec => []FunctionsRecovered
<1>1. PreparationInv => FunctionsRecovered
  BY FunctionsAre
<1> QED BY <1>1, Prepared, PTL
=============================================================================
