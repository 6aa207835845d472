------------------------- MODULE MemoryDumper_proofs ------------------------
(***************************************************************************)
(* What a batch run leaves on disk, for every design and every layout of   *)
(* its buffers: every transfer of the input is dumped; when no wait gives  *)
(* up, a file holds what its path says and L3 buffers are asked for in     *)
(* turn.                                                                   *)
(***************************************************************************)
EXTENDS MemoryDumper, BatchRunner_proofs, WellFoundedInduction

-----------------------------------------------------------------------------
(* Columns, replicas and bytes. *)

LEMMA MulNat == \A m \in Nat, n \in Nat : m * n \in Nat
OBVIOUS

LEMMA MulMonotone == \A m \in Nat, n \in Nat, k \in Nat : m <= n => m * k <= n * k
<1> SUFFICES ASSUME NEW m \in Nat, NEW n \in Nat, NEW k \in Nat, m <= n PROVE m * k <= n * k
  OBVIOUS
<1>1. n - m \in Nat /\ n * k = m * k + (n - m) * k /\ (n - m) * k \in Nat /\ m * k \in Nat
  OBVIOUS
<1> QED BY <1>1

LEMMA MulNext == \A m \in Int, k \in Int : (m + 1) * k = m * k + k
OBVIOUS

(* A quotient is what its range says.                                      *)
LEMMA QuotientIs ==
  ASSUME NEW n \in Nat, NEW d \in Nat \ {0}, NEW q \in Nat, q * d <= n, n < q * d + d
  PROVE  n \div d = q
<1>1. n \div d \in Nat /\ (n \div d) * d <= n /\ n < (n \div d) * d + d
  OBVIOUS
<1> DEFINE p == n \div d
<1> HIDE DEF p
<1>2. p \in Nat /\ p * d <= n /\ n < p * d + d
  BY <1>1 DEF p
<1>3. CASE p < q
  <2>1. (p + 1) * d <= q * d /\ (p + 1) * d = p * d + d
    BY <1>2, <1>3, MulMonotone, MulNext
  <2> QED BY <1>2, <2>1, MulNat
<1>4. CASE q < p
  <2>1. (q + 1) * d <= p * d /\ (q + 1) * d = q * d + d
    BY <1>2, <1>4, MulMonotone, MulNext
  <2> QED BY <1>2, <2>1, MulNat
<1>5. p = q
  BY <1>2, <1>3, <1>4
<1> QED BY <1>5 DEF p

(* The columns of a replica are its own.                                   *)
LEMMA ColumnsAreOwn ==
  ASSUME NEW sid \in Nat, NEW col \in ColumnsOf(sid)
  PROVE  col \in Nat /\ col \div Columns = sid
<1>1. Columns \in Nat \ {0}
  BY DumpAssumption
<1>2. sid * Columns \in Nat /\ (sid + 1) * Columns = sid * Columns + Columns
  BY <1>1, MulNat, MulNext
<1>3. col \in Nat /\ sid * Columns <= col /\ col < sid * Columns + Columns
  BY <1>1, <1>2 DEF ColumnsOf
<1> QED BY <1>1, <1>3, QuotientIs

(* Batch and stamp make the replica.                                       *)
LEMMA ReplicaIs ==
  ASSUME NEW sid \in Replica
  PROVE  sid = BatchOf(sid) * StampsPerBatch + StampOf(sid) /\ sid \in Nat
<1>1. sid \in Nat /\ StampsPerBatch \in Nat \ {0}
  BY ScheduleAssumption DEF Replica
<1> QED BY <1>1 DEF BatchOf, StampOf

-----------------------------------------------------------------------------
(* A region and its pieces. *)

IsRegion(r) == r.col \in Nat /\ r.size \in Nat /\ r.addr \in 0 .. TileSize - 1

(* Together the pieces hold the bytes of the region, wherever its columns  *)
(* are shifted to.                                                         *)
THEOREM PiecesAreWhole ==
  ASSUME NEW region, IsRegion(region), NEW shift \in Nat
  PROVE  UNION {Bytes(p.col + shift, p.addr, p.size) : p \in Pieces(region)}
           = Bytes(region.col + shift, region.addr, region.size)
<1> DEFINE T == TileSize
           up(j) == j * T
           place(c) == (c + shift) * T
           base == place(region.col)
           addr(j) == IF j = 0 THEN region.addr ELSE 0
           left(j) == region.size + region.addr - addr(j) - j * T
           spills(j) == left(j) > T - addr(j)
           size(j) == IF spills(j) THEN T - addr(j) ELSE left(j)
           piece(j) == [col |-> region.col + j, addr |-> addr(j), size |-> size(j)]
           rounds == {j \in 0 .. region.size : \A i \in 0 .. j - 1 : spills(i)}
           end == region.addr + region.size
<1>1. T \in Nat \ {0} /\ region.col \in Nat /\ region.size \in Nat /\ region.addr \in 0 .. T - 1
  BY DumpAssumption DEF IsRegion
<1>2. UNION {Bytes(p.col + shift, p.addr, p.size) : p \in Pieces(region)}
        = UNION {Bytes(region.col + j + shift, addr(j), size(j)) : j \in rounds}
  <2>1. Pieces(region) = {piece(j) : j \in rounds}
    BY DEF Pieces
  <2>2. \A j : piece(j).col = region.col + j /\ piece(j).addr = addr(j) /\ piece(j).size = size(j)
    OBVIOUS
  <2> HIDE DEF piece, rounds, addr, size
  <2> QED BY <2>1, <2>2
<1>3. \A c, a, n, x : x \in Bytes(c + shift, a, n) <=> \E o \in a .. a + n - 1 : x = place(c) + o
  BY DEF Bytes
<1> HIDE DEF T
<1>4. /\ base \in Nat /\ up(0) = 0
      /\ \A j \in Nat : up(j) \in Nat /\ up(j + 1) = up(j) + T /\ place(region.col + j) = base + up(j)
      /\ \A i \in Nat, j \in Nat : i <= j => up(i) <= up(j)
      /\ \A j \in Nat : j <= up(j)
  <2>1. \A i \in Nat, j \in Nat : i <= j => up(i) <= up(j)
    BY <1>1, MulMonotone
  <2>2. ASSUME NEW j \in Nat
        PROVE  j <= up(j) /\ up(j) \in Nat /\ up(j + 1) = up(j) + T
               /\ place(region.col + j) = base + up(j)
    <3>1. T - 1 \in Nat /\ j * (T - 1) \in Nat /\ j * T = j * (T - 1) + j
      BY <1>1
    <3> QED BY <1>1, <3>1, MulNext
  <2> QED BY <1>1, <2>1, <2>2
<1>5. ASSUME NEW j \in Nat
      PROVE  /\ addr(j) = (IF j = 0 THEN region.addr ELSE 0)
             /\ spills(j) <=> end > up(j + 1)
             /\ size(j) = IF spills(j) THEN T - addr(j) ELSE end - addr(j) - up(j)
  <2>1. left(j) = end - addr(j) - up(j)
    BY <1>1
  <2>2. end - addr(j) - up(j) > T - addr(j) <=> end > up(j) + T
    BY <1>1, <1>4
  <2> QED BY <1>4, <2>1, <2>2
<1>6. end \in Nat /\ end = region.addr + region.size
  BY <1>1
<1>9. \A x : x \in Bytes(region.col + shift, region.addr, region.size)
              <=> \E o \in region.addr .. end - 1 : x = base + o
  <2>1. base = place(region.col)
    OBVIOUS
  <2>2. \A x : x \in Bytes(region.col + shift, region.addr, region.size)
               <=> \E o \in region.addr .. region.addr + region.size - 1 : x = place(region.col) + o
    BY <1>3
  <2>3. region.addr .. region.addr + region.size - 1 = region.addr .. end - 1
    BY <1>1
  <2> HIDE DEF place, base, end
  <2> QED BY <2>1, <2>2, <2>3
<1>10. addr(0) = region.addr /\ \A j \in Nat : j # 0 => addr(j) = 0
  OBVIOUS
<1> HIDE DEF up, place, base, addr, left, spills, size, end
<1>7. ASSUME NEW x \in Bytes(region.col + shift, region.addr, region.size)
      PROVE  \E j \in rounds : x \in Bytes(region.col + j + shift, addr(j), size(j))
  <2>1. PICK o \in region.addr .. end - 1 : x = base + o
    BY <1>9
  <2> DEFINE j == o \div T
             rest == o % T
  <2>2. o \in Nat /\ j \in Nat /\ rest \in 0 .. T - 1 /\ o = up(j) + rest
    <3>1. o \in Nat
      BY <1>1, <1>6, <2>1
    <3>2. o \div T \in Nat /\ o % T \in 0 .. T - 1 /\ o = (o \div T) * T + (o % T)
      BY <1>1, <3>1
    <3> QED BY <3>1, <3>2 DEF up
  <2> HIDE DEF j, rest
  <2>3. ASSUME NEW i \in 0 .. j - 1 PROVE spills(i)
    <3>1. i \in Nat /\ i + 1 \in Nat /\ i + 1 <= j
      BY <2>2
    <3>2. up(i + 1) <= up(j) /\ up(i + 1) \in Nat /\ up(j) \in Nat
      BY <1>4, <2>2, <3>1
    <3> QED BY <1>5, <1>6, <2>1, <2>2, <3>1, <3>2
  <2>4. j \in 0 .. region.size
    <3>1. CASE j = 0
      BY <1>1, <3>1
    <3>2. CASE j # 0
      <4> DEFINE i == j - 1
      <4>1. i \in Nat /\ j = i + 1
        BY <2>2, <3>2
      <4> HIDE DEF i
      <4>2. i <= up(i) /\ up(j) = up(i) + T /\ up(i) \in Nat
        BY <1>4, <4>1
      <4> QED BY <1>1, <1>6, <2>1, <2>2, <4>1, <4>2
    <3> QED BY <3>1, <3>2
  <2>5. rest \in addr(j) .. addr(j) + size(j) - 1
    <3>5. up(j) \in Nat /\ (j = 0 => up(j) = 0) /\ (j # 0 => addr(j) = 0)
      BY <1>4, <1>10, <2>2
    <3>1. up(j) \in Nat /\ (j = 0 => rest = o /\ up(j) = 0) /\ (j # 0 => addr(j) = 0)
      BY <1>1, <2>2, <3>5
    <3>2. rest >= addr(j)
      BY <1>1, <1>5, <2>1, <2>2, <3>1
    <3>3. CASE spills(j)
      BY <1>1, <1>5, <2>2, <3>1, <3>2, <3>3
    <3>4. CASE ~spills(j)
      <4>1. size(j) = end - addr(j) - up(j)
        BY <1>5, <2>2, <3>4
      <4> QED BY <1>1, <1>5, <1>6, <2>1, <2>2, <3>1, <3>2, <4>1
    <3> QED BY <3>3, <3>4
  <2>6. x = place(region.col + j) + rest
    BY <1>1, <1>4, <2>1, <2>2
  <2>7. x \in Bytes(region.col + j + shift, addr(j), size(j))
    BY <1>3, <2>5, <2>6
  <2>8. j \in rounds
    BY <2>3, <2>4
  <2> QED BY <2>7, <2>8
<1>8. ASSUME NEW j \in rounds, NEW x \in Bytes(region.col + j + shift, addr(j), size(j))
      PROVE  x \in Bytes(region.col + shift, region.addr, region.size)
  <2>1. j \in Nat
    BY <1>1
  <2> HIDE DEF rounds
  <2>2. PICK rest \in addr(j) .. addr(j) + size(j) - 1 : x = place(region.col + j) + rest
    BY <1>3
  <2> DEFINE o == up(j) + rest
  <2>3. up(j) \in Nat /\ (j = 0 => up(j) = 0) /\ (j # 0 => T <= up(j)) /\ up(j + 1) = up(j) + T
    <3>1. j # 0 => \E i \in Nat : j = i + 1
      <4>1. j # 0 => j - 1 \in Nat /\ j = (j - 1) + 1
        BY <2>1
      <4> QED BY <4>1
    <3> QED BY <1>1, <1>4, <2>1, <3>1
  <2>4. o \in region.addr .. end - 1
    <3>1. CASE j = 0
      BY <1>1, <1>5, <1>6, <2>1, <2>2, <2>3, <3>1
    <3>2. CASE j # 0
      <4>1. addr(j) = 0 /\ rest \in 0 .. size(j) - 1
        <5>1. addr(j) = 0
          BY <1>10, <2>1, <3>2
        <5>2. size(j) \in Int /\ 0 + size(j) - 1 = size(j) - 1
          BY <1>1, <1>5, <1>6, <2>1, <2>3, <5>1
        <5> QED BY <2>2, <5>1, <5>2
      <4>2. CASE spills(j)
        BY <1>1, <1>5, <1>6, <2>1, <2>3, <3>2, <4>1, <4>2
      <4>3. CASE ~spills(j)
        BY <1>1, <1>5, <1>6, <2>1, <2>3, <3>2, <4>1, <4>3
      <4> QED BY <4>2, <4>3
    <3> QED BY <3>1, <3>2
  <2>5. x = base + o
    BY <1>1, <1>4, <1>5, <2>1, <2>2, <2>3
  <2> QED BY <1>9, <2>4, <2>5
<1> QED BY <1>2, <1>7, <1>8

-----------------------------------------------------------------------------
(* A run that dumps is a batch run.                                        *)

LEMMA DumpStep == [DumpNext]_dumpVars => [Next]_vars
  BY DEF DumpNext, dumpVars, vars

LEMMA DumpsRun == DumpSpec => Spec
  <1>1. DumpInit => Init
    BY DEF DumpInit
  <1>2. QED BY <1>1, DumpStep, PTL DEF DumpSpec, Spec

(* A start breakpoint that is processed is one of the current layer, and   *)
(* the core is not moved by it.                                            *)
LEMMA ReachedNow ==
  ASSUME TypeOK, Next, NEW sid \in Replica, seen'[sid] # seen[sid]
  PROVE  seen'[sid].layer = cur /\ UNCHANGED <<cur, at>>
<1>1. seen \in [Replica -> Start]
  BY DEF TypeOK, SchedTypeOK
<1>2. ASSUME NEW r \in Replica, VerifyStamp(r)
      PROVE  seen'[sid].layer = cur /\ UNCHANGED <<cur, at>>
  BY <1>1, <1>2 DEF VerifyStamp
<1>3. ASSUME NEW r \in Replica, ThreadStep(r)
      PROVE  seen'[sid].layer = cur /\ UNCHANGED <<cur, at>>
  <2>1. ThreadHit(r)
    BY <1>3 DEF ThreadStep, ThreadContinue, ThreadReachesTarget, ThreadSkipsNothing,
                ThreadCount, ThreadCounted, ThreadToLock, ThreadAtLock, ThreadReturn,
                ThreadCollected
  <2>2. HitPasses(r)
    BY <1>3, <2>1, HitOutcomes DEF HitFails
  <2> QED BY <1>1, <2>1, <2>2 DEF ThreadHit, HitPasses, coreVars, mainVars
<1> QED
  BY <1>2, <1>3
  DEF Next, MainStep, ScheduleLayerStart, ContinueArmed, PollStamps, RunWholeLayer, RunLayer,
      JoinLayer, AdvanceLayer, FinishRun, schedVars

-----------------------------------------------------------------------------
(* Every transfer of the input is dumped, in every design.                 *)

(* Replica sid was observed at iteration i of layer l. *)
Past(sid, l, i) ==
  l < seen[sid].layer \/ (l = seen[sid].layer /\ i <= seen[sid].it)

Dumped(sid, l, i, b) ==
  \E f \in files :
    /\ f.name[1] = [level |-> "l2", batch |-> BatchOf(sid), layer |-> l, type |-> b.type, it |-> i]
    /\ f.name[2][1] = StampOf(sid)

(* What was observed is dumped; a run that succeeded observed all.         *)
DumpTracking ==
  /\ \A sid \in Replica, l \in Layer : RunsReplica(l, sid) =>
       \A i \in 1 .. Iterations[l], b \in InBuffers[l] :
         Past(sid, l, i) /\ InputsArrive(l, i) /\ ~b.tg /\ DOMAIN b.l2 # {} => Dumped(sid, l, i, b)
  /\ phase = "success" => \A sid \in Replica : Steps!NextObservation(sid).layer = NoLayer

(* The files of one start breakpoint hold the input that arrived.          *)
LEMMA StartDumpsInput ==
  ASSUME "skip_dump" \notin DumpFlags, NEW sid, NEW i, InputsArrive(cur, i),
         NEW b \in InBuffers[cur], ~b.tg, DOMAIN b.l2 # {}
  PROVE  \E f \in StartDump(i, sid) :
           /\ f.name[1] = [level |-> "l2", batch |-> BatchOf(sid), layer |-> cur,
                           type |-> b.type, it |-> i]
           /\ f.name[2][1] = StampOf(sid)
<1> DEFINE In == InBuffers[cur] \cup WtsBuffers[cur]
           Own(c, id) == {p \in Pieces(c.l2[id]) : Column(c, p, sid) \in ColumnsOf(sid)}
           file(c, id) == [name |-> L2Name(sid, c, i, id),
                           data |-> {Read(Column(c, p, sid), p.addr, p.size) : p \in Own(c, id)}]
<1>1. PICK id \in DOMAIN b.l2 : TRUE
  OBVIOUS
<1>2. L2Dump(In, i, sid) \subseteq StartDump(i, sid)
  BY DEF StartDump
<1>3. L2Dump(In, i, sid)
        = UNION {{file(c, j) : j \in {k \in DOMAIN c.l2 : c.tg => Own(c, k) # {}}}
                 : c \in {x \in In : x.tg => "tg_dump" \in DumpFlags}}
  BY DEF L2Dump
<1>4. file(b, id) \in L2Dump(In, i, sid)
  <2> DEFINE all(c) == {file(c, j) : j \in {k \in DOMAIN c.l2 : c.tg => Own(c, k) # {}}}
  <2> HIDE DEF file, Own
  <2>1. id \in {k \in DOMAIN b.l2 : b.tg => Own(b, k) # {}}
    BY <1>1
  <2>2. b \in {x \in In : x.tg => "tg_dump" \in DumpFlags}
    OBVIOUS
  <2>3. file(b, id) \in all(b)
    BY <2>1
  <2> HIDE DEF all
  <2>4. all(b) \in {all(c) : c \in {x \in In : x.tg => "tg_dump" \in DumpFlags}}
    BY <2>2
  <2>5. L2Dump(In, i, sid) = UNION {all(c) : c \in {x \in In : x.tg => "tg_dump" \in DumpFlags}}
    BY <1>3 DEF all
  <2> HIDE DEF In
  <2> QED BY <2>3, <2>4, <2>5
<1>5. file(b, id).name = L2Name(sid, b, i, id)
  OBVIOUS
<1>6. /\ L2Name(sid, b, i, id)[1] = [level |-> "l2", batch |-> BatchOf(sid), layer |-> cur,
                                     type |-> b.type, it |-> i]
      /\ L2Name(sid, b, i, id)[2][1] = StampOf(sid)
  BY DEF L2Name, Path
<1> HIDE DEF file
<1> QED BY <1>2, <1>4, <1>5, <1>6

(* What is past after an observation was past before, or is it.            *)
LEMMA PastStep ==
  ASSUME TypeOK, SkipMode = "none", NEW sid \in Replica, Steps!Observe(sid),
         NEW r \in Replica, NEW l \in Layer, RunsReplica(l, r),
         NEW i \in 1 .. Iterations[l], Past(r, l, i)'
  PROVE  Past(r, l, i) \/ (r = sid /\ seen'[r] = [layer |-> l, it |-> i] /\ seen'[r] # seen[r])
<1> DEFINE o == Steps!NextObservation(sid)
           s == seen[sid]
<1>1. /\ seen \in [Replica -> Start] /\ seen' = [seen EXCEPT ![sid] = o]
      /\ l \in Int /\ l >= 0 /\ i \in Nat /\ i >= 1 /\ Iterations[l] \in Nat /\ i <= Iterations[l]
  BY StepsSchedule, ScheduleAssumption DEF TypeOK, SchedTypeOK, Steps!Observe, Layer
<1>2. CASE r # sid
  BY <1>1, <1>2 DEF Past
<1>3. CASE r = sid
  <2>1. seen'[r] = o /\ s.layer \in Int /\ s.it \in Nat
    BY <1>1, <1>3 DEF Start
  <2>2. l < o.layer \/ (l = o.layer /\ i <= o.it)
    BY <2>1 DEF Past
  <2>3. CASE s.layer >= 0 /\ s.it < Iterations[s.layer]
    <3>1. o = [layer |-> s.layer, it |-> s.it + 1]
      BY <2>3, NextObservationIs
    <3> QED BY <1>1, <1>3, <2>1, <2>2, <3>1 DEF Past
  <2>4. CASE ~(s.layer >= 0 /\ s.it < Iterations[s.layer])
    <3>1. o = [layer |-> NextLayerFor(StampOf(sid), s.layer + 1), it |-> 1]
      BY <2>4, NextObservationIs
    <3>2. CASE l <= s.layer
      BY <1>1, <1>3, <2>1, <2>4, <3>2 DEF Past
    <3>3. CASE l > s.layer
      <4>1. o.layer \in Layer /\ IsFirstLayer(StampOf(sid), s.layer + 1, o.layer)
        BY <3>1, StepsSchedule, NextLayerForFirst DEF Steps!Observe, IsFirstLayer
      <4>2. ~(l < o.layer)
        <5>1. SUFFICES ASSUME l < o.layer PROVE FALSE
          OBVIOUS
        <5>2. l \in s.layer + 1 .. o.layer - 1
          BY <1>1, <2>1, <3>3, <4>1, <5>1 DEF Layer
        <5>3. StampOf(sid) >= StampCount[l] /\ StampOf(sid) \in Nat /\ StampCount[l] \in Nat
          BY <4>1, <5>2, StampOfType, ScheduleAssumption DEF IsFirstLayer, Stamp
        <5> QED BY <1>3, <5>3 DEF RunsReplica
      <4>3. l = o.layer /\ i = 1
        BY <1>1, <2>2, <3>1, <4>2
      <4>4. seen'[r] = [layer |-> l, it |-> i]
        BY <2>1, <3>1, <4>3
      <4> QED BY <1>1, <1>3, <2>1, <3>3, <4>4
    <3> QED BY <1>1, <2>1, <3>2, <3>3
  <2> QED BY <2>3, <2>4
<1> QED BY <1>2, <1>3

(* get_next_layer_for_stamp finds a layer when there is one.               *)
LEMMA NoneLeft ==
  ASSUME NEW s \in Nat, NEW from \in Nat, NextLayerFor(s, from) = NoLayer,
         NEW l \in Layer, l >= from
  PROVE  ~(s < StampCount[l])
<1> DEFINE T == {k \in Layer : k >= from /\ s < StampCount[k]}
           R == {ss \in Nat \X Nat : ss[1] < ss[2]}
<1>1. SUFFICES ASSUME T # {} PROVE FALSE
  OBVIOUS
<1>2. T \subseteq Nat
  BY DEF Layer
<1>3. IsWellFoundedOn(R, Nat)
  BY NatLessThanWellFounded DEF OpToRel
<1>4. PICK m \in T : \A n \in T : ~(<<n, m>> \in R)
  BY <1>1, <1>2, <1>3, WFMin
<1>5. ASSUME NEW n \in T PROVE m <= n
  <2>1. <<n, m>> \in Nat \X Nat /\ <<n, m>>[1] = n /\ <<n, m>>[2] = m /\ n \in Nat /\ m \in Nat
    BY <1>2
  <2> QED BY <1>4, <2>1
<1>6. ASSUME NEW j \in from .. m - 1 PROVE s >= StampCount[j]
  <2>1. m \in Layer /\ m \in Nat /\ NumLayers \in Nat
    BY <1>4, ScheduleAssumption DEF Layer
  <2>2. j \in Layer /\ j >= from /\ j < m /\ j \in Nat
    BY <2>1 DEF Layer
  <2>3. j \notin T
    BY <1>5, <2>1, <2>2
  <2>4. StampCount[j] \in Nat
    BY <2>2, ScheduleAssumption
  <2> QED BY <2>2, <2>3, <2>4
<1>7. m \in Layer /\ IsFirstLayer(s, from, m)
  BY <1>4, <1>6 DEF IsFirstLayer
<1>8. NextLayerFor(s, from) \in Layer
  BY <1>7 DEF NextLayerFor
<1> QED BY <1>8, ScheduleAssumption DEF Layer, NoLayer

(* Once nothing is left to observe every start is past.                    *)
LEMMA AllPast ==
  ASSUME TypeOK, SkipMode = "none", NEW sid \in Replica,
         Steps!NextObservation(sid).layer = NoLayer,
         NEW l \in Layer, RunsReplica(l, sid), NEW i \in 1 .. Iterations[l]
  PROVE  Past(sid, l, i)
<1> DEFINE s == seen[sid]
<1>1. /\ s.layer \in Int /\ s.it \in Nat /\ l \in Int /\ l >= 0 /\ l # NoLayer /\ l < NoLayer
      /\ i \in Nat /\ i >= 1 /\ Iterations[l] \in Nat /\ i <= Iterations[l]
  BY ScheduleAssumption DEF TypeOK, SchedTypeOK, Start, Layer, NoLayer
<1>2. CASE s.layer >= 0 /\ s.it < Iterations[s.layer]
  <2>1. s.layer = NoLayer
    BY <1>2, NextObservationIs
  <2> QED BY <1>1, <2>1 DEF Past
<1>3. CASE ~(s.layer >= 0 /\ s.it < Iterations[s.layer])
  <2>1. NextLayerFor(StampOf(sid), s.layer + 1) = NoLayer
    BY <1>3, NextObservationIs
  <2>2. ~(l > s.layer)
    <3>1. StampOf(sid) \in Nat /\ s.layer + 1 \in Nat
      BY StampOfType DEF Stamp, TypeOK, SchedTypeOK, Start
    <3> QED BY <1>1, <2>1, <3>1, NoneLeft DEF RunsReplica
  <2> QED BY <1>1, <1>3, <2>2 DEF Past
<1> QED BY <1>2, <1>3

LEMMA InitDumps == DumpInit => DumpTracking
<1>1. SUFFICES ASSUME Init PROVE DumpTracking
  BY DEF DumpInit
<1>2. \A sid \in Replica : seen[sid] = [layer |-> -1, it |-> 0]
  BY <1>1 DEF Init, SchedInit
<1>3. \A l \in Layer : l \in Int /\ l >= 0
  BY DEF Layer
<1>4. phase # "success"
  BY <1>1 DEF Init, SchedInit
<1> QED BY <1>2, <1>3, <1>4 DEF DumpTracking, Past

LEMMA DumpedKept ==
  ASSUME DumpNext, NEW sid, NEW l, NEW i, NEW b, Dumped(sid, l, i, b)
  PROVE  Dumped(sid, l, i, b)'
<1>1. files \subseteq files'
  BY DEF DumpNext, WriteFiles
<1> QED BY <1>1 DEF Dumped

LEMMA NextDumps ==
  ASSUME SkipMode = "none", "skip_dump" \notin DumpFlags,
         TypeOK, MainTracking, WholeLayers, SeenTracking, DumpTracking, [DumpNext]_dumpVars
  PROVE  DumpTracking'
<1>1. [Steps!Next]_Steps!vars
  BY DumpStep, NextImplements
<1>2. CASE UNCHANGED dumpVars
  <2>1. UNCHANGED <<seen, files, phase>>
    BY <1>2 DEF dumpVars, vars, schedVars, mainVars
  <2>2. \A sid \in Replica : Steps!NextObservation(sid)' = Steps!NextObservation(sid)
    BY <2>1, SeenFrame
  <2>3. \A sid, l, i, b : (Past(sid, l, i)' <=> Past(sid, l, i)) /\ (Dumped(sid, l, i, b)' <=> Dumped(sid, l, i, b))
    BY <2>1 DEF Past, Dumped
  <2> QED
    BY <2>1, <2>2, <2>3 DEF DumpTracking
<1>3. CASE DumpNext
  <2>1. Next /\ WriteFiles
    BY <1>3 DEF DumpNext
  <2>2. ASSUME NEW sid \in Replica, NEW l \in Layer, RunsReplica(l, sid),
               NEW i \in 1 .. Iterations[l], NEW b \in InBuffers[l],
               Past(sid, l, i)', InputsArrive(l, i), ~b.tg, DOMAIN b.l2 # {}
        PROVE  Dumped(sid, l, i, b)'
    <3>1. CASE Past(sid, l, i)
      BY <1>3, <2>2, <3>1, DumpedKept DEF DumpTracking
    <3>2. CASE ~Past(sid, l, i)
      <4>1. seen' # seen
        BY <2>2, <3>2 DEF Past
      <4>2. PICK r \in Replica : Steps!Observe(r)
        BY <1>1, <4>1, StepsSchedule DEF Steps!Next, Steps!Succeed, Steps!Stop, Steps!vars
      <4>3. seen'[sid] = [layer |-> l, it |-> i] /\ seen'[sid] # seen[sid]
        BY <2>2, <3>2, <4>2, PastStep
      <4>4. l = cur
        BY <2>1, <4>3, ReachedNow
      <4>5. PICK f \in StartDump(i, sid) :
              /\ f.name[1] = [level |-> "l2", batch |-> BatchOf(sid), layer |-> cur,
                              type |-> b.type, it |-> i]
              /\ f.name[2][1] = StampOf(sid)
        BY <2>2, <4>4, StartDumpsInput
      <4>6. sid \in Reached /\ seen'[sid].it = i
        BY <4>3 DEF Reached
      <4>7. f \in files'
        BY <2>1, <4>6 DEF WriteFiles
      <4> QED BY <4>4, <4>5, <4>7 DEF Dumped
    <3> QED BY <3>1, <3>2
  <2>3. ASSUME phase' = "success", NEW sid \in Replica
        PROVE  Steps!NextObservation(sid)'.layer = NoLayer
    <3>1. CASE phase = "success"
      <4>1. UNCHANGED seen
        BY <1>1, <3>1 DEF Steps!Next, Steps!Observe, Steps!Succeed, Steps!Stop, Steps!vars
      <4> QED BY <3>1, <4>1, SeenFrame DEF DumpTracking
    <3>2. CASE phase # "success"
      <4>1. FinishRun
        BY <2>1, <2>3, <3>2, ThreadFrame
        DEF Next, MainStep, ScheduleLayerStart, ContinueArmed, PollStamps, VerifyStamp, AfterVerify,
            RunWholeLayer, RunLayer, JoinLayer, AdvanceLayer, schedVars, mainVars
      <4>2. phase = "end" /\ UNCHANGED seen
        BY <4>1 DEF FinishRun
      <4> QED BY <4>2, SeenFrame DEF SeenTracking
    <3> QED BY <3>1, <3>2
  <2> QED BY <2>2, <2>3 DEF DumpTracking
<1> QED BY <1>2, <1>3

(* The iteration a transfer is dumped at.                                  *)
LEMMA TransferStarts ==
  ASSUME NEW l \in Layer, NEW k \in 0 .. Transfers[l] - 1
  PROVE  /\ k * BufferIter(l) + 1 \in 1 .. Iterations[l]
         /\ InputsArrive(l, k * BufferIter(l) + 1)
<1> DEFINE q == BufferIter(l)
           N == Iterations[l]
           M == Transfers[l]
<1>1. N \in Nat /\ M \in Nat /\ 1 <= M /\ M <= N /\ k \in Nat /\ k + 1 <= M
  BY DumpAssumption, ScheduleAssumption
<1>2. q \in Nat /\ q * M <= N /\ N < q * M + M
  BY <1>1 DEF BufferIter
<1> HIDE DEF q
<1>3. q # 0
  BY <1>1, <1>2
<1>4. k * q \in Nat /\ k * q + q = (k + 1) * q /\ (k + 1) * q <= M * q /\ M * q = q * M
  BY <1>1, <1>2, MulMonotone, MulNext
<1>5. k * q + 1 \in 1 .. N
  <2>1. q * M \in Nat
    BY <1>1, <1>2
  <2> QED BY <1>1, <1>2, <1>3, <1>4, <2>1
<1>6. (k * q) \div q = k
  <2>1. k * q <= k * q /\ k * q < k * q + q
    BY <1>2, <1>3, <1>4
  <2> QED BY <1>1, <1>2, <1>3, <1>4, <2>1, QuotientIs
<1>7. (k * q) % q = 0
  <2>1. k * q = q * ((k * q) \div q) + ((k * q) % q)
    BY <1>2, <1>3, <1>4
  <2>2. k * q = q * k /\ (k * q) % q \in Int
    BY <1>1, <1>2, <1>3
  <2> QED BY <1>4, <1>6, <2>1, <2>2
<1>8. (k * q + 1) - 1 = k * q
  BY <1>4
<1>9. InputsArrive(l, k * q + 1)
  <2>1. ((k * q + 1) - 1) % q = 0
    BY <1>7, <1>8
  <2>2. InputsArrive(l, k * q + 1) <=> ((k * q + 1) - 1) % q = 0
    BY DEF InputsArrive, q
  <2> QED BY <2>1, <2>2
<1>10. k * q + 1 \in 1 .. Iterations[l] /\ InputsArrive(l, k * q + 1)
  BY <1>5, <1>9
<1> QED BY <1>10 DEF q

(* A run that reports success has dumped every transfer of the input, in   *)
(* every design without a skip mode, whatever the cores do.                *)
THEOREM TransfersDumped == DumpSpec => []EveryTransferDumped
<1>1. CASE SkipMode = "none" /\ "skip_dump" \notin DumpFlags
  <2>1. DumpInit => DumpTracking
    BY InitDumps
  <2>2. TypeOK /\ (MainTracking /\ WholeLayers) /\ SeenTracking /\ DumpTracking /\ [DumpNext]_dumpVars
          => DumpTracking'
    BY <1>1, NextDumps
  <2>3. TypeOK /\ DumpTracking => EveryTransferDumped
    <3>1. SUFFICES ASSUME TypeOK, DumpTracking, phase = "success",
                          NEW l \in Layer, NEW sid \in Replica, RunsReplica(l, sid),
                          NEW k \in 0 .. Transfers[l] - 1, NEW b \in InBuffers[l],
                          ~b.tg, DOMAIN b.l2 # {}
                   PROVE  Dumped(sid, l, k * BufferIter(l) + 1, b)
      BY DEF EveryTransferDumped, Dumped, BufferIter
    <3>2. k * BufferIter(l) + 1 \in 1 .. Iterations[l] /\ InputsArrive(l, k * BufferIter(l) + 1)
      BY TransferStarts
    <3>3. Past(sid, l, k * BufferIter(l) + 1)
      BY <1>1, <3>1, <3>2, AllPast DEF DumpTracking
    <3> QED BY <3>1, <3>2, <3>3 DEF DumpTracking
  <2> QED BY <2>1, <2>2, <2>3, DumpsRun, TypeCorrect, MainCorrect, SeenCorrect, PTL DEF DumpSpec
<1>2. CASE ~(SkipMode = "none" /\ "skip_dump" \notin DumpFlags)
  <2>1. EveryTransferDumped
    BY <1>2 DEF EveryTransferDumped
  <2> QED BY <2>1, PTL
<1> QED BY <1>1, <1>2

-----------------------------------------------------------------------------
(* L3 buffers are asked for in turn.                                       *)

(* Nothing is left of the replica's program but to run out.                *)
Gone(sid) == at[sid].layer = NoLayer \/ NextStart(sid).layer = NoLayer

(* The controller lets go of a replica that has a layer left, or loses     *)
(* sight of one, at no time.                                               *)
TurnTracking ==
  phase \notin {"end", "success", "exited", "fail"} =>
    \A sid \in Replica : mode[sid] = "off" \/ TargetLayer(sid) = NoLayer => Gone(sid)

LEMMA GoneFrame ==
  ASSUME NEW sid, at'[sid] = at[sid]
  PROVE  Gone(sid)' <=> Gone(sid)
BY DEF Gone, NextStart

(* A core that only has to run out has no start left to come to.           *)
LEMMA GoneCore ==
  ASSUME TypeOK, NEW r \in Replica, CoreStep(r), NEW sid \in Replica, Gone(sid)
  PROVE  Gone(sid)'
<1>1. at \in [Replica -> Start] /\ at[sid].layer \in Int /\ at[sid].it \in Int
  BY DEF TypeOK, SchedTypeOK, CoreTypeOK, Start
<1>2. CASE CoreStart(r)
  <2>1. at[r].layer # NoLayer /\ at' = [at EXCEPT ![r] = NextStart(r)]
    BY <1>2 DEF CoreStart, Running
  <2>2. CASE sid = r
    <3>1. at'[sid].layer = NoLayer
      BY <1>1, <2>1, <2>2 DEF Gone
    <3> QED BY <3>1 DEF Gone
  <2>3. CASE sid # r
    BY <1>1, <2>1, <2>3, GoneFrame
  <2> QED BY <2>2, <2>3
<1>3. CASE CorePostLayer(r)
  <2>1. at' = [at EXCEPT ![r] = [layer |-> at[r].layer, it |-> at[r].it + 1]]
        /\ at[r].layer \in Layer /\ at[r].it = Iterations[at[r].layer]
    BY <1>3 DEF CorePostLayer, AtPostLayer
  <2> QED BY <1>1, <2>1, ScheduleAssumption DEF Gone, NextStart
<1>4. CASE CoreAlias(r)
  BY <1>4, GoneFrame DEF CoreAlias
<1> QED BY <1>2, <1>3, <1>4 DEF CoreStep

(* Halted at the last iteration of the last layer it runs.                 *)
LEMMA GoneAtLast ==
  ASSUME cur \in Layer, NEW sid \in Replica, HaltedAt(sid, cur, Iterations[cur]),
         NextLayerFor(StampOf(sid), cur + 1) = NoLayer
  PROVE  Gone(sid)
BY ScheduleAssumption DEF HaltedAt, Gone, NextStart

LEMMA NextTurn ==
  ASSUME TypeOK, MainTracking, WholeLayers, Tracking, TurnTracking, [Next]_vars
  PROVE  TurnTracking'
<1> DEFINE Ended == phase \in {"end", "success", "exited", "fail"}
           Off(sid) == mode[sid] = "off" \/ TargetLayer(sid) = NoLayer
<1>1. SchedTypeOK /\ cur \in Layer /\ cur # NoLayer /\ SkipMode = "none"
      /\ mode \in [Replica -> {"off", "pc", "combo", "count"}]
  BY ScheduleAssumption DEF TypeOK, SchedTypeOK, CoreTypeOK, Tracking, Tracked, Layer, NoLayer
<1>2. SUFFICES ASSUME ~Ended', NEW sid \in Replica, Off(sid)' PROVE Gone(sid)'
  BY DEF TurnTracking
<1>3. ~Ended
  BY <1>2, ThreadFrame
  DEF Next, MainStep, ScheduleLayerStart, ContinueArmed, PollStamps, VerifyStamp, RunWholeLayer,
      JoinLayer, AdvanceLayer, FinishRun, vars, schedVars, mainVars
<1>4. Off(sid) => Gone(sid)
  BY <1>3 DEF TurnTracking
<1>5. CASE /\ UNCHANGED <<at, cur>>
           /\ mode'[sid] = "off" => mode[sid] = "off"
  <2>1. TargetLayer(sid)' = TargetLayer(sid)
    BY <1>5 DEF TargetLayer
  <2> QED BY <1>2, <1>4, <1>5, <2>1, GoneFrame
<1>6. CASE ScheduleLayerStart
  BY <1>1, <1>5, <1>6 DEF ScheduleLayerStart
<1>7. CASE ContinueArmed \/ PollStamps \/ RunWholeLayer
  BY <1>5, <1>7 DEF ContinueArmed, PollStamps, RunWholeLayer, RunLayer, coreVars
<1>8. ASSUME NEW r \in Replica, VerifyStamp(r) PROVE Gone(sid)'
  BY <1>1, <1>5, <1>8 DEF VerifyStamp
<1>9. CASE JoinLayer
  <2>1. UNCHANGED <<at, cur>> /\ TargetLayer(sid)' = TargetLayer(sid) /\ phase = "threads"
        /\ ~error /\ \A r \in active : thread[r] = "done"
        /\ target = NumIter(cur) /\ NumIter(cur) = Iterations[cur]
    BY <1>1, <1>2, <1>9 DEF JoinLayer, RunFailed, Joined, TargetLayer, WholeLayers, NumIter
  <2>2. CASE Off(sid)
    BY <1>4, <2>1, <2>2, GoneFrame
  <2>3. CASE ~Off(sid)
    <3>1. sid \in Finished
      BY <1>1, <1>2, <1>9, <2>1, <2>3 DEF JoinLayer, Release
    <3>2. NextLayerFor(StampOf(sid), cur + 1) = NoLayer
      BY <3>1 DEF Finished
    <3>3. TargetLayer(sid) = cur
      BY <1>1, <2>3, <3>2, TargetKept
    <3>4. SteppedByThread(sid) /\ sid \in active
      BY <1>1, <1>3, <2>1, <3>3 DEF Tracking, CoreTracking, ReplicaTracking, MainTracking
    <3>5. HaltedAt(sid, cur, Iterations[cur])
      BY <2>1, <2>3, <3>4 DEF SteppedByThread, LetGo
    <3> QED BY <1>1, <2>1, <3>2, <3>5, GoneAtLast, GoneFrame
  <2> QED BY <2>2, <2>3
<1>10. CASE AdvanceLayer
  <2>1. /\ UNCHANGED <<at, mode>> /\ phase = "ran" /\ cur' = cur + 1 /\ cur' \in Layer
        /\ target = NumIter(cur) /\ NumIter(cur) = Iterations[cur]
    BY <1>1, <1>2, <1>10, ScheduleAssumption
    DEF AdvanceLayer, WholeLayers, NumIter, coreVars, HasNextLayer, Layer
  <2>2. CASE Off(sid)
    BY <1>4, <2>1, <2>2, GoneFrame
  <2>3. CASE ~Off(sid)
    <3>1. TargetLayer(sid)' = NoLayer /\ mode[sid] # "off"
      BY <1>2, <2>1, <2>3
    <3>2. TargetLayer(sid)' = NextLayerFor(StampOf(sid), cur + 1)
      BY <1>1, <2>1, TargetAfter
    <3>3. TargetLayer(sid) = cur
      BY <1>1, <2>3, <3>1, <3>2, TargetKept
    <3>4. SteppedTo(sid, target)
      BY <1>1, <1>3, <2>1, <3>3 DEF Tracking, CoreTracking, ReplicaTracking, MainTracking
    <3>5. HaltedAt(sid, cur, Iterations[cur])
      BY <2>1, <3>1, <3>4 DEF SteppedTo, LetGo
    <3> QED BY <1>1, <2>1, <3>1, <3>2, <3>5, GoneAtLast, GoneFrame
  <2> QED BY <2>2, <2>3
<1>11. CASE FinishRun
  BY <1>3, <1>11 DEF FinishRun
<1>12. ASSUME NEW r \in Replica, ThreadStep(r) PROVE Gone(sid)'
  <2>1. UNCHANGED <<at, mode, cur>>
    BY <1>1, <1>12
    DEF ThreadStep, ThreadContinue, ThreadHit, ThreadReachesTarget, ThreadSkipsNothing,
        ThreadCount, ThreadCounted, ThreadToLock, ThreadAtLock, ThreadReturn, ThreadCollected,
        coreVars, mainVars
  <2> QED BY <1>5, <2>1
<1>13. ASSUME NEW r \in Replica, CoreStep(r), UNCHANGED schedVars PROVE Gone(sid)'
  <2>1. UNCHANGED <<mode, cur>>
    BY <1>13, CoreStepRuns DEF schedVars, mainVars
  <2>2. Off(sid)
    BY <1>2, <2>1 DEF TargetLayer
  <2> QED BY <1>4, <1>13, <2>2, GoneCore
<1>14. CASE UNCHANGED vars
  BY <1>5, <1>14 DEF vars, coreVars, schedVars, mainVars
<1> QED
  BY <1>6, <1>7, <1>8, <1>9, <1>10, <1>11, <1>12, <1>13, <1>14 DEF Next, MainStep

(* While the replicas are verified or stepped none is behind.              *)
LEMMA NobodyBehind ==
  ASSUME TypeOK, MainTracking, Tracking, TurnTracking, phase \in {"verify", "threads"}, ~error,
         NEW sid \in Replica, at[sid].layer < cur
  PROVE  NextStart(sid).layer >= cur
<1>1. SchedTypeOK /\ cur \in Layer /\ cur # NoLayer /\ cur < NoLayer /\ NoLayer \in Int /\ cur \in Int
      /\ at[sid].layer \in Int
  <2>1. SchedTypeOK /\ cur \in Layer /\ NumLayers \in Nat
    BY ScheduleAssumption DEF TypeOK
  <2>2. at[sid] \in Start
    BY <2>1 DEF SchedTypeOK, CoreTypeOK
  <2>3. at[sid].layer \in Int
    BY <2>2 DEF Start
  <2> QED BY <2>1, <2>3 DEF Layer, NoLayer
<1>2. CASE Gone(sid)
  BY <1>1, <1>2 DEF Gone
<1>3. CASE ~Gone(sid)
  <2>1. mode[sid] # "off" /\ TargetLayer(sid) # NoLayer
    BY <1>3 DEF TurnTracking
  <2>2. TargetLayer(sid) \in Layer /\ TargetLayer(sid) >= cur
    BY <1>1, <2>1, TargetFacts
  <2>3. ReplicaTracking(sid) /\ ~LetGo(sid)
    BY <2>1 DEF Tracking, CoreTracking, LetGo
  <2>4. ~HaltedAt(sid, cur, 1) /\ \A i : ~HaltedAt(sid, cur, i) /\ at[sid] # [layer |-> cur, it |-> i]
    BY <1>1 DEF HaltedAt
  <2>5. ~SteppedTo(sid, 1)
    BY <2>3, <2>4 DEF SteppedTo
  <2>6. ~SteppedByThread(sid)
    BY <1>1, <2>3, <2>4 DEF SteppedByThread, SchedTypeOK
  <2>7. Armed(sid)
    BY <2>3, <2>5, <2>6 DEF ReplicaTracking
  <2>8. HeadsFor(sid, TargetLayer(sid))
    BY <1>1, <2>2, <2>7 DEF Armed, HaltedAt, Layer
  <2> QED BY <2>2, <2>8 DEF HeadsFor
<1> QED BY <1>2, <1>3

(* In a tracked design, when no wait gives up, the L3 buffers of a layer   *)
(* are asked for when no replica has a start left in an earlier layer.     *)
THEOREM RequestsInTurn ==
  ASSUME Tracked
  PROVE  DumpSpec => RequestedInTurn
<1>1. DumpInit => TurnTracking
  <2>1. SUFFICES ASSUME Init, NEW sid \in Replica, TargetLayer(sid) = NoLayer PROVE Gone(sid)
    BY DEF DumpInit, TurnTracking, Init, SchedInit, CoreInit
  <2>2. cur \in Layer /\ cur = 0 /\ at[sid] = [layer |-> -1, it |-> 0]
    BY <2>1, ScheduleAssumption DEF Init, SchedInit, CoreInit, Layer
  <2> QED BY <2>1, <2>2, TargetIsNext DEF Gone, NextStart
<1>2. TypeOK /\ (MainTracking /\ WholeLayers) /\ Tracking /\ TurnTracking /\ [DumpNext]_dumpVars
        => TurnTracking'
  BY DumpStep, NextTurn
<1>3. TypeOK /\ (MainTracking /\ WholeLayers) /\ Tracking /\ TurnTracking /\ [DumpNext]_dumpVars
        => [requests' # requests =>
              \A sid \in Replica : at[sid].layer < cur => NextStart(sid).layer >= cur]_dumpVars
  <2>1. SUFFICES ASSUME TypeOK, MainTracking, Tracking, TurnTracking, DumpNext, requests' # requests,
                        NEW sid \in Replica, at[sid].layer < cur
                 PROVE  NextStart(sid).layer >= cur
    OBVIOUS
  <2>2. ~error /\ (StartRequest \/ WorkerRequest) /\ Next
    BY <2>1 DEF DumpNext, RequestL3
  <2>3. phase \in {"verify", "threads"}
    <3>1. CASE WorkerRequest
      BY <2>1, <3>1, ScheduleAssumption DEF WorkerRequest, MainTracking, Replica
    <3>2. CASE StartRequest
      <4>1. seen' # seen
        BY <3>2 DEF StartRequest, Reached
      <4> QED
        BY <2>1, <2>2, <4>1, ThreadFrame
        DEF Next, MainStep, ScheduleLayerStart, ContinueArmed, PollStamps, VerifyStamp,
            RunWholeLayer, RunLayer, JoinLayer, AdvanceLayer, FinishRun, schedVars
    <3> QED BY <2>2, <3>1, <3>2
  <2> QED BY <2>1, <2>2, <2>3, NobodyBehind
<1> QED
  BY <1>1, <1>2, <1>3, DumpsRun, TypeCorrect, MainCorrect, TrackingCorrect, PTL
  DEF DumpSpec, RequestedInTurn

-----------------------------------------------------------------------------
(* A file holds what its path says.                                        *)

(* The file of buffer b, region id, of replica sid at iteration n of       *)
(* layer l: output is read an iteration after the one it is named for.     *)
ReadAt(l, b, n) == n + IF b \in OutBuffers[l] THEN 1 ELSE 0

TrueL2(l, sid, n, b, id) ==
  [name |-> <<[level |-> "l2", batch |-> BatchOf(sid), layer |-> l, type |-> b.type, it |-> n],
              IF b.tg THEN <<"entry", id>> ELSE <<StampOf(sid), id>>>>,
   data |-> {[col |-> Column(b, p, sid), addr |-> p.addr, size |-> p.size,
              of |-> [layer |-> l, it |-> ReadAt(l, b, n)]] : p \in Pieces(b.l2[id])}]

TrueL1(l, sid, n, b, col) ==
  [name |-> <<[level |-> "l1", batch |-> BatchOf(sid), layer |-> l, type |-> b.type, it |-> n], col>>,
   data |-> {[col |-> col, addr |-> IF n % 2 = 1 THEN "ping" ELSE "pong", size |-> 0,
              of |-> [layer |-> l, it |-> n]]}]

IsTrueL2(f) ==
  \E l \in Layer, sid \in Replica, n \in Int : \E b \in Buffers(l) : \E id \in DOMAIN b.l2 :
    /\ f = TrueL2(l, sid, n, b, id)
    /\ b.tg => b.l2[id].col \div Columns = sid

IsTrueL1(f) ==
  \E l \in Layer, sid \in Replica, n \in Int : \E b \in Buffers(l), col \in ColumnsOf(sid) :
    f = TrueL1(l, sid, n, b, col)

FileTracking == \A f \in files : IsTrueL1(f) \/ IsTrueL2(f)

LEMMA RegionOf ==
  ASSUME NEW l \in Layer, NEW b \in Buffers(l), NEW id \in DOMAIN b.l2
  PROVE  /\ IsRegion(b.l2[id])
         /\ \A p \in Pieces(b.l2[id]) :
              /\ p.col \in Nat
              /\ IF b.tg THEN p.col \div Columns = b.l2[id].col \div Columns ELSE p.col < Columns
<1>1. IsRegion(b.l2[id])
  BY BuffersAssumption DEF IsRegion
<1>2. ASSUME NEW p \in Pieces(b.l2[id]) PROVE p.col \in Nat
  <2> DEFINE r == b.l2[id]
  <2>1. \E j \in Nat : p.col = r.col + j
    BY <1>1 DEF Pieces, IsRegion
  <2> QED BY <1>1, <2>1 DEF IsRegion
<1> QED BY <1>1, <1>2, BuffersAssumption

(* A column is in the replica its number says.                             *)
LEMMA ColumnIn ==
  ASSUME NEW sid \in Nat, NEW col \in Nat
  PROVE  /\ col \div Columns = sid => col \in ColumnsOf(sid)
         /\ col < Columns => col + sid * Columns \in ColumnsOf(sid)
<1>1. Columns \in Nat \ {0}
  BY DumpAssumption
<1>2. sid * Columns \in Nat /\ (sid + 1) * Columns = sid * Columns + Columns
  BY <1>1, MulNat, MulNext
<1>3. (col \div Columns) * Columns <= col /\ col < (col \div Columns) * Columns + Columns
  BY <1>1
<1> QED BY <1>1, <1>2, <1>3 DEF ColumnsOf

(* What dump_memory_l2 leaves of a replica halted at the start it reports. *)
LEMMA L2DumpTrue ==
  ASSUME cur \in Layer, NEW sid \in Replica, NEW n \in Int, NEW buffers,
         buffers \subseteq Buffers(cur),
         \A b \in buffers : at[sid] = [layer |-> cur, it |-> ReadAt(cur, b, n)],
         NEW f \in L2Dump(buffers, n, sid)
  PROVE  IsTrueL2(f)
<1> DEFINE Own(b, id) == {p \in Pieces(b.l2[id]) : Column(b, p, sid) \in ColumnsOf(sid)}
           file(b, id) == [name |-> L2Name(sid, b, n, id),
                           data |-> {Read(Column(b, p, sid), p.addr, p.size) : p \in Own(b, id)}]
<1>1. \E b \in buffers : \E id \in DOMAIN b.l2 :
        /\ b.tg => Own(b, id) # {}
        /\ f = file(b, id)
  <2> DEFINE all(b) == {file(b, id) : id \in {i \in DOMAIN b.l2 : b.tg => Own(b, i) # {}}}
  <2>1. L2Dump(buffers, n, sid) = UNION {all(b) : b \in {x \in buffers : x.tg => "tg_dump" \in DumpFlags}}
    BY DEF L2Dump
  <2> HIDE DEF all
  <2>2. PICK b \in buffers : f \in all(b)
    BY <2>1
  <2> HIDE DEF file, Own
  <2>3. \E id \in {i \in DOMAIN b.l2 : b.tg => Own(b, i) # {}} : f = file(b, id)
    BY <2>2 DEF all
  <2> QED BY <2>3
<1>2. PICK b \in buffers : \E id \in DOMAIN b.l2 : (b.tg => Own(b, id) # {}) /\ f = file(b, id)
  BY <1>1
<1>3. PICK id \in DOMAIN b.l2 : (b.tg => Own(b, id) # {}) /\ f = file(b, id)
  BY <1>2
<1> DEFINE P == Pieces(b.l2[id])
<1>4. b \in Buffers(cur) /\ sid \in Nat /\ at[sid] = [layer |-> cur, it |-> ReadAt(cur, b, n)]
  BY ReplicaIs
<1>5. \A p \in P :
        /\ p.col \in Nat
        /\ IF b.tg THEN p.col \div Columns = b.l2[id].col \div Columns ELSE p.col < Columns
  BY <1>4, RegionOf
<1>6. b.tg => b.l2[id].col \div Columns = sid
  <2>1. SUFFICES ASSUME b.tg PROVE b.l2[id].col \div Columns = sid
    OBVIOUS
  <2>2. PICK p \in P : p.col \in ColumnsOf(sid)
    BY <1>3, <2>1 DEF Column
  <2> QED BY <1>4, <1>5, <2>1, <2>2, ColumnsAreOwn
<1>7. ASSUME NEW p \in P
      PROVE  /\ Column(b, p, sid) \in ColumnsOf(sid)
             /\ Read(Column(b, p, sid), p.addr, p.size)
                  = [col |-> Column(b, p, sid), addr |-> p.addr, size |-> p.size,
                     of |-> [layer |-> cur, it |-> ReadAt(cur, b, n)]]
  <2>1. Column(b, p, sid) \in ColumnsOf(sid)
    BY <1>4, <1>5, <1>6, ColumnIn DEF Column
  <2>2. Column(b, p, sid) \div Columns = sid
    BY <1>4, <2>1, ColumnsAreOwn
  <2> QED BY <1>4, <2>1, <2>2 DEF Read
<1>8. Own(b, id) = P
  BY <1>7
<1>9. {Read(Column(b, p, sid), p.addr, p.size) : p \in P}
        = {[col |-> Column(b, p, sid), addr |-> p.addr, size |-> p.size,
            of |-> [layer |-> cur, it |-> ReadAt(cur, b, n)]] : p \in P}
  <2> HIDE DEF P
  <2> QED BY <1>7
<1>10. L2Name(sid, b, n, id)
         = <<[level |-> "l2", batch |-> BatchOf(sid), layer |-> cur, type |-> b.type, it |-> n],
             IF b.tg THEN <<"entry", id>> ELSE <<StampOf(sid), id>>>>
  BY DEF L2Name, Path
<1>11. f = TrueL2(cur, sid, n, b, id)
  BY <1>3, <1>8, <1>9, <1>10 DEF TrueL2
<1> QED BY <1>4, <1>6, <1>11 DEF IsTrueL2

LEMMA L1DumpTrue ==
  ASSUME cur \in Layer, NEW sid \in Replica, NEW n \in Int, NEW buffers,
         buffers \subseteq Buffers(cur), at[sid] = [layer |-> cur, it |-> n],
         NEW f \in L1Dump(buffers, n, sid)
  PROVE  IsTrueL1(f)
<1>1. PICK b \in buffers, col \in ColumnsOf(sid) :
        f = [name |-> <<Path("l1", sid, b, n), col>>,
             data |-> {Read(col, IF n % 2 = 1 THEN "ping" ELSE "pong", 0)}]
  BY DEF L1Dump
<1>2. col \div Columns = sid
  BY ReplicaIs, ColumnsAreOwn
<1>3. f = TrueL1(cur, sid, n, b, col)
  BY <1>1, <1>2 DEF TrueL1, Path, Read
<1> QED BY <1>3 DEF IsTrueL1

(* The files of a start breakpoint, of a replica that is at that start.    *)
LEMMA StartDumpTrue ==
  ASSUME cur \in Layer, NEW sid \in Replica, NEW i \in Int, at[sid] = [layer |-> cur, it |-> i],
         NEW f \in StartDump(i, sid)
  PROVE  IsTrueL1(f) \/ IsTrueL2(f)
<1> DEFINE In == (IF InputsArrive(cur, i) THEN InBuffers[cur] ELSE {}) \cup WtsBuffers[cur]
           In1 == InBuffers[cur] \cup WtsBuffers[cur]
           Out == OutBuffers[cur]
<1>1. In \subseteq Buffers(cur) /\ In1 \subseteq Buffers(cur) /\ Out \subseteq Buffers(cur)
      /\ In \cap Out = {}
  BY BuffersAssumption DEF Buffers
<1>2. f \in L2Dump(In, i, sid) \/ f \in L1Dump(In1, i, sid) \/ f \in L2Dump(Out, i - 1, sid)
  BY DEF StartDump
<1>3. \A b \in In : ReadAt(cur, b, i) = i
  BY <1>1 DEF ReadAt
<1>4. \A b \in Out : ReadAt(cur, b, i - 1) = i
  BY DEF ReadAt
<1> HIDE DEF In, In1, Out
<1>5. CASE f \in L2Dump(In, i, sid)
  BY <1>1, <1>3, <1>5, L2DumpTrue
<1>6. CASE f \in L1Dump(In1, i, sid)
  BY <1>1, <1>6, L1DumpTrue
<1>7. CASE f \in L2Dump(Out, i - 1, sid)
  BY <1>1, <1>4, <1>7, L2DumpTrue
<1> QED BY <1>2, <1>5, <1>6, <1>7

LEMMA NextFiles ==
  ASSUME TypeOK, MainTracking, WholeLayers, Tracking, FileTracking, [DumpNext]_dumpVars
  PROVE  FileTracking'
<1>1. CASE UNCHANGED dumpVars
  BY <1>1 DEF dumpVars, FileTracking, IsTrueL1, IsTrueL2
<1>2. CASE DumpNext
  <2>1. SUFFICES ASSUME NEW f \in files', f \notin files PROVE IsTrueL1(f) \/ IsTrueL2(f)
    BY DEF FileTracking, IsTrueL1, IsTrueL2
  <2>2. Next /\ WriteFiles
    BY <1>2 DEF DumpNext
  <2>3. PICK sid \in Reached : f \in StartDump(seen'[sid].it, sid)
    BY <2>1, <2>2 DEF WriteFiles
  <2>4. sid \in Replica /\ seen'[sid] # seen[sid]
    BY <2>3 DEF Reached
  <2>5. seen'[sid] = at[sid] /\ at[sid].layer = cur
    BY <2>2, <2>4, ObservationHolds, ReachedNow
  <2>6. cur \in Layer /\ at[sid] \in Start
    BY <2>4 DEF TypeOK, SchedTypeOK, CoreTypeOK
  <2>7. at[sid].it \in Int /\ at[sid] = [layer |-> cur, it |-> at[sid].it]
    BY <2>5, <2>6 DEF Start
  <2> QED BY <2>3, <2>4, <2>5, <2>6, <2>7, StartDumpTrue
<1> QED BY <1>1, <1>2

(* The path of an L2 file tells the buffer, the region and the replica.    *)
LEMMA NameTells ==
  ASSUME NEW l \in Layer, NEW sid \in Replica, NEW n \in Int, NEW b \in Buffers(l), NEW id \in DOMAIN b.l2,
         NEW k \in Layer, NEW r \in Replica, NEW m \in Int, NEW c \in Buffers(k), NEW jd \in DOMAIN c.l2,
         b.tg => b.l2[id].col \div Columns = sid,
         c.tg => c.l2[jd].col \div Columns = r,
         TrueL2(l, sid, n, b, id).name = TrueL2(k, r, m, c, jd).name
  PROVE  l = k /\ sid = r /\ n = m /\ b = c /\ id = jd
<1>1. /\ BatchOf(sid) = BatchOf(r) /\ l = k /\ b.type = c.type /\ n = m
      /\ (IF b.tg THEN <<"entry", id>> ELSE <<StampOf(sid), id>>)
           = (IF c.tg THEN <<"entry", jd>> ELSE <<StampOf(r), jd>>)
  BY DEF TrueL2
<1>2. b = c
  BY <1>1, BuffersAssumption
<1>3. id = jd /\ (~b.tg => StampOf(sid) = StampOf(r))
  BY <1>1, <1>2
<1>4. sid = r
  BY <1>1, <1>2, <1>3, ReplicaIs
<1> QED BY <1>1, <1>2, <1>3, <1>4

HoldsItsName(f) ==
  LET p   == f.name[1]
      b   == CHOOSE x \in Buffers(p.layer) : x.type = p.type
      r   == b.l2[f.name[2][2]]
      col == IF b.tg THEN r.col
             ELSE r.col + (p.batch * StampsPerBatch + f.name[2][1]) * Columns
      i   == p.it + IF b \in OutBuffers[p.layer] THEN 1 ELSE 0
  IN  /\ BytesRead(f) = Bytes(col, r.addr, r.size)
      /\ \A x \in f.data : x.of = [layer |-> p.layer, it |-> i]

LEMMA TrueL2Holds ==
  ASSUME NEW l \in Layer, NEW sid \in Replica, NEW n \in Int, NEW b \in Buffers(l), NEW id \in DOMAIN b.l2,
         NEW f, f = TrueL2(l, sid, n, b, id)
  PROVE  HoldsItsName(f)
<1> DEFINE r == b.l2[id]
           shift == IF b.tg THEN 0 ELSE sid * Columns
<1>1. /\ f.name[1] = [level |-> "l2", batch |-> BatchOf(sid), layer |-> l, type |-> b.type, it |-> n]
      /\ f.name[2] = IF b.tg THEN <<"entry", id>> ELSE <<StampOf(sid), id>>
      /\ f.data = {[col |-> Column(b, p, sid), addr |-> p.addr, size |-> p.size,
                    of |-> [layer |-> l, it |-> ReadAt(l, b, n)]] : p \in Pieces(r)}
  BY DEF TrueL2
<1>2. (CHOOSE x \in Buffers(l) : x.type = b.type) = b
  BY BuffersAssumption
<1>3. f.name[2][2] = id /\ (~b.tg => f.name[2][1] = StampOf(sid))
  BY <1>1
<1>4. sid = BatchOf(sid) * StampsPerBatch + StampOf(sid) /\ sid \in Nat
  BY ReplicaIs
<1>5. shift \in Nat /\ IsRegion(r)
  BY <1>4, RegionOf, DumpAssumption, MulNat
<1>6. BytesRead(f) = UNION {Bytes(Column(b, p, sid), p.addr, p.size) : p \in Pieces(r)}
  <2> DEFINE g(p) == [col |-> Column(b, p, sid), addr |-> p.addr, size |-> p.size,
                      of |-> [layer |-> l, it |-> ReadAt(l, b, n)]]
  <2>1. \A p : g(p).col = Column(b, p, sid) /\ g(p).addr = p.addr /\ g(p).size = p.size
    OBVIOUS
  <2>2. f.data = {g(p) : p \in Pieces(r)}
    BY <1>1
  <2> HIDE DEF g, r
  <2> QED BY <2>1, <2>2 DEF BytesRead
<1>7. \A p \in Pieces(r) : Column(b, p, sid) = p.col + shift
  BY RegionOf DEF Column
<1>8. BytesRead(f) = Bytes(r.col + shift, r.addr, r.size)
  <2>1. UNION {Bytes(Column(b, p, sid), p.addr, p.size) : p \in Pieces(r)}
          = UNION {Bytes(p.col + shift, p.addr, p.size) : p \in Pieces(r)}
    <3> HIDE DEF r, shift
    <3> QED BY <1>7
  <2> QED BY <1>5, <1>6, <2>1, PiecesAreWhole
<1>9. r.col + shift = IF b.tg THEN r.col ELSE r.col + sid * Columns
  BY <1>5 DEF IsRegion
<1>10. \A x \in f.data : x.of = [layer |-> l, it |-> ReadAt(l, b, n)]
  BY <1>1
<1> DEFINE p == f.name[1]
<1>11. /\ p.layer = l /\ p.type = b.type /\ p.batch = BatchOf(sid) /\ p.it = n
  BY <1>1
<1>12. (CHOOSE x \in Buffers(p.layer) : x.type = p.type) = b
  BY <1>2, <1>11
<1> HIDE DEF p
<1>13. /\ BytesRead(f) = Bytes(IF b.tg THEN r.col
                              ELSE r.col + (p.batch * StampsPerBatch + f.name[2][1]) * Columns, r.addr, r.size)
       /\ \A x \in f.data : x.of = [layer |-> p.layer, it |-> p.it + IF b \in OutBuffers[p.layer] THEN 1 ELSE 0]
  BY <1>3, <1>4, <1>8, <1>9, <1>10, <1>11 DEF ReadAt
<1> QED BY <1>3, <1>12, <1>13 DEF p, HoldsItsName

(* In a tracked design, when no wait gives up, a file holds what its path  *)
(* says, all of it and of the right iteration, and no file is written over *)
(* by another one.                                                         *)
THEOREM FilesTrue ==
  ASSUME Tracked
  PROVE  DumpSpec => []FilesHoldWhatTheySay
<1>1. DumpInit => FileTracking
  BY DEF DumpInit, FileTracking
<1>2. TypeOK /\ (MainTracking /\ WholeLayers) /\ Tracking /\ FileTracking /\ [DumpNext]_dumpVars
        => FileTracking'
  BY NextFiles
<1>3. FileTracking => FilesHoldWhatTheySay
  <2>1. SUFFICES ASSUME FileTracking PROVE FilesHoldWhatTheySay
    OBVIOUS
  <2>2. ASSUME NEW f \in files, NEW g \in files, f.name = g.name PROVE f = g
    <3>1. CASE IsTrueL1(f) /\ IsTrueL1(g)
      <4>1. PICK l \in Layer, sid \in Replica, n \in Int : \E b \in Buffers(l), col \in ColumnsOf(sid) :
              f = TrueL1(l, sid, n, b, col)
        BY <3>1 DEF IsTrueL1
      <4>2. PICK b \in Buffers(l), col \in ColumnsOf(sid) : f = TrueL1(l, sid, n, b, col)
        BY <4>1
      <4>3. PICK k \in Layer, r \in Replica, m \in Int : \E c \in Buffers(k), cl \in ColumnsOf(r) :
              g = TrueL1(k, r, m, c, cl)
        BY <3>1 DEF IsTrueL1
      <4>4. PICK c \in Buffers(k), cl \in ColumnsOf(r) : g = TrueL1(k, r, m, c, cl)
        BY <4>3
      <4>5. f.name = g.name /\ l = k /\ n = m /\ col = cl
        BY <2>2, <4>2, <4>4 DEF TrueL1
      <4>6. f = [name |-> f.name, data |-> f.data] /\ g = [name |-> g.name, data |-> g.data]
        BY <4>2, <4>4 DEF TrueL1
      <4>7. f.data = g.data
        BY <4>2, <4>4, <4>5 DEF TrueL1
      <4> QED BY <4>5, <4>6, <4>7
    <3>2. CASE IsTrueL2(f) /\ IsTrueL2(g)
      BY <2>2, <3>2, NameTells DEF IsTrueL2
    <3>3. IsTrueL1(f) => f.name[1].level = "l1"
      BY DEF IsTrueL1, TrueL1
    <3>4. IsTrueL2(f) => f.name[1].level = "l2"
      BY DEF IsTrueL2, TrueL2
    <3>5. IsTrueL1(g) => g.name[1].level = "l1"
      BY DEF IsTrueL1, TrueL1
    <3>6. IsTrueL2(g) => g.name[1].level = "l2"
      BY DEF IsTrueL2, TrueL2
    <3> QED BY <2>1, <2>2, <3>1, <3>2, <3>3, <3>4, <3>5, <3>6 DEF FileTracking
  <2>3. ASSUME NEW f \in files, f.name[1].level = "l2" PROVE IsTrueL2(f)
    <3>1. IsTrueL1(f) => f.name[1].level = "l1"
      BY DEF IsTrueL1, TrueL1
    <3> QED BY <2>1, <2>3, <3>1 DEF FileTracking
  <2>4. ASSUME NEW f \in {x \in files : x.name[1].level = "l2"} PROVE HoldsItsName(f)
    BY <2>3, TrueL2Holds DEF IsTrueL2
  <2> QED BY <2>2, <2>4 DEF FilesHoldWhatTheySay, HoldsItsName
<1> QED
  BY <1>1, <1>2, <1>3, DumpsRun, TypeCorrect, MainCorrect, TrackingCorrect, PTL DEF DumpSpec
=============================================================================
