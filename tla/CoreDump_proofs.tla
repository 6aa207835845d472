---------------------------- MODULE CoreDump_proofs --------------------------
(***************************************************************************)
(* The geometry of the core dump reader, for every device of the table,    *)
(* every dump and every tile: tiles lie one after the other, a tower holds *)
(* its tiles and nothing more, and no two words share a file position.     *)
(***************************************************************************)
EXTENDS CoreDump, WellFoundedInduction, TLAPS

(* What the arithmetic of the reader relies on: memory tiles follow the    *)
(* shim tile and cores follow the memory tiles.                            *)
WellFormed(cfg) ==
  /\ cfg.memtile_rows \in Nat /\ cfg.numrows \in Nat /\ cfg.numcols \in Nat
  /\ cfg.core_row_start = cfg.memtile_rows + 1 /\ cfg.core_row_start <= cfg.numrows
  /\ cfg.shim \in Nat \ {0} /\ cfg.mem \in Nat \ {0} /\ cfg.core \in Nat \ {0}

(* Every device of the table is laid out that way.                         *)
THEOREM DevicesWellFormed == \A i \in DOMAIN DEVICE_CONFIGS : WellFormed(DEVICE_CONFIGS[i])
BY DEF WellFormed, DEVICE_CONFIGS, MB

(* So is the configuration that a name stands for.                         *)
LEMMA ConfigWellFormed == \A name \in Devices : WellFormed(Config(name))
<1> SUFFICES ASSUME NEW name \in Devices PROVE WellFormed(Config(name))
  OBVIOUS
<1>1. PICK i \in DOMAIN DEVICE_CONFIGS : DEVICE_CONFIGS[i].name = name
  BY DEF Devices
<1>2. (CHOOSE j \in DOMAIN DEVICE_CONFIGS : DEVICE_CONFIGS[j].name = name) \in DOMAIN DEVICE_CONFIGS
  BY <1>1
<1> QED BY <1>2, DevicesWellFormed DEF Config

(* What identifies a device in the table.                                  *)
LEMMA DevicesAreDistinct ==
  \A i \in DOMAIN DEVICE_CONFIGS, j \in DOMAIN DEVICE_CONFIGS :
    LET c == DEVICE_CONFIGS[i]
        d == DEVICE_CONFIGS[j]
        geometry(e) == <<e.hwGen, e.numrows, e.numcols>>
    IN  c.name = d.name \/ geometry(c) = geometry(d) => i = j
<1> SUFFICES ASSUME NEW i \in 1 .. 5, NEW j \in 1 .. 5,
                    \/ DEVICE_CONFIGS[i].name = DEVICE_CONFIGS[j].name
                    \/ /\ DEVICE_CONFIGS[i].hwGen = DEVICE_CONFIGS[j].hwGen
                       /\ DEVICE_CONFIGS[i].numrows = DEVICE_CONFIGS[j].numrows
                       /\ DEVICE_CONFIGS[i].numcols = DEVICE_CONFIGS[j].numcols
             PROVE  i = j
  BY DEF DEVICE_CONFIGS
<1>1. i \in {1, 2, 3, 4, 5} /\ j \in {1, 2, 3, 4, 5}
  OBVIOUS
<1> QED BY <1>1 DEF DEVICE_CONFIGS

(* A name stands for its own entry.                                        *)
LEMMA NamesEntry ==
  \A name \in Devices : \E i \in DOMAIN DEVICE_CONFIGS :
    DEVICE_CONFIGS[i].name = name /\ Config(name) = DEVICE_CONFIGS[i]
<1> SUFFICES ASSUME NEW name \in Devices
             PROVE  \E i \in DOMAIN DEVICE_CONFIGS :
                      DEVICE_CONFIGS[i].name = name /\ Config(name) = DEVICE_CONFIGS[i]
  OBVIOUS
<1>1. PICK i \in DOMAIN DEVICE_CONFIGS : DEVICE_CONFIGS[i].name = name
  BY DEF Devices
<1> QED BY <1>1 DEF Config

(* The base of a device is a device, and no device goes without a name.    *)
LEMMA BaseDevice ==
  \A name \in Devices : get_base_device(name) \in Devices /\ name # NoDevice
<1> SUFFICES ASSUME NEW name \in Devices PROVE get_base_device(name) \in Devices /\ name # NoDevice
  OBVIOUS
<1>1. PICK i \in DOMAIN DEVICE_CONFIGS :
        DEVICE_CONFIGS[i].name = name /\ Config(name) = DEVICE_CONFIGS[i]
  BY NamesEntry
<1>2. DOMAIN DEVICE_CONFIGS = {1, 2, 3, 4, 5}
  BY DEF DEVICE_CONFIGS
<1>3. \A j \in DOMAIN DEVICE_CONFIGS : \E k \in DOMAIN DEVICE_CONFIGS :
        DEVICE_CONFIGS[j].base = DEVICE_CONFIGS[k].name
  <2>1. /\ DEVICE_CONFIGS[1].base = DEVICE_CONFIGS[1].name
        /\ DEVICE_CONFIGS[2].base = DEVICE_CONFIGS[2].name
        /\ DEVICE_CONFIGS[3].base = DEVICE_CONFIGS[3].name
        /\ DEVICE_CONFIGS[4].base = DEVICE_CONFIGS[3].name
        /\ DEVICE_CONFIGS[5].base = DEVICE_CONFIGS[3].name
    BY DEF DEVICE_CONFIGS
  <2> QED BY <1>2, <2>1
<1>4. get_base_device(name) \in Devices
  BY <1>1, <1>3 DEF get_base_device, Devices
<1>5. \A j \in DOMAIN DEVICE_CONFIGS : DEVICE_CONFIGS[j].name # NoDevice
  <2>1. /\ DEVICE_CONFIGS[1].name = "phx" /\ DEVICE_CONFIGS[2].name = "stx"
        /\ DEVICE_CONFIGS[3].name = "telluride"
        /\ DEVICE_CONFIGS[4].name = "t20" /\ DEVICE_CONFIGS[5].name = "t10"
    BY DEF DEVICE_CONFIGS
  <2>2. NoDevice \notin {"phx", "stx", "telluride", "t20", "t10"}
    BY DEF NoDevice
  <2> QED BY <1>2, <2>1, <2>2
<1> QED BY <1>1, <1>4, <1>5

(* A base device is its own base.                                          *)
LEMMA BaseOfBase ==
  \A name \in Devices : get_base_device(get_base_device(name)) = get_base_device(name)
<1> SUFFICES ASSUME NEW name \in Devices
             PROVE  get_base_device(get_base_device(name)) = get_base_device(name)
  OBVIOUS
<1>1. \A i \in DOMAIN DEVICE_CONFIGS, j \in DOMAIN DEVICE_CONFIGS :
        DEVICE_CONFIGS[j].name = DEVICE_CONFIGS[i].base => DEVICE_CONFIGS[j].base = DEVICE_CONFIGS[i].base
  <2>1. DOMAIN DEVICE_CONFIGS = {1, 2, 3, 4, 5}
    BY DEF DEVICE_CONFIGS
  <2> QED BY <2>1 DEF DEVICE_CONFIGS
<1>2. PICK i \in DOMAIN DEVICE_CONFIGS :
        DEVICE_CONFIGS[i].name = name /\ Config(name) = DEVICE_CONFIGS[i]
  BY NamesEntry
<1>3. PICK j \in DOMAIN DEVICE_CONFIGS :
        /\ DEVICE_CONFIGS[j].name = get_base_device(name)
        /\ Config(get_base_device(name)) = DEVICE_CONFIGS[j]
  BY NamesEntry, BaseDevice
<1> QED BY <1>1, <1>2, <1>3 DEF get_base_device

(* Two rows apart or more, a whole block lies between.                     *)
LEMMA BlockFits ==
  ASSUME NEW a \in Nat, NEW b \in Nat, NEW m \in Nat, a < b
  PROVE  a * m + m <= b * m
<1>1. b * m = a * m + m + (b - a - 1) * m
  OBVIOUS
<1>2. (b - a - 1) * m \in Nat
  <2>1. b - a - 1 \in Nat
    OBVIOUS
  <2> QED BY <2>1
<1>3. a * m \in Nat /\ b * m \in Nat
  OBVIOUS
<1> QED BY <1>1, <1>2, <1>3

LEMMA ProductNat == ASSUME NEW a \in Nat, NEW m \in Nat PROVE a * m \in Nat
OBVIOUS

LEMMA Cancel ==
  ASSUME NEW h \in Nat, NEW x \in Nat, NEW y \in Nat, NEW a \in Nat, NEW b \in Nat,
         NEW p \in Nat, NEW q \in Nat, h + x + a + p = h + y + b + q
  PROVE  x + (a + p) = y + (b + q)
OBVIOUS

(* Positions within a tower are natural numbers.                           *)
LEMMA TileNat ==
  ASSUME NEW cfg, WellFormed(cfg), NEW row \in Nat
  PROVE  TileInTower(cfg, row) \in Nat /\ BlockSize(cfg, row) \in Nat \ {0}
<1>1. CASE row = 0
  BY <1>1 DEF TileInTower, BlockSize, WellFormed
<1>2. CASE row # 0 /\ row <= cfg.memtile_rows
  <2>1. (row - 1) * cfg.mem \in Nat
    BY <1>2, ProductNat DEF WellFormed
  <2> QED BY <1>2, <2>1 DEF TileInTower, BlockSize, WellFormed
<1>3. CASE row # 0 /\ ~(row <= cfg.memtile_rows)
  <2>1. cfg.mem * cfg.memtile_rows \in Nat
    BY ProductNat DEF WellFormed
  <2>2. (row - 1 - cfg.memtile_rows) * cfg.core \in Nat
    BY <1>3, ProductNat DEF WellFormed
  <2> QED BY <1>3, <2>1, <2>2 DEF TileInTower, BlockSize, WellFormed
<1> QED BY <1>1, <1>2, <1>3

(* A tile of a tower ends before any tile above it begins.                 *)
LEMMA TilesInOrder ==
  ASSUME NEW cfg, WellFormed(cfg), NEW low \in Nat, NEW high \in Nat, low < high
  PROVE  TileInTower(cfg, low) + BlockSize(cfg, low) <= TileInTower(cfg, high)
<1> DEFINE M == cfg.memtile_rows
<1>1. M \in Nat /\ cfg.shim \in Nat /\ cfg.mem \in Nat /\ cfg.core \in Nat
  BY DEF WellFormed
<1>2. cfg.mem * M = M * cfg.mem /\ M * cfg.mem \in Nat
  BY <1>1
<1>3. CASE low = 0
  <2>1. CASE high <= M
    <3>1. (high - 1) * cfg.mem \in Nat
      BY <1>1, ProductNat
    <3> QED BY <1>1, <1>3, <2>1, <3>1 DEF TileInTower, BlockSize
  <2>2. CASE high > M
    <3>1. (high - 1 - M) * cfg.core \in Nat
      BY <1>1, <2>2, ProductNat
    <3> QED BY <1>1, <1>2, <1>3, <2>2, <3>1 DEF TileInTower, BlockSize
  <2> QED BY <1>1, <2>1, <2>2
<1>4. CASE low # 0 /\ low <= M
  <2>1. TileInTower(cfg, low) + BlockSize(cfg, low) = cfg.shim + (low - 1) * cfg.mem + cfg.mem
    <3>1. (low - 1) * cfg.mem \in Nat
      BY <1>1, <1>4, ProductNat
    <3> QED BY <1>1, <1>4, <3>1 DEF TileInTower, BlockSize
  <2>2. CASE high <= M
    <3>1. (low - 1) * cfg.mem + cfg.mem <= (high - 1) * cfg.mem
      BY <1>1, <1>4, BlockFits
    <3>2. (low - 1) * cfg.mem \in Nat /\ (high - 1) * cfg.mem \in Nat
      BY <1>1, <1>4, ProductNat
    <3>3. TileInTower(cfg, high) = cfg.shim + (high - 1) * cfg.mem
      BY <1>1, <2>2 DEF TileInTower
    <3> QED BY <1>1, <2>1, <3>1, <3>2, <3>3
  <2>3. CASE high > M
    <3>1. (low - 1) * cfg.mem + cfg.mem <= M * cfg.mem
      <4>1. low - 1 \in Nat /\ low - 1 < M
        BY <1>1, <1>4
      <4> HIDE DEF M
      <4> QED BY <1>1, <4>1, BlockFits
    <3>2. (low - 1) * cfg.mem \in Nat /\ (high - 1 - M) * cfg.core \in Nat
      BY <1>1, <1>4, <2>3, ProductNat
    <3>3. TileInTower(cfg, high) = cfg.shim + cfg.mem * M + (high - 1 - M) * cfg.core
      BY <1>1, <2>3 DEF TileInTower
    <3> QED BY <1>1, <1>2, <2>1, <3>1, <3>2, <3>3
  <2> QED BY <1>1, <2>2, <2>3
<1>5. CASE low > M
  <2>1. (low - 1 - M) * cfg.core + cfg.core <= (high - 1 - M) * cfg.core
    BY <1>1, <1>5, BlockFits
  <2>2. (low - 1 - M) * cfg.core \in Nat /\ (high - 1 - M) * cfg.core \in Nat
    BY <1>1, <1>5, ProductNat
  <2>3. /\ TileInTower(cfg, low) = cfg.shim + cfg.mem * M + (low - 1 - M) * cfg.core
        /\ TileInTower(cfg, high) = cfg.shim + cfg.mem * M + (high - 1 - M) * cfg.core
        /\ BlockSize(cfg, low) = cfg.core
    BY <1>1, <1>5 DEF TileInTower, BlockSize
  <2> QED BY <1>1, <1>2, <2>1, <2>2, <2>3
<1> QED BY <1>1, <1>3, <1>4, <1>5

(* A tower holds its tiles and ends with the last: the first tile of the   *)
(* next tower, were there one in this column, would begin where it ends.   *)
THEOREM TowerIsItsTiles ==
  ASSUME NEW cfg, WellFormed(cfg)
  PROVE  TowerSize(cfg) = TileInTower(cfg, cfg.numrows)
<1>1. /\ cfg.memtile_rows \in Nat /\ cfg.numrows \in Nat
      /\ cfg.numrows >= cfg.memtile_rows + 1 /\ cfg.core_row_start = cfg.memtile_rows + 1
      /\ cfg.core \in Nat
  BY DEF WellFormed
<1>2. cfg.core * (cfg.numrows - cfg.core_row_start)
        = (cfg.numrows - 1 - cfg.memtile_rows) * cfg.core
  BY <1>1
<1> QED BY <1>1, <1>2 DEF TowerSize, TileInTower

(* The tiles of a tower adjoin: each begins where the one below it ends,   *)
(* so the reader leaves no gap and skips no byte of the dump.              *)
THEOREM TilesAdjoin ==
  ASSUME NEW cfg, WellFormed(cfg), NEW row \in Nat
  PROVE  TileInTower(cfg, row + 1) = TileInTower(cfg, row) + BlockSize(cfg, row)
<1> DEFINE M == cfg.memtile_rows
<1>1. M \in Nat /\ cfg.shim \in Nat /\ cfg.mem \in Nat /\ cfg.core \in Nat
  BY DEF WellFormed
<1>2. M * cfg.mem = cfg.mem * M /\ cfg.mem * M \in Nat
  BY <1>1
<1>3. CASE row = 0
  <2>1. CASE M = 0
    BY <1>1, <1>3, <2>1 DEF TileInTower, BlockSize
  <2>2. CASE M # 0
    BY <1>1, <1>3, <2>2 DEF TileInTower, BlockSize
  <2> QED BY <2>1, <2>2
<1>4. CASE row # 0 /\ row + 1 <= M
  <2>1. row * cfg.mem = (row - 1) * cfg.mem + cfg.mem /\ (row - 1) * cfg.mem \in Nat
    BY <1>1, <1>4
  <2>2. /\ TileInTower(cfg, row) = cfg.shim + (row - 1) * cfg.mem
        /\ TileInTower(cfg, row + 1) = cfg.shim + row * cfg.mem
        /\ BlockSize(cfg, row) = cfg.mem
    BY <1>1, <1>4 DEF TileInTower, BlockSize
  <2> QED BY <1>1, <2>1, <2>2
<1>5. CASE row # 0 /\ row = M
  <2>1. M * cfg.mem = (M - 1) * cfg.mem + cfg.mem /\ (M - 1) * cfg.mem \in Nat
    BY <1>1, <1>5
  <2>2. /\ TileInTower(cfg, row) = cfg.shim + (M - 1) * cfg.mem
        /\ TileInTower(cfg, row + 1) = cfg.shim + cfg.mem * M + 0 * cfg.core
        /\ BlockSize(cfg, row) = cfg.mem
    BY <1>1, <1>5 DEF TileInTower, BlockSize
  <2> QED BY <1>1, <1>2, <2>1, <2>2
<1>6. CASE row > M
  <2>1. (row - M) * cfg.core = (row - 1 - M) * cfg.core + cfg.core /\ (row - 1 - M) * cfg.core \in Nat
    BY <1>1, <1>6
  <2>2. /\ TileInTower(cfg, row) = cfg.shim + cfg.mem * M + (row - 1 - M) * cfg.core
        /\ TileInTower(cfg, row + 1) = cfg.shim + cfg.mem * M + (row - M) * cfg.core
        /\ BlockSize(cfg, row) = cfg.core
    BY <1>1, <1>6 DEF TileInTower, BlockSize
  <2> QED BY <1>1, <1>2, <2>1, <2>2
<1> QED BY <1>1, <1>3, <1>4, <1>5, <1>6

(* Distinct words: whatever the device and the header, two positions that  *)
(* the reader computes for tiles of the array are equal only for the same  *)
(* word of the same tile.  A register is never read from another tile.     *)
THEOREM WordsAreDistinct ==
  ASSUME NEW rd, WellFormed(rd.cfg), rd.header_size \in Nat,
         NEW c1 \in Nat, NEW r1 \in 0 .. rd.cfg.numrows - 1,
         NEW o1 \in 0 .. BlockSize(rd.cfg, r1) - 1,
         NEW c2 \in Nat, NEW r2 \in 0 .. rd.cfg.numrows - 1,
         NEW o2 \in 0 .. BlockSize(rd.cfg, r2) - 1,
         FilePosition(rd, c1, r1, o1) = FilePosition(rd, c2, r2, o2)
  PROVE  c1 = c2 /\ r1 = r2 /\ o1 = o2
<1> DEFINE T == TowerSize(rd.cfg)
           P(r, o) == TileInTower(rd.cfg, r) + o
<1>1. rd.cfg.numrows \in Nat
  BY DEF WellFormed
<1>2. /\ TileInTower(rd.cfg, r1) \in Nat /\ BlockSize(rd.cfg, r1) \in Nat
      /\ TileInTower(rd.cfg, r2) \in Nat /\ BlockSize(rd.cfg, r2) \in Nat
      /\ T \in Nat
  BY <1>1, TileNat, TowerIsItsTiles
<1>3. P(r1, o1) \in 0 .. T - 1 /\ P(r2, o2) \in 0 .. T - 1
  BY <1>1, <1>2, TilesInOrder, TowerIsItsTiles
<1>4. c1 * T + P(r1, o1) = c2 * T + P(r2, o2)
  <2>1. c1 * T \in Nat /\ c2 * T \in Nat
    BY <1>2, ProductNat
  <2>2. /\ FilePosition(rd, c1, r1, o1) = rd.header_size + c1 * T + TileInTower(rd.cfg, r1) + o1
        /\ FilePosition(rd, c2, r2, o2) = rd.header_size + c2 * T + TileInTower(rd.cfg, r2) + o2
    BY DEF FilePosition
  <2>3. o1 \in Nat /\ o2 \in Nat
    BY <1>2
  <2> HIDE DEF T
  <2>4. rd.header_size + c1 * T + TileInTower(rd.cfg, r1) + o1
          = rd.header_size + c2 * T + TileInTower(rd.cfg, r2) + o2
    BY <2>2
  <2>5. /\ rd.header_size \in Nat /\ c1 * T \in Nat /\ c2 * T \in Nat
        /\ TileInTower(rd.cfg, r1) \in Nat /\ TileInTower(rd.cfg, r2) \in Nat
    BY <1>2, <2>1
  <2>6. c1 * T + (TileInTower(rd.cfg, r1) + o1) = c2 * T + (TileInTower(rd.cfg, r2) + o2)
    BY <2>3, <2>4, <2>5, Cancel
  <2> QED BY <2>6
<1>5. c1 = c2
  <2> HIDE DEF T, P
  <2>1. ASSUME c1 < c2 PROVE FALSE
    <3>1. c1 * T + T <= c2 * T
      BY <1>2, <2>1, BlockFits
    <3>2. c1 * T \in Nat /\ c2 * T \in Nat
      BY <1>2, ProductNat
    <3> QED BY <1>2, <1>3, <1>4, <3>1, <3>2
  <2>2. ASSUME c2 < c1 PROVE FALSE
    <3>1. c2 * T + T <= c1 * T
      BY <1>2, <2>2, BlockFits
    <3>2. c1 * T \in Nat /\ c2 * T \in Nat
      BY <1>2, ProductNat
    <3> QED BY <1>2, <1>3, <1>4, <3>1, <3>2
  <2> QED BY <2>1, <2>2
<1>6. P(r1, o1) = P(r2, o2)
  <2>1. c1 * T \in Nat
    BY <1>2, ProductNat
  <2>2. P(r1, o1) \in Int /\ P(r2, o2) \in Int
    BY <1>2
  <2>3. c1 * T + P(r1, o1) = c1 * T + P(r2, o2)
    BY <1>4, <1>5
  <2> HIDE DEF T, P
  <2> QED BY <2>1, <2>2, <2>3
<1>7. r1 = r2
  <2>1. ASSUME r1 < r2 PROVE FALSE
    BY <1>1, <1>2, <1>6, <2>1, TilesInOrder
  <2>2. ASSUME r2 < r1 PROVE FALSE
    BY <1>1, <1>2, <1>6, <2>2, TilesInOrder
  <2> QED BY <1>1, <2>1, <2>2
<1> QED BY <1>2, <1>5, <1>6, <1>7

-----------------------------------------------------------------------------
(* Induction over natural numbers, for sets instead of predicates.         *)

(* A set of natural numbers has a least element.                           *)
LEMMA Least ==
  ASSUME NEW T, T \subseteq Nat, T # {}
  PROVE  \E m \in T : \A n \in T : m <= n
<1> DEFINE R == {ss \in Nat \X Nat : ss[1] < ss[2]}
<1>1. IsWellFoundedOn(R, Nat)
  BY NatLessThanWellFounded DEF OpToRel
<1>2. PICK m \in T : \A n \in T : ~(<<n, m>> \in R)
  BY <1>1, WFMin
<1>3. ASSUME NEW n \in T PROVE m <= n
  <2>1. <<n, m>> \in Nat \X Nat /\ n \in Nat /\ m \in Nat
    OBVIOUS
  <2>2. <<n, m>>[1] = n /\ <<n, m>>[2] = m
    OBVIOUS
  <2>3. ~(n < m)
    BY <1>2, <2>1, <2>2
  <2> QED BY <2>1, <2>3
<1> QED BY <1>3

(* What holds of 0, and of n + 1 when it holds of n, holds of them all.    *)
LEMMA Induct ==
  ASSUME NEW T, 0 \in T, \A n \in Nat : n \in T => n + 1 \in T
  PROVE  Nat \subseteq T
<1> SUFFICES ASSUME Nat \ T # {} PROVE FALSE
  OBVIOUS
<1>1. PICK m \in Nat \ T : \A n \in Nat \ T : m <= n
  BY Least
<1>2. m # 0
  OBVIOUS
<1>3. m - 1 \in Nat /\ m - 1 < m /\ (m - 1) + 1 = m
  BY <1>2
<1>4. m - 1 \in T
  BY <1>1, <1>3
<1> QED BY <1>1, <1>3, <1>4

(* What is resolved is a device or nothing.                                *)
LEMMA ResolvesToADevice ==
  \A gen, rows, cols : resolve_variant(gen, rows, cols) \in Devices \cup {NoDevice}
<1> SUFFICES ASSUME NEW gen, NEW rows, NEW cols
             PROVE  resolve_variant(gen, rows, cols) \in Devices \cup {NoDevice}
  OBVIOUS
<1> DEFINE candidates == {i \in DOMAIN DEVICE_CONFIGS : DEVICE_CONFIGS[i].hwGen = gen}
           exact == {i \in candidates : DEVICE_CONFIGS[i].numrows = rows /\ DEVICE_CONFIGS[i].numcols = cols}
           first(S) == DEVICE_CONFIGS[CHOOSE i \in S : \A j \in S : i <= j].name
<1>1. DOMAIN DEVICE_CONFIGS \subseteq Nat
  BY DEF DEVICE_CONFIGS
<1>2. ASSUME NEW S \in SUBSET (DOMAIN DEVICE_CONFIGS), S # {} PROVE first(S) \in Devices
  <2>1. \E i \in S : \A j \in S : i <= j
    BY <1>1, <1>2, Least
  <2>2. (CHOOSE i \in S : \A j \in S : i <= j) \in S
    BY <2>1
  <2> QED BY <2>2 DEF Devices
<1>3. candidates \in SUBSET (DOMAIN DEVICE_CONFIGS) /\ exact \in SUBSET (DOMAIN DEVICE_CONFIGS)
  OBVIOUS
<1>4. resolve_variant(gen, rows, cols) = CASE candidates = {} -> NoDevice
                                           [] exact # {}      -> first(exact)
                                           [] OTHER           -> first(candidates)
  BY DEF resolve_variant
<1>5. exact \subseteq candidates
  OBVIOUS
<1> HIDE DEF candidates, exact, first
<1> QED BY <1>2, <1>3, <1>4, <1>5

(* The geometry of a device resolves to this device.                       *)
LEMMA ResolvesToItself ==
  \A name \in Devices :
    resolve_variant(Config(name).hwGen, Config(name).numrows, Config(name).numcols) = name
<1> SUFFICES ASSUME NEW name \in Devices
             PROVE  resolve_variant(Config(name).hwGen, Config(name).numrows, Config(name).numcols)
                      = name
  OBVIOUS
<1>1. PICK i \in DOMAIN DEVICE_CONFIGS :
        DEVICE_CONFIGS[i].name = name /\ Config(name) = DEVICE_CONFIGS[i]
  BY NamesEntry
<1> DEFINE c == Config(name)
           candidates == {j \in DOMAIN DEVICE_CONFIGS : DEVICE_CONFIGS[j].hwGen = c.hwGen}
           exact == {j \in candidates : /\ DEVICE_CONFIGS[j].numrows = c.numrows
                                        /\ DEVICE_CONFIGS[j].numcols = c.numcols}
           first(S) == DEVICE_CONFIGS[CHOOSE j \in S : \A k \in S : j <= k].name
<1>2. candidates # {} /\ exact = {i}
  <2> DEFINE geometry(e) == <<e.hwGen, e.numrows, e.numcols>>
  <2>1. \A j \in DOMAIN DEVICE_CONFIGS :
          geometry(DEVICE_CONFIGS[i]) = geometry(DEVICE_CONFIGS[j]) => i = j
    BY DevicesAreDistinct
  <2>2. i \in candidates /\ i \in exact
    BY <1>1
  <2>3. \A j \in exact : i = j
    BY <1>1, <2>1
  <2> HIDE DEF candidates, exact
  <2> QED BY <2>2, <2>3
<1>3. i \in Nat
  BY DEF DEVICE_CONFIGS
<1>4. (CHOOSE j \in {i} : \A k \in {i} : j <= k) = i
  BY <1>3
<1>5. first(exact) = name
  BY <1>1, <1>2, <1>4
<1>6. resolve_variant(c.hwGen, c.numrows, c.numcols) = CASE candidates = {} -> NoDevice
                                                         [] exact # {}      -> first(exact)
                                                         [] OTHER           -> first(candidates)
  BY DEF resolve_variant
<1> HIDE DEF candidates, exact, first
<1> QED BY <1>2, <1>5, <1>6

(* The tiles below a row reach up to where the reader looks for its tile.  *)
LEMMA BelowIsTileInTower ==
  ASSUME NEW cfg, WellFormed(cfg)
  PROVE  \A row \in Nat : Below(cfg)[row] = TileInTower(cfg, row)
<1> DEFINE Eq(f) == f = [row \in Nat |-> IF row = 0 THEN 0 ELSE f[row - 1] + BlockSize(cfg, row - 1)]
           g == [row \in Nat |-> TileInTower(cfg, row)]
           b == Below(cfg)
<1>1. Eq(g)
  <2>1. ASSUME NEW row \in Nat
        PROVE  g[row] = IF row = 0 THEN 0 ELSE g[row - 1] + BlockSize(cfg, row - 1)
    <3>1. CASE row = 0
      BY <3>1 DEF TileInTower
    <3>2. CASE row # 0
      <4>1. row - 1 \in Nat /\ (row - 1) + 1 = row
        BY <3>2
      <4>2. TileInTower(cfg, (row - 1) + 1) = TileInTower(cfg, row - 1) + BlockSize(cfg, row - 1)
        BY <4>1, TilesAdjoin
      <4> QED BY <3>2, <4>1, <4>2
    <3> QED BY <3>1, <3>2
  <2> QED BY <2>1
<1>2. Eq(b)
  <2>1. b = CHOOSE f : Eq(f)
    BY DEF Below
  <2> HIDE DEF Eq, b, g
  <2> QED BY <1>1, <2>1
<1>3. Nat \subseteq {row \in Nat : b[row] = g[row]}
  <2> DEFINE T == {row \in Nat : b[row] = g[row]}
  <2> HIDE DEF b, g
  <2>1. 0 \in T
    BY <1>1, <1>2
  <2>2. ASSUME NEW row \in Nat, row \in T PROVE row + 1 \in T
    <3>1. row + 1 \in Nat /\ row + 1 # 0 /\ (row + 1) - 1 = row
      OBVIOUS
    <3>2. /\ b[row + 1] = b[row] + BlockSize(cfg, row)
          /\ g[row + 1] = g[row] + BlockSize(cfg, row)
      BY <1>1, <1>2, <3>1
    <3> QED BY <2>2, <3>1, <3>2
  <2> HIDE DEF T
  <2>3. Nat \subseteq T
    BY <2>1, <2>2, Induct
  <2> QED BY <2>3 DEF T
<1> QED BY <1>3

-----------------------------------------------------------------------------
(* Reading.                                                                *)

(* A reader that was opened for the device a file was taken from and that  *)
(* knows how long its header is.                                           *)
OpenedFor(rd, file) ==
  /\ rd.cfg = Config(file.device) /\ file.device \in Devices
  /\ rd.header_size = file.head /\ rd.size = file.size
  /\ file.head \in Nat /\ file.size \in Nat

(* Where a tile was put is a natural number. *)
LEMMA TileStartNat ==
  ASSUME NEW file, file.device \in Devices, file.head \in Nat, NEW tile \in Nat \X Nat
  PROVE  TileStart(file, tile) \in Nat
<1> DEFINE cfg == Config(file.device)
<1>1. WellFormed(cfg) /\ cfg.numrows \in Nat /\ tile[1] \in Nat /\ tile[2] \in Nat
  BY ConfigWellFormed DEF WellFormed
<1>2. Below(cfg)[cfg.numrows] \in Nat /\ Below(cfg)[tile[2]] \in Nat
  BY <1>1, BelowIsTileInTower, TileNat
<1>3. tile[1] * Below(cfg)[cfg.numrows] \in Nat
  BY <1>1, <1>2, ProductNat
<1> QED BY <1>2, <1>3 DEF TileStart

(* The reader looks for a word of a tile where the tile was put.           *)
THEOREM TilesAreFound ==
  ASSUME NEW rd, NEW file, OpenedFor(rd, file),
         NEW col \in Nat, NEW row \in Nat, NEW offset \in Nat
  PROVE  FilePosition(rd, col, row, offset) = TileStart(file, <<col, row>>) + offset
<1> DEFINE cfg == Config(file.device)
<1>1. WellFormed(cfg) /\ cfg.numrows \in Nat
  BY ConfigWellFormed DEF OpenedFor, WellFormed
<1>2. Below(cfg)[cfg.numrows] = TowerSize(cfg) /\ Below(cfg)[row] = TileInTower(cfg, row)
  BY <1>1, BelowIsTileInTower, TowerIsItsTiles
<1>3. <<col, row>>[1] = col /\ <<col, row>>[2] = row
  OBVIOUS
<1>4. TileStart(file, <<col, row>>) = file.head + col * TowerSize(cfg) + TileInTower(cfg, row)
  BY <1>2, <1>3 DEF TileStart
<1> QED BY <1>4 DEF FilePosition, OpenedFor

(* A register reads as the word that the tile held, or as no word where    *)
(* the file was cut off before it.                                         *)
LEMMA RegistersAreTrue ==
  ASSUME NEW rd, NEW file, OpenedFor(rd, file),
         NEW col \in Nat, NEW row \in Nat, NEW offset \in Nat
  PROVE  LET held == TileStart(file, <<col, row>>) + offset
         IN  read_register(rd, col, row, offset) = IF held + 4 <= file.size THEN held ELSE Lost
BY TilesAreFound DEF read_register, OpenedFor

(* Nothing is read of a column, as the count of columns sees it.           *)
Unread(rd, col) ==
  LET top == rd.cfg.numrows - 1
  IN  ~Addressable(rd, col, top) \/ read_register(rd, col, top, 0) = Lost

(* The count of columns stops at the first that cannot be read.            *)
LEMMA ColumnsUpToTheFirstUnread ==
  ASSUME NEW rd, rd.total_cols \in Nat, rd.cfg.numcols \in Nat
  PROVE  LET cols == IF rd.total_cols # 0 THEN rd.total_cols ELSE rd.cfg.numcols
             n    == detect_num_cols(rd)
         IN  /\ n \in 0 .. cols
             /\ n = cols \/ Unread(rd, n)
             /\ \A col \in 0 .. n - 1 : ~Unread(rd, col)
<1> DEFINE cols == IF rd.total_cols # 0 THEN rd.total_cols ELSE rd.cfg.numcols
           Counted(n) == /\ n = cols \/ Unread(rd, n)
                         /\ \A col \in 0 .. n - 1 : ~Unread(rd, col)
           T == {n \in 0 .. cols : n = cols \/ Unread(rd, n)}
<1>1. cols \in Nat
  OBVIOUS
<1> HIDE DEF cols
<1>2. PICK m \in T : \A n \in T : m <= n
  <2>1. cols \in T /\ T \subseteq Nat
    BY <1>1
  <2> HIDE DEF T
  <2> QED BY <2>1, Least
<1>3. m \in 0 .. cols /\ Counted(m)
  <2>1. m \in 0 .. cols /\ (m = cols \/ Unread(rd, m))
    OBVIOUS
  <2>2. ASSUME NEW col \in 0 .. m - 1, Unread(rd, col) PROVE FALSE
    <3>1. col \in 0 .. cols /\ col < m
      BY <1>1, <2>1
    <3>2. col \in T
      BY <2>2, <3>1
    <3> QED BY <1>1, <1>2, <2>1, <3>1, <3>2
  <2> QED BY <2>1, <2>2
<1>4. detect_num_cols(rd) = CHOOSE n \in 0 .. cols : Counted(n)
  BY DEF detect_num_cols, cols, Unread
<1> HIDE DEF Counted
<1>5. detect_num_cols(rd) \in 0 .. cols /\ Counted(detect_num_cols(rd))
  BY <1>3, <1>4
<1> QED BY <1>5 DEF Counted, cols

(* The pieces of a memory dump: whole chunks, and the remainder.           *)
LEMMA PiecesOfMemory ==
  ASSUME NEW rd, NEW col, NEW row, NEW offset \in Nat, NEW size \in Nat
  PROVE  LET pieces == dump_memory(rd, col, row, offset, size)
             chunks == size \div Chunk
             len    == IF size % Chunk = 0 THEN chunks ELSE chunks + 1
         IN  /\ DOMAIN pieces = 1 .. len /\ Len(pieces) = len
             /\ \A i \in 1 .. len :
                  pieces[i] = dump_buffer(rd, col, row, offset + (i - 1) * Chunk,
                                          IF i <= chunks THEN Chunk ELSE size % Chunk)
<1> DEFINE pieces == dump_memory(rd, col, row, offset, size)
           chunks == size \div Chunk
           piece(i) == dump_buffer(rd, col, row, offset + (i - 1) * Chunk, Chunk)
           whole == [i \in 1 .. chunks |-> piece(i)]
           last == dump_buffer(rd, col, row, offset + Len(whole) * Chunk, size % Chunk)
           Words == {piece(i) : i \in 1 .. chunks} \cup {last}
<1>1. chunks \in Nat
  BY DEF Chunk
<1>2. pieces = IF size % Chunk = 0 THEN whole ELSE Append(whole, last)
  BY DEF dump_memory
<1> HIDE DEF pieces, chunks, piece, last
<1>3. whole \in Seq(Words) /\ Len(whole) = chunks /\ DOMAIN whole = 1 .. chunks
      /\ \A i \in 1 .. chunks : whole[i] = piece(i)
  BY <1>1
<1>4. CASE size % Chunk = 0
  <2>1. pieces = whole
    BY <1>2, <1>4
  <2>2. \A i \in 1 .. chunks : i <= chunks
    BY <1>1
  <2> QED BY <1>3, <1>4, <2>1, <2>2 DEF pieces, chunks, piece
<1>5. CASE size % Chunk # 0
  <2>1. pieces = Append(whole, last)
    BY <1>2, <1>5
  <2> HIDE DEF whole
  <2>2. last \in Words
    OBVIOUS
  <2>3. /\ Len(pieces) = chunks + 1 /\ DOMAIN pieces = 1 .. chunks + 1
        /\ pieces[chunks + 1] = last
        /\ \A i \in 1 .. chunks : pieces[i] = piece(i)
    <3> HIDE DEF Words
    <3> QED BY <1>1, <1>3, <2>1, <2>2
  <2>4. last = dump_buffer(rd, col, row, offset + ((chunks + 1) - 1) * Chunk, size % Chunk)
    BY <1>1, <1>3 DEF last
  <2>5. \A i \in 1 .. chunks + 1 :
          pieces[i] = dump_buffer(rd, col, row, offset + (i - 1) * Chunk,
                                  IF i <= chunks THEN Chunk ELSE size % Chunk)
    <3> TAKE i \in 1 .. chunks + 1
    <3>1. CASE i <= chunks
      <4>1. i \in 1 .. chunks
        BY <1>1, <3>1
      <4> QED BY <2>3, <3>1, <4>1 DEF piece
    <3>2. CASE ~(i <= chunks)
      <4>1. i = chunks + 1
        BY <1>1, <3>2
      <4> QED BY <2>3, <2>4, <3>2, <4>1
    <3> QED BY <3>1, <3>2
  <2> QED BY <1>5, <2>3, <2>5 DEF pieces, chunks
<1> QED BY <1>4, <1>5

(* The sum of the pieces is the only function that starts at 0 and grows   *)
(* by each piece.                                                          *)
LEMMA BytesBeforeIs ==
  ASSUME NEW pieces, NEW len \in Nat, Len(pieces) = len,
         NEW g \in [1 .. len + 1 -> Nat], g[1] = 0,
         \A i \in 1 .. len : g[i + 1] = g[i] + 4 * pieces[i].words
  PROVE  \A i \in 1 .. len + 1 : BytesBefore(pieces)[i] = g[i]
<1> DEFINE Eq(f) == f = [i \in 1 .. len + 1 |->
                           IF i = 1 THEN 0 ELSE f[i - 1] + 4 * pieces[i - 1].words]
           b == BytesBefore(pieces)
           T == {i \in Nat : i <= len => b[i + 1] = g[i + 1]}
<1>1. b = CHOOSE f : Eq(f)
  BY DEF BytesBefore
<1> HIDE DEF b
<1>2. Eq(g)
  <2>1. ASSUME NEW i \in 1 .. len + 1
        PROVE  g[i] = IF i = 1 THEN 0 ELSE g[i - 1] + 4 * pieces[i - 1].words
    <3>1. CASE i # 1
      <4>1. i - 1 \in 1 .. len /\ (i - 1) + 1 = i
        BY <3>1
      <4>2. g[(i - 1) + 1] = g[i - 1] + 4 * pieces[i - 1].words
        BY <4>1
      <4> QED BY <3>1, <4>1, <4>2
    <3> QED BY <3>1
  <2>2. [i \in 1 .. len + 1 |-> g[i]]
          = [i \in 1 .. len + 1 |-> IF i = 1 THEN 0 ELSE g[i - 1] + 4 * pieces[i - 1].words]
    BY <2>1
  <2> QED BY <2>2
<1>3. Eq(b)
  <2> HIDE DEF Eq
  <2> QED BY <1>1, <1>2
<1>4. 0 \in T
  BY <1>3
<1>5. ASSUME NEW i \in Nat, i \in T PROVE i + 1 \in T
  <2> SUFFICES ASSUME i + 1 <= len PROVE b[(i + 1) + 1] = g[(i + 1) + 1]
    OBVIOUS
  <2> DEFINE j == i + 1
  <2>1. j \in 1 .. len /\ j + 1 \in 1 .. len + 1 /\ j + 1 # 1 /\ (j + 1) - 1 = j
    OBVIOUS
  <2>2. b[j] = g[j]
    BY <1>5
  <2> HIDE DEF j
  <2>3. b[j + 1] = b[(j + 1) - 1] + 4 * pieces[(j + 1) - 1].words
    <3> HIDE DEF T
    <3> QED BY <1>3, <2>1
  <2>4. g[j + 1] = g[j] + 4 * pieces[j].words
    BY <2>1
  <2> QED BY <2>1, <2>2, <2>3, <2>4 DEF j
<1> HIDE DEF T
<1>6. Nat \subseteq T
  BY <1>4, <1>5, Induct
<1> SUFFICES ASSUME NEW i \in 1 .. len + 1 PROVE b[i] = g[i]
  BY DEF b
<1>7. i - 1 \in T /\ i - 1 <= len /\ (i - 1) + 1 = i
  BY <1>6
<1> QED BY <1>7 DEF T

(* Pieces of a chunk each, and one of the rest, if any. *)
Chunked(pieces, chunks, rest, len) ==
  /\ chunks \in Nat /\ rest \in 0 .. Chunk - 1
  /\ len = (IF rest = 0 THEN chunks ELSE chunks + 1) /\ Len(pieces) = len
  /\ \A i \in 1 .. len : pieces[i].words = (IF i <= chunks THEN Chunk ELSE rest) \div 4

(* The bytes before a piece, when the pieces are those of a memory dump.   *)
LEMMA BytesBeforePieces ==
  ASSUME NEW pieces, NEW chunks, NEW rest, NEW len, Chunked(pieces, chunks, rest, len)
  PROVE  /\ \A i \in 1 .. len : BytesBefore(pieces)[i] = (i - 1) * Chunk
         /\ BytesBefore(pieces)[len + 1] = chunks * Chunk + 4 * (rest \div 4)
<1> USE DEF Chunked
<1> DEFINE end == chunks * Chunk + 4 * (rest \div 4)
           g == [i \in 1 .. len + 1 |-> IF i <= chunks + 1 THEN (i - 1) * Chunk ELSE end]
<1>1. len \in Nat /\ len >= chunks /\ len <= chunks + 1 /\ rest \in Nat
  BY DEF Chunk
<1>2. end \in Nat /\ (len = chunks => end = chunks * Chunk)
  BY <1>1 DEF Chunk
<1>3. 4 * (Chunk \div 4) = Chunk
  BY DEF Chunk
<1> HIDE DEF end
<1>4. g[1] = 0
  BY <1>1 DEF Chunk
<1>5. ASSUME NEW i \in 1 .. len PROVE g[i + 1] = g[i] + 4 * pieces[i].words
  <2>1. g[i] = (i - 1) * Chunk
    BY <1>1
  <2>2. CASE i <= chunks
    <3>1. g[i + 1] = i * Chunk /\ pieces[i].words = Chunk \div 4
      BY <1>1, <2>2
    <3>2. i * Chunk = (i - 1) * Chunk + Chunk
      BY <1>1 DEF Chunk
    <3> QED BY <1>3, <2>1, <3>1, <3>2
  <2>3. CASE ~(i <= chunks)
    <3>1. i = chunks + 1 /\ g[i + 1] = end /\ pieces[i].words = rest \div 4
      BY <1>1, <2>3
    <3> QED BY <2>1, <3>1 DEF end
  <2> QED BY <2>2, <2>3
<1>6. \A i \in 1 .. len + 1 : BytesBefore(pieces)[i] = g[i]
  <2>1. g \in [1 .. len + 1 -> Nat]
    BY <1>1, <1>2 DEF Chunk
  <2> HIDE DEF g
  <2>2. \A i \in 1 .. len : g[i + 1] = g[i] + 4 * pieces[i].words
    BY <1>5
  <2>3. len \in Nat /\ Len(pieces) = len
    BY <1>1
  <2> QED BY <1>4, <2>1, <2>2, <2>3, BytesBeforeIs
<1>7. \A i \in 1 .. len : g[i] = (i - 1) * Chunk
  BY <1>1
<1>8. g[len + 1] = end
  BY <1>1, <1>2
<1> HIDE DEF g
<1> QED BY <1>1, <1>6, <1>7, <1>8 DEF end

(* The words from a place in a file on, each once and in their order; only  *)
(* a piece that the file has not got whole is no word.                     *)
WordsFrom(start, size, file, pieces) ==
  LET held(i) == start + BytesBefore(pieces)[i]
  IN  /\ BytesBefore(pieces)[Len(pieces) + 1] = 4 * (size \div 4)
      /\ \A i \in DOMAIN pieces :
           pieces[i].at = IF held(i) + 4 * pieces[i].words <= file.size THEN held(i) ELSE Lost

(* A memory dump has the words that were asked for, from where the tile    *)
(* holds them.                                                             *)
THEOREM MemoryIsWhole ==
  ASSUME NEW rd, NEW file, OpenedFor(rd, file),
         NEW col \in Nat, NEW row \in Nat, NEW offset \in Nat, NEW size \in Nat,
         NEW pieces, pieces = dump_memory(rd, col, row, offset, size)
  PROVE  WordsFrom(TileStart(file, <<col, row>>) + offset, size, file, pieces)
<1> DEFINE chunks == size \div Chunk
           rest   == size % Chunk
           len    == IF rest = 0 THEN chunks ELSE chunks + 1
           part(i) == IF i <= chunks THEN Chunk ELSE rest
           held(i) == TileStart(file, <<col, row>>) + offset + BytesBefore(pieces)[i]
<1>1. chunks \in Nat /\ rest \in 0 .. Chunk - 1 /\ size = chunks * Chunk + rest
  BY DEF Chunk
<1>2. chunks * Chunk + 4 * (rest \div 4) = 4 * (size \div 4)
  BY <1>1 DEF Chunk
<1>3. /\ DOMAIN pieces = 1 .. len /\ Len(pieces) = len
      /\ \A i \in 1 .. len :
           pieces[i] = dump_buffer(rd, col, row, offset + (i - 1) * Chunk, part(i))
  BY PiecesOfMemory
<1> HIDE DEF chunks, rest, len, part
<1>4. ASSUME NEW i \in 1 .. len PROVE pieces[i].words = part(i) \div 4
  <2>1. pieces[i] = dump_buffer(rd, col, row, offset + (i - 1) * Chunk, part(i))
    BY <1>3
  <2> QED BY <2>1 DEF dump_buffer
<1>5. /\ \A i \in 1 .. len : BytesBefore(pieces)[i] = (i - 1) * Chunk
      /\ BytesBefore(pieces)[len + 1] = chunks * Chunk + 4 * (rest \div 4)
  <2>1. len = IF rest = 0 THEN chunks ELSE chunks + 1
    BY DEF len
  <2>2. \A i \in 1 .. len : pieces[i].words = (IF i <= chunks THEN Chunk ELSE rest) \div 4
    BY <1>4 DEF part
  <2>3. Chunked(pieces, chunks, rest, len)
    BY <1>1, <1>3, <2>1, <2>2 DEF Chunked
  <2> QED BY <2>3, BytesBeforePieces
<1>6. ASSUME NEW i \in 1 .. len
      PROVE  pieces[i].at = IF held(i) + 4 * pieces[i].words <= file.size THEN held(i) ELSE Lost
  <2>1. i - 1 \in Nat /\ (i - 1) * Chunk \in Nat /\ offset + (i - 1) * Chunk \in Nat
    BY <1>1 DEF Chunk
  <2> DEFINE position == FilePosition(rd, col, row, offset + (i - 1) * Chunk)
  <2>2. position = TileStart(file, <<col, row>>) + (offset + (i - 1) * Chunk)
    BY <2>1, TilesAreFound
  <2>3. TileStart(file, <<col, row>>) \in Nat
    BY TileStartNat DEF OpenedFor
  <2>4. held(i) = position
    BY <1>5, <2>1, <2>2, <2>3
  <2>5. pieces[i] = [at |-> IF position + 4 * (part(i) \div 4) <= rd.size THEN position ELSE Lost,
                     words |-> part(i) \div 4]
    BY <1>3 DEF dump_buffer
  <2> HIDE DEF position, held, part
  <2>6. pieces[i].at = IF position + 4 * (part(i) \div 4) <= rd.size THEN position ELSE Lost
    BY <2>5
  <2>7. pieces[i].words = part(i) \div 4
    BY <1>4
  <2> QED BY <2>4, <2>6, <2>7 DEF OpenedFor
<1>7. BytesBefore(pieces)[Len(pieces) + 1] = 4 * (size \div 4)
  BY <1>2, <1>3, <1>5
<1> QED BY <1>3, <1>6, <1>7 DEF WordsFrom

(* Every tile holds a word at least.                                       *)
LEMMA TilesHoldAWord ==
  \A name \in Devices : \A row \in Nat : BlockSize(Config(name), row) >= 4
<1> SUFFICES ASSUME NEW name \in Devices, NEW row \in Nat
             PROVE  BlockSize(Config(name), row) >= 4
  OBVIOUS
<1>1. PICK i \in DOMAIN DEVICE_CONFIGS : DEVICE_CONFIGS[i].name = name
  BY DEF Devices
<1>2. (CHOOSE j \in DOMAIN DEVICE_CONFIGS : DEVICE_CONFIGS[j].name = name) \in DOMAIN DEVICE_CONFIGS
  BY <1>1
<1>3. \A j \in DOMAIN DEVICE_CONFIGS :
        DEVICE_CONFIGS[j].shim = MB /\ DEVICE_CONFIGS[j].mem = MB /\ DEVICE_CONFIGS[j].core = MB
  BY DEF DEVICE_CONFIGS
<1>4. Config(name).shim = MB /\ Config(name).mem = MB /\ Config(name).core = MB
  BY <1>2, <1>3 DEF Config
<1> QED BY <1>4 DEF BlockSize, MB

(* The columns that are counted are there, up to the first word of their   *)
(* topmost tile; the next one is not there whole, or the device ends.      *)
THEOREM ColumnsAreCounted ==
  ASSUME NEW rd, NEW file, OpenedFor(rd, file), rd.total_cols \in {0, rd.cfg.numcols}
  PROVE  LET n   == detect_num_cols(rd)
             cfg == rd.cfg
             end(col, row) == TileStart(file, <<col, row>>) + BlockSize(cfg, row)
         IN  /\ n \in Nat
             /\ \A col \in 0 .. n - 1, row \in 0 .. cfg.numrows - 2 : end(col, row) <= file.size
             /\ n = cfg.numcols \/ end(n, cfg.numrows - 1) > file.size
<1> DEFINE n   == detect_num_cols(rd)
           cfg == rd.cfg
           top == cfg.numrows - 1
           end(col, row) == TileStart(file, <<col, row>>) + BlockSize(cfg, row)
           probed(col) == TileStart(file, <<col, top>>)
<1>1. /\ WellFormed(cfg) /\ cfg.numcols \in Nat /\ cfg.numrows \in Nat /\ top \in Nat
      /\ file.size \in Nat
  BY ConfigWellFormed DEF OpenedFor, WellFormed
<1>2. /\ n \in 0 .. cfg.numcols
      /\ n = cfg.numcols \/ Unread(rd, n)
      /\ \A col \in 0 .. n - 1 : ~Unread(rd, col)
  <2>1. rd.total_cols \in Nat /\ rd.cfg.numcols \in Nat
    BY <1>1
  <2>2. (IF rd.total_cols # 0 THEN rd.total_cols ELSE rd.cfg.numcols) = cfg.numcols
    OBVIOUS
  <2> HIDE DEF n, cfg
  <2> QED BY <2>1, <2>2, ColumnsUpToTheFirstUnread DEF n, cfg
<1>3. \A col \in Nat : probed(col) \in Nat
  BY <1>1, TileStartNat DEF OpenedFor
<1>4. \A col \in Nat : read_register(rd, col, top, 0)
                         = IF probed(col) + 4 <= file.size THEN probed(col) ELSE Lost
  <2> SUFFICES ASSUME NEW col \in Nat
               PROVE  read_register(rd, col, top, 0)
                        = IF probed(col) + 4 <= file.size THEN probed(col) ELSE Lost
    OBVIOUS
  <2>1. probed(col) \in Nat /\ probed(col) + 0 = probed(col)
    BY <1>3
  <2> HIDE DEF top
  <2> QED BY <1>1, <2>1, RegistersAreTrue
<1>5. ASSUME NEW col \in 0 .. n - 1, NEW row \in 0 .. cfg.numrows - 2
      PROVE  end(col, row) <= file.size
  <2>1. col \in Nat /\ row \in Nat /\ row < top
    BY <1>1, <1>2
  <2>2. probed(col) + 4 <= file.size
    BY <1>2, <1>4, <2>1 DEF Unread
  <2>3. TileInTower(cfg, row) + BlockSize(cfg, row) <= TileInTower(cfg, top)
    BY <1>1, <2>1, TilesInOrder
  <2>4. /\ TileInTower(cfg, row) \in Nat /\ TileInTower(cfg, top) \in Nat
        /\ BlockSize(cfg, row) \in Nat
    BY <1>1, <2>1, TileNat
  <2>5. PICK base \in Int : /\ TileStart(file, <<col, row>>) = base + TileInTower(cfg, row)
                            /\ probed(col) = base + TileInTower(cfg, top)
    <3> DEFINE base == rd.header_size + col * TowerSize(cfg)
    <3>1. base \in Int
      <4>1. TowerSize(cfg) \in Nat
        BY <1>1, TileNat, TowerIsItsTiles
      <4>2. col * TowerSize(cfg) \in Nat
        BY <2>1, <4>1, ProductNat
      <4> QED BY <4>2 DEF OpenedFor
    <3>2. \A r \in Nat : TileStart(file, <<col, r>>) = base + TileInTower(cfg, r)
      <4> SUFFICES ASSUME NEW r \in Nat PROVE TileStart(file, <<col, r>>) = base + TileInTower(cfg, r)
        OBVIOUS
      <4>1. FilePosition(rd, col, r, 0) = TileStart(file, <<col, r>>) + 0
        BY <2>1, TilesAreFound
      <4>2. TileStart(file, <<col, r>>) \in Nat /\ TileInTower(cfg, r) \in Nat
        BY <1>1, <2>1, TileStartNat, TileNat DEF OpenedFor
      <4>3. FilePosition(rd, col, r, 0) = base + TileInTower(cfg, r) + 0
        BY DEF FilePosition
      <4> HIDE DEF base
      <4> QED BY <3>1, <4>1, <4>2, <4>3
    <3> HIDE DEF base
    <3> QED BY <1>1, <2>1, <3>1, <3>2
  <2> HIDE DEF probed
  <2> QED BY <1>1, <1>3, <2>1, <2>2, <2>3, <2>4, <2>5
<1>6. n = cfg.numcols \/ end(n, top) > file.size
  <2> SUFFICES ASSUME n # cfg.numcols PROVE end(n, top) > file.size
    OBVIOUS
  <2>1. n \in Nat /\ n < cfg.numcols /\ Unread(rd, n)
    BY <1>1, <1>2
  <2>2. read_register(rd, n, top, 0) = Lost
    <3>1. Addressable(rd, n, top)
      BY <1>1, <2>1 DEF Addressable
    <3> QED BY <2>1, <3>1 DEF Unread
  <2>3. probed(n) + 4 > file.size
    <3>1. probed(n) \in Nat
      BY <1>3, <2>1
    <3> HIDE DEF probed, n
    <3> QED BY <1>1, <1>4, <2>1, <2>2, <3>1 DEF Lost
  <2>4. BlockSize(cfg, top) >= 4 /\ BlockSize(cfg, top) \in Nat
    BY <1>1, TilesHoldAWord, TileNat DEF OpenedFor
  <2>5. probed(n) \in Nat
    BY <1>3, <2>1
  <2> HIDE DEF n
  <2> QED BY <1>1, <2>3, <2>4, <2>5
<1> QED BY <1>2, <1>5, <1>6

=============================================================================
