------------------------------- MODULE CoreDump ------------------------------
(***************************************************************************)
(* Reading a core dump of the AIE array without the C++ library: the       *)
(* geometry of the devices (arch/device_configs.py) and the reader of      *)
(* backend/core_dump_impl.py.                                              *)
(*                                                                         *)
(* A file is a record: what its header says (magic, head, hwGen, rows,     *)
(* cols), how many bytes it has, and the device it was taken from.  The    *)
(* program that writes dumps is external: it stores the tiles column by    *)
(* column from the shim upwards.  A word is named by its place in the file. *)
(***************************************************************************)
EXTENDS Integers, Sequences

MB == 1048576

(* In the order of the dictionary. *)
DEVICE_CONFIGS == <<
  [name |-> "phx", arch |-> "aie2p", base |-> "phx", hwGen |-> 2,
   core_row_start |-> 2, memtile_rows |-> 1, numrows |-> 6, numcols |-> 4,
   shim |-> MB, mem |-> MB, core |-> MB],
  [name |-> "stx", arch |-> "aie2p", base |-> "stx", hwGen |-> 4,
   core_row_start |-> 2, memtile_rows |-> 1, numrows |-> 6, numcols |-> 8,
   shim |-> MB, mem |-> MB, core |-> MB],
  [name |-> "telluride", arch |-> "aie2ps", base |-> "telluride", hwGen |-> 5,
   core_row_start |-> 3, memtile_rows |-> 2, numrows |-> 7, numcols |-> 36,
   shim |-> MB, mem |-> MB, core |-> MB],
  [name |-> "t20", arch |-> "aie2ps", base |-> "telluride", hwGen |-> 5,
   core_row_start |-> 2, memtile_rows |-> 1, numrows |-> 6, numcols |-> 24,
   shim |-> MB, mem |-> MB, core |-> MB],
  [name |-> "t10", arch |-> "aie2ps", base |-> "telluride", hwGen |-> 5,
   core_row_start |-> 2, memtile_rows |-> 1, numrows |-> 4, numcols |-> 8,
   shim |-> MB, mem |-> MB, core |-> MB] >>

Devices  == {DEVICE_CONFIGS[i].name : i \in DOMAIN DEVICE_CONFIGS}
NoDevice == ""
Config(name) == DEVICE_CONFIGS[CHOOSE i \in DOMAIN DEVICE_CONFIGS : DEVICE_CONFIGS[i].name = name]

get_base_device(name) == Config(name).base

(* The first device of the generation, one of this geometry if there is. *)
resolve_variant(hwGen, rows, cols) ==
  LET candidates == {i \in DOMAIN DEVICE_CONFIGS : DEVICE_CONFIGS[i].hwGen = hwGen}
      exact == {i \in candidates : DEVICE_CONFIGS[i].numrows = rows /\ DEVICE_CONFIGS[i].numcols = cols}
      first(S) == DEVICE_CONFIGS[CHOOSE i \in S : \A j \in S : i <= j].name
  IN  CASE candidates = {} -> NoDevice
        [] exact # {}      -> first(exact)
        [] OTHER           -> first(candidates)

-----------------------------------------------------------------------------
(* The header. *)

HeaderBytes == 18

(* Three letters of the magic number are looked at, and every field must be there. *)
peek_device(file) ==
  IF file.magic = "raw" \/ file.size < HeaderBytes THEN NoDevice
  ELSE resolve_variant(file.hwGen, file.rows, file.cols)

(* An open file.  The columns of the header are 0 where it was not read.   *)
Reader(file, dev, no_header) ==
  [cfg |-> Config(dev), size |-> file.size,
   header_size |-> IF no_header THEN 0 ELSE file.head,
   total_cols |-> IF no_header \/ file.size < HeaderBytes THEN 0 ELSE file.cols]

(* All four letters, and a plausible size: anything else raises. *)
Opens(file, no_header) ==
  no_header \/ (/\ file.magic = "NPU" /\ file.size >= 12
                /\ file.head \in HeaderBytes .. MB)

-----------------------------------------------------------------------------
(* Where the tiles are. *)

TowerSize(cfg) ==
  cfg.shim + cfg.mem * cfg.memtile_rows + cfg.core * (cfg.numrows - cfg.core_row_start)

(* Memory tiles are counted from the bottom of the tower. *)
TileInTower_Shim(cfg, row) ==
  IF row = 0 THEN 0
  ELSE IF row <= cfg.memtile_rows THEN row * cfg.mem
  ELSE cfg.shim + cfg.mem * cfg.memtile_rows + (row - cfg.memtile_rows) * cfg.core

TileInTower(cfg, row) ==
  IF row = 0 THEN 0
  ELSE IF row <= cfg.memtile_rows THEN cfg.shim + (row - 1) * cfg.mem
  ELSE cfg.shim + cfg.mem * cfg.memtile_rows + (row - 1 - cfg.memtile_rows) * cfg.core

FilePosition(rd, col, row, offset) ==
  rd.header_size + col * TowerSize(rd.cfg) + TileInTower(rd.cfg, row) + offset

BlockSize(cfg, row) ==
  IF row = 0 THEN cfg.shim ELSE IF row <= cfg.memtile_rows THEN cfg.mem ELSE cfg.core

(* The bytes of a tower below each row.  The program that writes dumps     *)
(* stores the tiles of a tower one after the other.                        *)
Below(cfg) ==
  LET below[row \in Nat] == IF row = 0 THEN 0 ELSE below[row - 1] + BlockSize(cfg, row - 1)
  IN  below

(* Where that program has put a tile. *)
TileStart(file, tile) ==
  LET cfg == Config(file.device)
  IN  file.head + tile[1] * Below(cfg)[cfg.numrows] + Below(cfg)[tile[2]]

-----------------------------------------------------------------------------
(* Reading. *)

Lost == -1   \* no word: zero is reported

(* A tile the device has not got raises. *)
Addressable(rd, col, row) == col < rd.cfg.numcols /\ row < rd.cfg.numrows

read_register(rd, col, row, offset) ==
  LET position == FilePosition(rd, col, row, offset)
  IN  IF position + 4 <= rd.size THEN position ELSE Lost

(* The shim tile is probed. *)
DetectNumCols_Shim(rd) ==
  LET cols == IF rd.total_cols # 0 THEN rd.total_cols ELSE rd.cfg.numcols
      unread(col) == ~Addressable(rd, col, 0) \/ read_register(rd, col, 0, 0) = Lost
  IN  CHOOSE n \in 0 .. cols : /\ n = cols \/ unread(n)
                               /\ \A col \in 0 .. n - 1 : ~unread(col)

detect_num_cols(rd) ==
  LET cols == IF rd.total_cols # 0 THEN rd.total_cols ELSE rd.cfg.numcols
      top == rd.cfg.numrows - 1
      unread(col) == ~Addressable(rd, col, top) \/ read_register(rd, col, top, 0) = Lost
  IN  CHOOSE n \in 0 .. cols : /\ n = cols \/ unread(n)
                               /\ \A col \in 0 .. n - 1 : ~unread(col)

(* A run of words of the file, or of zeros if any of it is missing. *)
dump_buffer(rd, col, row, offset, size) ==
  LET words == size \div 4
      position == FilePosition(rd, col, row, offset)
  IN  [at |-> IF position + 4 * words <= rd.size THEN position ELSE Lost, words |-> words]

Chunk == 4096

(* The remainder is read from where the memory began. *)
DumpMemory_Restart(rd, col, row, offset, size) ==
  LET whole == [i \in 1 .. size \div Chunk |->
                  dump_buffer(rd, col, row, offset + (i - 1) * Chunk, Chunk)]
  IN  IF size % Chunk = 0 THEN whole
      ELSE Append(whole, dump_buffer(rd, col, row, offset, size % Chunk))

dump_memory(rd, col, row, offset, size) ==
  LET whole == [i \in 1 .. size \div Chunk |->
                  dump_buffer(rd, col, row, offset + (i - 1) * Chunk, Chunk)]
  IN  IF size % Chunk = 0 THEN whole
      ELSE Append(whole, dump_buffer(rd, col, row, offset + Len(whole) * Chunk, size % Chunk))

(* The bytes that come before each piece of a memory dump. *)
BytesBefore(pieces) ==
  LET before[i \in 1 .. Len(pieces) + 1] ==
        IF i = 1 THEN 0 ELSE before[i - 1] + 4 * pieces[i - 1].words
  IN  before
=============================================================================
