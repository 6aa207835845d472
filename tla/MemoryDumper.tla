---------------------------- MODULE MemoryDumper ----------------------------
(***************************************************************************)
(* What a batch run leaves on disk: the files of L1 and L2 buffers that    *)
(* each start breakpoint writes, and the L3 buffers it asks flexmlrt for   *)
(* (VAIML flow).  A file is a record of what its path tells and of what    *)
(* was read: pieces of tile memory, each with the iteration at which the   *)
(* replica that owns the tile was halted.                                  *)
(*                                                                         *)
(* One column stands for its memory tile and its core tiles.  A buffer is  *)
(*   [type, tg, l1, l2]                                                    *)
(* with l2 a sequence of regions [col, addr, size], columns relative to    *)
(* the stamp (absolute for templated graphs); the index is the buf_id.     *)
(***************************************************************************)
EXTENDS BatchRunner, Sequences

CONSTANTS
  Columns,     \* columns of a stamp
  TileSize,    \* MEM_TILE_SZ
  InBuffers,   \* layer -> its input buffers
  WtsBuffers,  \* layer -> its weights
  OutBuffers,  \* layer -> its output buffers
  Transfers,   \* layer -> L3 to L2 input transfers (buffer_iter of buffer_info)
  DepthIter,   \* layer -> iterations between two transfers of the output to L2
  DumpFlags    \* run flags: "skip_dump", "l2_dump_only", "l2_ifm_dump", "tg_dump"

ASSUME DumpAssumption ==
  /\ Columns \in Nat \ {0} /\ TileSize \in Nat \ {0}
  /\ \A l \in Layer : Transfers[l] \in 1 .. Iterations[l] /\ DepthIter[l] \in Nat \ {0}

VARIABLES
  files,     \* what was written
  requests   \* layers whose L3 buffers were asked for, in order

dumpVars == <<vars, files, requests>>

-----------------------------------------------------------------------------
(* A region that runs over the end of its tile goes on in the next column: *)
(* where it goes on after j rounds of the loop, and what is left of it.    *)
Pieces(region) ==
  LET addr(j) == IF j = 0 THEN region.addr ELSE 0
      left(j) == region.size + region.addr - addr(j) - j * TileSize
      spills(j) == left(j) > TileSize - addr(j)
      rounds == {j \in 0 .. region.size : \A i \in 0 .. j - 1 : spills(i)}
  IN  {[col |-> region.col + j, addr |-> addr(j),
        size |-> IF spills(j) THEN TileSize - addr(j) ELSE left(j)] : j \in rounds}

Buffers(l) == InBuffers[l] \cup WtsBuffers[l] \cup OutBuffers[l]

(* The buffers of a layer have names of their own.  A buffer lies in the   *)
(* columns of a stamp, each entry of a templated graph in those of one     *)
(* replica.                                                                *)
ASSUME BuffersAssumption ==
  \A l \in Layer :
    /\ OutBuffers[l] \cap (InBuffers[l] \cup WtsBuffers[l]) = {}
    /\ \A b \in Buffers(l), c \in Buffers(l) : b.type = c.type => b = c
    /\ \A b \in Buffers(l) : \A id \in DOMAIN b.l2 :
         /\ b.l2[id].col \in Nat /\ b.l2[id].size \in Nat
         /\ b.l2[id].addr \in 0 .. TileSize - 1
         /\ \A p \in Pieces(b.l2[id]) :
              IF b.tg THEN p.col \div Columns = b.l2[id].col \div Columns ELSE p.col < Columns

ColumnsOf(sid) == sid * Columns .. (sid + 1) * Columns - 1

(* The columns of the first batch are read for every batch. *)
Column_OneBatch(buffer, piece, sid) ==
  IF buffer.tg THEN piece.col ELSE piece.col + StampOf(sid) * Columns

Column(buffer, piece, sid) == IF buffer.tg THEN piece.col ELSE piece.col + sid * Columns

(* What dump_memory returns: the state of the replica the column is part of.*)
Read(col, addr, size) ==
  [col |-> col, addr |-> addr, size |-> size, of |-> at[col \div Columns]]

Path(level, sid, buffer, n) ==
  [level |-> level, batch |-> BatchOf(sid), layer |-> cur, type |-> buffer.type, it |-> n]

(* The path of an L2 file says nothing of the batch. *)
L2Name_NoBatch(sid, buffer, n, id) ==
  <<[Path("l2", sid, buffer, n) EXCEPT !.batch = 0],
    IF buffer.tg THEN <<"entry", id>> ELSE <<StampOf(sid), id>>>>

L2Name(sid, buffer, n, id) ==
  <<Path("l2", sid, buffer, n),
    IF buffer.tg THEN <<"entry", id>> ELSE <<StampOf(sid), id>>>>

(* dump_memory_l2.  The entries of a templated graph that belong to other  *)
(* replicas leave no file.                                                 *)
L2Dump(buffers, n, sid) ==
  LET Own(b, id) == {p \in Pieces(b.l2[id]) : Column(b, p, sid) \in ColumnsOf(sid)}
  IN  UNION {{[name |-> L2Name(sid, b, n, id),
               data |-> {Read(Column(b, p, sid), p.addr, p.size) : p \in Own(b, id)}]
              : id \in {i \in DOMAIN b.l2 : b.tg => Own(b, i) # {}}}
             : b \in {x \in buffers : x.tg => "tg_dump" \in DumpFlags}}

(* dump_memory_l1: ping in odd iterations, pong in even ones. *)
L1Dump(buffers, n, sid) ==
  IF "l2_dump_only" \in DumpFlags THEN {}
  ELSE {[name |-> <<Path("l1", sid, b, n), col>>,
         data |-> {Read(col, IF n % 2 = 1 THEN "ping" ELSE "pong", 0)}]
        : b \in {x \in buffers : x.l1}, col \in ColumnsOf(sid)}

-----------------------------------------------------------------------------
(* Iterations between two transfers of the input from L3. *)
BufferIter(l) == Iterations[l] \div Transfers[l]

(* The input of an iteration is dumped when the next one starts. *)
InputsArrive_Late(l, i) == i % BufferIter(l) = 0

InputsArrive(l, i) == (i - 1) % BufferIter(l) = 0

(* Output that reached L2 is dumped at the start of the next iteration,    *)
(* under the number of the iteration that produced it.                     *)
OutputsReady(l, i) == i > 1 /\ i % DepthIter[l] = 1

(* _process_start_breakpoint: the files of iteration i of layer cur. *)
StartDump(i, sid) ==
  IF "skip_dump" \in DumpFlags THEN {}
  ELSE L2Dump((IF InputsArrive(cur, i) THEN InBuffers[cur] ELSE {}) \cup WtsBuffers[cur], i, sid)
       \cup (IF "l2_ifm_dump" \in DumpFlags THEN {}
             ELSE L1Dump(InBuffers[cur] \cup WtsBuffers[cur], i, sid)
                  \cup (IF OutputsReady(cur, i) THEN L2Dump(OutBuffers[cur], i - 1, sid)
                        ELSE {}))

Reached == {sid \in Replica : seen'[sid] # seen[sid]}

WriteFiles == files' = files \cup UNION {StartDump(seen'[sid].it, sid) : sid \in Reached}

(* Replica 0 asks for the L3 buffers of the layer at the start of its last *)
(* iteration, and again when its worker returns.                           *)
StartRequest ==
  0 \in Reached /\ (seen'[0].it = NumIter(cur) \/ SkipMode = "skip_iter2")

WorkerRequest ==
  thread[0] = "ret" /\ thread'[0] = "done" /\ SkipMode # "skip_iter2"

RequestL3 ==
  requests' = IF (StartRequest \/ WorkerRequest) /\ ~error
                THEN Append(requests, cur) ELSE requests

DumpInit == Init /\ files = {} /\ requests = <<>>

DumpNext == Next /\ WriteFiles /\ RequestL3

DumpSpec == DumpInit /\ [][DumpNext]_dumpVars /\ Fairness

-----------------------------------------------------------------------------
(* The bytes of a region as one range that runs through the columns. *)
Bytes(col, addr, size) ==
  {col * TileSize + a : a \in addr .. addr + size - 1}

BytesRead(file) == UNION {Bytes(r.col, r.addr, r.size) : r \in file.data}

(* An L2 file holds what its path says: all bytes of that buffer of that   *)
(* replica (or templated graph entry), read when the replica was at the iteration of    *)
(* the name, or one after it for the output; nothing is written over.      *)
FilesHoldWhatTheySay ==
  /\ \A f \in files, g \in files : f.name = g.name => f = g
  /\ \A f \in {x \in files : x.name[1].level = "l2"} :
       LET p   == f.name[1]
           b   == CHOOSE x \in Buffers(p.layer) : x.type = p.type
           r   == b.l2[f.name[2][2]]
           col == IF b.tg THEN r.col
                  ELSE r.col + (p.batch * StampsPerBatch + f.name[2][1]) * Columns
           i   == p.it + IF b \in OutBuffers[p.layer] THEN 1 ELSE 0
       IN  /\ BytesRead(f) = Bytes(col, r.addr, r.size)
           /\ \A x \in f.data : x.of = [layer |-> p.layer, it |-> i]

(* A run that succeeds has dumped the input of every transfer, for every   *)
(* replica of the layer, once it is in L2 and before the next transfer     *)
(* replaces it.                                                            *)
EveryTransferDumped ==
  phase = "success" /\ SkipMode = "none" /\ "skip_dump" \notin DumpFlags =>
    \A l \in Layer : \A sid \in {r \in Replica : RunsReplica(l, r)} :
      \A k \in 0 .. Transfers[l] - 1 : \A b \in InBuffers[l] : ~b.tg /\ DOMAIN b.l2 # {} =>
        \E f \in files :
          /\ f.name[1] = [level |-> "l2", batch |-> BatchOf(sid), layer |-> l, type |-> b.type,
                          it |-> k * (Iterations[l] \div Transfers[l]) + 1]
          /\ f.name[2][1] = StampOf(sid)

(* When the L3 buffers of a layer are asked for no replica is behind: what *)
(* it runs of the earlier layers is started up to the last iteration.      *)
RequestedInTurn ==
  [][requests' # requests =>
       \A sid \in Replica :
         at[sid].layer < cur => NextStart(sid).layer >= cur]_dumpVars
=============================================================================
