------------------------------ MODULE MCSession -----------------------------
EXTENDS DebugSession

(* What the build of a partition says of the device. *)
Unknown == [trace |-> <<>>, define |-> "none", metadata |-> TRUE]
OnT20   == [trace |-> <<5, 6, 24>>, define |-> "AIE2PS", metadata |-> TRUE]
OnStx   == [trace |-> <<4, 6, 8>>, define |-> "none", metadata |-> TRUE]
OnPs    == [trace |-> <<>>, define |-> "AIE2PS", metadata |-> TRUE]
Failed  == [Unknown EXCEPT !.metadata = FALSE]

Plain ==
  [device |-> NoDevice, overlay |-> <<>>, core_dump |-> NoFile, backend |-> "xrt", job |-> "",
   aie_only |-> FALSE, interactive |-> FALSE, l3 |-> FALSE, automated |-> FALSE,
   multistamp |-> FALSE, arm |-> FALSE, design |-> <<OnStx, OnStx>>]

(* On the device: every way to run, and a partition that was not built. *)
Live ==
  {[Plain EXCEPT !.l3 = l3, !.automated = automated, !.interactive = interactive] :
     l3 \in BOOLEAN, automated \in BOOLEAN, interactive \in BOOLEAN}
  \cup {[Plain EXCEPT !.l3 = TRUE, !.design = design] :
          design \in {<<OnStx, Failed>>, <<Failed, OnStx>>}}
  \cup {[Plain EXCEPT !.l3 = l3, !.job = job, !.aie_only = (job = "script")] :
          l3 \in BOOLEAN, job \in {"layers", "status", "cmd", "script"}}
  \cup {[Plain EXCEPT !.l3 = TRUE, !.backend = "test", !.arm = TRUE]}

(* Core dumps: towers, tiles of one more and bytes of one more tile. *)
Dump(device, towers, tiles, bytes) ==
  LET cfg == Config(device)
  IN  [magic |-> "NPU", head |-> 256, hwGen |-> cfg.hwGen, rows |-> cfg.numrows,
       cols |-> cfg.numcols, device |-> device,
       size |-> 256 + towers * TowerSize(cfg) + tiles * MB + bytes]

Raw(file) == [file EXCEPT !.magic = "raw", !.head = 0]

Small == Dump("t10", 2, 1, 0)

(* Whole, and cut off at every sort of place. *)
Files ==
  {Dump(d, Config(d).numcols, 0, 0) : d \in Devices}
  \cup {Dump("t10", 0, 0, -240), Small}
  \cup UNION {{Dump(d, 1, tiles, bytes) :
                 tiles \in {0, 2, Config(d).numrows - 1}, bytes \in {0, 3, 4, 229381, MB - 1}}
              : d \in {"t20", "telluride"}}

OfFile(file) == [Plain EXCEPT !.core_dump = file, !.design = <<OnPs, Unknown>>]

Offline ==
  {[OfFile(file) EXCEPT !.job = "status"] : file \in Files}
  \cup {[OfFile(Raw(Small)) EXCEPT !.job = "status", !.device = d] : d \in {NoDevice, "t10", "stx"}}
  \cup {[OfFile(Dump("t20", 1, 5, 4)) EXCEPT !.job = "cmd"], [OfFile(Small) EXCEPT !.l3 = TRUE]}
  \cup {[OfFile(file) EXCEPT !.device = "t10"] :
          file \in {[Small EXCEPT !.magic = "NPUx"], [Small EXCEPT !.hwGen = 9], Dump("t10", 1, 1, 70000)}}
  \cup {[OfFile(Small) EXCEPT !.overlay = overlay, !.job = job] :
          overlay \in {<<2, 2, 2>>, <<9, 2>>}, job \in {"status", "cmd"}}

AllLines == Live \cup Offline

Asked(col, row, offset, size) == [tile |-> <<col, row>>, offset |-> offset, size |-> size]
SomeRequests == {Asked(0, 1, 0, 10), Asked(1, 2, 65536, 2 * Chunk + 8), Asked(1, 0, 4, Chunk)}

Telluride == {[Plain EXCEPT !.design = <<OnT20, OnT20>>, !.device = d] : d \in {NoDevice, "t20"}}
L3Batch   == {[Plain EXCEPT !.l3 = TRUE]}
=============================================================================
