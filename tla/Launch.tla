-------------------------------- MODULE Launch -------------------------------
(***************************************************************************)
(* The command line: what mldebug_cli.check_args makes of the options, and *)
(* what input_parser.create_run_flags makes of them before each failsafe   *)
(* partition.  The options are rewritten in place: the namespace "args" a  *)
(* partition leaves behind is what the next one starts from.               *)
(***************************************************************************)
EXTENDS CoreDump

VARIABLES
  line,     \* the command as typed, and what it finds: files, platform
  args      \* the namespace

inputVars == <<line, args>>

NoFile == [magic |-> "none", size |-> 0]
NoFlags == [made |-> FALSE, multistamp |-> FALSE]

HasDump == line.core_dump # NoFile

check_args(l) ==
  [device |-> l.device, sub_device |-> NoDevice, overlay |-> l.overlay,
   backend |-> IF l.core_dump # NoFile THEN "core_dump"
               ELSE IF l.job = "layers" THEN "test" ELSE l.backend,
   aie_only |-> \/ l.core_dump # NoFile
                \/ l.job \in {"status", "cmd"}
                \/ l.job # "layers" /\ l.aie_only,
   interactive |-> IF l.core_dump # NoFile /\ l.job # "status" THEN TRUE
                   ELSE l.job \notin {"layers", "status", "cmd"} /\ (l.interactive \/ l.aie_only),
   no_header |-> FALSE, run_flags |-> NoFlags]

-----------------------------------------------------------------------------
(* set_device. *)

(* What the build of a partition says: the geometry in the trace           *)
(* configuration, or else the generation in aie_control.cpp.               *)
_detect_vaiml_variant(part) ==
  LET traced == IF part.trace = <<>> THEN NoDevice
                ELSE resolve_variant(part.trace[1], part.trace[2], part.trace[3])
  IN  IF traced # NoDevice THEN traced
      ELSE CASE part.define = "AIE2PS" -> "telluride"
             [] part.define = "AIE2" -> "phx"
             [] OTHER -> NoDevice

Header == IF HasDump THEN peek_device(line.core_dump) ELSE NoDevice

(* The device that is found without the help of the user. *)
Detected(part) ==
  IF Header # NoDevice THEN Header
  ELSE IF _detect_vaiml_variant(part) # NoDevice THEN _detect_vaiml_variant(part)
  ELSE IF line.arm THEN "telluride" ELSE "stx"

(* A dump without a header that can be read needs -d. *)
Headerless(a) == HasDump /\ Header = NoDevice /\ a.device = NoDevice

(* The design is believed before the header. *)
set_device_DesignFirst(a, part) ==
  LET variant == IF a.device # NoDevice THEN a.device
                 ELSE IF _detect_vaiml_variant(part) # NoDevice THEN _detect_vaiml_variant(part)
                 ELSE Detected(part)
  IN  [a EXCEPT !.sub_device = variant, !.device = get_base_device(variant),
                !.no_header = HasDump /\ Header = NoDevice]

set_device(a, part) ==
  LET variant == IF a.device # NoDevice THEN a.device ELSE Detected(part)
  IN  [a EXCEPT !.sub_device = variant, !.device = get_base_device(variant),
                !.no_header = HasDump /\ Header = NoDevice]

set_coredump_overlay(a) ==
  IF ~HasDump \/ a.overlay # <<>> \/ ~Opens(line.core_dump, a.no_header) THEN a
  ELSE LET cfg == Config(a.sub_device)
           ncols == detect_num_cols(Reader(line.core_dump, a.sub_device, a.no_header))
       IN  IF ncols < 1 THEN a
           ELSE [a EXCEPT !.overlay = <<ncols, cfg.numrows - cfg.core_row_start>>]

(* Without metadata the partition is debugged in the console, on its own.  *)
Standalone(a, part) ==
  IF part.metadata \/ a.aie_only THEN a
  ELSE [a EXCEPT !.aie_only = TRUE, !.interactive = TRUE]

(* They are made once. *)
MakeRunFlags(a) ==
  IF a.run_flags.made THEN a
  ELSE [a EXCEPT !.run_flags =
          [made |-> TRUE, multistamp |-> line.multistamp \/ a.aie_only \/ line.job = "layers"]]

create_run_flags(a, part) ==
  MakeRunFlags(Standalone(set_coredump_overlay(set_device(a, part)), part))

-----------------------------------------------------------------------------
(* The tiles that are looked at in standalone mode, and what a core dump   *)
(* says of them.                                                           *)

(* Columns and core rows, of a design of four by four where the command     *)
(* does not say.  A third figure in front is a number of stamps.           *)
Columns(a) ==
  CASE Len(a.overlay) = 2 -> a.overlay[1]
    [] Len(a.overlay) = 3 -> (IF a.run_flags.multistamp THEN a.overlay[1] ELSE 1) * a.overlay[2]
    [] OTHER -> 4

CoreRows(a) == IF a.overlay = <<>> THEN 4 ELSE a.overlay[Len(a.overlay)]

Tiles(a) ==
  (0 .. Columns(a) - 1) \X (0 .. CoreRows(a) + Config(a.sub_device).core_row_start - 1)

DumpReader(a) == Reader(line.core_dump, a.sub_device, a.no_header)

(* One register stands for those that are read of a tile: CORE_STATUS. *)
StatusRegister(dev) == IF Config(dev).arch = "aie2p" THEN 204804 ELSE 229380

AIEStatus_get(a) ==
  [t \in Tiles(a) |-> read_register(DumpReader(a), t[1], t[2], StatusRegister(a.sub_device))]

(* Asking for a tile that the device has not got raises. *)
StatusRaises(a) == \E t \in Tiles(a) : ~Addressable(DumpReader(a), t[1], t[2])
=============================================================================
