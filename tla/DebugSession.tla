---------------------------- MODULE DebugSession ----------------------------
(***************************************************************************)
(* A run of the command line tool over the failsafe partitions of a        *)
(* design: the set-up of each from the options, one ClientDebug after the  *)
(* other, its debug server for flexmlrt, the dumps of L3 buffers while the *)
(* layers are stepped, what is read from a core dump, and every way out of *)
(* the program.                                                            *)
(***************************************************************************)
EXTENDS DebugServer, Launch

CONSTANTS
  MaxRequests,  \* bound: dump requests of a whole run
  Lines,        \* the commands that are looked at, with what they find
  Requests      \* the memory that is dumped by hand: tile, offset and size

(* A file of a dump was taken from one of the devices.  What has no header *)
(* is all tiles.                                                           *)
IsFile(file) ==
  /\ file.device \in Devices /\ file.size \in Nat /\ file.head \in Nat
  /\ file.magic = "raw" => file.head = 0

ASSUME LinesAssumption ==
  /\ MaxRequests \in Nat
  /\ \A l \in Lines :
       /\ l.device \in Devices \cup {NoDevice} /\ l.backend \in {"xrt", "test"}
       /\ l.core_dump # NoFile => IsFile(l.core_dump)
  /\ \A r \in Requests : r.tile \in Nat \X Nat /\ r.offset \in Nat /\ r.size \in Nat

VARIABLES
  pc,           \* where the debugger is
  fsp,          \* partition being debugged
  active,       \* utils._active_debug_server
  dumper,       \* object in dumper.debug_server
  closing,      \* object being closed
  after,        \* where the debugger goes once it is closed
  sent,         \* number of the last dump request
  acked,        \* requests that send_request returned True for
  how,          \* how the run came to its end
  offered,      \* a brief server was started
  shown,        \* the status of the tiles, as last printed in this partition
  memory        \* the memory dump last printed, with what was asked for

deadVars == <<shown, memory>>
progVars == <<inputVars, deadVars, pc, fsp, active, dumper, closing, after, sent, acked, how, offered>>
vars == <<wireVars, progVars>>

Pc == {"launch", "context", "bind", "accept", "load", "backends", "run", "await",
       "closing", "termination", "next", "brief", "offer", "exited"}

TypeOK ==
  /\ WireTypeOK
  /\ line \in Lines
  /\ args.sub_device \in Devices \cup {NoDevice} /\ args.device \in Devices \cup {NoDevice}
  /\ args.backend \in {"xrt", "test", "core_dump"}
  /\ args.aie_only \in BOOLEAN /\ args.interactive \in BOOLEAN /\ args.no_header \in BOOLEAN
  /\ pc \in Pc /\ after \in Pc
  /\ fsp \in 1 .. Partitions
  /\ active \in Server \cup {NoServer} /\ dumper \in Server \cup {NoServer}
  /\ closing \in Server \cup {NoServer}
  /\ sent \in 0 .. MaxRequests
  /\ acked \subseteq 1 .. sent
  /\ how \in {"running", "end", "early", "failed", "crash", "raise", "exit"}
  /\ offered \in BOOLEAN

Init ==
  /\ WireInit
  /\ line \in Lines /\ args = check_args(line)
  /\ pc = "launch" /\ after = "exited"
  /\ fsp = 1
  /\ active = NoServer /\ dumper = NoServer /\ closing = NoServer
  /\ sent = 0 /\ acked = {}
  /\ how = "running" /\ offered = FALSE
  /\ shown = <<>> /\ memory = <<>>

Serves == line.l3 \/ line.automated

(* Commands are typed or come from a script.                               *)
ByHand == args.interactive \/ line.job \in {"script", "cmd"}

(* The commands after which the loop over the partitions is left.          *)
Reports == line.job \in {"layers", "status"}

(* One partition more than there are. *)
Last_Passed == fsp > Partitions

Last == fsp = Partitions

-----------------------------------------------------------------------------
(* Ways out. *)

(* The process ends: the system closes its sockets. *)
Exit ==
  /\ pc' = "exited"
  /\ port' = NoServer /\ client' = NoServer /\ toDebugger' = <<>>
  /\ UNCHANGED <<toPeer, peer, part, carried, died>>

(* cleanup_and_exit. *)
CleanupAndExit ==
  IF ~line.l3
    THEN Exit /\ UNCHANGED <<active, closing, after>>
    ELSE /\ pc' = IF active = NoServer THEN "brief" ELSE "closing"
         /\ closing' = active /\ active' = NoServer
         /\ after' = "exited"
         /\ UNCHANGED wireVars

(* DebugServer.close of the object in dumper.debug_server. *)
CloseThen(next) ==
  /\ pc' = IF dumper = NoServer THEN next ELSE "closing"
  /\ closing' = dumper
  /\ after' = next
  /\ UNCHANGED wireVars

-----------------------------------------------------------------------------
(* Setting up a partition: launch_debug and ClientDebug. *)

AfterContext == IF Serves THEN "bind" ELSE "load"

(* create_run_flags. *)
SetUpPartition ==
  /\ pc = "launch"
  /\ IF Headerless(args)
       THEN CleanupAndExit /\ how' = "early" /\ UNCHANGED args
       ELSE /\ args' = create_run_flags(args, line.design[fsp])
            /\ pc' = IF args.backend = "xrt" THEN "context" ELSE AfterContext
            /\ UNCHANGED <<wireVars, active, closing, after, how>>
  /\ UNCHANGED <<line, deadVars, fsp, dumper, sent, acked, offered>>

(* check_hw_context found the context, or it gives up. *)
CheckContext ==
  /\ pc = "context"
  /\ \/ /\ pc' = AfterContext
        /\ UNCHANGED <<wireVars, active, closing, after, how>>
     \/ CleanupAndExit /\ how' = "early"
  /\ UNCHANGED <<inputVars, deadVars, fsp, dumper, sent, acked, offered>>

(* A server whose port is taken is made all the same, without a client.  A *)
(* server of the test backend has no sockets.                              *)
StartServer ==
  /\ pc = "bind"
  /\ dumper' = fsp
  /\ IF args.backend = "test"
       THEN pc' = "load" /\ UNCHANGED wireVars
       ELSE /\ Bind(fsp)
            /\ pc' = IF port = NoServer THEN "accept" ELSE IF Serves THEN "load" ELSE "run"
  /\ UNCHANGED <<inputVars, deadVars, fsp, active, closing, after, sent, acked, how, offered>>

(* It waits for flexmlrt without a limit.                                  *)
AcceptClient ==
  /\ pc = "accept"
  /\ Accept(fsp)
  /\ pc' = IF Serves THEN "load" ELSE "run"
  /\ UNCHANGED <<inputVars, deadVars, fsp, active, dumper, closing, after, sent, acked, how, offered>>

(* The server is not registered. *)
LoadDesign_Unregistered ==
  /\ pc = "load"
  /\ pc' = "backends"
  /\ UNCHANGED <<wireVars, inputVars, deadVars, fsp, active, dumper, closing, after, sent, acked,
                 how, offered>>

(* The server is registered; the object of an earlier partition, which     *)
(* nothing refers to any more, goes with its sockets.  LayerInfo then reads *)
(* the design, or raises: the server is closed and the program crashes.    *)
LoadDesign ==
  /\ pc = "load"
  /\ active' = IF Serves THEN fsp ELSE active
  /\ IF Serves /\ active \notin {NoServer, fsp}
       THEN CloseSockets(active) ELSE UNCHANGED wireVars
  /\ \/ pc' = "backends" /\ UNCHANGED <<closing, after, how>>
     \/ /\ pc' = IF dumper = NoServer THEN "exited" ELSE "closing"
        /\ closing' = dumper /\ after' = "exited" /\ how' = "crash"
  /\ UNCHANGED <<inputVars, deadVars, fsp, dumper, sent, acked, offered>>

(* A backend that cannot be imported ends the program, as does a design    *)
(* without layers when it was to be dumped: always in standalone mode.  A  *)
(* backend that raises - the context or the dump cannot be opened - ends   *)
(* it on the spot.                                                         *)
MakeBackends ==
  /\ pc = "backends"
  /\ \/ /\ args.backend = "core_dump" => Opens(line.core_dump, args.no_header)
        /\ \/ /\ ~(Serves /\ args.aie_only)
              /\ pc' = "run" /\ UNCHANGED <<wireVars, active, closing, after, how>>
           \/ Serves /\ CloseThen("exited") /\ how' = "end" /\ UNCHANGED active
     \/ args.backend = "xrt" /\ CleanupAndExit /\ how' = "failed"
     \/ /\ \/ args.backend = "xrt"
           \/ args.backend = "core_dump" /\ ~Opens(line.core_dump, args.no_header)
        /\ Exit /\ how' = "raise" /\ UNCHANGED <<active, closing, after>>
  /\ UNCHANGED <<inputVars, deadVars, fsp, dumper, sent, acked, offered>>

-----------------------------------------------------------------------------
(* Stepping through a partition. *)

(* send_request of one L3 buffer, by the run or by the user. *)
RequestDump ==
  /\ pc = "run" /\ ~Reports
  /\ dumper # NoServer /\ client = dumper /\ sent < MaxRequests
  /\ sent' = sent + 1
  /\ Send(sent')
  /\ pc' = "await"
  /\ UNCHANGED <<inputVars, deadVars, fsp, active, dumper, closing, after, acked, how, offered>>

(* The answer is left for whoever receives next. *)
ReceiveAck_NoWait ==
  /\ pc = "await"
  /\ pc' = "run"
  /\ acked' = acked \cup {sent}
  /\ UNCHANGED <<wireVars, inputVars, deadVars, fsp, active, dumper, closing, after, sent, how, offered>>

ReceiveAck ==
  /\ pc = "await"
  /\ Answered \/ HungUp
  /\ Receive
  /\ acked' = IF Answered THEN acked \cup {sent} ELSE acked
  /\ pc' = "run"
  /\ UNCHANGED <<inputVars, deadVars, fsp, active, dumper, closing, after, sent, how, offered>>

(* The first dump of a session that was not started with a server. *)
EnsureDebugServer ==
  /\ pc = "run" /\ ByHand /\ dumper = NoServer
  /\ pc' = "bind"
  /\ UNCHANGED <<wireVars, inputVars, deadVars, fsp, active, dumper, closing, after, sent, acked,
                 how, offered>>

(* A hang: _process_err. *)
ProcessErr ==
  /\ pc = "run" /\ ~args.aie_only /\ ~Reports
  /\ CleanupAndExit /\ how' = "failed"
  /\ UNCHANGED <<inputVars, deadVars, fsp, dumper, sent, acked, offered>>

(* The end of execute_and_dump. *)
FinishPartition ==
  /\ pc = "run" /\ ~ByHand /\ ~Reports
  /\ CloseThen("next")
  /\ UNCHANGED <<inputVars, deadVars, fsp, active, dumper, sent, acked, how, offered>>

(* The user quits the prompt, or the script or the command is through:     *)
(* nothing closes the server.                                              *)
QuitPrompt ==
  /\ pc = "run" /\ ByHand
  /\ pc' = "next"
  /\ UNCHANGED <<wireVars, inputVars, deadVars, fsp, active, dumper, closing, after, sent, acked,
                 how, offered>>

(* sys.exit at --exit_at_layer, or by the command that runs to the end.    *)
ExitAtOnce ==
  /\ pc = "run" /\ ~args.aie_only /\ ~Reports
  /\ Exit /\ how' = "exit"
  /\ UNCHANGED <<inputVars, deadVars, fsp, active, dumper, closing, after, sent, acked, offered>>

(* The next partition is debugged by an object of its own.  Nothing refers *)
(* to a server that was not registered any more.                           *)
NextPartition ==
  /\ pc = "next"
  /\ IF Last THEN Exit /\ UNCHANGED <<deadVars, fsp, dumper>> /\ how' = "end"
     ELSE /\ pc' = "launch" /\ fsp' = fsp + 1 /\ dumper' = NoServer
          /\ shown' = <<>> /\ memory' = <<>>
          /\ IF dumper \notin {NoServer, active} THEN CloseSockets(dumper)
             ELSE UNCHANGED wireVars
          /\ UNCHANGED how
  /\ UNCHANGED <<inputVars, active, closing, after, sent, acked, offered>>

-----------------------------------------------------------------------------
(* What the session reads by itself or for the user.  The status of live   *)
(* cores is left out: it changes nothing and is of the moment.             *)

OfDump == args.backend = "core_dump"

(* --dump-aie-status, --dump_layers. *)
ReportAndLeave ==
  /\ pc = "run" /\ Reports
  /\ Exit
  /\ IF line.job = "status" /\ OfDump /\ StatusRaises(args)
       THEN how' = "raise" /\ UNCHANGED shown
       ELSE /\ how' = "end"
            /\ shown' = IF line.job = "status" /\ OfDump THEN AIEStatus_get(args) ELSE shown
  /\ UNCHANGED <<inputVars, memory, fsp, active, dumper, closing, after, sent, acked, offered>>

(* From the console, a script or a single command.  The console survives a *)
(* tile that the device has not got, with nothing printed.                 *)
ReadStatus ==
  /\ pc = "run" /\ ByHand /\ OfDump
  /\ \/ /\ ~StatusRaises(args)
        /\ shown' = AIEStatus_get(args) /\ UNCHANGED <<wireVars, pc, how>>
     \/ /\ StatusRaises(args) /\ line.job \in {"script", "cmd"}
        /\ Exit /\ how' = "raise" /\ UNCHANGED shown
  /\ UNCHANGED <<inputVars, memory, fsp, active, dumper, closing, after, sent, acked, offered>>

DumpMemory(request) ==
  /\ pc = "run" /\ ByHand /\ OfDump
  /\ memory' = [asked |-> request,
                pieces |-> dump_memory(DumpReader(args), request.tile[1], request.tile[2],
                                       request.offset, request.size)]
  /\ UNCHANGED <<wireVars, inputVars, shown, pc, fsp, active, dumper, closing, after, sent,
                 acked, how, offered>>

-----------------------------------------------------------------------------
(* DebugServer.close. *)

Closed ==
  IF after = "exited" THEN Exit ELSE CloseSockets(closing) /\ pc' = after

RequestTermination ==
  /\ pc = "closing"
  /\ IF client = closing THEN Send(Terminate) /\ pc' = "termination" ELSE Closed
  /\ UNCHANGED <<inputVars, deadVars, fsp, active, dumper, closing, after, sent, acked, how, offered>>

ReceiveTermination ==
  /\ pc = "termination"
  /\ Answered \/ HungUp
  /\ Closed
  /\ UNCHANGED <<inputVars, deadVars, fsp, active, dumper, closing, after, sent, acked, how, offered>>

(* terminate_flexml_connection. *)
StartBriefServer ==
  /\ pc = "brief"
  /\ Bind(0)
  /\ pc' = IF port = NoServer THEN "offer" ELSE "closing"
  /\ closing' = 0 /\ offered' = TRUE
  /\ UNCHANGED <<inputVars, deadVars, fsp, active, dumper, after, sent, acked, how>>

(* It waits for a limited time.                                            *)
OfferTermination ==
  /\ pc = "offer"
  /\ Accept(0) \/ UNCHANGED wireVars
  /\ pc' = "closing"
  /\ UNCHANGED <<inputVars, deadVars, fsp, active, dumper, closing, after, sent, acked, how, offered>>

-----------------------------------------------------------------------------
Debugger ==
  \/ SetUpPartition \/ CheckContext \/ StartServer \/ AcceptClient \/ LoadDesign \/ MakeBackends
  \/ ReceiveAck \/ FinishPartition \/ NextPartition \/ ReportAndLeave
  \/ RequestTermination \/ ReceiveTermination \/ StartBriefServer \/ OfferTermination

Events ==
  \/ RequestDump \/ EnsureDebugServer \/ ProcessErr \/ QuitPrompt \/ ExitAtOnce
  \/ ReadStatus \/ \E request \in Requests : DumpMemory(request)

Next ==
  \/ Debugger \/ Events
  \/ (PeerStep \/ PeerDies) /\ UNCHANGED progVars

(* flexmlrt connects, answers or notices that the debugger is gone.        *)
Fairness ==
  /\ WF_vars(Debugger)
  /\ WF_vars(PeerStep /\ UNCHANGED progVars)

Spec == Init /\ [][Next]_vars /\ Fairness

-----------------------------------------------------------------------------
(* A dump that the debugger takes for done has been carried out by         *)
(* flexmlrt, whatever became of the connection.                            *)
AckedIsCarried == acked \subseteq carried

(* While flexmlrt lives nothing is lost: when a batch run has come to its  *)
(* regular end, every dump that was asked for has been carried out.        *)
DumpsComplete ==
  pc = "exited" /\ how = "end" /\ ~ByHand /\ ~died => carried = 1 .. sent

(* With -l3, a flexmlrt that is connected is told that the session is over *)
(* before the program ends regularly, after a failure or after a crash of  *)
(* the set-up.                                                             *)
ConnectedPeerIsTold ==
  pc = "exited" /\ line.l3 /\ ~ByHand /\ how \notin {"exit", "raise"} => peer # "connected"

(* Each partition of a batch run is debugged over a connection of its own, *)
(* with the flexmlrt that executes this very partition.                    *)
PartitionsPaired ==
  pc \in {"backends", "run", "await"} /\ Serves /\ ~ByHand /\ args.backend # "test" =>
    /\ client = fsp
    /\ peer = "connected" => part = fsp

(* What the file says can be known: it is raw and the user names the device *)
(* it was taken from, or its header is intact and the user names no other. *)
(* After the first partition a variant is not known any more (VariantKept). *)
DeviceKnown ==
  LET file == line.core_dump
      cfg  == Config(file.device)
  IN  /\ HasDump
      /\ fsp = 1 \/ cfg.base = file.device
      /\ \/ file.magic = "raw" /\ line.device = file.device
         \/ /\ file.magic = "NPU" /\ file.size >= HeaderBytes
            /\ line.device \in {NoDevice, file.device}
            /\ <<file.hwGen, file.rows, file.cols>> = <<cfg.hwGen, cfg.numrows, cfg.numcols>>

(* What the debugger prints of a core dump is what was dumped: each status *)
(* is the word that the tile held, wherever options, header, design and    *)
(* platform have found the device, and zero only where the file was cut    *)
(* off before that word.                                                   *)
ReadsAreTrue ==
  shown # <<>> /\ DeviceKnown =>
    LET file == line.core_dump
        held(tile) == TileStart(file, tile) + StatusRegister(file.device)
    IN  \A tile \in DOMAIN shown :
          shown[tile] = IF held(tile) + 4 <= file.size THEN held(tile) ELSE Lost

(* A memory dump has the words that were asked for, each once and in their *)
(* order; zeros fill in only for a piece that the file has not got whole.  *)
MemoryIsTrue ==
  memory # <<>> /\ DeviceKnown =>
    LET pieces == memory.pieces
        held(i) == TileStart(line.core_dump, memory.asked.tile) + memory.asked.offset
                     + BytesBefore(pieces)[i]
    IN  /\ BytesBefore(pieces)[Len(pieces) + 1] = 4 * (memory.asked.size \div 4)
        /\ \A i \in DOMAIN pieces :
             pieces[i].at = IF held(i) + 4 * pieces[i].words <= line.core_dump.size
                              THEN held(i) ELSE Lost

(* The columns that are counted in a dump of unknown extent are there - but *)
(* for the end of the topmost tile, of which one word is probed - and the  *)
(* column after the last one is not, or the device ends.                   *)
CountedColumnsArePresent ==
  DeviceKnown /\ line.overlay = <<>> /\ args.overlay # <<>> =>
    LET file == line.core_dump
        cfg  == Config(file.device)
        end(col, row) == TileStart(file, <<col, row>>) + BlockSize(cfg, row)
    IN  /\ \A col \in 0 .. args.overlay[1] - 1, row \in 0 .. cfg.numrows - 2 :
             end(col, row) <= file.size
        /\ args.overlay[1] = cfg.numcols \/ end(args.overlay[1], cfg.numrows - 1) > file.size

(* A partition is debugged as the variant that the user names, or that is  *)
(* found for it in the header, the design or the platform.                 *)
VariantKept ==
  pc \in {"context", "bind", "accept", "load", "backends", "run"} =>
    args.sub_device = IF line.device # NoDevice THEN line.device ELSE Detected(line.design[fsp])

(* With -l3, a program that gives up before a partition's ClientDebug runs *)
(* offers flexmlrt, which waits for a connection, a brief server.          *)
EarlyExitIsCovered ==
  pc = "exited" /\ how = "early" /\ line.l3 => offered

(* No wait for flexmlrt lasts for ever: a batch run ends. *)
SessionEnds == <>(ByHand \/ pc = "exited")
=============================================================================
