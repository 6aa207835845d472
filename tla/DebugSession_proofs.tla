-------------------------- MODULE DebugSession_proofs -------------------------
(***************************************************************************)
(* What a debug session may rely on, for any number of failsafe partitions *)
(* and of dump requests, and for every command: what an answer of flexmlrt *)
(* means, and that what is printed of a core dump is what was dumped.      *)
(***************************************************************************)
EXTENDS DebugSession, CoreDump_proofs

(* At most one message is under way, and only while the debugger waits for *)
(* its answer: on its way to flexmlrt, or back.                            *)
OneUnderWay(message) ==
  \/ toPeer = <<>> /\ toDebugger \in {<<>>, <<message>>}
  \/ toPeer = <<message>> /\ toDebugger = <<>>

NoneUnderWay == toPeer = <<>> /\ toDebugger = <<>>

(* The inductive invariant.  What is under way while the debugger waits is *)
(* what it asked for last, so an answer is the answer to that; the answer  *)
(* to the termination dies with the connection.                            *)
WireInv ==
  /\ sent \in Nat /\ after \in {"exited", "next"}
  /\ peer # "connected" => toPeer = <<>>
  /\ pc \notin {"await", "termination"} => NoneUnderWay
  /\ pc = "await" => sent # 0 /\ OneUnderWay(sent) /\ (toDebugger # <<>> => sent \in carried)
  /\ pc = "termination" => client = closing /\ OneUnderWay(Terminate)
  /\ AckedIsCarried

LEMMA OneMessage ==
  \A x : Append(<<>>, x) = <<x>> /\ Head(<<x>>) = x /\ Tail(<<x>>) = <<>> /\ <<x>> # <<>>
OBVIOUS

LEMMA WireInvInit == Init => WireInv
BY DEF Init, WireInit, WireInv, NoneUnderWay, AckedIsCarried

(* A step after which nothing is under way and the debugger waits for none. *)
LEMMA SilenceKeepsWireInv ==
  ASSUME WireInv, UNCHANGED <<carried, sent>>, acked' \subseteq carried,
         NoneUnderWay', after' \in {"exited", "next"}, pc' \notin {"await", "termination"}
  PROVE  WireInv'
BY DEF WireInv, AckedIsCarried, NoneUnderWay

(* What the debugger does while it waits for no answer: it sends nothing   *)
(* and at most closes its sockets.                                         *)
AtRest ==
  /\ pc \notin {"await", "termination"} /\ pc' \notin {"await", "termination"}
  /\ toPeer' = toPeer /\ toDebugger' \in {toDebugger, <<>>}
  /\ after' \in {after, "exited", "next"}
  /\ UNCHANGED <<carried, sent, acked>>

LEMMA AtRestKeepsWireInv == ASSUME WireInv, AtRest PROVE WireInv'
<1>1. NoneUnderWay'
  BY DEF WireInv, AtRest, NoneUnderWay
<1>2. acked' \subseteq carried
  BY DEF WireInv, AtRest, AckedIsCarried
<1>3. after' \in {"exited", "next"}
  BY DEF WireInv, AtRest
<1> QED BY <1>1, <1>2, <1>3, SilenceKeepsWireInv DEF AtRest

(* Every way of ending the program or of going to close a server is one.   *)
LEMMA WaysOutAreAtRest ==
  ASSUME pc \notin {"await", "termination"}, UNCHANGED <<sent, acked>>,
         NEW next \in {"exited", "next"},
         (Exit /\ UNCHANGED after) \/ CleanupAndExit \/ CloseThen(next)
  PROVE  AtRest
<1>1. CASE Exit /\ UNCHANGED after
  BY <1>1 DEF Exit, AtRest
<1>2. CASE CleanupAndExit
  BY <1>2 DEF CleanupAndExit, Exit, wireVars, AtRest
<1>3. CASE CloseThen(next)
  BY <1>3 DEF CloseThen, wireVars, AtRest
<1> QED BY <1>1, <1>2, <1>3

-----------------------------------------------------------------------------
(* The debugger sets a partition up, works and leaves it. *)
LEMMA DebuggerAtRest ==
  ASSUME \/ SetUpPartition \/ CheckContext \/ StartServer \/ AcceptClient \/ LoadDesign
         \/ MakeBackends \/ FinishPartition \/ NextPartition \/ ReportAndLeave
         \/ StartBriefServer \/ OfferTermination
         \/ EnsureDebugServer \/ ProcessErr \/ QuitPrompt \/ ExitAtOnce
         \/ ReadStatus \/ \E request \in Requests : DumpMemory(request)
  PROVE  AtRest
<1>1. CASE SetUpPartition
  <2>1. CASE Headerless(args)
    BY <1>1, <2>1, WaysOutAreAtRest DEF SetUpPartition
  <2>2. CASE ~Headerless(args)
    BY <1>1, <2>2 DEF SetUpPartition, AfterContext, wireVars, AtRest
  <2> QED BY <2>1, <2>2
<1>2. CASE CheckContext
  <2>1. CASE CleanupAndExit
    BY <1>2, <2>1, WaysOutAreAtRest DEF CheckContext
  <2>2. CASE ~CleanupAndExit
    BY <1>2, <2>2 DEF CheckContext, AfterContext, wireVars, AtRest
  <2> QED BY <2>1, <2>2
<1>3. CASE StartServer
  BY <1>3 DEF StartServer, Bind, wireVars, AtRest
<1>4. CASE AcceptClient
  BY <1>4 DEF AcceptClient, Accept, AtRest
<1>5. CASE LoadDesign
  BY <1>5 DEF LoadDesign, CloseSockets, wireVars, AtRest
<1>6. CASE MakeBackends
  <2>1. CASE CleanupAndExit \/ (Exit /\ UNCHANGED after) \/ CloseThen("exited")
    BY <1>6, <2>1, WaysOutAreAtRest DEF MakeBackends
  <2>2. CASE ~(CleanupAndExit \/ (Exit /\ UNCHANGED after) \/ CloseThen("exited"))
    BY <1>6, <2>2 DEF MakeBackends, wireVars, AtRest
  <2> QED BY <2>1, <2>2
<1>7. CASE FinishPartition
  BY <1>7, WaysOutAreAtRest DEF FinishPartition
<1>8. CASE NextPartition
  <2>1. CASE Last
    BY <1>8, <2>1, WaysOutAreAtRest DEF NextPartition
  <2>2. CASE ~Last
    BY <1>8, <2>2 DEF NextPartition, CloseSockets, wireVars, AtRest
  <2> QED BY <2>1, <2>2
<1>9. CASE ReportAndLeave
  BY <1>9, WaysOutAreAtRest DEF ReportAndLeave
<1>10. CASE StartBriefServer
  BY <1>10 DEF StartBriefServer, Bind, AtRest
<1>11. CASE OfferTermination
  BY <1>11 DEF OfferTermination, Accept, wireVars, AtRest
<1>12. CASE EnsureDebugServer
  BY <1>12 DEF EnsureDebugServer, wireVars, AtRest
<1>13. CASE ProcessErr
  BY <1>13, WaysOutAreAtRest DEF ProcessErr
<1>14. CASE QuitPrompt
  BY <1>14 DEF QuitPrompt, wireVars, AtRest
<1>15. CASE ExitAtOnce
  BY <1>15, WaysOutAreAtRest DEF ExitAtOnce
<1>16. CASE ReadStatus
  <2>1. CASE Exit
    BY <1>16, <2>1, WaysOutAreAtRest DEF ReadStatus
  <2>2. CASE ~Exit
    BY <1>16, <2>2 DEF ReadStatus, wireVars, AtRest
  <2> QED BY <2>1, <2>2
<1>17. CASE \E request \in Requests : DumpMemory(request)
  BY <1>17 DEF DumpMemory, wireVars, AtRest
<1> QED BY <1>1, <1>2, <1>3, <1>4, <1>5, <1>6, <1>7, <1>8, <1>9, <1>10, <1>11, <1>12,
           <1>13, <1>14, <1>15, <1>16, <1>17

-----------------------------------------------------------------------------
(* Messages. *)
LEMMA RequestKeepsWireInv == ASSUME WireInv, RequestDump PROVE WireInv'
<1>1. NoneUnderWay /\ toDebugger' = <<>> /\ sent' = sent + 1 /\ sent \in Nat /\ pc' = "await"
  BY DEF WireInv, RequestDump, Send, NoneUnderWay
<1>2. /\ peer' = peer /\ carried' = carried /\ acked' = acked
      /\ after' \in {"exited", "next"}
  BY DEF RequestDump, Send, WireInv
<1>3. toPeer' = IF peer = "connected" THEN <<sent'>> ELSE <<>>
  BY <1>1, OneMessage DEF RequestDump, Send, NoneUnderWay
<1> QED BY <1>1, <1>2, <1>3 DEF WireInv, OneUnderWay, AckedIsCarried

LEMMA AnswerKeepsWireInv == ASSUME WireInv, ReceiveAck PROVE WireInv'
<1>1. /\ pc = "await" /\ pc' = "run" /\ UNCHANGED <<toPeer, carried, sent, after>>
      /\ after \in {"exited", "next"}
      /\ OneUnderWay(sent) /\ (toDebugger # <<>> => sent \in carried)
  BY DEF WireInv, ReceiveAck, Receive
<1>2. CASE Answered
  <2>1. toPeer = <<>> /\ toDebugger = <<sent>>
    BY <1>1, <1>2 DEF Answered, OneUnderWay
  <2>2. NoneUnderWay'
    BY <1>1, <2>1, OneMessage DEF ReceiveAck, Receive, NoneUnderWay
  <2>3. acked' \subseteq carried
    BY <1>1, <1>2, OneMessage DEF WireInv, AckedIsCarried, ReceiveAck, Answered
  <2> QED BY <1>1, <2>2, <2>3, SilenceKeepsWireInv
<1>3. CASE ~Answered
  <2>1. HungUp /\ toDebugger = <<>>
    BY <1>3 DEF ReceiveAck, Answered
  <2>2. NoneUnderWay'
    BY <1>1, <2>1 DEF WireInv, HungUp, ReceiveAck, Receive, NoneUnderWay
  <2>3. acked' \subseteq carried
    BY <1>3 DEF WireInv, AckedIsCarried, ReceiveAck
  <2> QED BY <1>1, <2>2, <2>3, SilenceKeepsWireInv
<1> QED BY <1>2, <1>3

(* The end of close: the answer that was not waited for, if any, is gone.  *)
LEMMA ClosedIsSilent ==
  ASSUME WireInv, Closed, client = closing, toPeer = <<>>,
         UNCHANGED <<after, sent, acked>>
  PROVE  WireInv'
<1>1. toDebugger' = <<>> /\ UNCHANGED <<toPeer, carried>>
  BY DEF Closed, Exit, CloseSockets
<1>2. after' \in {"exited", "next"} /\ pc' \notin {"await", "termination"}
  BY DEF Closed, Exit, WireInv
<1>3. NoneUnderWay' /\ acked' \subseteq carried
  BY <1>1 DEF NoneUnderWay, WireInv, AckedIsCarried
<1> QED BY <1>1, <1>2, <1>3, SilenceKeepsWireInv

LEMMA TerminationKeepsWireInv ==
  ASSUME WireInv, RequestTermination \/ ReceiveTermination
  PROVE  WireInv'
<1>1. CASE RequestTermination /\ client = closing
  <2>1. /\ NoneUnderWay /\ pc' = "termination" /\ client' = closing'
        /\ UNCHANGED <<toDebugger, peer, carried, sent, acked, after>>
    BY <1>1 DEF RequestTermination, Send, WireInv
  <2>2. toPeer' = IF peer = "connected" THEN <<Terminate>> ELSE <<>>
    BY <1>1, <2>1, OneMessage DEF RequestTermination, Send, NoneUnderWay
  <2> QED BY <2>1, <2>2 DEF WireInv, NoneUnderWay, OneUnderWay, Terminate, AckedIsCarried
<1>2. CASE RequestTermination /\ client # closing
  <2>1. AtRest
    BY <1>2 DEF RequestTermination, Closed, Exit, CloseSockets, AtRest, WireInv
  <2> QED BY <2>1, AtRestKeepsWireInv
<1>3. CASE ReceiveTermination
  <2>1. client = closing /\ Closed /\ UNCHANGED <<after, sent, acked>>
    BY <1>3 DEF ReceiveTermination, WireInv
  <2>2. toPeer = <<>>
    BY <1>3, OneMessage DEF ReceiveTermination, WireInv, Answered, HungUp, OneUnderWay
  <2> QED BY <2>1, <2>2, ClosedIsSilent
<1> QED BY <1>1, <1>2, <1>3

(* flexmlrt connects, serves what is under way, dies or starts again.      *)
LEMMA PeerKeepsWireInv ==
  ASSUME WireInv, PeerStep \/ PeerDies, UNCHANGED progVars
  PROVE  WireInv'
<1>1. UNCHANGED <<client, pc, closing, after, sent, acked>>
  BY DEF progVars, inputVars, deadVars, PeerStep, PeerDies, PeerConnects, PeerServes, PeerIsCut,
         PeerStarts
<1>2. CASE PeerConnects \/ PeerStarts
  BY <1>1, <1>2 DEF PeerConnects, PeerStarts, WireInv, NoneUnderWay, OneUnderWay, AckedIsCarried
<1>3. CASE PeerDies \/ PeerIsCut
  <2>1. toPeer' = <<>> /\ UNCHANGED <<toDebugger, carried>>
    BY <1>3 DEF PeerDies, PeerIsCut
  <2> QED BY <1>1, <2>1, OneMessage DEF WireInv, NoneUnderWay, OneUnderWay, AckedIsCarried
<1>4. CASE PeerServes
  <2>1. toPeer # <<>> /\ pc \in {"await", "termination"}
    BY <1>4 DEF PeerServes, WireInv, NoneUnderWay
  <2>2. CASE pc = "await"
    <3>1. toPeer = <<sent>> /\ toDebugger = <<>> /\ sent # Terminate
      BY <2>1, <2>2 DEF WireInv, OneUnderWay, Terminate
    <3>2. toPeer' = <<>> /\ toDebugger' = <<sent>> /\ carried' = carried \cup {sent}
      BY <1>4, <3>1, OneMessage DEF PeerServes
    <3> QED BY <1>1, <2>2, <3>2 DEF WireInv, OneUnderWay, AckedIsCarried
  <2>3. CASE pc = "termination"
    <3>1. toPeer = <<Terminate>> /\ toDebugger = <<>>
      BY <2>1, <2>3 DEF WireInv, OneUnderWay
    <3>2. toPeer' = <<>> /\ toDebugger' = <<Terminate>> /\ carried' = carried
      BY <1>4, <3>1, OneMessage DEF PeerServes
    <3> QED BY <1>1, <2>3, <3>2 DEF WireInv, OneUnderWay, AckedIsCarried
  <2> QED BY <2>1, <2>2, <2>3
<1> QED BY <1>2, <1>3, <1>4 DEF PeerStep

-----------------------------------------------------------------------------
(* WireInv is inductive.                                                   *)
LEMMA WireInvStep == WireInv /\ [Next]_vars => WireInv'
<1> SUFFICES ASSUME WireInv, [Next]_vars PROVE WireInv'
  OBVIOUS
<1>1. CASE UNCHANGED vars
  BY <1>1 DEF vars, wireVars, progVars, WireInv, NoneUnderWay, OneUnderWay, AckedIsCarried
<1>2. CASE RequestDump
  BY <1>2, RequestKeepsWireInv
<1>3. CASE ReceiveAck
  BY <1>3, AnswerKeepsWireInv
<1>4. CASE RequestTermination \/ ReceiveTermination
  BY <1>4, TerminationKeepsWireInv
<1>5. CASE (PeerStep \/ PeerDies) /\ UNCHANGED progVars
  BY <1>5, PeerKeepsWireInv
<1>6. CASE AtRest
  BY <1>6, AtRestKeepsWireInv
<1>7. Next => \/ RequestDump \/ ReceiveAck \/ RequestTermination \/ ReceiveTermination
              \/ (PeerStep \/ PeerDies) /\ UNCHANGED progVars
              \/ AtRest
  BY DebuggerAtRest DEF Next, Debugger, Events
<1> QED BY <1>1, <1>2, <1>3, <1>4, <1>5, <1>6, <1>7

(* For every number of partitions and of requests, and for every command:  *)
(* a dump that the debugger takes for done has been carried out, and an    *)
(* answer is never taken for the answer to another request.                *)
THEOREM AckedCorrect == Spec => []AckedIsCarried
<1>1. WireInv => AckedIsCarried
  BY DEF WireInv
<1> QED BY WireInvInit, WireInvStep, <1>1, PTL DEF Spec

-----------------------------------------------------------------------------
(* What create_run_flags keeps of the namespace from one partition to the  *)
(* next: the backend, and the console once it has been chosen.             *)

Fields == {"device", "sub_device", "overlay", "backend", "aie_only", "interactive", "no_header",
           "run_flags"}

IsArgs(a) ==
  DOMAIN a = Fields /\ a = [f \in Fields |-> a[f]] /\ a.interactive \in BOOLEAN

LEMMA FirstArgs == \A l : IsArgs(check_args(l))
<1> SUFFICES ASSUME NEW l PROVE IsArgs(check_args(l))
  OBVIOUS
<1> DEFINE console == l.job \notin {"layers", "status", "cmd"} /\ (l.interactive \/ l.aie_only)
<1>1. check_args(l).interactive = IF l.core_dump # NoFile /\ l.job # "status" THEN TRUE ELSE console
  BY DEF check_args
<1>2. console \in BOOLEAN
  OBVIOUS
<1>3. check_args(l).interactive \in BOOLEAN
  BY <1>1, <1>2
<1>4. DOMAIN check_args(l) = Fields
      /\ check_args(l) = [f \in Fields |-> check_args(l)[f]]
  BY DEF Fields, check_args
<1> QED BY <1>3, <1>4 DEF IsArgs

LEMMA ArgsWithFlags ==
  ASSUME NEW a, IsArgs(a), NEW x PROVE
    LET b == [a EXCEPT !.run_flags = x]
    IN  IsArgs(b) /\ b.backend = a.backend /\ b.interactive = a.interactive
        /\ b.aie_only = a.aie_only
BY DEF IsArgs, Fields

LEMMA ArgsWithOverlay ==
  ASSUME NEW a, IsArgs(a), NEW x PROVE
    LET b == [a EXCEPT !.overlay = x]
    IN  IsArgs(b) /\ b.backend = a.backend /\ b.interactive = a.interactive
        /\ b.aie_only = a.aie_only
BY DEF IsArgs, Fields

LEMMA ArgsStandalone ==
  ASSUME NEW a, IsArgs(a) PROVE
    LET b == [a EXCEPT !.aie_only = TRUE, !.interactive = TRUE]
    IN  IsArgs(b) /\ b.backend = a.backend /\ b.interactive /\ b.aie_only
BY DEF IsArgs, Fields

(* b is what a may become. *)
Keeps(a, b) ==
  /\ IsArgs(b) /\ b.backend = a.backend
  /\ (a.interactive => b.interactive) /\ (a.aie_only => b.aie_only)

LEMMA ArgsKept ==
  ASSUME NEW a, IsArgs(a), NEW partition
  PROVE  Keeps(a, create_run_flags(a, partition))
<1> DEFINE device     == set_device(a, partition)
           overlay    == set_coredump_overlay(device)
           standalone == Standalone(overlay, partition)
<1>1. Keeps(a, device)
  <2> DEFINE variant   == IF a.device # NoDevice THEN a.device ELSE Detected(partition)
             base      == get_base_device(variant)
             no_header == HasDump /\ Header = NoDevice
  <2>1. device = [a EXCEPT !.sub_device = variant, !.device = base, !.no_header = no_header]
    BY DEF set_device
  <2> HIDE DEF variant, base, no_header, device
  <2>2. IsArgs(device)
    BY <2>1 DEF IsArgs, Fields
  <2>3. device.backend = a.backend /\ device.interactive = a.interactive
        /\ device.aie_only = a.aie_only
    BY <2>1 DEF IsArgs, Fields
  <2> QED BY <2>2, <2>3 DEF Keeps
<1> HIDE DEF device
<1>2. Keeps(device, overlay)
  <2>1. IsArgs(device)
    BY <1>1 DEF Keeps
  <2> QED BY <2>1, ArgsWithOverlay DEF set_coredump_overlay, Keeps
<1> HIDE DEF overlay
<1>3. Keeps(overlay, standalone)
  <2>1. IsArgs(overlay)
    BY <1>2 DEF Keeps
  <2> QED BY <2>1, ArgsStandalone DEF Standalone, Keeps
<1> HIDE DEF standalone
<1>4. Keeps(standalone, MakeRunFlags(standalone))
  <2>1. IsArgs(standalone)
    BY <1>3 DEF Keeps
  <2> QED BY <2>1, ArgsWithFlags DEF MakeRunFlags, Keeps
<1>5. create_run_flags(a, partition) = MakeRunFlags(standalone)
  BY DEF create_run_flags, standalone, overlay, device
<1> QED BY <1>1, <1>2, <1>3, <1>4, <1>5 DEF Keeps

(* Only the set-up of a partition touches the namespace. *)
LEMMA InputsKept ==
  ASSUME IsArgs(args), [Next]_vars
  PROVE  line' = line /\ Keeps(args, args') /\ (pc # "launch" => args' = args)
<1>1. CASE UNCHANGED inputVars
  BY <1>1 DEF inputVars, Keeps
<1>2. CASE SetUpPartition /\ args' = create_run_flags(args, line.design[fsp])
  BY <1>2, ArgsKept DEF SetUpPartition
<1>3. [Next]_vars => UNCHANGED inputVars
                     \/ (SetUpPartition /\ args' = create_run_flags(args, line.design[fsp]))
  BY DEF Next, Debugger, Events, vars, progVars, inputVars, SetUpPartition, CheckContext,
         StartServer, AcceptClient, LoadDesign, MakeBackends, ReceiveAck, FinishPartition,
         NextPartition, ReportAndLeave, RequestTermination, ReceiveTermination, StartBriefServer,
         OfferTermination, RequestDump, EnsureDebugServer, ProcessErr, QuitPrompt, ExitAtOnce,
         ReadStatus, DumpMemory
<1> QED BY <1>1, <1>2, <1>3

-----------------------------------------------------------------------------
(* The inductive invariant of a run whose partitions are debugged over a   *)
(* server and not by hand.  flexmlrt connects once for every partition, so *)
(* its own count of partitions tells from its connection how far the       *)
(* debugger is: it is level with the debugger once it has been accepted    *)
(* for the partition, and before that it may still have to leave the one   *)
(* before.                                                                 *)
Batch == Serves /\ ~ByHand /\ args.backend # "test"

Waits  == peer \in {"connecting", "pending"}
Behind == part = IF Waits THEN fsp ELSE fsp - 1
Level  == part = IF Waits THEN fsp + 1 ELSE fsp

Unconnected == port = NoServer /\ client = NoServer
Connected   == port = fsp /\ client = fsp /\ dumper = fsp

PairInv ==
  /\ IsArgs(args)
  /\ fsp \in 1 .. Partitions /\ part \in Int
  /\ after \in {"exited", "next"}
  /\ pc \in {"brief", "offer"} => after = "exited"
  /\ Batch =>
       /\ pc \in {"launch", "context", "bind"} => Unconnected /\ Behind
       /\ pc = "accept" => port = fsp /\ client = NoServer /\ dumper = fsp /\ Behind
       /\ pc \in {"load", "backends", "run", "await"} => Connected /\ Level
       /\ pc \in {"closing", "termination"} /\ after = "next" =>
            closing = fsp /\ Connected /\ Level
       /\ pc = "next" => Unconnected /\ Level

LEMMA PairInvInit == Init => PairInv
BY FirstArgs, PartitionsAssumption
   DEF Init, WireInit, PairInv, Unconnected, Behind, Waits

LEMMA PairInvSays == PairInv => PartitionsPaired
BY DEF PairInv, PartitionsPaired, Batch, Connected, Level, Waits

(* A run that is a batch run after a step was one before.                  *)
LEMMA BatchStays ==
  ASSUME IsArgs(args), [Next]_vars
  PROVE  IsArgs(args') /\ (Batch' => Batch)
BY InputsKept DEF Keeps, Batch, Serves, ByHand

-----------------------------------------------------------------------------
(* A step of the debugger that goes on to close or to end, or to a brief   *)
(* server.                                                                 *)
LEMMA ExitKeepsPairInv ==
  ASSUME PairInv, IsArgs(args'), UNCHANGED <<fsp, after>>, Exit
  PROVE  PairInv'
BY DEF Exit, PairInv

LEMMA CleanupKeepsPairInv ==
  ASSUME PairInv, IsArgs(args'), UNCHANGED fsp, CleanupAndExit
  PROVE  PairInv'
BY DEF CleanupAndExit, Exit, wireVars, PairInv

LEMMA SetUpKeepsPairInv ==
  ASSUME PairInv, IsArgs(args'), Batch' => Batch, SetUpPartition \/ CheckContext
  PROVE  PairInv'
<1>1. CASE CleanupAndExit
  BY <1>1, CleanupKeepsPairInv DEF SetUpPartition, CheckContext
<1>2. CASE ~CleanupAndExit
  BY <1>2 DEF SetUpPartition, CheckContext, AfterContext, Batch, PairInv, Unconnected, Connected, Behind, Level, Waits, wireVars, inputVars
<1> QED BY <1>1, <1>2

LEMMA ServerKeepsPairInv ==
  ASSUME PairInv, IsArgs(args'), Batch' => Batch, StartServer \/ AcceptClient
  PROVE  PairInv'
<1>1. fsp # NoServer /\ NoServer \notin 1 .. Partitions
  BY PartitionsAssumption DEF PairInv, NoServer
<1>2. Batch => Serves /\ args.backend # "test"
  BY DEF Batch
<1>3. CASE StartServer
  BY <1>1, <1>2, <1>3 DEF StartServer, Bind, PairInv, Unconnected, Connected, Behind, Level, Waits, wireVars, inputVars
<1>4. CASE AcceptClient
  BY <1>1, <1>2, <1>4 DEF AcceptClient, Accept, PairInv, Unconnected, Connected, Behind, Level, Waits, wireVars, inputVars
<1> QED BY <1>3, <1>4

LEMMA LoadKeepsPairInv ==
  ASSUME PairInv, IsArgs(args'), Batch' => Batch, LoadDesign
  PROVE  PairInv'
<1>1. active \notin {NoServer, fsp} => active # fsp
  OBVIOUS
<1>2. UNCHANGED <<fsp, dumper, part, peer>> /\ after' \in {after, "exited"}
  BY DEF LoadDesign, CloseSockets, wireVars
<1>3. Batch => UNCHANGED <<port, client>>
  BY DEF LoadDesign, CloseSockets, PairInv, Connected, wireVars
<1>4. pc = "load" /\ (pc' = "backends" \/ (pc' \in {"exited", "closing"} /\ after' = "exited"))
  BY DEF LoadDesign
<1> QED BY <1>2, <1>3, <1>4 DEF PairInv, Unconnected, Connected, Behind, Level, Waits, wireVars, inputVars

LEMMA BackendsKeepPairInv ==
  ASSUME PairInv, IsArgs(args'), Batch' => Batch, MakeBackends
  PROVE  PairInv'
<1>1. UNCHANGED fsp /\ pc = "backends" /\ dumper' = dumper
  BY DEF MakeBackends
<1>2. CASE CleanupAndExit
  BY <1>1, <1>2, CleanupKeepsPairInv
<1>3. CASE Exit /\ UNCHANGED after
  BY <1>1, <1>3, ExitKeepsPairInv
<1>4. CASE CloseThen("exited")
  BY <1>1, <1>4 DEF CloseThen, PairInv, Unconnected, Connected, Behind, Level, Waits, wireVars, inputVars
<1>5. CASE pc' = "run" /\ UNCHANGED <<wireVars, active, closing, after, how>>
  BY <1>1, <1>5 DEF PairInv, Unconnected, Connected, Behind, Level, Waits, wireVars, inputVars
<1> QED BY <1>2, <1>3, <1>4, <1>5 DEF MakeBackends

LEMMA FinishKeepsPairInv ==
  ASSUME PairInv, IsArgs(args'), Batch' => Batch, FinishPartition
  PROVE  PairInv'
<1>1. fsp # NoServer
  BY PartitionsAssumption DEF PairInv, NoServer
<1> QED BY <1>1 DEF FinishPartition, CloseThen, PairInv, Unconnected, Connected, Behind, Level, Waits, wireVars, inputVars

LEMMA NextKeepsPairInv ==
  ASSUME PairInv, IsArgs(args'), Batch' => Batch, NextPartition
  PROVE  PairInv'
<1>1. CASE Last
  BY <1>1, ExitKeepsPairInv DEF NextPartition
<1>2. CASE ~Last
  <2>1. fsp' = fsp + 1 /\ fsp' \in 1 .. Partitions /\ fsp \in Int
    BY <1>2, PartitionsAssumption DEF NextPartition, PairInv, Last
  <2>2. pc = "next" /\ pc' = "launch" /\ UNCHANGED <<after, part, peer>>
    BY <1>2 DEF NextPartition, CloseSockets, wireVars
  <2>3. Batch => Unconnected'
    BY <1>2, <2>2 DEF NextPartition, CloseSockets, wireVars, PairInv, Unconnected
  <2>4. Level => Behind'
    BY <2>1, <2>2 DEF Level, Behind, Waits
  <2> QED BY <2>1, <2>2, <2>3, <2>4 DEF PairInv
<1> QED BY <1>1, <1>2

LEMMA MessagesKeepPairInv ==
  ASSUME PairInv, IsArgs(args'), Batch' => Batch,
         RequestDump \/ ReceiveAck \/ StartBriefServer \/ OfferTermination
  PROVE  PairInv'
<1>1. CASE RequestDump
  BY <1>1 DEF RequestDump, Send, PairInv, Unconnected, Connected, Behind, Level, Waits, wireVars, inputVars
<1>2. CASE ReceiveAck
  BY <1>2 DEF ReceiveAck, Receive, PairInv, Unconnected, Connected, Behind, Level, Waits, wireVars, inputVars
<1>3. CASE StartBriefServer
  BY <1>3 DEF StartBriefServer, Bind, PairInv, Unconnected, Connected, Behind, Level, Waits, wireVars, inputVars
<1>4. CASE OfferTermination
  BY <1>4 DEF OfferTermination, Accept, PairInv, Unconnected, Connected, Behind, Level, Waits, wireVars, inputVars
<1> QED BY <1>1, <1>2, <1>3, <1>4

LEMMA ClosingKeepsPairInv ==
  ASSUME PairInv, IsArgs(args'), Batch' => Batch, RequestTermination \/ ReceiveTermination
  PROVE  PairInv'
<1>1. CASE Closed
  <2>1. UNCHANGED <<fsp, after, part, peer>> /\ pc \in {"closing", "termination"}
    BY <1>1 DEF Closed, Exit, CloseSockets, RequestTermination, ReceiveTermination
  <2>2. CASE after = "exited"
    BY <1>1, <2>1, <2>2, ExitKeepsPairInv DEF Closed
  <2>3. CASE after # "exited"
    <3>1. pc' = "next" /\ after = "next" /\ CloseSockets(closing)
      BY <1>1, <2>3 DEF Closed, PairInv
    <3>2. Batch => Unconnected' /\ Level'
      BY <2>1, <3>1 DEF PairInv, CloseSockets, Connected, Unconnected, Level, Waits
    <3> QED BY <2>1, <3>1, <3>2 DEF PairInv
  <2> QED BY <2>2, <2>3
<1>2. CASE ~Closed
  BY <1>2 DEF RequestTermination, ReceiveTermination, Send, PairInv, Unconnected, Connected, Behind, Level, Waits, wireVars, inputVars
<1> QED BY <1>1, <1>2

LEMMA ByHandKeepsPairInv ==
  ASSUME PairInv, IsArgs(args'), Batch' => Batch,
         \/ EnsureDebugServer \/ ProcessErr \/ QuitPrompt \/ ExitAtOnce \/ ReportAndLeave
         \/ ReadStatus \/ \E request \in Requests : DumpMemory(request)
  PROVE  PairInv'
<1>1. Batch => ~ByHand
  BY DEF Batch
<1>2. CASE EnsureDebugServer \/ QuitPrompt
  BY <1>1, <1>2 DEF EnsureDebugServer, QuitPrompt, PairInv, Unconnected, Connected, Behind, Level, Waits, wireVars, inputVars
<1>3. CASE ProcessErr
  BY <1>3, CleanupKeepsPairInv DEF ProcessErr
<1>4. CASE ExitAtOnce \/ ReportAndLeave
  BY <1>4, ExitKeepsPairInv DEF ExitAtOnce, ReportAndLeave
<1>5. CASE ReadStatus
  <2>1. CASE Exit
    BY <1>5, <2>1, ExitKeepsPairInv DEF ReadStatus
  <2>2. CASE ~Exit
    BY <1>5, <2>2 DEF ReadStatus, PairInv, Unconnected, Connected, Behind, Level, Waits, wireVars, inputVars
  <2> QED BY <2>1, <2>2
<1>6. CASE \E request \in Requests : DumpMemory(request)
  BY <1>6 DEF DumpMemory, PairInv, Unconnected, Connected, Behind, Level, Waits, wireVars, inputVars
<1> QED BY <1>2, <1>3, <1>4, <1>5, <1>6

(* flexmlrt loses its connection, or goes on to its next partition.        *)
LEMMA PeerKeepsPairInv ==
  ASSUME PairInv, IsArgs(args'), Batch' => Batch, PeerStep \/ PeerDies, UNCHANGED progVars
  PROVE  PairInv'
<1>1. UNCHANGED <<pc, fsp, after, closing, dumper, port, client>>
  BY DEF progVars, PeerStep, PeerDies, PeerConnects, PeerServes, PeerIsCut, PeerStarts
<1>2. part' \in Int /\ (Behind => Behind') /\ (Level => Level')
  BY <1>1 DEF PeerStep, PeerDies, PeerConnects, PeerServes, PeerIsCut, PeerStarts, PairInv,
              Behind, Level, Waits
<1> QED BY <1>1, <1>2 DEF PairInv, Unconnected, Connected

(* PairInv is inductive.                                                   *)
LEMMA PairInvStep == PairInv /\ [Next]_vars => PairInv'
<1> SUFFICES ASSUME PairInv, [Next]_vars PROVE PairInv'
  OBVIOUS
<1>1. IsArgs(args') /\ (Batch' => Batch)
  BY BatchStays DEF PairInv
<1>2. CASE UNCHANGED vars
  BY <1>1, <1>2 DEF vars, progVars, PairInv, Unconnected, Connected, Behind, Level, Waits, wireVars, inputVars
<1>3. CASE Next
  BY <1>1, <1>3, SetUpKeepsPairInv, ServerKeepsPairInv, LoadKeepsPairInv, BackendsKeepPairInv,
     FinishKeepsPairInv, NextKeepsPairInv, MessagesKeepPairInv, ClosingKeepsPairInv,
     ByHandKeepsPairInv, PeerKeepsPairInv DEF Next, Debugger, Events
<1> QED BY <1>2, <1>3

(* For every number of partitions, whatever is typed, wherever flexmlrt    *)
(* dies and however often it starts again: each partition of a batch run   *)
(* is debugged over a connection of its own, with the flexmlrt that        *)
(* executes this very partition.                                           *)
THEOREM PairedCorrect == Spec => []PartitionsPaired
BY PairInvInit, PairInvStep, PairInvSays, PTL DEF Spec

-----------------------------------------------------------------------------
(* Why flexmlrt is told.  In a run with -l3, wherever flexmlrt is          *)
(* connected, its connection belongs to the server that the next way out   *)
(* closes: the one registered, the one of this partition, or the one that  *)
(* is being closed; and on an answer to the termination it is told.        *)
L3Run == line.l3 /\ ~ByHand

Linked ==
  /\ pc \notin {"launch", "context", "bind", "accept", "next", "brief", "offer"}
  /\ pc \in {"load", "backends", "run", "await"} => client = fsp /\ args.backend # "test"
  /\ pc \in {"closing", "termination"} => client = closing
  /\ pc = "exited" => how \in {"exit", "raise"}

Registered ==
  /\ pc \in {"accept", "load", "backends", "run", "await"} => dumper = fsp
  /\ pc \in {"backends", "run", "await"} => active = fsp
  /\ pc \in {"run", "await"} => ~args.aie_only
  /\ pc = "accept" => args.backend # "test"

ToldInv ==
  /\ Reports /\ L3Run => args.aie_only \/ args.backend = "test"
  /\ pc = "termination" /\ toDebugger # <<>> => peer # "connected"
  /\ pc = "offer" => closing = 0
  /\ L3Run => Registered /\ (peer = "connected" => Linked)

(* What the induction starts from, and what a step does to the namespace.  *)
SessionInv == WireInv /\ PairInv /\ ToldInv

LEMMA ToldInvInit == Init => ToldInv
<1> SUFFICES ASSUME Init PROVE ToldInv
  OBVIOUS
<1>1. Reports /\ L3Run => args.aie_only \/ args.backend = "test"
  BY DEF Init, Reports, L3Run, ByHand, check_args
<1> QED BY <1>1 DEF Init, WireInit, ToldInv, Registered, Linked

LEMMA ToldInvSays == ToldInv => ConnectedPeerIsTold
BY DEF ToldInv, ConnectedPeerIsTold, L3Run, Linked

(* A run by hand stays one, and the job is the job. *)
LEMMA L3RunStays ==
  ASSUME PairInv, ToldInv, [Next]_vars
  PROVE  /\ L3Run' => L3Run
         /\ Reports' /\ L3Run' => args'.aie_only \/ args'.backend = "test"
         /\ pc # "launch" => args' = args
<1>1. line' = line /\ Keeps(args, args') /\ (pc # "launch" => args' = args)
  BY InputsKept DEF PairInv
<1>2. L3Run' => L3Run
  BY <1>1 DEF Keeps, L3Run, ByHand
<1>3. Reports' = Reports
  BY <1>1 DEF Reports
<1> QED BY <1>1, <1>2, <1>3 DEF Keeps, ToldInv

(* What has to be shown of a step. *)
Toldly ==
  /\ pc' = "termination" /\ toDebugger' # <<>> => peer' # "connected"
  /\ pc' = "offer" => closing' = 0
  /\ L3Run => Registered' /\ (peer' = "connected" => Linked')

LEMMA ToldlyIsEnough ==
  ASSUME PairInv, ToldInv, [Next]_vars, Toldly
  PROVE  ToldInv'
BY L3RunStays DEF ToldInv, Toldly

LEMMA L3Serves == L3Run => Serves /\ ~ByHand
BY DEF L3Run, Serves

(* cleanup_and_exit finds the registered server, or none and nobody is     *)
(* connected.                                                              *)
LEMMA CleanupTells ==
  ASSUME SessionInv, CleanupAndExit,
         pc \in {"launch", "context", "backends", "run"}
  PROVE  Toldly
<1>1. L3Run => line.l3
  BY DEF L3Run
<1>2. fsp # NoServer
  BY PartitionsAssumption DEF SessionInv, PairInv, NoServer
<1>3. peer' = peer /\ pc' \in {"exited", "closing", "brief"}
  BY DEF CleanupAndExit, Exit, wireVars
<1>4. ASSUME L3Run PROVE pc' \in {"closing", "brief"} /\ client' = client
                         /\ pc' = (IF active = NoServer THEN "brief" ELSE "closing")
                         /\ closing' = active
  BY <1>1, <1>4 DEF CleanupAndExit, wireVars
<1>5. ASSUME L3Run, peer' = "connected" PROVE Linked'
  <2>1. pc \in {"backends", "run"} /\ active = fsp /\ client = fsp
    BY <1>3, <1>5 DEF SessionInv, ToldInv, Registered, Linked
  <2> QED BY <1>2, <1>4, <1>5, <2>1 DEF Linked
<1> QED BY <1>3, <1>4, <1>5 DEF Toldly, Registered

LEMMA SetUpTells ==
  ASSUME SessionInv, args' = args \/ pc = "launch",
         SetUpPartition \/ CheckContext \/ StartServer \/ AcceptClient
  PROVE  Toldly
<1>1. CASE CleanupAndExit /\ (SetUpPartition \/ CheckContext)
  BY <1>1, CleanupTells DEF SetUpPartition, CheckContext
<1>2. CASE ~CleanupAndExit /\ (SetUpPartition \/ CheckContext)
  <2>1. pc \in {"launch", "context"} /\ peer' = peer /\ pc' \in {"context", "bind", "load"}
        /\ (Serves => pc' # "load")
    BY <1>2 DEF SetUpPartition, CheckContext, AfterContext, wireVars
  <2> QED BY <2>1, L3Serves DEF SessionInv, ToldInv, Toldly, Registered, Linked
<1>3. CASE StartServer
  <2>1. pc = "bind" /\ peer' = peer /\ dumper' = fsp /\ fsp' = fsp /\ args' = args
        /\ pc' \in {"load", "accept", "run"} /\ (Serves => pc' # "run")
        /\ (pc' = "accept" => args.backend # "test")
    BY <1>3 DEF StartServer, Bind, wireVars
  <2> QED BY <2>1, L3Serves DEF SessionInv, ToldInv, Toldly, Registered, Linked
<1>4. CASE AcceptClient
  <2>1. pc = "accept" /\ client' = fsp /\ dumper' = dumper /\ fsp' = fsp /\ args' = args
        /\ pc' \in {"load", "run"} /\ (Serves => pc' = "load")
    BY <1>4 DEF AcceptClient, Accept
  <2> QED BY <2>1, L3Serves DEF SessionInv, ToldInv, Toldly, Registered, Linked
<1> QED BY <1>1, <1>2, <1>3, <1>4

LEMMA LoadTells == ASSUME SessionInv, args' = args, LoadDesign PROVE Toldly
<1>1. fsp # NoServer
  BY PartitionsAssumption DEF SessionInv, PairInv, NoServer
<1>2. pc = "load" /\ UNCHANGED <<fsp, dumper, peer>>
      /\ (pc' = "backends" \/ (dumper # NoServer => pc' = "closing" /\ closing' = dumper))
      /\ pc' \in {"backends", "exited", "closing"}
  BY DEF LoadDesign, CloseSockets, wireVars
<1>3. Serves => active' = fsp
  BY DEF LoadDesign
<1>4. client = fsp => client' = fsp
  BY DEF LoadDesign, CloseSockets, wireVars
<1> QED BY <1>1, <1>2, <1>3, <1>4, L3Serves DEF SessionInv, ToldInv, Toldly, Registered, Linked

LEMMA BackendsTell == ASSUME SessionInv, args' = args, MakeBackends PROVE Toldly
<1>1. fsp # NoServer
  BY PartitionsAssumption DEF SessionInv, PairInv, NoServer
<1>2. pc = "backends" /\ UNCHANGED <<fsp, dumper>>
  BY DEF MakeBackends
<1>3. CASE CleanupAndExit
  BY <1>2, <1>3, CleanupTells
<1>4. CASE Exit /\ how' = "raise"
  BY <1>4 DEF Exit, Toldly, Registered, Linked
<1>5. CASE CloseThen("exited")
  BY <1>1, <1>2, <1>5
     DEF CloseThen, wireVars, SessionInv, ToldInv, Toldly, Registered, Linked
<1>6. CASE ~(Serves /\ args.aie_only) /\ pc' = "run" /\ UNCHANGED <<wireVars, active>>
  BY <1>2, <1>6, L3Serves DEF wireVars, SessionInv, ToldInv, Toldly, Registered, Linked
<1> QED BY <1>3, <1>4, <1>5, <1>6 DEF MakeBackends

LEMMA RunTells ==
  ASSUME SessionInv, args' = args,
         \/ RequestDump \/ ReceiveAck \/ FinishPartition \/ NextPartition \/ ProcessErr
         \/ ExitAtOnce \/ ReportAndLeave
  PROVE  Toldly
<1>1. fsp # NoServer
  BY PartitionsAssumption DEF SessionInv, PairInv, NoServer
<1>2. CASE RequestDump
  BY <1>2 DEF RequestDump, Send, SessionInv, ToldInv, Toldly, Registered, Linked
<1>3. CASE ReceiveAck
  BY <1>3 DEF ReceiveAck, Receive, SessionInv, ToldInv, Toldly, Registered, Linked
<1>4. CASE FinishPartition
  BY <1>1, <1>4
     DEF FinishPartition, CloseThen, wireVars, SessionInv, ToldInv, Toldly, Registered, Linked
<1>5. CASE NextPartition
  <2>1. pc = "next" /\ peer' = peer /\ pc' \in {"launch", "exited"}
    BY <1>5 DEF NextPartition, Exit, CloseSockets, wireVars
  <2> QED BY <2>1 DEF SessionInv, ToldInv, Toldly, Registered, Linked
<1>6. CASE ProcessErr
  BY <1>6, CleanupTells DEF ProcessErr
<1>7. CASE ExitAtOnce
  BY <1>7 DEF ExitAtOnce, Exit, Toldly, Registered, Linked
<1>8. CASE ReportAndLeave
  <2>1. pc = "run" /\ peer' = peer /\ pc' = "exited" /\ Reports
    BY <1>8 DEF ReportAndLeave, Exit
  <2>2. L3Run => peer # "connected"
    BY <2>1 DEF SessionInv, ToldInv, Registered, Linked
  <2> QED BY <2>1, <2>2 DEF Toldly, Registered
<1> QED BY <1>2, <1>3, <1>4, <1>5, <1>6, <1>7, <1>8

LEMMA ByHandTells ==
  ASSUME SessionInv,
         \/ EnsureDebugServer \/ QuitPrompt \/ ReadStatus
         \/ \E request \in Requests : DumpMemory(request)
  PROVE  Toldly
<1>1. ByHand /\ pc = "run" /\ pc' \notin {"termination", "offer"}
  BY DEF EnsureDebugServer, QuitPrompt, ReadStatus, DumpMemory, Exit
<1> QED BY <1>1 DEF L3Run, Toldly

LEMMA ClosingTells ==
  ASSUME SessionInv, args' = args,
         RequestTermination \/ ReceiveTermination \/ StartBriefServer \/ OfferTermination
  PROVE  Toldly
<1>1. CASE RequestTermination /\ client = closing
  BY <1>1 DEF RequestTermination, Send, SessionInv, WireInv, NoneUnderWay, ToldInv, Toldly,
              Registered, Linked
<1>2. ASSUME Closed, pc \in {"closing", "termination"}, L3Run => peer # "connected"
      PROVE  Toldly
  <2>1. pc' \in {"exited", "next"} /\ peer' = peer
    BY <1>2 DEF Closed, Exit, CloseSockets, SessionInv, WireInv
  <2> QED BY <1>2, <2>1 DEF Toldly, Registered
<1>3. CASE RequestTermination /\ client # closing
  BY <1>2, <1>3 DEF RequestTermination, SessionInv, ToldInv, Linked
<1>4. CASE ReceiveTermination
  BY <1>2, <1>4 DEF ReceiveTermination, Answered, HungUp, SessionInv, ToldInv
<1>5. CASE StartBriefServer
  BY <1>5 DEF StartBriefServer, Bind, SessionInv, ToldInv, Toldly, Registered, Linked
<1>6. CASE OfferTermination
  BY <1>6 DEF OfferTermination, Accept, wireVars, SessionInv, ToldInv, Toldly, Registered, Linked
<1> QED BY <1>1, <1>3, <1>4, <1>5, <1>6

LEMMA PeerTells ==
  ASSUME SessionInv, PeerStep \/ PeerDies, UNCHANGED progVars
  PROVE  Toldly
<1>1. UNCHANGED <<pc, fsp, closing, dumper, active, client, args, how>>
  BY DEF progVars, inputVars, PeerStep, PeerDies, PeerConnects, PeerServes, PeerIsCut, PeerStarts
<1>2. peer' = "connected" => peer = "connected"
  BY DEF PeerStep, PeerDies, PeerConnects, PeerServes, PeerIsCut, PeerStarts
<1>3. pc' = "termination" /\ toDebugger' # <<>> => peer' # "connected"
  <2>1. CASE PeerServes
    <3>1. pc = "termination" => toPeer = <<Terminate>>
      BY <2>1 DEF PeerServes, SessionInv, WireInv, OneUnderWay
    <3> QED BY <1>1, <2>1, <3>1, OneMessage DEF PeerServes
  <2>2. CASE ~PeerServes
    BY <1>1, <1>2, <2>2 DEF PeerStep, PeerDies, PeerConnects, PeerIsCut, PeerStarts,
                            SessionInv, ToldInv
  <2> QED BY <2>1, <2>2
<1> QED BY <1>1, <1>2, <1>3 DEF SessionInv, ToldInv, Toldly, Registered, Linked

(* SessionInv is inductive. *)
LEMMA SessionInvStep == SessionInv /\ [Next]_vars => SessionInv'
<1> SUFFICES ASSUME SessionInv, [Next]_vars PROVE SessionInv'
  OBVIOUS
<1>1. WireInv' /\ PairInv'
  BY WireInvStep, PairInvStep DEF SessionInv
<1>2. args' = args \/ pc = "launch"
  BY L3RunStays DEF SessionInv
<1>3. Toldly
  <2>1. CASE UNCHANGED vars
    BY <2>1 DEF vars, wireVars, progVars, inputVars, SessionInv, ToldInv, Toldly, L3Run, Registered,
                Linked
  <2>2. CASE Next
    <3>1. pc # "launch" => args' = args
      BY <1>2
    <3>2. CASE SetUpPartition \/ CheckContext \/ StartServer \/ AcceptClient
      BY <1>2, <3>2, SetUpTells
    <3>3. CASE LoadDesign
      BY <3>1, <3>3, LoadTells DEF LoadDesign
    <3>4. CASE MakeBackends
      BY <3>1, <3>4, BackendsTell DEF MakeBackends
    <3>5. CASE \/ RequestDump \/ ReceiveAck \/ FinishPartition \/ NextPartition \/ ProcessErr
               \/ ExitAtOnce \/ ReportAndLeave
      <4>1. pc # "launch"
        BY <3>5 DEF RequestDump, ReceiveAck, FinishPartition, NextPartition, ProcessErr, ExitAtOnce,
                    ReportAndLeave
      <4> QED BY <3>1, <3>5, <4>1, RunTells
    <3>6. CASE \/ EnsureDebugServer \/ QuitPrompt \/ ReadStatus
               \/ \E request \in Requests : DumpMemory(request)
      BY <3>6, ByHandTells
    <3>7. CASE RequestTermination \/ ReceiveTermination \/ StartBriefServer \/ OfferTermination
      <4>1. pc # "launch"
        BY <3>7 DEF RequestTermination, ReceiveTermination, StartBriefServer, OfferTermination
      <4> QED BY <3>1, <3>7, <4>1, ClosingTells
    <3>8. CASE (PeerStep \/ PeerDies) /\ UNCHANGED progVars
      BY <3>8, PeerTells
    <3> QED BY <2>2, <3>2, <3>3, <3>4, <3>5, <3>6, <3>7, <3>8 DEF Next, Debugger, Events
  <2> QED BY <2>1, <2>2
<1> QED BY <1>1, <1>3, ToldlyIsEnough DEF SessionInv

(* With -l3, for every number of partitions and every command: a flexmlrt  *)
(* that is connected is told that the session is over before the program   *)
(* ends regularly, after a failure or after a crash of the set-up.         *)
THEOREM ToldCorrect == Spec => []ConnectedPeerIsTold
<1>1. Init => SessionInv
  BY WireInvInit, PairInvInit, ToldInvInit DEF SessionInv
<1>2. SessionInv => ConnectedPeerIsTold
  BY ToldInvSays DEF SessionInv
<1> QED BY <1>1, <1>2, SessionInvStep, PTL DEF Spec

-----------------------------------------------------------------------------
(* Why nothing is lost.  While flexmlrt lives, a connection that has been  *)
(* accepted lasts until the debugger closes it, so every request is        *)
(* answered, and all but the one under way have been carried out.          *)
Leaving == pc \in {"brief", "offer", "exited"}
           \/ (pc \in {"closing", "termination"} /\ after = "exited")

OwnServer ==
  /\ pc \in {"bind", "accept"} => Serves
  /\ pc = "accept" => args.backend # "test"
  /\ ~Serves => dumper = NoServer
  /\ args.backend = "test" /\ ~Leaving => client = NoServer

NothingLost ==
  /\ pc \in {"load", "backends", "run", "await"} /\ Batch => peer = "connected"
  /\ pc = "await" => Batch
  /\ pc # "await" \/ toDebugger # <<>> => carried = 1 .. sent
  /\ pc = "await" /\ toDebugger = <<>> => carried = 1 .. sent - 1

DumpInv == ~ByHand => OwnServer /\ (~died => NothingLost)

LEMMA DumpInvInit == Init => DumpInv
BY DEF Init, WireInit, DumpInv, OwnServer, NothingLost, Leaving

LEMMA DumpInvSays == DumpInv => DumpsComplete
BY DEF DumpInv, DumpsComplete, NothingLost

LEMMA OwnServerStays ==
  ASSUME SessionInv, DumpInv, Next, ~ByHand, ~ByHand',
         Serves' = Serves, args'.backend = args.backend
  PROVE  OwnServer'
<1>1. fsp # NoServer
  BY PartitionsAssumption DEF SessionInv, PairInv, NoServer
<1>2. OwnServer
  BY DEF DumpInv
<1>3. pc = "offer" => after = "exited"
  BY DEF SessionInv, PairInv
<1>4. CASE SetUpPartition \/ CheckContext
  <2>1. CASE CleanupAndExit
    BY <1>2, <1>4, <2>1 DEF SetUpPartition, CheckContext, CleanupAndExit, Exit, wireVars,
                            OwnServer, Leaving
  <2>2. CASE ~CleanupAndExit
    BY <1>2, <1>4, <2>2 DEF SetUpPartition, CheckContext, AfterContext, wireVars, OwnServer, Leaving
  <2> QED BY <2>1, <2>2
<1>5. CASE StartServer
  BY <1>2, <1>5 DEF StartServer, Bind, wireVars, OwnServer, Leaving
<1>6. CASE AcceptClient
  BY <1>2, <1>6 DEF AcceptClient, Accept, OwnServer, Leaving
<1>7. CASE LoadDesign
  BY <1>2, <1>7 DEF LoadDesign, CloseSockets, wireVars, OwnServer, Leaving
<1>8. CASE MakeBackends
  <2>1. dumper' = dumper /\ pc = "backends"
    BY <1>8 DEF MakeBackends
  <2>2. client' \in {client, NoServer} /\ pc' \notin {"bind", "accept"}
    BY <1>8 DEF MakeBackends, CleanupAndExit, CloseThen, Exit, wireVars
  <2> QED BY <1>2, <2>1, <2>2 DEF OwnServer, Leaving
<1>9. CASE FinishPartition \/ NextPartition \/ ReportAndLeave \/ ProcessErr \/ ExitAtOnce
  <2>1. dumper' \in {dumper, NoServer} /\ pc \in {"run", "next"}
    BY <1>9 DEF FinishPartition, NextPartition, ReportAndLeave, ProcessErr, ExitAtOnce
  <2>2. client' \in {client, NoServer} /\ pc' \notin {"bind", "accept"}
    BY <1>9 DEF FinishPartition, NextPartition, ReportAndLeave, ProcessErr, ExitAtOnce,
                CleanupAndExit, CloseThen, CloseSockets, Exit, wireVars
  <2> QED BY <1>2, <2>1, <2>2 DEF OwnServer, Leaving
<1>10. CASE RequestDump \/ ReceiveAck
  BY <1>2, <1>10 DEF RequestDump, ReceiveAck, Send, Receive, OwnServer, Leaving
<1>11. CASE RequestTermination \/ ReceiveTermination
  <2>1. dumper' = dumper /\ after' = after /\ pc \in {"closing", "termination"}
        /\ pc' \in {"termination", "exited", after}
    BY <1>11 DEF RequestTermination, ReceiveTermination, Closed, Exit, CloseSockets
  <2>2. client' \in {client, NoServer} /\ after \in {"exited", "next"}
    BY <1>11 DEF RequestTermination, ReceiveTermination, Closed, Exit, CloseSockets, Send,
                 SessionInv, PairInv
  <2> QED BY <1>2, <2>1, <2>2 DEF OwnServer, Leaving
<1>12. CASE StartBriefServer \/ OfferTermination
  <2>1. dumper' = dumper /\ pc' \in {"offer", "closing"} /\ after' = "exited"
    BY <1>12 DEF StartBriefServer, OfferTermination, SessionInv, PairInv
  <2> QED BY <1>2, <2>1 DEF OwnServer, Leaving
<1>13. CASE EnsureDebugServer \/ QuitPrompt \/ ReadStatus \/ \E request \in Requests : DumpMemory(request)
  BY <1>13 DEF EnsureDebugServer, QuitPrompt, ReadStatus, DumpMemory
<1>14. CASE (PeerStep \/ PeerDies) /\ UNCHANGED progVars
  BY <1>2, <1>14 DEF progVars, inputVars, PeerStep, PeerDies, PeerConnects, PeerServes, PeerIsCut,
                     PeerStarts, OwnServer, Leaving
<1> QED BY <1>4, <1>5, <1>6, <1>7, <1>8, <1>9, <1>10, <1>11, <1>12, <1>13, <1>14
        DEF Next, Debugger, Events

LEMMA ConnectionLasts ==
  ASSUME SessionInv, DumpInv, Next, ~ByHand, ~died', Batch' => Batch,
         pc' \in {"load", "backends", "run", "await"}, Batch'
  PROVE  peer' = "connected"
<1>1. Serves /\ ~ByHand /\ args.backend # "test" /\ NoServer \notin 1 .. Partitions
  BY PartitionsAssumption DEF Batch, NoServer
<1>2. CASE pc \in {"load", "backends", "run", "await"}
  <2>1. Connected /\ fsp # NoServer
    BY <1>1, <1>2 DEF SessionInv, PairInv
  <2>2. CASE PeerStep \/ PeerDies
    <3>1. toPeer # <<>> => Head(toPeer) # Terminate
      BY <1>2, OneMessage DEF SessionInv, WireInv, NoneUnderWay, OneUnderWay, Terminate
    <3>2. ~died /\ peer = "connected"
      BY <1>2, <2>2 DEF PeerStep, PeerDies, PeerConnects, PeerServes, PeerIsCut, PeerStarts,
                        DumpInv, NothingLost
    <3> QED BY <2>1, <2>2, <3>1, <3>2 DEF PeerStep, PeerDies, PeerConnects, PeerServes, PeerIsCut,
                                     PeerStarts, Connected
  <2>3. CASE ~(PeerStep \/ PeerDies)
    <3>1. died' = died /\ peer' = peer
      BY <1>2, <2>3 DEF Next, Debugger, Events, SetUpPartition, CheckContext, StartServer,
         AcceptClient, LoadDesign, MakeBackends, ReceiveAck, FinishPartition, NextPartition,
         ReportAndLeave, RequestTermination, ReceiveTermination, StartBriefServer,
         OfferTermination, RequestDump, EnsureDebugServer, ProcessErr, QuitPrompt, ExitAtOnce,
         ReadStatus, DumpMemory, CleanupAndExit, CloseThen, CloseSockets, Exit, Send, Receive,
         wireVars
    <3> QED BY <1>2, <3>1 DEF DumpInv, NothingLost
  <2> QED BY <2>2, <2>3
<1>3. CASE pc \notin {"load", "backends", "run", "await"}
  <2>1. AcceptClient \/ pc \in {"launch", "context", "bind"} \/ pc' \notin {"load", "backends", "run", "await"}
    BY <1>3 DEF Next, Debugger, Events, SetUpPartition, CheckContext, StartServer,
         AcceptClient, LoadDesign, MakeBackends, ReceiveAck, FinishPartition, NextPartition,
         ReportAndLeave, RequestTermination, ReceiveTermination, StartBriefServer,
         OfferTermination, RequestDump, EnsureDebugServer, ProcessErr, QuitPrompt, ExitAtOnce,
         ReadStatus, DumpMemory, Closed, Exit, SessionInv, PairInv, progVars
  <2>2. CASE AcceptClient
    BY <2>2 DEF AcceptClient, Accept
  <2>3. CASE pc \in {"launch", "context", "bind"}
    <3>1. Unconnected
      BY <1>1, <2>3 DEF SessionInv, PairInv, Batch
    <3>2. FALSE
      BY <1>1, <2>3, <3>1 DEF Next, Debugger, Events, SetUpPartition, CheckContext, StartServer,
         AcceptClient, LoadDesign, MakeBackends, ReceiveAck, FinishPartition, NextPartition,
         ReportAndLeave, RequestTermination, ReceiveTermination, StartBriefServer,
         OfferTermination, RequestDump, EnsureDebugServer, ProcessErr, QuitPrompt, ExitAtOnce,
         ReadStatus, DumpMemory, CleanupAndExit, Exit, AfterContext, Unconnected, progVars
    <3> QED BY <3>2
  <2> QED BY <2>1, <2>2, <2>3
<1> QED BY <1>2, <1>3

(* What has been carried out. *)
Counted ==
  /\ pc # "await" \/ toDebugger # <<>> => carried = 1 .. sent
  /\ pc = "await" /\ toDebugger = <<>> => carried = 1 .. sent - 1

LEMMA RequestIsCounted ==
  ASSUME SessionInv, DumpInv, RequestDump, ~ByHand, ~died
  PROVE  Batch /\ Counted'
<1>1. OwnServer /\ NothingLost /\ pc = "run" /\ toDebugger = <<>> /\ sent \in Nat
  BY DEF RequestDump, DumpInv, SessionInv, WireInv, NoneUnderWay
<1>2. Batch
  BY <1>1 DEF RequestDump, OwnServer, Leaving, Batch
<1>3. carried' = 1 .. sent' - 1 /\ pc' = "await" /\ toDebugger' = <<>>
  BY <1>1 DEF RequestDump, Send, NothingLost
<1> QED BY <1>2, <1>3 DEF Counted

LEMMA AnswerIsCounted ==
  ASSUME SessionInv, DumpInv, ReceiveAck, ~ByHand, ~died
  PROVE  Counted'
<1>1. Answered
  BY DEF ReceiveAck, Answered, HungUp, DumpInv, NothingLost
<1>2. carried = 1 .. sent
  BY <1>1 DEF Answered, DumpInv, NothingLost
<1> QED BY <1>2 DEF ReceiveAck, Receive, Counted

LEMMA TerminationIsCounted ==
  ASSUME SessionInv, DumpInv, RequestTermination \/ ReceiveTermination, ~ByHand, ~died
  PROVE  Counted'
<1>1. carried = 1 .. sent /\ UNCHANGED <<carried, sent>>
  BY DEF RequestTermination, ReceiveTermination, Closed, Exit, CloseSockets, Send, DumpInv,
         NothingLost
<1>2. pc' # "await"
  BY DEF RequestTermination, ReceiveTermination, Closed, Exit, CloseSockets, SessionInv, WireInv
<1> QED BY <1>1, <1>2 DEF Counted

LEMMA PeerIsCounted ==
  ASSUME SessionInv, DumpInv, PeerStep \/ PeerDies, UNCHANGED progVars, ~ByHand, ~died'
  PROVE  Counted'
<1>1. UNCHANGED <<pc, sent>> /\ ~died /\ sent \in Nat
  BY DEF progVars, PeerStep, PeerDies, PeerConnects, PeerServes, PeerIsCut, PeerStarts, SessionInv,
         WireInv
<1>2. Counted
  BY <1>1 DEF DumpInv, NothingLost, Counted
<1>3. CASE ~PeerServes
  <2>1. UNCHANGED <<toDebugger, carried>>
    BY <1>3 DEF PeerStep, PeerDies, PeerConnects, PeerIsCut, PeerStarts
  <2> QED BY <1>1, <1>2, <2>1 DEF Counted
<1>4. CASE PeerServes
  <2>1. toPeer # <<>> /\ pc \in {"await", "termination"}
    BY <1>4 DEF PeerServes, SessionInv, WireInv, NoneUnderWay
  <2>2. CASE pc = "await"
    <3>1. toPeer = <<sent>> /\ toDebugger = <<>> /\ sent # Terminate /\ carried = 1 .. sent - 1
      BY <1>2, <2>1, <2>2 DEF SessionInv, WireInv, OneUnderWay, Terminate, Counted
    <3>2. toDebugger' = <<sent>> /\ carried' = carried \cup {sent}
      BY <1>4, <3>1, OneMessage DEF PeerServes
    <3>3. carried' = 1 .. sent
      BY <1>1, <3>1, <3>2 DEF Terminate
    <3> QED BY <1>1, <2>2, <3>2, <3>3, OneMessage DEF Counted
  <2>3. CASE pc = "termination"
    <3>1. toPeer = <<Terminate>>
      BY <2>1, <2>3 DEF SessionInv, WireInv, OneUnderWay
    <3>2. carried' = carried
      BY <1>4, <3>1, OneMessage DEF PeerServes
    <3> QED BY <1>1, <1>2, <2>3, <3>2 DEF Counted
  <2> QED BY <2>1, <2>2, <2>3
<1> QED BY <1>3, <1>4

LEMMA RestIsCounted ==
  ASSUME DumpInv, AtRest, ~ByHand, ~died
  PROVE  Counted'
BY DEF AtRest, DumpInv, NothingLost, Counted

(* DumpInv is inductive, given SessionInv. *)
LEMMA DumpInvStep == SessionInv /\ DumpInv /\ [Next]_vars => DumpInv'
<1> SUFFICES ASSUME SessionInv, DumpInv, [Next]_vars, ~ByHand'
             PROVE  OwnServer' /\ (~died' => NothingLost')
  BY DEF DumpInv
<1>1. line' = line /\ Keeps(args, args') /\ (pc # "launch" => args' = args)
  BY InputsKept DEF SessionInv, PairInv
<1>2. ~ByHand /\ Serves' = Serves /\ args'.backend = args.backend
  BY <1>1 DEF Keeps, ByHand, Serves
<1>3. Batch' = Batch
  BY <1>2 DEF Batch
<1>4. CASE UNCHANGED vars
  BY <1>2, <1>4 DEF vars, wireVars, progVars, inputVars, DumpInv, OwnServer, NothingLost, Leaving,
                    Batch, Serves, ByHand
<1>5. CASE Next
  <2>1. OwnServer'
    BY <1>2, <1>5, OwnServerStays
  <2>2. ASSUME ~died' PROVE NothingLost'
    <3>1. pc' \in {"load", "backends", "run", "await"} /\ Batch' => peer' = "connected"
      BY <1>2, <1>3, <1>5, <2>2, ConnectionLasts
    <3>2. ~died
      BY <1>5, <2>2 DEF Next, Debugger, Events, SetUpPartition, CheckContext, StartServer,
         AcceptClient, LoadDesign, MakeBackends, ReceiveAck, FinishPartition, NextPartition,
         ReportAndLeave, RequestTermination, ReceiveTermination, StartBriefServer,
         OfferTermination, RequestDump, EnsureDebugServer, ProcessErr, QuitPrompt, ExitAtOnce,
         ReadStatus, DumpMemory, CleanupAndExit, CloseThen, CloseSockets, Closed, Exit, Send,
         Receive, Bind, Accept, wireVars, PeerStep, PeerDies, PeerConnects, PeerServes, PeerIsCut,
         PeerStarts
    <3>3. CASE RequestDump
      BY <1>2, <1>3, <3>1, <3>2, <3>3, RequestIsCounted DEF NothingLost, Counted
    <3>4. CASE ReceiveAck
      <4>1. pc' = "run"
        BY <3>4 DEF ReceiveAck
      <4> QED BY <1>2, <3>1, <3>2, <3>4, <4>1, AnswerIsCounted DEF NothingLost, Counted
    <3>5. CASE RequestTermination \/ ReceiveTermination
      <4>1. pc' # "await"
        BY <3>5 DEF RequestTermination, ReceiveTermination, Closed, Exit, CloseSockets, SessionInv,
                    WireInv
      <4> QED BY <1>2, <3>1, <3>2, <3>5, <4>1, TerminationIsCounted DEF NothingLost, Counted
    <3>6. CASE (PeerStep \/ PeerDies) /\ UNCHANGED progVars
      <4>1. pc' = pc
        BY <3>6 DEF progVars
      <4>2. pc = "await" => Batch
        BY <1>2, <3>2 DEF DumpInv, NothingLost
      <4> QED BY <1>2, <1>3, <2>2, <3>1, <3>6, <4>1, <4>2, PeerIsCounted DEF NothingLost, Counted
    <3>7. CASE AtRest
      <4>1. pc' # "await"
        BY <3>7 DEF AtRest
      <4> QED BY <1>2, <3>1, <3>2, <3>7, <4>1, RestIsCounted DEF NothingLost, Counted
    <3> QED BY <1>5, <3>3, <3>4, <3>5, <3>6, <3>7, DebuggerAtRest DEF Next, Debugger, Events
  <2> QED BY <2>1, <2>2
<1> QED BY <1>4, <1>5

(* While flexmlrt lives, and for every number of requests: when a batch    *)
(* run has come to its regular end, every dump that was asked for has been *)
(* carried out.                                                            *)
THEOREM DumpsCorrect == Spec => []DumpsComplete
<1>1. Init => SessionInv /\ DumpInv
  BY WireInvInit, PairInvInit, ToldInvInit, DumpInvInit DEF SessionInv
<1>2. SessionInv /\ DumpInv /\ [Next]_vars => (SessionInv /\ DumpInv)'
  BY SessionInvStep, DumpInvStep
<1>3. SessionInv /\ DumpInv => DumpsComplete
  BY DumpInvSays
<1> QED BY <1>1, <1>2, <1>3, PTL DEF Spec

-----------------------------------------------------------------------------
(* Reads of a core dump: the device that the options, the header and the   *)
(* partition before have settled is the one the file was taken from; the   *)
(* geometry of the reader does the rest.                                   *)

(* The part of DeviceKnown that does not depend on the partition.          *)
FileKnown ==
  LET file == line.core_dump
      cfg  == Config(file.device)
  IN  /\ HasDump
      /\ \/ file.magic = "raw" /\ line.device = file.device
         \/ /\ file.magic = "NPU" /\ file.size >= HeaderBytes
            /\ line.device \in {NoDevice, file.device}
            /\ <<file.hwGen, file.rows, file.cols>> = <<cfg.hwGen, cfg.numrows, cfg.numcols>>

LEMMA KnownOfFirst ==
  DeviceKnown <=> /\ FileKnown
                  /\ fsp = 1 \/ get_base_device(line.core_dump.device) = line.core_dump.device
BY DEF DeviceKnown, FileKnown, get_base_device

(* No partition has been set up yet. *)
Untouched == fsp = 1 /\ pc = "launch"

(* The namespace holds what was typed until the first partition is set up. *)
(* From then on it holds the base device of the file, and at work the      *)
(* device itself.                                                          *)
ReadInv ==
  /\ line \in Lines /\ fsp \in Nat \ {0} /\ IsArgs(args)
  /\ Untouched => args.device = line.device /\ args.overlay = line.overlay
  /\ FileKnown /\ ~Untouched => args.device = get_base_device(line.core_dump.device)
  /\ DeviceKnown /\ pc # "launch" =>
       /\ args.sub_device = line.core_dump.device
       /\ args.no_header <=> line.core_dump.magic = "raw"

LEMMA ReadInvInit == Init => ReadInv
<1> SUFFICES ASSUME Init PROVE ReadInv
  OBVIOUS
<1>1. line \in Lines /\ fsp = 1 /\ pc = "launch" /\ args = check_args(line)
  BY DEF Init
<1>2. args.device = line.device /\ args.overlay = line.overlay
  BY <1>1 DEF check_args
<1> QED BY <1>1, <1>2, FirstArgs DEF ReadInv, Untouched

-----------------------------------------------------------------------------
(* Setting up a partition. *)

(* The header of a file that is known names the device, unless it has none. *)
LEMMA KnownHeader ==
  ASSUME line \in Lines, FileKnown
  PROVE  /\ HasDump /\ IsFile(line.core_dump) /\ line.core_dump.device # NoDevice
         /\ line.core_dump.magic = "raw" => Header = NoDevice /\ line.device = line.core_dump.device
         /\ line.core_dump.magic # "raw" =>
              /\ line.core_dump.magic = "NPU" /\ Header = line.core_dump.device
              /\ line.core_dump.size >= HeaderBytes
              /\ line.core_dump.cols = Config(line.core_dump.device).numcols
              /\ line.device \in {NoDevice, line.core_dump.device}
<1> DEFINE file == line.core_dump
<1>1. HasDump /\ IsFile(file)
  <2>1. HasDump
    BY DEF FileKnown
  <2>2. file # NoFile
    BY <2>1 DEF HasDump
  <2> QED BY <2>1, <2>2, LinesAssumption
<1>2. file.device \in Devices /\ file.device # NoDevice
  BY <1>1, BaseDevice DEF IsFile
<1>3. CASE file.magic = "raw"
  BY <1>1, <1>2, <1>3 DEF FileKnown, Header, peek_device
<1>4. CASE file.magic # "raw"
  <2>1. /\ file.magic = "NPU" /\ file.size >= HeaderBytes
        /\ line.device \in {NoDevice, file.device}
        /\ file.hwGen = Config(file.device).hwGen
        /\ file.rows = Config(file.device).numrows
        /\ file.cols = Config(file.device).numcols
    BY <1>4 DEF FileKnown
  <2>2. resolve_variant(file.hwGen, file.rows, file.cols) = file.device
    BY <1>2, <2>1, ResolvesToItself
  <2>3. ~(file.size < HeaderBytes)
    BY <1>1, <2>1 DEF IsFile, HeaderBytes
  <2>4. Header = file.device
    BY <1>1, <1>4, <2>2, <2>3 DEF Header, peek_device
  <2> QED BY <1>1, <1>2, <1>4, <2>1, <2>4
<1> QED BY <1>3, <1>4

(* What the set-up makes of the namespace. *)
LEMMA SetUpFields ==
  ASSUME NEW a, IsArgs(a), NEW partition
  PROVE  LET b       == create_run_flags(a, partition)
             variant == IF a.device # NoDevice THEN a.device ELSE Detected(partition)
         IN  /\ b.sub_device = variant /\ b.device = get_base_device(variant)
             /\ b.no_header = (HasDump /\ Header = NoDevice)
             /\ b.aie_only \in {a.aie_only, TRUE}
             /\ LET d == set_device(a, partition)
                IN  /\ b.overlay = set_coredump_overlay(d).overlay
                    /\ IsArgs(d) /\ d.overlay = a.overlay
                    /\ d.sub_device = b.sub_device /\ d.no_header = b.no_header
<1> DEFINE device     == set_device(a, partition)
           overlay    == set_coredump_overlay(device)
           standalone == Standalone(overlay, partition)
           flags      == MakeRunFlags(standalone)
           variant    == IF a.device # NoDevice THEN a.device ELSE Detected(partition)
           Same(x, y) == /\ IsArgs(y) /\ y.sub_device = x.sub_device /\ y.device = x.device
                         /\ y.no_header = x.no_header /\ y.aie_only \in {x.aie_only, TRUE}
<1>1. /\ IsArgs(device) /\ device.sub_device = variant /\ device.device = get_base_device(variant)
      /\ device.no_header = (HasDump /\ Header = NoDevice) /\ device.overlay = a.overlay
      /\ device.aie_only = a.aie_only
  <2> DEFINE base      == get_base_device(variant)
             no_header == HasDump /\ Header = NoDevice
  <2>1. device = [a EXCEPT !.sub_device = variant, !.device = base, !.no_header = no_header]
    BY DEF set_device
  <2> HIDE DEF variant, base, no_header, device
  <2>2. IsArgs(device) /\ device.sub_device = variant /\ device.device = base
        /\ device.no_header = no_header /\ device.overlay = a.overlay
        /\ device.aie_only = a.aie_only
    BY <2>1 DEF IsArgs, Fields
  <2> QED BY <2>2 DEF base, no_header
<1> HIDE DEF device
<1>2. Same(device, overlay)
  <2>1. \A x : Same(device, [device EXCEPT !.overlay = x])
    BY <1>1 DEF IsArgs, Fields
  <2> QED BY <1>1, <2>1 DEF set_coredump_overlay
<1> HIDE DEF overlay
<1>3. Same(overlay, standalone) /\ standalone.overlay = overlay.overlay
  <2>1. LET b == [overlay EXCEPT !.aie_only = TRUE, !.interactive = TRUE]
        IN  Same(overlay, b) /\ b.overlay = overlay.overlay
    BY <1>2 DEF IsArgs, Fields
  <2> QED BY <1>2, <2>1 DEF Standalone
<1> HIDE DEF standalone
<1>4. Same(standalone, flags) /\ flags.overlay = standalone.overlay
  <2>1. \A x : LET b == [standalone EXCEPT !.run_flags = x]
               IN  Same(standalone, b) /\ b.overlay = standalone.overlay
    BY <1>3 DEF IsArgs, Fields
  <2> QED BY <1>3, <2>1 DEF MakeRunFlags
<1>5. create_run_flags(a, partition) = flags
  BY DEF create_run_flags, flags, standalone, overlay, device
<1> HIDE DEF flags, variant
<1>6. flags.overlay = set_coredump_overlay(set_device(a, partition)).overlay
  BY <1>3, <1>4 DEF overlay, device
<1>7. set_device(a, partition) = device
  BY DEF device
<1>8. /\ flags.sub_device = variant /\ flags.device = get_base_device(variant)
      /\ flags.no_header = (HasDump /\ Header = NoDevice)
      /\ flags.aie_only \in {a.aie_only, TRUE}
      /\ device.sub_device = flags.sub_device /\ device.no_header = flags.no_header
  BY <1>1, <1>2, <1>3, <1>4
<1> QED BY <1>1, <1>5, <1>6, <1>7, <1>8 DEF variant

(* A known file is never taken for one without a device. *)
LEMMA KnownIsNotHeaderless ==
  ASSUME ReadInv, FileKnown
  PROVE  ~Headerless(args)
<1>1. CASE line.core_dump.magic # "raw"
  <2>1. Header # NoDevice
    BY <1>1, KnownHeader DEF ReadInv
  <2> QED BY <2>1 DEF Headerless
<1>2. CASE line.core_dump.magic = "raw"
  <2>1. IsFile(line.core_dump) /\ line.device = line.core_dump.device
    BY <1>2, KnownHeader DEF ReadInv
  <2>2. args.device # NoDevice
    BY <2>1, BaseDevice DEF ReadInv, IsFile
  <2> QED BY <2>2 DEF Headerless
<1> QED BY <1>1, <1>2

(* The set-up of a partition settles the device of a known file.           *)
LEMMA SetUpFindsTheDevice ==
  ASSUME ReadInv, pc = "launch", FileKnown, NEW partition
  PROVE  LET b    == create_run_flags(args, partition)
             file == line.core_dump
         IN  /\ b.device = get_base_device(file.device)
             /\ b.no_header <=> file.magic = "raw"
             /\ DeviceKnown => b.sub_device = file.device
<1> DEFINE b       == create_run_flags(args, partition)
           file    == line.core_dump
           base    == get_base_device(file.device)
           variant == IF args.device # NoDevice THEN args.device ELSE Detected(partition)
<1>1. b.sub_device = variant /\ b.device = get_base_device(variant)
      /\ b.no_header = (HasDump /\ Header = NoDevice)
  BY SetUpFields DEF ReadInv
<1>2. HasDump /\ IsFile(file) /\ file.device # NoDevice /\ line \in Lines
      /\ file.device \in Devices
  BY KnownHeader DEF ReadInv, IsFile
<1>3. Header = NoDevice <=> file.magic = "raw"
  BY <1>2, KnownHeader
<1>4. base \in Devices /\ base # NoDevice /\ get_base_device(base) = base
  BY <1>2, BaseDevice, BaseOfBase
<1>5. CASE fsp = 1
  <2>1. args.device = line.device
    BY <1>5 DEF ReadInv, Untouched
  <2>2. variant = file.device
    <3>1. CASE file.magic = "raw"
      BY <1>2, <2>1, <3>1, KnownHeader
    <3>2. CASE file.magic # "raw"
      BY <1>2, <2>1, <3>2, KnownHeader DEF Detected
    <3> QED BY <3>1, <3>2
  <2> QED BY <1>1, <1>2, <1>3, <2>2
<1>6. CASE fsp # 1
  <2>1. args.device = base
    BY <1>6 DEF ReadInv, Untouched
  <2>2. variant = base
    BY <1>4, <2>1
  <2>3. DeviceKnown => base = file.device
    BY <1>6, KnownOfFirst
  <2> QED BY <1>1, <1>2, <1>3, <1>4, <2>2, <2>3
<1> QED BY <1>5, <1>6

-----------------------------------------------------------------------------
(* ReadInv is inductive. *)

(* After the set-up nothing but the step to the next partition counts.     *)
LEMMA OtherSteps ==
  ASSUME WireInv, [Next]_vars, ~SetUpPartition, ~NextPartition
  PROVE  /\ UNCHANGED <<line, args, fsp>>
         /\ pc' = pc \/ (pc # "launch" /\ pc' # "launch")
<1>1. after # "launch"
  BY DEF WireInv
<1>2. CASE UNCHANGED vars
  BY <1>2 DEF vars, progVars, inputVars
<1>3. CASE \/ CheckContext \/ StartServer \/ AcceptClient \/ LoadDesign \/ MakeBackends
           \/ ReceiveAck \/ FinishPartition \/ ReportAndLeave
  BY <1>3 DEF CheckContext, StartServer, AcceptClient, LoadDesign, MakeBackends, ReceiveAck,
              FinishPartition, ReportAndLeave, CleanupAndExit, CloseThen, Exit, AfterContext,
              inputVars
<1>4. CASE RequestTermination \/ ReceiveTermination \/ StartBriefServer \/ OfferTermination
  BY <1>1, <1>4 DEF RequestTermination, ReceiveTermination, StartBriefServer, OfferTermination,
                    Closed, Exit, inputVars
<1>5. CASE Events
  BY <1>5 DEF Events, RequestDump, EnsureDebugServer, ProcessErr, QuitPrompt, ExitAtOnce,
              ReadStatus, DumpMemory, CleanupAndExit, Exit, inputVars
<1>6. CASE (PeerStep \/ PeerDies) /\ UNCHANGED progVars
  BY <1>6 DEF progVars, inputVars
<1> QED BY <1>2, <1>3, <1>4, <1>5, <1>6 DEF Next, Debugger

LEMMA ReadInvStep == WireInv /\ ReadInv /\ [Next]_vars => ReadInv'
<1> SUFFICES ASSUME WireInv, ReadInv, [Next]_vars PROVE ReadInv'
  OBVIOUS
<1>1. line' = line /\ IsArgs(args')
  BY InputsKept DEF ReadInv, Keeps
<1>2. (FileKnown' <=> FileKnown) /\ line' \in Lines
  BY <1>1 DEF FileKnown, HasDump, ReadInv
<1>3. CASE ~SetUpPartition /\ ~NextPartition
  <2>1. UNCHANGED <<line, args, fsp>> /\ (pc' = pc \/ (pc # "launch" /\ pc' # "launch"))
    BY <1>3, OtherSteps
  <2>2. DeviceKnown' <=> DeviceKnown
    BY <2>1 DEF DeviceKnown, HasDump
  <2> QED BY <1>1, <1>2, <2>1, <2>2 DEF ReadInv, Untouched
<1>4. CASE NextPartition
  <2>1. args' = args /\ pc = "next"
    BY <1>4 DEF NextPartition, inputVars
  <2>2. CASE Last
    <3>1. pc' = "exited" /\ fsp' = fsp
      BY <1>4, <2>2 DEF NextPartition, Exit
    <3>2. DeviceKnown' <=> DeviceKnown
      BY <1>1, <3>1 DEF DeviceKnown, HasDump
    <3> QED BY <1>1, <1>2, <2>1, <3>1, <3>2 DEF ReadInv, Untouched
  <2>3. CASE ~Last
    <3>1. pc' = "launch" /\ fsp' = fsp + 1
      BY <1>4, <2>3 DEF NextPartition
    <3>2. fsp' \in Nat \ {0} /\ fsp' # 1
      BY <3>1 DEF ReadInv
    <3> QED BY <1>1, <1>2, <2>1, <3>1, <3>2 DEF ReadInv, Untouched
  <2> QED BY <2>2, <2>3
<1>5. CASE SetUpPartition
  <2>1. pc = "launch" /\ fsp' = fsp /\ pc' # "launch"
    BY <1>5 DEF SetUpPartition, CleanupAndExit, Exit, AfterContext
  <2>2. DeviceKnown' <=> DeviceKnown
    BY <1>1, <2>1 DEF DeviceKnown, HasDump
  <2>3. CASE FileKnown
    <3>1. args' = create_run_flags(args, line.design[fsp])
      BY <1>5, <2>3, KnownIsNotHeaderless DEF SetUpPartition
    <3> QED BY <1>1, <1>2, <2>1, <2>2, <2>3, <3>1, SetUpFindsTheDevice DEF ReadInv, Untouched
  <2>4. CASE ~FileKnown
    <3>1. ~DeviceKnown
      BY <2>4, KnownOfFirst
    <3> QED BY <1>1, <1>2, <2>1, <2>2, <2>4, <3>1 DEF ReadInv, Untouched
  <2> QED BY <2>3, <2>4
<1> QED BY <1>3, <1>4, <1>5

-----------------------------------------------------------------------------
(* Reading. *)

(* The reader of a file that is known is opened for it. *)
LEMMA OpenedForTheFile ==
  ASSUME line \in Lines, FileKnown, NEW dev, NEW no_header,
         dev = line.core_dump.device, no_header <=> line.core_dump.magic = "raw"
  PROVE  LET rd == Reader(line.core_dump, dev, no_header)
         IN  OpenedFor(rd, line.core_dump) /\ rd.total_cols \in {0, rd.cfg.numcols}
<1> DEFINE file == line.core_dump
           rd   == Reader(file, dev, no_header)
           cols == IF no_header \/ file.size < HeaderBytes THEN 0 ELSE file.cols
<1>1. /\ IsFile(file)
      /\ file.magic = "raw" => file.head = 0
      /\ file.magic # "raw" => file.cols = Config(file.device).numcols
  BY KnownHeader DEF IsFile
<1>2. (IF no_header THEN 0 ELSE file.head) = file.head
  BY <1>1
<1>3. cols \in {0, Config(file.device).numcols}
  BY <1>1
<1>4. rd = [cfg |-> Config(file.device), size |-> file.size, header_size |-> file.head,
            total_cols |-> cols]
  BY <1>2 DEF Reader
<1> HIDE DEF rd, cols
<1> QED BY <1>1, <1>3, <1>4 DEF OpenedFor, IsFile, rd

(* At work the namespace opens it so.                                      *)
LEMMA OpenedAtWork ==
  ASSUME ReadInv, DeviceKnown, pc = "run"
  PROVE  /\ OpenedFor(DumpReader(args), line.core_dump)
         /\ args.sub_device = line.core_dump.device
BY OpenedForTheFile, KnownOfFirst DEF ReadInv, DumpReader

(* The status of the tiles, as it is read at work.                         *)
LEMMA StatusIsTrue ==
  ASSUME ReadInv, DeviceKnown, pc = "run"
  PROVE  LET status     == AIEStatus_get(args)
             file       == line.core_dump
             held(tile) == TileStart(file, tile) + StatusRegister(file.device)
         IN  \A tile \in DOMAIN status :
               status[tile] = IF held(tile) + 4 <= file.size THEN held(tile) ELSE Lost
<1> DEFINE status     == AIEStatus_get(args)
           file       == line.core_dump
           register   == StatusRegister(file.device)
           held(tile) == TileStart(file, tile) + register
<1> SUFFICES ASSUME NEW tile \in DOMAIN status
             PROVE  status[tile] = IF held(tile) + 4 <= file.size THEN held(tile) ELSE Lost
  OBVIOUS
<1>1. OpenedFor(DumpReader(args), file) /\ args.sub_device = file.device
  BY OpenedAtWork
<1>2. tile \in Tiles(args)
      /\ status[tile] = read_register(DumpReader(args), tile[1], tile[2], register)
  BY <1>1 DEF AIEStatus_get
<1>3. tile[1] \in Nat /\ tile[2] \in Nat /\ tile = <<tile[1], tile[2]>>
  BY <1>2 DEF Tiles
<1>4. register \in Nat
  BY DEF StatusRegister
<1> HIDE DEF register, status
<1>5. read_register(DumpReader(args), tile[1], tile[2], register)
        = LET h == TileStart(file, <<tile[1], tile[2]>>) + register
          IN  IF h + 4 <= file.size THEN h ELSE Lost
  BY <1>1, <1>3, <1>4, RegistersAreTrue
<1> QED BY <1>2, <1>3, <1>5

(* What has been printed before stays true; the next partition starts with *)
(* nothing printed.                                                        *)
LEMMA PrintedSteps ==
  ASSUME WireInv, ReadInv, [Next]_vars
  PROVE  /\ \/ shown' = <<>> \/ (shown' = shown /\ (DeviceKnown' <=> DeviceKnown))
            \/ shown' = AIEStatus_get(args) /\ pc = "run" /\ (DeviceKnown' <=> DeviceKnown)
         /\ \/ memory' = <<>> \/ (memory' = memory /\ (DeviceKnown' <=> DeviceKnown))
            \/ pc = "run" /\ \E request \in Requests : DumpMemory(request)
         /\ line' = line
<1>1. line' = line
  BY InputsKept DEF ReadInv
<1>2. CASE fsp' = fsp
  <2>1. DeviceKnown' <=> DeviceKnown
    BY <1>1, <1>2 DEF DeviceKnown, HasDump
  <2>2. \/ UNCHANGED deadVars \/ ReportAndLeave \/ ReadStatus \/ NextPartition
        \/ \E request \in Requests : DumpMemory(request)
    BY DEF Next, Debugger, Events, vars, progVars, SetUpPartition, CheckContext, StartServer,
           AcceptClient, LoadDesign, MakeBackends, ReceiveAck, FinishPartition,
           RequestTermination, ReceiveTermination, StartBriefServer, OfferTermination,
           RequestDump, EnsureDebugServer, ProcessErr, QuitPrompt, ExitAtOnce
  <2>3. CASE UNCHANGED deadVars
    BY <1>1, <2>1, <2>3 DEF deadVars
  <2>4. CASE ReportAndLeave \/ ReadStatus
    <3>1. memory' = memory /\ pc = "run" /\ (shown' = shown \/ shown' = AIEStatus_get(args))
      BY <2>4 DEF ReportAndLeave, ReadStatus
    <3> QED BY <1>1, <2>1, <3>1
  <2>5. CASE NextPartition
    <3>1. UNCHANGED deadVars \/ (shown' = <<>> /\ memory' = <<>>)
      BY <2>5 DEF NextPartition
    <3> QED BY <1>1, <2>1, <3>1 DEF deadVars
  <2>6. CASE \E request \in Requests : DumpMemory(request)
    <3>1. pc = "run" /\ shown' = shown
      BY <2>6 DEF DumpMemory
    <3> QED BY <1>1, <2>1, <2>6, <3>1
  <2> QED BY <2>2, <2>3, <2>4, <2>5, <2>6
<1>3. CASE fsp' # fsp
  <2>1. NextPartition
    BY <1>3, OtherSteps DEF SetUpPartition
  <2>2. shown' = <<>> /\ memory' = <<>>
    BY <1>3, <2>1 DEF NextPartition
  <2> QED BY <1>1, <2>2
<1> QED BY <1>2, <1>3

(* For every command, every file and any number of partitions: each status *)
(* that is printed is the word that the tile held, and zero only where the *)
(* file was cut off before it.                                             *)
THEOREM ReadsCorrect == Spec => []ReadsAreTrue
<1> DEFINE Inv == WireInv /\ ReadInv /\ ReadsAreTrue
<1>1. Init => Inv
  BY WireInvInit, ReadInvInit DEF Init, ReadsAreTrue
<1>2. Inv /\ [Next]_vars => Inv'
  <2> SUFFICES ASSUME WireInv, ReadInv, ReadsAreTrue, [Next]_vars PROVE ReadsAreTrue'
    BY WireInvStep, ReadInvStep
  <2>1. CASE shown' = <<>>
    BY <2>1 DEF ReadsAreTrue
  <2>2. CASE shown' = shown /\ (DeviceKnown' <=> DeviceKnown) /\ line' = line
    BY <2>2 DEF ReadsAreTrue
  <2>3. CASE /\ shown' = AIEStatus_get(args) /\ pc = "run" /\ (DeviceKnown' <=> DeviceKnown)
             /\ line' = line
    <3> SUFFICES ASSUME DeviceKnown PROVE ReadsAreTrue'
      BY <2>3 DEF ReadsAreTrue
    <3> DEFINE status == AIEStatus_get(args)
    <3>1. LET file       == line.core_dump
              held(tile) == TileStart(file, tile) + StatusRegister(file.device)
          IN  \A tile \in DOMAIN status :
                status[tile] = IF held(tile) + 4 <= file.size THEN held(tile) ELSE Lost
      BY <2>3, StatusIsTrue
    <3>2. shown' = status /\ line' = line
      BY <2>3
    <3> HIDE DEF status
    <3> QED BY <3>1, <3>2 DEF ReadsAreTrue
  <2> QED BY <2>1, <2>2, <2>3, PrintedSteps
<1> QED BY <1>1, <1>2, PTL DEF Spec

(* For every command, every file and any number of partitions: a memory    *)
(* dump has the words that were asked for, each once and in their order.   *)
THEOREM MemoryCorrect == Spec => []MemoryIsTrue
<1> DEFINE Inv == WireInv /\ ReadInv /\ MemoryIsTrue
<1>1. Init => Inv
  BY WireInvInit, ReadInvInit DEF Init, MemoryIsTrue
<1>2. Inv /\ [Next]_vars => Inv'
  <2> SUFFICES ASSUME WireInv, ReadInv, MemoryIsTrue, [Next]_vars PROVE MemoryIsTrue'
    BY WireInvStep, ReadInvStep
  <2>1. CASE memory' = <<>>
    BY <2>1 DEF MemoryIsTrue
  <2>2. CASE memory' = memory /\ (DeviceKnown' <=> DeviceKnown) /\ line' = line
    BY <2>2 DEF MemoryIsTrue
  <2>3. ASSUME pc = "run", NEW request \in Requests, DumpMemory(request)
        PROVE  MemoryIsTrue'
    <3>1. UNCHANGED <<line, args, fsp>>
      BY <2>3 DEF DumpMemory, inputVars
    <3>2. DeviceKnown' <=> DeviceKnown
      BY <3>1 DEF DeviceKnown, HasDump
    <3> SUFFICES ASSUME DeviceKnown PROVE MemoryIsTrue'
      BY <3>2 DEF MemoryIsTrue
    <3> DEFINE col    == request.tile[1]
               row    == request.tile[2]
               offset == request.offset
               size   == request.size
               rd     == DumpReader(args)
               file   == line.core_dump
               pieces == dump_memory(rd, col, row, offset, size)
    <3>3. OpenedFor(rd, file)
      BY <2>3, OpenedAtWork
    <3>4. /\ offset \in Nat /\ size \in Nat /\ col \in Nat /\ row \in Nat
          /\ request.tile = <<col, row>>
      BY LinesAssumption
    <3>5. memory' = [asked |-> request, pieces |-> pieces]
      BY <2>3 DEF DumpMemory
    <3> HIDE DEF rd, col, row, offset, size, file
    <3>6. WordsFrom(TileStart(file, <<col, row>>) + offset, size, file, pieces)
      BY <3>3, <3>4, MemoryIsWhole
    <3> HIDE DEF pieces
    <3>7. memory'.pieces = pieces /\ memory'.asked = request
      BY <3>5
    <3> QED BY <3>1, <3>4, <3>6, <3>7 DEF MemoryIsTrue, WordsFrom, file, offset, size
  <2> QED BY <2>1, <2>2, <2>3, PrintedSteps
<1> QED BY <1>1, <1>2, PTL DEF Spec

-----------------------------------------------------------------------------
(* Counting columns. *)

(* The overlay of a partition is the one before, or what is counted in the *)
(* file, if that is a column at least.                                     *)
LEMMA OverlayIsCounted ==
  ASSUME ReadInv, DeviceKnown, pc = "launch", NEW partition
  PROVE  LET b    == create_run_flags(args, partition)
             rd   == Reader(line.core_dump, b.sub_device, b.no_header)
         IN  /\ OpenedFor(rd, line.core_dump) /\ rd.total_cols \in {0, rd.cfg.numcols}
             /\ \/ b.overlay = args.overlay
                \/ args.overlay = <<>> /\ b.overlay[1] = detect_num_cols(rd)
<1> DEFINE b  == create_run_flags(args, partition)
           d  == set_device(args, partition)
           rd == Reader(line.core_dump, b.sub_device, b.no_header)
           n  == detect_num_cols(rd)
           counted == <<n, Config(d.sub_device).numrows - Config(d.sub_device).core_row_start>>
<1>1. FileKnown /\ line \in Lines /\ IsArgs(args)
  BY KnownOfFirst DEF ReadInv
<1>2. OpenedFor(rd, line.core_dump) /\ rd.total_cols \in {0, rd.cfg.numcols}
  BY <1>1, SetUpFindsTheDevice, OpenedForTheFile
<1>3. /\ b.overlay = set_coredump_overlay(d).overlay
      /\ IsArgs(d) /\ d.overlay = args.overlay
      /\ d.sub_device = b.sub_device /\ d.no_header = b.no_header
  BY <1>1, SetUpFields
<1>4. \/ set_coredump_overlay(d) = d
      \/ d.overlay = <<>> /\ set_coredump_overlay(d) = [d EXCEPT !.overlay = counted]
  BY <1>3 DEF set_coredump_overlay
<1> HIDE DEF b, d, rd, n, counted
<1>5. [d EXCEPT !.overlay = counted].overlay = counted
  BY <1>3 DEF IsArgs, Fields
<1>6. counted[1] = n
  BY DEF counted
<1>7. b.overlay = args.overlay \/ (args.overlay = <<>> /\ b.overlay[1] = n)
  BY <1>3, <1>4, <1>5, <1>6
<1> QED BY <1>2, <1>7 DEF b, rd, n

(* For every command, every file and any number of partitions: the columns *)
(* that are counted in a dump are there, and the next one is not.          *)
THEOREM ColumnsCorrect == Spec => []CountedColumnsArePresent
<1> DEFINE Inv == WireInv /\ ReadInv /\ CountedColumnsArePresent
<1>1. Init => Inv
  <2> SUFFICES ASSUME Init PROVE Inv
    OBVIOUS
  <2>1. ReadInv /\ Untouched
    BY ReadInvInit DEF Init, Untouched
  <2>2. CountedColumnsArePresent
    BY <2>1 DEF ReadInv, CountedColumnsArePresent
  <2> QED BY <2>1, <2>2, WireInvInit
<1>2. Inv /\ [Next]_vars => Inv'
  <2> SUFFICES ASSUME WireInv, ReadInv, CountedColumnsArePresent, [Next]_vars
               PROVE  CountedColumnsArePresent'
    BY WireInvStep, ReadInvStep
  <2>1. line' = line
    BY InputsKept DEF ReadInv
  <2>2. ASSUME args'.overlay = args.overlay, DeviceKnown' => DeviceKnown
        PROVE  CountedColumnsArePresent'
    BY <2>1, <2>2 DEF CountedColumnsArePresent
  <2>3. CASE ~SetUpPartition /\ ~NextPartition
    <3>1. UNCHANGED <<line, args, fsp>>
      BY <2>3, OtherSteps
    <3> QED BY <2>2, <3>1 DEF DeviceKnown, HasDump
  <2>4. CASE NextPartition
    <3>1. args' = args /\ (fsp' = fsp \/ fsp' = fsp + 1)
      BY <2>4 DEF NextPartition, inputVars
    <3>2. DeviceKnown' => DeviceKnown
      <4>1. fsp' = 1 => fsp = 1
        BY <3>1 DEF ReadInv
      <4> QED BY <2>1, <4>1 DEF DeviceKnown, HasDump
    <3> QED BY <2>2, <3>1, <3>2
  <2>5. CASE SetUpPartition
    <3>1. pc = "launch" /\ fsp' = fsp
      BY <2>5 DEF SetUpPartition
    <3>2. DeviceKnown' <=> DeviceKnown
      BY <2>1, <3>1 DEF DeviceKnown, HasDump
    <3> SUFFICES ASSUME DeviceKnown PROVE CountedColumnsArePresent'
      BY <3>2 DEF CountedColumnsArePresent
    <3>3. args' = create_run_flags(args, line.design[fsp])
      BY <2>5, KnownIsNotHeaderless, KnownOfFirst DEF SetUpPartition
    <3> DEFINE file == line.core_dump
               rd   == Reader(file, args'.sub_device, args'.no_header)
    <3>4. /\ OpenedFor(rd, file) /\ rd.total_cols \in {0, rd.cfg.numcols}
          /\ \/ args'.overlay = args.overlay
             \/ args'.overlay[1] = detect_num_cols(rd)
      BY <3>1, <3>3, OverlayIsCounted
    <3> HIDE DEF rd
    <3>5. CASE args'.overlay = args.overlay
      BY <2>2, <3>2, <3>5
    <3>6. CASE args'.overlay[1] = detect_num_cols(rd)
      <4> DEFINE cfg == Config(file.device)
                 n   == args'.overlay[1]
                 end(c, r) == TileStart(file, <<c, r>>) + BlockSize(cfg, r)
      <4>1. rd.cfg = cfg
        BY <3>4 DEF OpenedFor
      <4>2. /\ \A c \in 0 .. n - 1, r \in 0 .. cfg.numrows - 2 : end(c, r) <= file.size
            /\ n = cfg.numcols \/ end(n, cfg.numrows - 1) > file.size
        BY <3>4, <3>6, <4>1, ColumnsAreCounted
      <4> QED BY <2>1, <4>2 DEF CountedColumnsArePresent
    <3> QED BY <3>4, <3>5, <3>6
  <2> QED BY <2>3, <2>4, <2>5
<1> QED BY <1>1, <1>2, PTL DEF Spec

-----------------------------------------------------------------------------
(* Types. *)

ArgsTypeOK ==
  /\ args.sub_device \in Devices \cup {NoDevice} /\ args.device \in Devices \cup {NoDevice}
  /\ args.backend \in {"xrt", "test", "core_dump"}
  /\ args.aie_only \in BOOLEAN /\ args.interactive \in BOOLEAN /\ args.no_header \in BOOLEAN

(* Whatever is found, it is a device. *)
LEMMA DetectsADevice ==
  ASSUME NEW partition
  PROVE  Detected(partition) \in Devices
<1>1. \A i \in DOMAIN DEVICE_CONFIGS : DEVICE_CONFIGS[i].name \in Devices
  BY DEF Devices
<1>2. {"phx", "stx", "telluride"} \subseteq Devices
  <2>1. 1 \in DOMAIN DEVICE_CONFIGS /\ 2 \in DOMAIN DEVICE_CONFIGS /\ 3 \in DOMAIN DEVICE_CONFIGS
    BY DEF DEVICE_CONFIGS
  <2>2. /\ DEVICE_CONFIGS[1].name = "phx" /\ DEVICE_CONFIGS[2].name = "stx"
        /\ DEVICE_CONFIGS[3].name = "telluride"
    BY DEF DEVICE_CONFIGS
  <2> QED BY <1>1, <2>1, <2>2
<1>3. Header \in Devices \cup {NoDevice}
  BY ResolvesToADevice DEF Header, peek_device
<1>4. _detect_vaiml_variant(partition) \in Devices \cup {NoDevice}
  <2> DEFINE traced == IF partition.trace = <<>> THEN NoDevice
                       ELSE resolve_variant(partition.trace[1], partition.trace[2], partition.trace[3])
  <2>1. traced \in Devices \cup {NoDevice}
    BY ResolvesToADevice
  <2> HIDE DEF traced
  <2>2. _detect_vaiml_variant(partition) = IF traced # NoDevice THEN traced
                                           ELSE CASE partition.define = "AIE2PS" -> "telluride"
                                                  [] partition.define = "AIE2" -> "phx"
                                                  [] OTHER -> NoDevice
    BY DEF _detect_vaiml_variant, traced
  <2> QED BY <1>2, <2>1, <2>2
<1> QED BY <1>2, <1>3, <1>4 DEF Detected

LEMMA ArgsTypeInit == Init => ArgsTypeOK
<1> SUFFICES ASSUME Init PROVE ArgsTypeOK
  OBVIOUS
<1>1. line \in Lines /\ args = check_args(line)
  BY DEF Init
<1> DEFINE alone == \/ line.core_dump # NoFile
                    \/ line.job \in {"status", "cmd"}
                    \/ line.job # "layers" /\ line.aie_only
<1>2. alone \in BOOLEAN
  OBVIOUS
<1>3. args.interactive \in BOOLEAN
  BY <1>1, FirstArgs DEF IsArgs
<1>4. /\ args.sub_device = NoDevice /\ args.device = line.device /\ args.no_header = FALSE
      /\ args.backend = IF line.core_dump # NoFile THEN "core_dump"
                        ELSE IF line.job = "layers" THEN "test" ELSE line.backend
      /\ args.aie_only = alone
  BY <1>1 DEF check_args
<1> HIDE DEF alone
<1> QED BY <1>1, <1>2, <1>3, <1>4, LinesAssumption DEF ArgsTypeOK

LEMMA ArgsTypeStep ==
  ASSUME ReadInv, ArgsTypeOK, [Next]_vars
  PROVE  ArgsTypeOK'
<1>1. IsArgs(args) /\ IsArgs(args')
  BY InputsKept DEF ReadInv, Keeps
<1>2. CASE args' = args
  BY <1>2 DEF ArgsTypeOK
<1>3. CASE SetUpPartition /\ args' # args
  <2> DEFINE partition == line.design[fsp]
             variant == IF args.device # NoDevice THEN args.device ELSE Detected(partition)
  <2>1. args' = create_run_flags(args, partition)
    BY <1>3 DEF SetUpPartition
  <2> HIDE DEF partition
  <2>2. variant \in Devices /\ get_base_device(variant) \in Devices
    BY DetectsADevice, BaseDevice DEF ArgsTypeOK
  <2>3. /\ args'.sub_device = variant /\ args'.device = get_base_device(variant)
        /\ args'.no_header = (HasDump /\ Header = NoDevice)
        /\ args'.aie_only \in {args.aie_only, TRUE}
    BY <1>1, <2>1, SetUpFields
  <2>4. args'.backend = args.backend
    BY <1>1, <2>1, ArgsKept DEF Keeps
  <2>5. (HasDump /\ Header = NoDevice) \in BOOLEAN
    OBVIOUS
  <2>6. args'.interactive \in BOOLEAN
    BY <1>1 DEF IsArgs
  <2> HIDE DEF variant
  <2>7. args'.no_header \in BOOLEAN
    BY <2>3, <2>5
  <2>8. args'.aie_only \in BOOLEAN
    BY <2>3 DEF ArgsTypeOK
  <2> QED BY <2>2, <2>3, <2>4, <2>6, <2>7, <2>8 DEF ArgsTypeOK
<1>4. args' = args \/ SetUpPartition
  <2>1. CASE pc # "launch"
    BY <2>1, InputsKept DEF ReadInv
  <2>2. CASE pc = "launch" /\ ~SetUpPartition
    BY <2>2 DEF Next, Debugger, Events, vars, progVars, inputVars, CheckContext, StartServer,
            AcceptClient, LoadDesign, MakeBackends, ReceiveAck, FinishPartition, NextPartition,
            ReportAndLeave, RequestTermination, ReceiveTermination, StartBriefServer,
            OfferTermination, RequestDump, EnsureDebugServer, ProcessErr, QuitPrompt, ExitAtOnce,
            ReadStatus, DumpMemory
  <2> QED BY <2>1, <2>2
<1> QED BY <1>2, <1>3, <1>4

(* Where both sides are, and which objects they hold.                      *)
ControlTypeOK ==
  /\ port \in Server \cup {NoServer} /\ client \in Server \cup {NoServer}
  /\ peer \in {"connecting", "pending", "connected", "told", "gone"}
  /\ part \in 1 .. Partitions /\ died \in BOOLEAN
  /\ pc \in Pc /\ after \in Pc /\ fsp \in 1 .. Partitions
  /\ active \in Server \cup {NoServer} /\ dumper \in Server \cup {NoServer}
  /\ closing \in Server \cup {NoServer}
  /\ how \in {"running", "end", "early", "failed", "crash", "raise", "exit"}
  /\ offered \in BOOLEAN

(* What was asked for and what became of it.                               *)
DumpTypeOK ==
  /\ sent \in 0 .. MaxRequests /\ acked \subseteq 1 .. sent
  /\ carried \subseteq Nat \ {0}

LEMMA ObjectsOfPartitions ==
  /\ 0 \in Server /\ Partitions \in Nat \ {0}
  /\ \A i \in 1 .. Partitions : i \in Server
BY PartitionsAssumption DEF Server

LEMMA TypesInit == Init => ControlTypeOK /\ DumpTypeOK
<1> SUFFICES ASSUME Init PROVE ControlTypeOK /\ DumpTypeOK
  OBVIOUS
<1>1. 1 \in 1 .. Partitions
  BY PartitionsAssumption
<1>2. /\ part \in 1 .. Partitions /\ fsp \in 1 .. Partitions
      /\ peer = "connecting" /\ pc = "launch" /\ after = "exited" /\ how = "running"
      /\ port = NoServer /\ client = NoServer
      /\ active = NoServer /\ dumper = NoServer /\ closing = NoServer
      /\ died = FALSE /\ offered = FALSE
  BY <1>1 DEF Init, WireInit
<1>3. ControlTypeOK
  BY <1>2 DEF ControlTypeOK, Pc
<1>4. sent = 0 /\ acked = {} /\ carried = {}
  BY DEF Init, WireInit
<1>5. DumpTypeOK
  BY <1>4, LinesAssumption DEF DumpTypeOK
<1> QED BY <1>3, <1>5

(* The ways out stay within the types. *)
LEMMA WaysOutKeepControl ==
  ASSUME ControlTypeOK, UNCHANGED <<fsp, dumper, offered>>,
         how' \in {"running", "end", "early", "failed", "crash", "raise", "exit"},
         NEW next \in Pc,
         \/ Exit /\ UNCHANGED <<active, closing, after>>
         \/ CleanupAndExit
         \/ CloseThen(next) /\ UNCHANGED active
  PROVE  ControlTypeOK'
<1>1. CASE Exit /\ UNCHANGED <<active, closing, after>>
  BY <1>1 DEF ControlTypeOK, Exit, Pc
<1>2. CASE CleanupAndExit
  BY <1>2 DEF ControlTypeOK, CleanupAndExit, Exit, Pc, wireVars
<1>3. CASE CloseThen(next) /\ UNCHANGED active
  BY <1>3 DEF ControlTypeOK, CloseThen, Pc, wireVars
<1> QED BY <1>1, <1>2, <1>3

(* Setting up, and the step to the next partition. *)
LEMMA SetUpKeepsControl ==
  ASSUME ControlTypeOK,
         \/ SetUpPartition \/ CheckContext \/ StartServer \/ AcceptClient \/ LoadDesign
         \/ MakeBackends \/ NextPartition
  PROVE  ControlTypeOK'
<1>1. CASE SetUpPartition
  <2>1. CASE Headerless(args)
    BY <1>1, <2>1, WaysOutKeepControl DEF SetUpPartition, Pc
  <2>2. CASE ~Headerless(args)
    BY <1>1, <2>2 DEF SetUpPartition, AfterContext, ControlTypeOK, Pc, wireVars
  <2> QED BY <2>1, <2>2
<1>2. CASE CheckContext
  <2>1. CASE pc' = AfterContext /\ UNCHANGED <<wireVars, active, closing, after, how>>
    BY <1>2, <2>1 DEF CheckContext, AfterContext, ControlTypeOK, Pc, wireVars
  <2>2. CASE CleanupAndExit /\ how' = "early"
    BY <1>2, <2>2, WaysOutKeepControl DEF CheckContext, Pc
  <2> QED BY <1>2, <2>1, <2>2 DEF CheckContext
<1>3. CASE StartServer
  BY <1>3, ObjectsOfPartitions DEF StartServer, Bind, ControlTypeOK, Pc, wireVars
<1>4. CASE AcceptClient
  BY <1>4, ObjectsOfPartitions DEF AcceptClient, Accept, ControlTypeOK, Pc
<1>5. CASE LoadDesign
  BY <1>5, ObjectsOfPartitions DEF LoadDesign, CloseSockets, ControlTypeOK, Pc, wireVars
<1>6. CASE MakeBackends
  <2>1. CASE pc' = "run" /\ UNCHANGED <<wireVars, active, closing, after, how>>
    BY <1>6, <2>1 DEF MakeBackends, ControlTypeOK, Pc, wireVars
  <2>2. CASE CloseThen("exited") /\ how' = "end" /\ UNCHANGED active
    BY <1>6, <2>2, WaysOutKeepControl DEF MakeBackends, Pc
  <2>3. CASE CleanupAndExit /\ how' = "failed"
    BY <1>6, <2>3, WaysOutKeepControl DEF MakeBackends, Pc
  <2>4. CASE Exit /\ how' = "raise" /\ UNCHANGED <<active, closing, after>>
    BY <1>6, <2>4, WaysOutKeepControl DEF MakeBackends, Pc
  <2> QED BY <1>6, <2>1, <2>2, <2>3, <2>4 DEF MakeBackends
<1>7. CASE NextPartition
  <2>1. CASE Last
    BY <1>7, <2>1, WaysOutKeepControl DEF NextPartition, Pc
  <2>2. CASE ~Last
    <3>1. fsp' \in 1 .. Partitions
      BY <1>7, <2>2, PartitionsAssumption DEF NextPartition, Last, ControlTypeOK
    <3> QED BY <1>7, <2>2, <3>1 DEF NextPartition, CloseSockets, ControlTypeOK, Pc, wireVars
  <2> QED BY <2>1, <2>2
<1> QED BY <1>1, <1>2, <1>3, <1>4, <1>5, <1>6, <1>7

(* Work, and the close of a server. *)
LEMMA WorkKeepsControl ==
  ASSUME ControlTypeOK,
         \/ ReceiveAck \/ FinishPartition \/ ReportAndLeave \/ Events
         \/ RequestTermination \/ ReceiveTermination \/ StartBriefServer \/ OfferTermination
  PROVE  ControlTypeOK'
<1>1. CASE ReceiveAck
  BY <1>1 DEF ReceiveAck, Receive, ControlTypeOK, Pc
<1>2. CASE FinishPartition
  BY <1>2, WaysOutKeepControl DEF FinishPartition, ControlTypeOK, Pc
<1>3. CASE ReportAndLeave
  BY <1>3, WaysOutKeepControl DEF ReportAndLeave, Pc
<1>4. CASE RequestDump
  BY <1>4 DEF RequestDump, Send, ControlTypeOK, Pc
<1>5. CASE EnsureDebugServer \/ QuitPrompt
  BY <1>5 DEF EnsureDebugServer, QuitPrompt, wireVars, ControlTypeOK, Pc
<1>6. CASE ProcessErr \/ ExitAtOnce
  BY <1>6, WaysOutKeepControl DEF ProcessErr, ExitAtOnce, Pc
<1>7. CASE ReadStatus
  <2>1. CASE UNCHANGED <<wireVars, pc, how>>
    BY <1>7, <2>1 DEF ReadStatus, wireVars, ControlTypeOK
  <2>2. CASE Exit /\ how' = "raise"
    BY <1>7, <2>2, WaysOutKeepControl DEF ReadStatus, Pc
  <2> QED BY <1>7, <2>1, <2>2 DEF ReadStatus
<1>8. CASE \E request \in Requests : DumpMemory(request)
  BY <1>8 DEF DumpMemory, wireVars, ControlTypeOK
<1>9. ASSUME Closed, UNCHANGED <<fsp, active, dumper, closing, after, how, offered>>
      PROVE  ControlTypeOK'
  BY <1>9 DEF Closed, Exit, CloseSockets, ControlTypeOK, Pc
<1>10. CASE RequestTermination
  <2>1. CASE client = closing
    BY <1>10, <2>1 DEF RequestTermination, Send, ControlTypeOK, Pc
  <2>2. CASE client # closing
    BY <1>9, <1>10, <2>2 DEF RequestTermination
  <2> QED BY <2>1, <2>2
<1>11. CASE ReceiveTermination
  BY <1>9, <1>11 DEF ReceiveTermination
<1>12. CASE StartBriefServer
  BY <1>12, ObjectsOfPartitions DEF StartBriefServer, Bind, ControlTypeOK, Pc
<1>13. CASE OfferTermination
  <2>1. CASE Accept(0)
    BY <1>13, <2>1, ObjectsOfPartitions DEF OfferTermination, Accept, ControlTypeOK, Pc
  <2>2. CASE UNCHANGED wireVars
    BY <1>13, <2>2 DEF OfferTermination, wireVars, ControlTypeOK, Pc
  <2> QED BY <1>13, <2>1, <2>2 DEF OfferTermination
<1> QED BY <1>1, <1>2, <1>3, <1>4, <1>5, <1>6, <1>7, <1>8, <1>10, <1>11, <1>12, <1>13 DEF Events

LEMMA ControlTypeStep ==
  ASSUME ControlTypeOK, [Next]_vars
  PROVE  ControlTypeOK'
<1>1. CASE UNCHANGED vars
  BY <1>1 DEF vars, wireVars, progVars, ControlTypeOK
<1>2. CASE (PeerStep \/ PeerDies) /\ UNCHANGED progVars
  <2>1. CASE PeerConnects \/ PeerIsCut
    BY <1>2, <2>1 DEF PeerConnects, PeerIsCut, progVars, ControlTypeOK
  <2>2. CASE PeerServes
    BY <1>2, <2>2 DEF PeerServes, progVars, ControlTypeOK
  <2>3. CASE PeerDies
    BY <1>2, <2>3 DEF PeerDies, progVars, ControlTypeOK
  <2>4. CASE PeerStarts
    <3>1. part' \in 1 .. Partitions
      BY <2>4, PartitionsAssumption DEF PeerStarts, ControlTypeOK
    <3> QED BY <1>2, <2>4, <3>1 DEF PeerStarts, progVars, ControlTypeOK
  <2> QED BY <1>2, <2>1, <2>2, <2>3, <2>4 DEF PeerStep
<1> QED BY <1>1, <1>2, SetUpKeepsControl, WorkKeepsControl DEF Next, Debugger

(* What is under way is a number, by WireInv.                              *)
LEMMA WireIsTyped == WireInv => toPeer \in Seq(Nat) /\ toDebugger \in Seq(Nat)
<1>1. <<>> \in Seq(Nat) /\ \A n \in Nat : <<n>> \in Seq(Nat)
  OBVIOUS
<1> SUFFICES ASSUME WireInv PROVE toPeer \in Seq(Nat) /\ toDebugger \in Seq(Nat)
  OBVIOUS
<1>2. ASSUME NEW n \in Nat, OneUnderWay(n)
      PROVE  toPeer \in Seq(Nat) /\ toDebugger \in Seq(Nat)
  BY <1>1, <1>2 DEF OneUnderWay
<1>3. CASE pc \notin {"await", "termination"}
  BY <1>1, <1>3 DEF WireInv, NoneUnderWay
<1>4. CASE pc = "await"
  BY <1>2, <1>4 DEF WireInv
<1>5. CASE pc = "termination"
  BY <1>2, <1>5 DEF WireInv, Terminate
<1> QED BY <1>3, <1>4, <1>5

LEMMA DumpTypeStep ==
  ASSUME WireInv, DumpTypeOK, [Next]_vars
  PROVE  DumpTypeOK'
<1>1. CASE UNCHANGED <<carried, sent, acked>>
  BY <1>1 DEF DumpTypeOK
<1>2. CASE RequestDump
  BY <1>2, LinesAssumption DEF RequestDump, Send, DumpTypeOK
<1>3. CASE ReceiveAck
  BY <1>3 DEF ReceiveAck, Receive, DumpTypeOK, WireInv
<1>4. CASE PeerServes /\ UNCHANGED progVars
  <2>1. Head(toPeer) \in Nat
    BY <1>4, WireIsTyped DEF PeerServes
  <2> QED BY <1>4, <2>1 DEF PeerServes, Terminate, progVars, DumpTypeOK
<1>5. CASE RequestTermination \/ ReceiveTermination
  BY <1>5 DEF RequestTermination, ReceiveTermination, Closed, Exit, CloseSockets, Send,
              DumpTypeOK
<1>6. CASE UNCHANGED vars \/ ((PeerConnects \/ PeerIsCut \/ PeerStarts \/ PeerDies)
                              /\ UNCHANGED progVars)
  BY <1>1, <1>6 DEF vars, wireVars, progVars, PeerConnects, PeerIsCut, PeerStarts, PeerDies
<1>7. CASE AtRest
  BY <1>1, <1>7 DEF AtRest
<1> QED BY <1>2, <1>3, <1>4, <1>5, <1>6, <1>7, DebuggerAtRest DEF Next, Debugger, Events, PeerStep

(* For every command, every number of partitions and of requests: all the  *)
(* variables keep their types; the acknowledged requests are among those   *)
(* that were sent.                                                         *)
THEOREM TypeCorrect == Spec => []TypeOK
<1> DEFINE Inv == WireInv /\ ReadInv /\ ArgsTypeOK /\ ControlTypeOK /\ DumpTypeOK
<1>1. Init => Inv
  BY WireInvInit, ReadInvInit, ArgsTypeInit, TypesInit
<1>2. Inv /\ [Next]_vars => Inv'
  BY WireInvStep, ReadInvStep, ArgsTypeStep, ControlTypeStep, DumpTypeStep
<1>3. Inv => TypeOK
  BY WireIsTyped DEF TypeOK, WireTypeOK, ReadInv, ArgsTypeOK, ControlTypeOK, DumpTypeOK
<1> QED BY <1>1, <1>2, <1>3, PTL DEF Spec
=============================================================================
