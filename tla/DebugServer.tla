----------------------------- MODULE DebugServer ----------------------------
(***************************************************************************)
(* DebugServer and the connection to flexmlrt, which carries out the dumps *)
(* of L3 buffers.  Each partition of the design makes a server object of   *)
(* its own, numbered like the partition; all of them bind the same port.   *)
(* Object 0 is the brief server of terminate_flexml_connection.            *)
(*                                                                         *)
(* flexmlrt is external.  It connects once for every partition, tries      *)
(* again while nobody listens or its connection is reset before it was     *)
(* accepted, and answers a request once it has carried it out.             *)
(***************************************************************************)
EXTENDS Naturals, Sequences

CONSTANT
  Partitions    \* number of failsafe partitions

ASSUME PartitionsAssumption == Partitions \in Nat \ {0}

Server   == 0 .. Partitions
NoServer == Partitions + 1

VARIABLES
  port,         \* object whose server_socket listens
  client,       \* object whose client_socket is set
  toPeer,       \* messages on their way to flexmlrt
  toDebugger,   \* acknowledgements on their way back
  peer,         \* what flexmlrt does
  part,         \* partition flexmlrt executes
  carried,      \* requests flexmlrt has carried out
  died          \* flexmlrt has crashed or hung up (history)

wireVars == <<port, client, toPeer, toDebugger, peer, part, carried, died>>

Terminate == 0  \* TERMINATE_CONNECTION; dump requests are numbered from 1

WireTypeOK ==
  /\ port \in Server \cup {NoServer} /\ client \in Server \cup {NoServer}
  /\ toPeer \in Seq(Nat) /\ toDebugger \in Seq(Nat)
  /\ peer \in {"connecting", "pending", "connected", "told", "gone"}
  /\ part \in 1 .. Partitions
  /\ carried \subseteq Nat \ {0}
  /\ died \in BOOLEAN

WireInit ==
  /\ port = NoServer /\ client = NoServer
  /\ toPeer = <<>> /\ toDebugger = <<>>
  /\ peer = "connecting" /\ part = 1
  /\ carried = {} /\ died = FALSE

-----------------------------------------------------------------------------
(* flexmlrt. *)

PeerConnects ==
  /\ peer = "connecting" /\ port # NoServer
  /\ peer' = "pending"
  /\ UNCHANGED <<port, client, toPeer, toDebugger, part, carried, died>>

PeerServes ==
  /\ peer = "connected" /\ client # NoServer /\ toPeer # <<>>
  /\ toPeer' = Tail(toPeer)
  /\ toDebugger' = Append(toDebugger, Head(toPeer))
  /\ IF Head(toPeer) = Terminate
       THEN peer' = "told" /\ UNCHANGED carried
       ELSE carried' = carried \cup {Head(toPeer)} /\ UNCHANGED peer
  /\ UNCHANGED <<port, client, part, died>>

(* It crashes or closes the connection without an answer. *)
PeerDies ==
  /\ peer = "connected" /\ client # NoServer
  /\ peer' = "gone" /\ toPeer' = <<>> /\ died' = TRUE
  /\ UNCHANGED <<port, client, toDebugger, part, carried>>

(* The debugger has closed its end. *)
PeerIsCut ==
  /\ \/ peer = "connected" /\ client = NoServer /\ peer' = "gone"
     \/ peer = "pending" /\ port = NoServer /\ peer' = "connecting"
  /\ toPeer' = <<>>
  /\ UNCHANGED <<port, client, toDebugger, part, carried, died>>

(* It goes on to its next partition, or is started again for it. *)
PeerStarts ==
  /\ peer \in {"told", "gone"} /\ part < Partitions
  /\ peer' = "connecting" /\ part' = part + 1
  /\ UNCHANGED <<port, client, toPeer, toDebugger, carried, died>>

PeerStep == PeerConnects \/ PeerServes \/ PeerIsCut \/ PeerStarts

-----------------------------------------------------------------------------
(* The sockets of the debugger. *)

(* start, up to listen: the port may be in use. *)
Bind(server) ==
  /\ port' = IF port = NoServer THEN server ELSE port
  /\ UNCHANGED <<client, toPeer, toDebugger, peer, part, carried, died>>

(* start, accept. *)
Accept(server) ==
  /\ port = server /\ peer = "pending"
  /\ client' = server /\ peer' = "connected"
  /\ UNCHANGED <<port, toPeer, toDebugger, part, carried, died>>

(* sendall: what is sent after the other side has gone is lost. *)
Send(message) ==
  /\ toPeer' = IF peer = "connected" THEN Append(toPeer, message) ELSE toPeer
  /\ UNCHANGED <<port, client, toDebugger, peer, part, carried, died>>

(* A connection that was closed is taken for an answer. *)
Answered_Always == TRUE

(* recv returned data. *)
Answered == toDebugger # <<>>

(* Only an answer ends the wait. *)
HungUp_Never == FALSE

(* recv returned nothing or failed: the other side has closed. *)
HungUp == peer # "connected" /\ toDebugger = <<>>

Receive ==
  /\ toDebugger' = IF toDebugger = <<>> THEN <<>> ELSE Tail(toDebugger)
  /\ UNCHANGED <<port, client, toPeer, peer, part, carried, died>>

(* Only the client socket is closed. *)
CloseSockets_Client(server) ==
  /\ client' = IF client = server THEN NoServer ELSE client
  /\ toDebugger' = IF client = server THEN <<>> ELSE toDebugger
  /\ UNCHANGED <<port, toPeer, peer, part, carried, died>>

(* The end of close, or of the life of the object. *)
CloseSockets(server) ==
  /\ client' = IF client = server THEN NoServer ELSE client
  /\ port' = IF port = server THEN NoServer ELSE port
  /\ toDebugger' = IF client = server THEN <<>> ELSE toDebugger
  /\ UNCHANGED <<toPeer, peer, part, carried, died>>
=============================================================================
