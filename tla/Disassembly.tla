----------------------------- MODULE Disassembly ----------------------------
(***************************************************************************)
(* WorkDir's reading of a disassembled ELF: where each function starts and *)
(* ends, its last lock release, and the lock acquire that follows a layer. *)
(*                                                                         *)
(* A line is [kind, pc, ops, name].  An instruction is a bundle that may   *)
(* return ("ret"), release ("rel") and acquire ("acq") a lock at once.     *)
(* A name is a pair of a plain name and its template arguments.            *)
(***************************************************************************)
EXTENDS Integers, Sequences, FiniteSets, FiniteSetsExt, SequencesExt

NoName == <<"", "">>
Main   == <<"main", "">>

NoFunction == [name |-> NoName, start |-> 0, end |-> 0, release |-> 0, tail |-> FALSE]
NewFunction(name, start) == [NoFunction EXCEPT !.name = name, !.start = start]

Unread == [done |-> <<>>, open |-> NoFunction, acquire |-> 0, at |-> 1]

(* _get_pc. *)
PcAt(lines, i) ==
  IF i \in DOMAIN lines /\ lines[i].kind = "insn" THEN lines[i].pc ELSE 0

Close(s, end, tail) ==
  [s EXCEPT !.done = Append(@, [s.open EXCEPT !.end = end, !.tail = tail]),
            !.open = NoFunction]

-----------------------------------------------------------------------------
(* _parse_lst_llvm. *)

(* The instruction before the label, and not the one before the blank line. *)
LlvmLabel_Previous(lines, s, i) ==
  LET closed == IF s.open = NoFunction THEN s ELSE Close(s, PcAt(lines, i - 1), TRUE)
  IN  [closed EXCEPT !.open = NewFunction(lines[i].name, lines[i].pc)]

(* A label while a function is open: that function ended in a tail call. *)
LlvmLabel(lines, s, i) ==
  LET closed == IF s.open = NoFunction THEN s ELSE Close(s, PcAt(lines, i - 2), TRUE)
  IN  [closed EXCEPT !.open = NewFunction(lines[i].name, lines[i].pc)]

(* A further return moves the end of the function that was closed last. *)
LlvmReturn(s, pc) ==
  IF s.open # NoFunction THEN Close(s, pc, FALSE)
  ELSE IF s.done = <<>> THEN s
  ELSE [s EXCEPT !.done[Len(s.done)].end = pc]

LlvmLine(lines, base, s, i) ==
  LET line == lines[i]
  IN  CASE line.kind = "label" -> LlvmLabel(lines, s, i)
        [] line.kind = "insn" /\ "ret" \in line.ops -> LlvmReturn(s, line.pc)
        [] line.kind = "insn" /\ "rel" \in line.ops /\ "ret" \notin line.ops ->
             IF s.open = NoFunction THEN s ELSE [s EXCEPT !.open.release = line.pc]
        [] OTHER ->
             IF base /\ s.open.name = Main /\ "acq" \in line.ops
               THEN [s EXCEPT !.acquire = line.pc] ELSE s

(* The state after so many lines. *)
ReadLlvm(lines, base) ==
  LET read[i \in 0 .. Len(lines)] ==
        IF i = 0 THEN Unread ELSE LlvmLine(lines, base, read[i - 1], i)
  IN  read

(* A function that is still open at the end is dropped. *)
ParseLlvm(lines, base) == ReadLlvm(lines, base)[Len(lines)]

-----------------------------------------------------------------------------
(* _parse_lst_chess. *)

(* _find_next_pc: the next instruction, or the last line. *)
NextPcLine(lines, i) ==
  Min({j \in i + 1 .. Len(lines) : lines[j].kind = "insn"} \cup {Len(lines)})

(* _demangle drops the template arguments. *)
Demangle(name) == <<name[1], "">>

StartsFunction(lines, i) ==
  lines[i].kind = "function_start" /\ i > 1 /\ lines[i - 1].kind = "label"

(* _breakpoint_allowed. *)
BreakpointAllowed(lines, i) ==
  \A j \in {i - 1, i - 2} \cap DOMAIN lines : lines[j].kind # "nohwbrkpt"

ChessOutside(lines, s, i) ==
  IF StartsFunction(lines, i) /\ lines[i - 1].name[1] # "main_init"
    THEN LET j == NextPcLine(lines, i)
             name == Demangle(lines[i - 1].name)
         IN  [s EXCEPT !.open = NewFunction(name, PcAt(lines, j)), !.at = j]
    ELSE s

(* end holds the last instruction seen until the end of the function is found. *)
ChessInside(lines, base, s, i) ==
  LET line  == lines[i]
      acq   == base /\ s.open.name = Main /\ "acq" \in line.ops
      read  == [s EXCEPT !.acquire = IF acq THEN line.pc ELSE @,
                         !.open.end = IF line.kind = "insn" THEN line.pc ELSE @,
                         !.open.release = IF "rel" \in line.ops /\ BreakpointAllowed(lines, i)
                                            THEN line.pc ELSE @]
      j     == NextPcLine(lines, i)
  IN  CASE "ret" \in line.ops -> Close(read, line.pc, FALSE)
        [] line.kind = "tail_call" ->
             [Close(read, PcAt(lines, j), TRUE) EXCEPT !.at = j + 1]
        [] StartsFunction(lines, i) ->
             ChessOutside(lines, Close(read, read.open.end, FALSE), i)
        [] OTHER -> read

ChessLine(lines, base, s, i) ==
  IF i < s.at THEN s
  ELSE IF s.open = NoFunction THEN ChessOutside(lines, s, i)
  ELSE ChessInside(lines, base, s, i)

ReadChess(lines, base) ==
  LET read[i \in 0 .. Len(lines)] ==
        IF i = 0 THEN Unread ELSE ChessLine(lines, base, read[i - 1], i)
  IN  read

(* A function that is still open at the end is kept without an end. *)
ParseChess(lines, base) ==
  LET s == ReadChess(lines, base)[Len(lines)]
  IN  IF s.open = NoFunction THEN s ELSE Close(s, 0, FALSE)

Parse(peano, lines, base) == IF peano THEN ParseLlvm(lines, base) ELSE ParseChess(lines, base)

-----------------------------------------------------------------------------
(* The disassemblers.  A program is a sequence of functions [name, tail,   *)
(* body, calls]; instructions are numbered through the whole ELF from      *)
(* `from' on.  An instruction that calls ("jl") or jumps to ("j") another  *)
(* function has its number in calls; one more than there are is elsewhere. *)

Line(kind, pc, ops, name) ==
  [kind |-> kind, pc |-> pc, ops |-> ops, name |-> name, to |-> 0]
Mark(kind) == Line(kind, 0, {}, NoName)

Entries(program, from) ==
  LET pc[k \in 1 .. Len(program) + 1] ==
        IF k = 1 THEN from ELSE pc[k - 1] + Len(program[k - 1].body)
  IN  pc

FirstPc(program, k, from) == Entries(program, from)[k]

Instructions(program, k, from) ==
  LET f == program[k]
  IN  [i \in DOMAIN f.body |->
        [Line("insn", FirstPc(program, k, from) + i - 1, f.body[i], NoName) EXCEPT
           !.to = IF i \in DOMAIN f.calls THEN FirstPc(program, f.calls[i], from) ELSE 0]]

LlvmFunction(f, insns) ==
  <<Mark("blank"), Line("label", insns[1].pc, {}, f.name)>> \o insns

(* The tail call directive precedes the jump, and the one that forbids a   *)
(* breakpoint the instruction it is about ("nobp").                        *)
ChessFunction(f, insns) ==
  LET directives(i) ==
        (IF f.tail /\ i = Len(insns) THEN <<Mark("tail_call")>> ELSE <<>>) \o
        (IF "nobp" \in insns[i].ops THEN <<Mark("nohwbrkpt")>> ELSE <<>>)
  IN  <<Line("label", 0, {}, f.name), Mark("function_start")>> \o
      FlattenSeq([i \in DOMAIN insns |-> Append(directives(i), insns[i])])

Disassemble(peano, program, from) ==
  FlattenSeq([k \in DOMAIN program |->
    LET insns == Instructions(program, k, from)
    IN  IF peano THEN LlvmFunction(program[k], insns) ELSE ChessFunction(program[k], insns)])

-----------------------------------------------------------------------------
With(f, op) == {n \in DOMAIN f.body : op \in f.body[n]}

Ops == {"ret", "rel", "acq", "nobp", "jl", "j"}

(* The functions of an ELF besides _main_init. *)
IsProgram(program) ==
  /\ program \in Seq(Range(program))
  /\ \A k \in DOMAIN program :
       LET f == program[k]
       IN  /\ f.name \in STRING \X STRING /\ f.name[1] \notin {"", "main_init"}
           /\ f.body \in Seq(SUBSET Ops) /\ f.body # <<>>
           /\ f.tail \in BOOLEAN

(* There is one main, and what it acquires it acquires before it returns.  *)
MainReturns(program) ==
  \A k \in DOMAIN program : program[k].name = Main =>
    LET f == program[k]
    IN  /\ \A j \in DOMAIN program : program[j].name[1] = "main" => j = k
        /\ With(f, "acq") # {} /\ With(f, "ret") # {}
        /\ \A n \in With(f, "acq") : /\ "rel" \notin f.body[n]
                                     /\ \A m \in With(f, "ret") : n < m

(* A function that no instruction is known to leave, at the very end.      *)
Endless(program, k) == k = Len(program) /\ With(program[k], "ret") = {}

(* What a scan read is true to a program: it holds the functions in order, *)
(* each at its entry; one with at most one return ends where it ends, and  *)
(* its last release, unless it comes with the jump of a tail call or after *)
(* a return, is one a breakpoint may be set on.  LLVM listings lose an     *)
(* endless function, Chess listings the end of it, unless a jump tells it. *)
(* The acquire that follows a layer is the last of main.                   *)
TrueTo(peano, base, program, from, read) ==
  /\ DOMAIN read.done = 1 .. IF peano /\ \E k \in DOMAIN program : Endless(program, k)
                               THEN Len(program) - 1 ELSE Len(program)
  /\ \A k \in DOMAIN read.done :
       LET f  == program[k]
           pc == FirstPc(program, k, from)
           returns  == With(f, "ret")
           releases == {n \in With(f, "rel") : peano \/ n \notin With(f, "nobp")}
           found == read.done[k]
       IN  /\ found.name = IF peano THEN f.name ELSE Demangle(f.name)
           /\ found.start = pc
           /\ (/\ Cardinality(returns) <= 1
               /\ ~Endless(program, k) \/ (f.tail /\ Len(f.body) > 1)) =>
                found.end = pc - 1 + IF returns = {} THEN Len(f.body) ELSE Max(returns)
           /\ found.release # 0 => found.release - pc + 1 \in releases
           /\ (/\ With(f, "nobp") = {} /\ ~(f.tail /\ Len(f.body) \in With(f, "rel"))
               /\ \A r \in With(f, "rel"), t \in returns : r < t) =>
                found.release = IF releases = {} THEN 0 ELSE pc - 1 + Max(releases)
           /\ (base /\ f.name = Main) => read.acquire = pc - 1 + Max(With(f, "acq"))
=============================================================================
