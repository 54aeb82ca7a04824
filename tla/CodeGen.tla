------------------------------ MODULE CodeGen ------------------------------
(***************************************************************************)
(* The translation of one method.  select_code walks the bytecode depth    *)
(* first, at a branch first along the way not taken, and emits native code *)
(* for each instruction once.  Branches are emitted without a target and   *)
(* patched when all is emitted.  The buffer is exchanged for a larger one  *)
(* while the walk is under way; where an instruction has its native code   *)
(* is kept as an offset, where the next goes as a pointer.  A mimic of the *)
(* operand stack is taken along, whose depth says where operands are.      *)
(*                                                                         *)
(* An instruction is known by its index in the bytecode; it says how many  *)
(* bytes it takes there (len) and in native code (size), where it goes     *)
(* (to), what it does to the depth of the stack (effect), and what         *)
(* select_code does to that of the mimic (mimic), which is something else   *)
(* for LALOAD, DALOAD, MONITORENTER and MONITOREXIT.                        *)
(***************************************************************************)
EXTENDS Integers, Sequences

CONSTANTS
    Programs,           \* code, its length, handlers, the depth before each instruction
    Slack,              \* room for the native code of one instruction
    Growth,             \* bytes of buffer for each byte of bytecode
    LengthLimit,        \* 2^15: an array's header has as many bits for its length
    PrologSize, EpilogSize,
    JumpSize            \* of a jump to code that has been emitted

Ops == {"plain", "if", "goto", "jsr", "ret", "return", "throw"}

Instruction == [op : Ops, len : Nat \ {0}, size : 0 .. Slack, to : Nat,
                effect : Int, mimic : Int]

Falls == {"plain", "if"}            \* go on with the next instruction
Jumps == {"if", "goto", "jsr"}      \* have a target

ASSUME SizesAssumption ==
    /\ Slack \in Nat \ {0} /\ Growth \in Nat
    /\ LengthLimit \in Nat /\ 4 * Slack < LengthLimit
    /\ PrologSize \in 1 .. Slack /\ EpilogSize \in 0 .. Slack /\ JumpSize \in 1 .. Slack

(* What the class file format says of a method: control stays within its   *)
(* code, and the depth of the stack is the same on every way.              *)
ASSUME ProgramsAssumption ==
    \A p \in Programs :
        /\ p.length \in Nat \ {0}
        /\ DOMAIN p.code \subseteq 0 .. p.length - 1 /\ 0 \in DOMAIN p.code
        /\ p.depth \in [DOMAIN p.code -> Nat] /\ p.depth[0] = 0
        /\ p.handlers \in Seq(DOMAIN p.code)
        /\ \A k \in DOMAIN p.handlers : p.depth[p.handlers[k]] = 1
        /\ \A i \in DOMAIN p.code :
             LET inst  == p.code[i]
                 next  == i + inst.len
                 after == p.depth[i] + inst.effect
             IN /\ inst \in Instruction /\ after \in Nat
                /\ inst.op # "plain" => inst.size > 0
                /\ inst.op \in Falls => next \in DOMAIN p.code /\ p.depth[next] = after
                /\ inst.op \in Jumps => inst.to \in DOMAIN p.code /\ p.depth[inst.to] = after
                /\ inst.op = "jsr"   => next \in DOMAIN p.code /\ p.depth[next] = p.depth[i]

VARIABLES
    program,        \* the method, one of Programs
    info,           \* bcinst_info, one entry for each index and one for the end
    glue,           \* jumps to code emitted before, from offset to offset
    pos, cap,       \* the end of the code in the buffer, and the size of the buffer
    frames,         \* the calls of select_code, innermost first
    handler,        \* the number of handlers that have been begun
    status          \* "translating", "done"; "stray": what is emitted goes to the
                    \* buffer that was given up; "overrun": it goes beyond the end

vars == <<program, info, glue, pos, cap, frames, handler, status>>

Code    == program.code
Top     == frames[1]
At      == Top.at
Inst    == Code[At]
After   == At + Inst.len
Depth   == Top.depth + Inst.mimic
End     == pos + Inst.size
Visited(i) == info[i].visited

(* The length of a new array when one of n bytes is asked for. *)
Kept(n) == n % LengthLimit

(* codebuf_set: the buffer is doubled when the room left in it is short.   *)
(* A pointer to the end of the code that the caller has is stale then.     *)
Full(end) == cap - end < Slack

(* More was emitted, or is copied, than the buffer holds. *)
Overruns(end) == end > cap \/ (Full(end) /\ Kept(2 * cap) < cap)

(* Mutation: the buffer is exchanged when the code does not fit any more. *)
SetLate(end, then) ==
    /\ pos' = end
    /\ cap' = IF cap < end THEN Kept(2 * cap) ELSE cap
    /\ status' = then

Set(end, then) ==
    /\ pos' = end
    /\ cap' = IF Full(end) THEN Kept(2 * cap) ELSE cap
    /\ status' = IF Overruns(end) THEN "overrun" ELSE then

(* codebuf_set is called a second time with the same pointer, and code may *)
(* follow it: after a move, both are about the old buffer.                 *)
Reused(end) == IF Full(end) THEN "stray" ELSE status

Frame(i, depth) == [at |-> i, depth |-> depth, pc |-> "loop"]

Continue(i, depth) == <<Frame(i, depth)>> \o Tail(frames)

(* select_code returns.  The stack is the caller's own at a jsr, and a     *)
(* copy of the caller's at a conditional branch.                           *)
Return(depth) ==
    IF Len(frames) > 1 /\ frames[2].pc = "called"
    THEN <<[frames[2] EXCEPT !.depth = depth]>> \o Tail(Tail(frames))
    ELSE Tail(frames)

(* The loop of select_code at an instruction not seen before. *)
Translating(op) ==
    /\ status = "translating" /\ frames # <<>>
    /\ Top.pc = "loop" /\ ~Visited(At) /\ Inst.op = op

Visit == [info EXCEPT ![At].visited = TRUE, ![At].native = pos]

(* A branch has a displacement of zero until it is patched. *)
VisitBranch(to) ==
    [info EXCEPT ![At].visited = TRUE, ![At].native = pos,
                 ![At].target = to, ![At].patch = End, ![At].dest = End]

-----------------------------------------------------------------------------
Entry == [visited |-> FALSE, native |-> 0, target |-> 0, patch |-> 0, dest |-> 0, back |-> 0]

(* generate_code: as many bytes for each byte of bytecode, and one         *)
(* instruction at least.                                                    *)
FirstBuffer(length) ==
    Kept(IF Slack > Growth * length THEN Slack ELSE Growth * length)

(* compile and generate_code up to the call of select_code. *)
Init ==
    /\ program \in Programs
    /\ info = [i \in 0 .. program.length |->
                 [Entry EXCEPT !.visited = (i = program.length)]]
    /\ glue = <<>>
    /\ pos = PrologSize
    /\ LET size == FirstBuffer(program.length)
           full == size - PrologSize < Slack
       IN  /\ cap = IF full THEN Kept(2 * size) ELSE size
           /\ status = IF PrologSize > size \/ (full /\ cap < size) THEN "overrun"
                       ELSE "translating"
    /\ frames = <<Frame(0, 0)>>
    /\ handler = 0

(* An instruction that goes on with one that is not translated yet. *)
PlainOn ==
    /\ Translating("plain") /\ ~Visited(After)
    /\ info' = Visit
    /\ Set(End, status)
    /\ frames' = Continue(After, Depth)
    /\ UNCHANGED <<program, glue, handler>>

(* A jump from here to the native code of an instruction, unless the buffer *)
(* has just been moved.                                                     *)
Joins(here, i) ==
    IF Full(here) THEN Set(here, "stray") /\ UNCHANGED glue
    ELSE /\ Set(here + JumpSize, status)
         /\ glue' = [o \in DOMAIN glue \union {here} |->
                       IF o = here THEN info[i].native ELSE glue[o]]

(* Mutation: no jump is emitted. *)
PlainFallsOff ==
    /\ Translating("plain") /\ Visited(After)
    /\ info' = Visit
    /\ Set(End, status)
    /\ frames' = Return(Depth)
    /\ UNCHANGED <<program, glue, handler>>

(* An instruction that goes on with one that is translated: a jump to it. *)
PlainJoins ==
    /\ Translating("plain") /\ Visited(After)
    /\ info' = Visit
    /\ Joins(End, After)
    /\ frames' = Return(Depth)
    /\ UNCHANGED <<program, handler>>

(* Mutation: the stack is copied before the operand is popped. *)
ConditionalCopiesFirst ==
    /\ Translating("if")
    /\ info' = VisitBranch(Inst.to)
    /\ Set(End, status)
    /\ frames' = <<Frame(After, Top.depth), [Top EXCEPT !.depth = Depth, !.pc = "branched"]>>
                   \o Tail(frames)
    /\ UNCHANGED <<program, glue, handler>>

(* A conditional branch: select_code is called for what follows it. *)
Conditional ==
    /\ Translating("if")
    /\ info' = VisitBranch(Inst.to)
    /\ Set(End, status)
    /\ frames' = <<Frame(After, Depth), [Top EXCEPT !.depth = Depth, !.pc = "branched"]>>
                   \o Tail(frames)
    /\ UNCHANGED <<program, glue, handler>>

Returned(pc) == status = "translating" /\ frames # <<>> /\ Top.pc = pc

(* Mutation: what follows the branch is translated again and again. *)
AfterConditionalAgain ==
    /\ Returned("branched")
    /\ frames' = <<Frame(After, Top.depth)>> \o frames
    /\ UNCHANGED <<program, info, glue, pos, cap, handler, status>>

(* ... and then the loop goes on with its target. *)
AfterConditional ==
    /\ Returned("branched")
    /\ frames' = IF Visited(Inst.to) THEN Return(Top.depth)
                 ELSE Continue(Inst.to, Top.depth)
    /\ UNCHANGED <<program, info, glue, pos, cap, handler, status>>

(* A goto to code that is translated ends the loop; otherwise the pointer  *)
(* to the end of the jump is used once more at the end of the loop.        *)
Goto ==
    /\ Translating("goto")
    /\ info' = VisitBranch(Inst.to)
    /\ IF Visited(Inst.to) \/ Inst.to = At
       THEN frames' = Return(Depth) /\ Set(End, status)
       ELSE frames' = Continue(Inst.to, Depth) /\ Set(End, Reused(End))
    /\ UNCHANGED <<program, glue, handler>>

(* A return jumps to the epilog, which is where the bytecode ends. *)
Leave ==
    /\ Translating("return")
    /\ info' = VisitBranch(program.length)
    /\ Set(End, status)
    /\ frames' = Return(Depth)
    /\ UNCHANGED <<program, glue, handler>>

(* athrow calls and ret jumps, neither comes back. *)
ThrowOrRet ==
    /\ Translating("throw") \/ Translating("ret")
    /\ info' = Visit
    /\ Set(End, status)
    /\ frames' = Return(Depth)
    /\ UNCHANGED <<program, glue, handler>>

(* A jsr: select_code is called for the subroutine, with the same stack.   *)
(* (Not of JSR_W, whose offset the code reads from a byte too early.)      *)
Jsr ==
    /\ Translating("jsr")
    /\ info' = VisitBranch(Inst.to)
    /\ Set(End, status)
    /\ frames' = <<Frame(Inst.to, Depth), [Top EXCEPT !.depth = Depth, !.pc = "called"]>>
                   \o Tail(frames)
    /\ UNCHANGED <<program, glue, handler>>

AfterJsr ==
    /\ Returned("called")
    /\ IF Visited(After)
       THEN Joins(pos, After) /\ frames' = Return(Top.depth)
       ELSE frames' = Continue(After, Top.depth) /\ UNCHANGED <<glue, pos, cap, status>>
    /\ UNCHANGED <<program, info, handler>>

(* Called for an instruction that is translated. *)
NothingToDo ==
    /\ Returned("loop") /\ Visited(At)
    /\ frames' = Return(Top.depth)
    /\ UNCHANGED <<program, info, glue, pos, cap, handler, status>>

(* The stack of an exception handler has the exception on it. *)
NextHandler ==
    /\ status = "translating" /\ frames = <<>> /\ handler < Len(program.handlers)
    /\ handler' = handler + 1
    /\ frames' = <<Frame(program.handlers[handler'], 1)>>
    /\ UNCHANGED <<program, info, glue, pos, cap, status>>

(* The patches: a target of 0 means that the instruction is no branch. *)
Patched ==
    LET native(i) == IF i = program.length THEN pos ELSE info[i].native
        patched(i) ==
          IF info[i].target = 0 THEN info[i]
          ELSE [info[i] EXCEPT !.dest = native(info[i].target),
                               !.back = IF Code[i].op = "jsr" THEN native(i + Code[i].len)
                                        ELSE 0]
    IN [i \in 0 .. program.length |->
          IF i = program.length THEN [info[i] EXCEPT !.native = pos] ELSE patched(i)]

(* The rest of generate_code: the epilog and the patches. *)
Finish ==
    /\ status = "translating" /\ frames = <<>> /\ handler = Len(program.handlers)
    /\ info' = Patched
    /\ Set(pos + EpilogSize, "done")
    /\ UNCHANGED <<program, glue, frames, handler>>

Next ==
    \/ PlainOn \/ PlainJoins \/ Conditional \/ AfterConditional \/ Goto
    \/ Leave \/ ThrowOrRet \/ Jsr \/ AfterJsr \/ NothingToDo
    \/ NextHandler \/ Finish

Spec == Init /\ [][Next]_vars

FairSpec == Spec /\ WF_vars(Next)

-----------------------------------------------------------------------------
Indices == 0 .. program.length

(* Type correctness. *)
TypeOK ==
    /\ program \in Programs
    /\ info \in [Indices -> [visited : BOOLEAN, native : Nat, target : Indices,
                             patch : Nat, dest : Nat, back : Nat]]
    /\ glue \in [DOMAIN glue -> Nat] /\ DOMAIN glue \subseteq Nat
    /\ pos \in Nat /\ cap \in Nat
    /\ frames \in Seq([at : DOMAIN Code, depth : Int, pc : {"loop", "branched", "called"}])
    /\ handler \in 0 .. Len(program.handlers)
    /\ status \in {"translating", "done", "stray", "overrun"}

(* A method that is not too long: before each instruction there is room    *)
(* for the longest native code of an instruction, and nothing is emitted    *)
(* beyond the end of the buffer before the code has half the length that an *)
(* array can have, but for one instruction; then the buffer cannot grow.   *)
RoomLeft ==
    Growth * program.length < LengthLimit =>
        /\ status = "translating" => cap - pos >= Slack
        /\ IF status = "overrun" THEN 2 * (pos + Slack) > LengthLimit ELSE pos <= cap

(* The stack is as deep as the verifier says when an instruction is        *)
(* reached, whichever way the walk came.  Left out are methods with an      *)
(* instruction that is mimicked wrong, and those where a subroutine is      *)
(* called twice: the second jsr leaves the return address on the mimic.     *)
CalledOnce ==
    \A i, j \in DOMAIN Code :
        Code[i].op = "jsr" /\ Code[j].op = "jsr" /\ Code[i].to = Code[j].to => i = j

Mimicked == \A i \in DOMAIN Code : Code[i].mimic = Code[i].effect

DepthRight ==
    CalledOnce /\ Mimicked /\ frames # <<>> /\ Top.pc = "loop" =>
        Top.depth = program.depth[At]

(* What follows a conditional branch was translated before it: nothing is  *)
(* emitted that would lead there.                                          *)
FollowedEarlier(i) ==
    LET next == i + Code[i].len
    IN Code[i].op = "if" /\ Visited(next) /\ info[next].native < info[i].native

(* The native code does what the bytecode does.  Where one instruction     *)
(* goes on with the next, its native code is followed by that of the next  *)
(* or by a jump to it (that of a nop is empty: the jump a nop needs stands *)
(* where the nop does); a branch leads to the native code of its target, a *)
(* return to the epilog, and a subroutine returns to what follows the jsr; *)
(* the method and its handlers begin with native code of their own.  Left  *)
(* out is a branch to the first instruction, which is not patched.         *)
ExecutesProgram ==
    status = "done" =>
      /\ \A i \in {0} \union {program.handlers[k] : k \in DOMAIN program.handlers} : Visited(i)
      /\ info[program.length].native = pos - EpilogSize
      /\ \A i \in DOMAIN Code :
           LET inst == Code[i]
               next == i + inst.len
               end  == info[i].native + inst.size
           IN Visited(i) =>
                /\ inst.op \in Falls /\ ~FollowedEarlier(i) =>
                     /\ Visited(next)
                     /\ \/ info[next].native = end
                        \/ end \in DOMAIN glue /\ glue[end] = info[next].native
                /\ inst.op \in Jumps /\ inst.to # 0 =>
                     Visited(inst.to) /\ info[i].dest = info[inst.to].native
                /\ inst.op = "jsr" /\ inst.to # 0 =>
                     Visited(next) /\ info[i].back = info[next].native
                /\ inst.op = "return" => info[i].dest = info[program.length].native

(* Loops and subroutines in the bytecode do not keep the walk from ending. *)
TranslationEnds == <>(status # "translating")

(* All code is emitted into the buffer that becomes the method's code. *)
WrittenInBuffer == status # "stray"
=============================================================================
