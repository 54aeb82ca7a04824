--------------------------- MODULE CodeGenProofs ---------------------------
(***************************************************************************)
(* What holds of the translation of every method: there is room for the    *)
(* native code of the next instruction, if the method is not too long;     *)
(* without subroutines the mimic stack is as deep as the verifier says;    *)
(* and the native code does what the bytecode does.  At the end, where the *)
(* words of a frame are that is not too large (FrameLayout).               *)
(***************************************************************************)
EXTENDS CodeGen, FrameLayout, TLAPS

(* The calls of select_code that can be on the stack. *)
Calls ==
    {f \in [at : DOMAIN Code, depth : Int, pc : {"loop", "branched", "called"}] :
        /\ f.pc = "branched" => Code[f.at].op = "if"
        /\ f.pc = "called" => Code[f.at].op = "jsr"}

Shape ==
    /\ program \in Programs
    /\ pos \in Nat /\ cap \in Nat /\ cap < LengthLimit
    /\ frames \in Seq(Calls)
    /\ handler \in Nat

(* The inductive invariant for the buffer: a step keeps within the code, so *)
(* what it emits is the native code of an instruction.                      *)
RoomInv == Shape /\ RoomLeft

(* What an instruction of a method is like. *)
LEMMA InstructionFacts ==
    ASSUME program \in Programs, NEW i \in DOMAIN Code
    PROVE  /\ Code[i].op \in Ops /\ Code[i].size \in 0 .. Slack
           /\ Code[i].effect \in Int /\ Code[i].mimic \in Int
           /\ program.depth[i] \in Nat
           /\ Code[i].op \in Falls => /\ i + Code[i].len \in DOMAIN Code
                                      /\ program.depth[i + Code[i].len]
                                           = program.depth[i] + Code[i].effect
           /\ Code[i].op \in Jumps => /\ Code[i].to \in DOMAIN Code
                                      /\ program.depth[Code[i].to]
                                           = program.depth[i] + Code[i].effect
           /\ Code[i].op = "jsr" => i + Code[i].len \in DOMAIN Code
  <1>1. /\ program.code[i] \in Instruction
        /\ program.depth \in [DOMAIN program.code -> Nat]
    BY ProgramsAssumption DEF Code
  <1>2. /\ Code[i].op \in Ops /\ Code[i].size \in 0 .. Slack
        /\ Code[i].effect \in Int /\ Code[i].mimic \in Int
        /\ program.depth[i] \in Nat
    BY <1>1 DEF Code, Instruction
  <1> QED
    BY <1>2, ProgramsAssumption DEF Code

(* select_code comes back to frames of the same kind. *)
LEMMA ReturnType ==
    ASSUME NEW S, frames \in Seq(S), frames # <<>>, NEW d,
           \A f \in S : f.pc = "called" => [f EXCEPT !.depth = d] \in S
    PROVE  Return(d) \in Seq(S)
  <1>1. Tail(frames) \in Seq(S)
    OBVIOUS
  <1>2. ASSUME Len(frames) > 1, frames[2].pc = "called"
        PROVE  <<[frames[2] EXCEPT !.depth = d]>> \o Tail(Tail(frames)) \in Seq(S)
    <2>1. frames[2] \in S /\ Tail(frames) # <<>>
      BY <1>2
    <2>2. Tail(Tail(frames)) \in Seq(S)
      BY <1>1, <2>1
    <2>3. <<[frames[2] EXCEPT !.depth = d]>> \in Seq(S)
      BY <1>2, <2>1
    <2> QED
      BY <2>2, <2>3
  <1> QED
    BY <1>1, <1>2 DEF Return

(* select_code goes on, or calls itself. *)
LEMMA ContinueType ==
    ASSUME NEW S, frames \in Seq(S), frames # <<>>, NEW i, NEW d, Frame(i, d) \in S
    PROVE  /\ Continue(i, d) \in Seq(S)
           /\ \A f \in S : <<Frame(i, d), f>> \o Tail(frames) \in Seq(S)
  <1>1. Tail(frames) \in Seq(S)
    OBVIOUS
  <1>2. <<Frame(i, d)>> \in Seq(S) /\ \A f \in S : <<Frame(i, d), f>> \in Seq(S)
    OBVIOUS
  <1> QED
    BY <1>1, <1>2 DEF Continue

(* What is left of a length in the header of an array. *)
LEMMA KeptFacts ==
    ASSUME NEW n \in Nat
    PROVE  /\ Kept(n) \in Nat /\ Kept(n) < LengthLimit
           /\ n < LengthLimit => Kept(n) = n
           /\ LengthLimit <= n /\ n < 2 * LengthLimit => Kept(n) = n - LengthLimit
  <1>1. LengthLimit \in Nat /\ LengthLimit > 0
    BY SizesAssumption
  <1>2. /\ n % LengthLimit \in Nat /\ n % LengthLimit < LengthLimit
    BY <1>1
  <1>3. n < LengthLimit => (n % LengthLimit) = n
    BY <1>1
  <1>4. LengthLimit <= n /\ n < 2 * LengthLimit => (n % LengthLimit) = n - LengthLimit
    BY <1>1
  <1> QED
    BY <1>2, <1>3, <1>4 DEF Kept

(* codebuf_set leaves room for one more instruction, unless the buffer is   *)
(* as large as it can be.                                                   *)
LEMMA RoomAfterSet ==
    ASSUME NEW end \in Nat, NEW then, pos \in Nat, cap \in Nat, cap < LengthLimit,
           Slack <= cap, end <= cap, Set(end, then)
    PROVE  \/ status' = then /\ cap' - pos' >= Slack /\ pos' <= cap'
           \/ status' = "overrun" /\ 2 * (pos' + Slack) > LengthLimit
  <1>1. Slack \in Nat /\ LengthLimit \in Nat
    BY SizesAssumption
  <1>2. /\ 2 * cap < LengthLimit => Kept(2 * cap) = 2 * cap
        /\ 2 * cap >= LengthLimit => Kept(2 * cap) = 2 * cap - LengthLimit
    BY <1>1, KeptFacts
  <1>3. CASE ~Full(end)
    BY <1>1, <1>3 DEF Set, Full, Overruns
  <1>4. CASE Full(end) /\ 2 * cap < LengthLimit
    <2>1. pos' = end /\ cap' = 2 * cap /\ status' = then
      BY <1>1, <1>2, <1>4 DEF Set, Overruns
    <2> QED
      BY <2>1, <1>1
  <1>5. CASE Full(end) /\ 2 * cap >= LengthLimit
    <2>1. pos' = end /\ status' = "overrun"
      BY <1>1, <1>2, <1>5 DEF Set, Overruns
    <2>2. cap - end < Slack
      BY <1>5 DEF Full
    <2> QED
      BY <1>1, <1>5, <2>1, <2>2
  <1> QED
    BY <1>1, <1>3, <1>4, <1>5

LEMMA SetType ==
    ASSUME NEW end \in Nat, NEW then, cap \in Nat, cap < LengthLimit, Set(end, then)
    PROVE  pos' \in Nat /\ cap' \in Nat /\ cap' < LengthLimit
  <1>1. 2 * cap \in Nat
    OBVIOUS
  <1>2. Kept(2 * cap) \in Nat /\ Kept(2 * cap) < LengthLimit
    BY <1>1, KeptFacts
  <1> QED
    BY <1>2 DEF Set

(* So it does before and after a jump to code that is translated. *)
LEMMA RoomAfterJoins ==
    ASSUME NEW end \in Nat, pos \in Nat, cap \in Nat, cap < LengthLimit,
           NEW i, Joins(end, i), status = "translating"
    PROVE  /\ pos' \in Nat /\ cap' \in Nat /\ cap' < LengthLimit
           /\ status' \in {"translating", "stray", "overrun"}
           /\ Slack <= cap /\ end <= cap =>
                \/ status' # "overrun" /\ cap' - pos' >= Slack /\ pos' <= cap'
                \/ status' = "overrun" /\ 2 * (pos' + Slack) > LengthLimit
  <1>0. JumpSize \in Nat /\ JumpSize <= Slack /\ Slack \in Nat
    BY SizesAssumption
  <1>1. CASE Full(end)
    <2>1. Set(end, "stray")
      BY <1>1 DEF Joins
    <2>2. status' \in {"stray", "overrun"}
      BY <2>1 DEF Set
    <2> QED
      BY <2>1, <2>2, SetType, RoomAfterSet
  <1>2. CASE ~Full(end)
    <2>1. Set(end + JumpSize, "translating") /\ end + JumpSize \in Nat
      BY <1>0, <1>2 DEF Joins
    <2>2. end + JumpSize <= cap
      BY <1>0, <1>2 DEF Full
    <2>3. status' \in {"translating", "overrun"}
      BY <2>1 DEF Set
    <2> QED
      BY <2>1, <2>2, <2>3, SetType, RoomAfterSet
  <1> QED
    BY <1>1, <1>2

-----------------------------------------------------------------------------
LEMMA RoomInit == Init => RoomInv
  <1> SUFFICES ASSUME Init PROVE RoomInv
    OBVIOUS
  <1>1. program \in Programs /\ program.length \in Nat /\ 0 \in DOMAIN Code
    BY ProgramsAssumption DEF Init, Code
  <1>2. frames \in Seq(Calls)
    BY <1>1 DEF Init, Frame, Calls
  <1>n. /\ Slack \in Nat /\ Slack > 0 /\ LengthLimit \in Nat /\ 4 * Slack < LengthLimit
        /\ PrologSize \in Nat /\ PrologSize <= Slack
    BY SizesAssumption
  <1> DEFINE size == FirstBuffer(program.length)
             full == size - PrologSize < Slack
  <1>3. /\ pos = PrologSize
        /\ cap = IF full THEN Kept(2 * size) ELSE size
        /\ status = IF PrologSize > size \/ (full /\ cap < size) THEN "overrun"
                    ELSE "translating"
    BY DEF Init
  <1>4. size \in Nat /\ size < LengthLimit
    <2>1. Growth * program.length \in Nat
      BY <1>1, SizesAssumption
    <2> QED
      BY <1>n, <2>1, KeptFacts DEF FirstBuffer
  <1>5. Kept(2 * size) \in Nat /\ Kept(2 * size) < LengthLimit
    <2>1. 2 * size \in Nat
      BY <1>4
    <2> HIDE DEF size
    <2> QED
      BY <2>1, KeptFacts
  <1>6. pos \in Nat /\ cap \in Nat /\ cap < LengthLimit
    BY <1>3, <1>4, <1>5, <1>n
  <1>7. ASSUME Growth * program.length < LengthLimit
        PROVE  status = "translating" /\ cap - pos >= Slack /\ pos <= cap
    <2>1. size >= Slack
      <3> DEFINE grown == Growth * program.length
      <3>1. grown \in Nat /\ grown < LengthLimit
        BY <1>1, <1>7, SizesAssumption
      <3> HIDE DEF grown
      <3>2. Kept(IF Slack > grown THEN Slack ELSE grown)
              = IF Slack > grown THEN Slack ELSE grown
        BY <1>n, <3>1, KeptFacts
      <3> QED
        BY <1>n, <3>1, <3>2 DEF FirstBuffer, grown
    <2> HIDE DEF size
    <2>2. CASE full
      <3>1. 2 * size \in Nat /\ 2 * size < LengthLimit
        BY <1>4, <1>n, <2>2
      <3>2. cap = 2 * size
        BY <1>3, <2>2, <3>1, KeptFacts
      <3> QED
        BY <1>3, <1>4, <1>n, <2>1, <3>2
    <2>3. CASE ~full
      BY <1>3, <1>4, <1>n, <2>1, <2>3
    <2> QED
      BY <2>2, <2>3
  <1> QED
    BY <1>1, <1>2, <1>3, <1>6, <1>7 DEF Init, RoomInv, Shape, RoomLeft

(* Every step keeps the frames what they are, and the room. *)
LEMMA RoomStep == RoomInv /\ [Next]_vars => RoomInv'
  <1> SUFFICES ASSUME RoomInv, [Next]_vars PROVE RoomInv'
    OBVIOUS
  <1> USE DEF RoomInv, Shape
  <1>0. CASE UNCHANGED vars
    BY <1>0 DEF vars, RoomLeft, Calls, Code
  <1>a. ASSUME NEW d \in Int
        PROVE  frames # <<>> => Return(d) \in Seq(Calls)
    BY ReturnType DEF Calls
  <1>b. ASSUME NEW i \in DOMAIN Code, NEW d \in Int
        PROVE  Frame(i, d) \in Calls
    BY DEF Frame, Calls
  <1>c. ASSUME frames # <<>>
        PROVE  /\ Top \in Calls /\ At \in DOMAIN Code /\ Top.depth \in Int /\ Depth \in Int
               /\ Inst.size \in 0 .. Slack /\ Inst.size \in Nat
               /\ Inst.op \in Falls \union {"jsr"} => After \in DOMAIN Code
               /\ Inst.op \in Jumps => Inst.to \in DOMAIN Code
               /\ Inst.op = "if" => [Top EXCEPT !.depth = Depth, !.pc = "branched"] \in Calls
               /\ Inst.op = "jsr" => [Top EXCEPT !.depth = Depth, !.pc = "called"] \in Calls
    <2>1. Top \in Calls
      BY <1>c DEF Top
    <2>2. At \in DOMAIN Code /\ Top.depth \in Int
      BY <2>1 DEF At, Calls
    <2>3. /\ Inst.mimic \in Int /\ Inst.size \in 0 .. Slack
          /\ Inst.op \in Falls \union {"jsr"} => After \in DOMAIN Code
          /\ Inst.op \in Jumps => Inst.to \in DOMAIN Code
      BY <2>2, InstructionFacts DEF Inst, After, Falls
    <2>4. Depth \in Int /\ Inst.size \in Nat
      BY <2>2, <2>3, SizesAssumption DEF Depth
    <2> QED
      BY <2>1, <2>2, <2>3, <2>4 DEF Calls, Inst, At
  <1>n. Slack \in Nat /\ LengthLimit \in Nat
    BY SizesAssumption
  <1>d. ASSUME status = "translating", frames # <<>>, NEW then \in {"translating", "stray"},
               Set(End, then), program' = program
        PROVE  pos' \in Nat /\ cap' \in Nat /\ cap' < LengthLimit /\ RoomLeft'
    <2>1. End \in Nat /\ (Slack <= cap - pos => Slack <= cap /\ End <= cap)
      BY <1>c, <1>d, <1>n DEF End
    <2>2. pos' \in Nat /\ cap' \in Nat /\ cap' < LengthLimit
      BY <1>d, <2>1, SetType
    <2>3. Slack <= cap /\ End <= cap =>
            \/ status' = then /\ cap' - pos' >= Slack /\ pos' <= cap'
            \/ status' = "overrun" /\ 2 * (pos' + Slack) > LengthLimit
      BY <1>d, <2>1, RoomAfterSet
    <2> QED
      BY <1>d, <2>1, <2>2, <2>3 DEF RoomLeft
  <1>j. ASSUME status = "translating", NEW end \in Nat, NEW i, Joins(end, i),
               Slack <= cap - pos => Slack <= cap /\ end <= cap, program' = program
        PROVE  pos' \in Nat /\ cap' \in Nat /\ cap' < LengthLimit /\ RoomLeft'
    <2>1. /\ pos' \in Nat /\ cap' \in Nat /\ cap' < LengthLimit
          /\ Slack <= cap /\ end <= cap =>
               \/ status' # "overrun" /\ cap' - pos' >= Slack /\ pos' <= cap'
               \/ status' = "overrun" /\ 2 * (pos' + Slack) > LengthLimit
      BY <1>j, RoomAfterJoins
    <2> QED
      BY <1>j, <2>1 DEF RoomLeft
  <1>e. ASSUME program' = program, pos' \in Nat, cap' \in Nat, cap' < LengthLimit,
               handler' \in Nat, frames' \in Seq(Calls), RoomLeft'
        PROVE  RoomInv'
    BY <1>e DEF Calls, Code
  <1>1. CASE PlainOn
    <2>1. frames # <<>> /\ Inst.op = "plain" /\ status = "translating"
      BY <1>1 DEF PlainOn, Translating
    <2>2. frames' \in Seq(Calls)
      BY <1>1, <2>1, <1>b, <1>c, ContinueType DEF PlainOn, Falls
    <2>3. pos' \in Nat /\ cap' \in Nat /\ cap' < LengthLimit /\ RoomLeft'
      BY <1>1, <2>1, <1>d DEF PlainOn
    <2> QED
      BY <1>1, <2>2, <2>3, <1>e DEF PlainOn
  <1>2. CASE PlainJoins
    <2>1. frames # <<>> /\ status = "translating"
      BY <1>2 DEF PlainJoins, Translating
    <2>2. frames' \in Seq(Calls)
      BY <1>2, <2>1, <1>a, <1>c DEF PlainJoins
    <2>3. End \in Nat /\ (Slack <= cap - pos => Slack <= cap /\ End <= cap)
      BY <2>1, <1>c, <1>n DEF End
    <2>4. pos' \in Nat /\ cap' \in Nat /\ cap' < LengthLimit /\ RoomLeft'
      BY <1>2, <2>1, <2>3, <1>j DEF PlainJoins
    <2> QED
      BY <1>2, <2>2, <2>4, <1>e DEF PlainJoins
  <1>3. CASE Conditional
    <2>1. frames # <<>> /\ Inst.op = "if" /\ status = "translating"
      BY <1>3 DEF Conditional, Translating
    <2>2. frames' \in Seq(Calls)
      BY <1>3, <2>1, <1>b, <1>c, ContinueType DEF Conditional, Falls
    <2>3. pos' \in Nat /\ cap' \in Nat /\ cap' < LengthLimit /\ RoomLeft'
      BY <1>3, <2>1, <1>d DEF Conditional
    <2> QED
      BY <1>3, <2>2, <2>3, <1>e DEF Conditional
  <1>4. CASE AfterConditional
    <2>1. frames # <<>> /\ status = "translating" /\ Top.pc = "branched"
      BY <1>4 DEF AfterConditional, Returned
    <2>2. Inst.op = "if"
      BY <2>1, <1>c DEF Calls, Inst, At
    <2>3. frames' \in Seq(Calls)
      BY <1>4, <2>1, <2>2, <1>a, <1>b, <1>c, ContinueType DEF AfterConditional, Jumps
    <2> QED
      BY <1>4, <2>3, <1>e DEF AfterConditional, RoomLeft
  <1>5. CASE Goto
    <2>1. frames # <<>> /\ Inst.op = "goto" /\ status = "translating"
      BY <1>5 DEF Goto, Translating
    <2>2. frames' \in Seq(Calls)
      BY <1>5, <2>1, <1>a, <1>b, <1>c, ContinueType DEF Goto, Jumps
    <2>3. \E then \in {"translating", "stray"} : Set(End, then)
      BY <1>5, <2>1 DEF Goto, Reused
    <2>4. pos' \in Nat /\ cap' \in Nat /\ cap' < LengthLimit /\ RoomLeft'
      BY <1>5, <2>1, <2>3, <1>d DEF Goto
    <2> QED
      BY <1>5, <2>2, <2>4, <1>e DEF Goto
  <1>6. CASE Leave
    <2>1. frames # <<>> /\ status = "translating"
      BY <1>6 DEF Leave, Translating
    <2>2. pos' \in Nat /\ cap' \in Nat /\ cap' < LengthLimit /\ RoomLeft'
      BY <1>6, <2>1, <1>d DEF Leave
    <2>3. frames' \in Seq(Calls)
      BY <1>6, <2>1, <1>a, <1>c DEF Leave
    <2> QED
      BY <1>6, <2>2, <2>3, <1>e DEF Leave
  <1>7. CASE ThrowOrRet
    <2>1. frames # <<>> /\ status = "translating"
      BY <1>7 DEF ThrowOrRet, Translating
    <2>2. pos' \in Nat /\ cap' \in Nat /\ cap' < LengthLimit /\ RoomLeft'
      BY <1>7, <2>1, <1>d DEF ThrowOrRet
    <2>3. frames' \in Seq(Calls)
      BY <1>7, <2>1, <1>a, <1>c DEF ThrowOrRet
    <2> QED
      BY <1>7, <2>2, <2>3, <1>e DEF ThrowOrRet
  <1>8. CASE Jsr
    <2>1. frames # <<>> /\ Inst.op = "jsr" /\ status = "translating"
      BY <1>8 DEF Jsr, Translating
    <2>2. frames' \in Seq(Calls)
      BY <1>8, <2>1, <1>b, <1>c, ContinueType DEF Jsr, Jumps
    <2>3. pos' \in Nat /\ cap' \in Nat /\ cap' < LengthLimit /\ RoomLeft'
      BY <1>8, <2>1, <1>d DEF Jsr
    <2> QED
      BY <1>8, <2>2, <2>3, <1>e DEF Jsr
  <1>9. CASE AfterJsr
    <2>1. frames # <<>> /\ status = "translating" /\ Top.pc = "called"
      BY <1>9 DEF AfterJsr, Returned
    <2>2. Inst.op = "jsr"
      BY <2>1, <1>c DEF Calls, Inst, At
    <2>3. frames' \in Seq(Calls)
      BY <1>9, <2>1, <2>2, <1>a, <1>b, <1>c, ContinueType DEF AfterJsr
    <2>4. CASE Visited(After)
      <3>1. Joins(pos, After) /\ program' = program
        BY <1>9, <2>4 DEF AfterJsr
      <3>2. pos' \in Nat /\ cap' \in Nat /\ cap' < LengthLimit /\ RoomLeft'
        BY <3>1, <2>1, <1>j, <1>n
      <3> QED
        BY <1>9, <2>3, <3>2, <1>e DEF AfterJsr
    <2>5. CASE ~Visited(After)
      BY <1>9, <2>3, <2>5, <1>e DEF AfterJsr, RoomLeft
    <2> QED
      BY <2>4, <2>5
  <1>10. CASE NothingToDo
    <2>1. frames # <<>>
      BY <1>10 DEF NothingToDo, Returned
    <2> QED
      BY <1>10, <2>1, <1>a, <1>c, <1>e DEF NothingToDo, RoomLeft
  <1>11. CASE NextHandler
    <2>1. handler + 1 \in DOMAIN program.handlers /\ program.handlers \in Seq(DOMAIN Code)
      BY <1>11, ProgramsAssumption DEF NextHandler, Code
    <2>2. frames' \in Seq(Calls)
      BY <1>11, <2>1, <1>b DEF NextHandler
    <2> QED
      BY <1>11, <2>2, <1>e DEF NextHandler, RoomLeft
  <1>12. CASE Finish
    <2>1. EpilogSize \in Nat /\ EpilogSize <= Slack
      BY SizesAssumption
    <2>2. Set(pos + EpilogSize, "done") /\ pos + EpilogSize \in Nat /\ status = "translating"
      BY <1>12, <2>1 DEF Finish
    <2>3. pos' \in Nat /\ cap' \in Nat /\ cap' < LengthLimit
      BY <2>2, SetType
    <2>4. Slack <= cap /\ pos + EpilogSize <= cap =>
            \/ status' = "done" /\ cap' - pos' >= Slack /\ pos' <= cap'
            \/ status' = "overrun" /\ 2 * (pos' + Slack) > LengthLimit
      BY <2>2, RoomAfterSet
    <2>5. Slack <= cap - pos => Slack <= cap /\ pos + EpilogSize <= cap
      BY <1>n, <2>1
    <2>6. RoomLeft'
      BY <1>12, <2>2, <2>3, <2>4, <2>5 DEF Finish, RoomLeft
    <2> QED
      BY <1>12, <2>3, <2>6, <1>e DEF Finish
  <1> QED
    BY <1>0, <1>1, <1>2, <1>3, <1>4, <1>5, <1>6, <1>7, <1>8, <1>9, <1>10, <1>11, <1>12
    DEF Next

(* Before each instruction the buffer has room for its native code          *)
(* (compile.cpp:24-31), in a method whose first buffer has a length that an *)
(* array can have (of less than 2^15 / 8 bytes of bytecode), and nothing is *)
(* written beyond its end until the code is half as long as an array can    *)
(* be, less one instruction.  Then codebuf_set cannot double it any more.   *)
THEOREM RoomIsLeft == Spec => []RoomLeft
  <1>1. RoomInv => RoomLeft
    BY DEF RoomInv
  <1> QED
    BY RoomInit, RoomStep, <1>1, PTL DEF Spec

-----------------------------------------------------------------------------
(* Without subroutines: a frame in the loop has the verifier's depth, and   *)
(* one that waits has that of the target it will go on with.                *)
DepthOf(f) == IF f.pc = "branched" THEN program.depth[Code[f.at].to]
              ELSE program.depth[f.at]

DeepCalls == {f \in Calls : f.pc # "called" /\ f.depth = DepthOf(f)}

(* A method without subroutines whose instructions are all mimicked right. *)
Plainly == Mimicked /\ \A i \in DOMAIN Code : Code[i].op # "jsr"

DepthInv == Shape /\ (Plainly => frames \in Seq(DeepCalls))

LEMMA DepthStep ==
    ASSUME RoomInv, RoomInv', DepthInv, [Next]_vars
    PROVE  DepthInv'
  <1>p. Plainly' = Plainly /\ program' = program
    BY DEF vars, Next, PlainOn, PlainJoins, Conditional, AfterConditional, Goto, Leave, ThrowOrRet,
           Jsr, AfterJsr, NothingToDo, NextHandler, Finish, Plainly, Mimicked, Code
  <1> SUFFICES ASSUME Plainly PROVE frames' \in Seq(DeepCalls')
    BY <1>p DEF DepthInv, RoomInv
  <1> USE DEF DepthInv, Shape, RoomInv
  <1>0. CASE UNCHANGED vars
    BY <1>0 DEF vars, DeepCalls, DepthOf, Calls, Code
  <1>a. ASSUME NEW d
        PROVE  frames # <<>> => Return(d) \in Seq(DeepCalls)
    BY ReturnType DEF DeepCalls
  <1>b. ASSUME NEW i \in DOMAIN Code
        PROVE  Frame(i, program.depth[i]) \in DeepCalls
    BY InstructionFacts DEF Frame, Calls, DeepCalls, DepthOf
  <1>c. ASSUME frames # <<>>
        PROVE  /\ Top \in DeepCalls /\ At \in DOMAIN Code /\ Inst.op # "jsr"
               /\ Top.pc = "loop" => Top.depth = program.depth[At]
               /\ Top.pc = "branched" => Inst.op = "if" /\ Top.depth = program.depth[Inst.to]
    <2>1. Top \in DeepCalls
      BY <1>c DEF Top
    <2>2. At \in DOMAIN Code
      BY <2>1 DEF At, DeepCalls, Calls
    <2> QED
      BY <2>1, <2>2 DEF Inst, At, DeepCalls, Calls, DepthOf, Plainly, Code
  <1>d. ASSUME frames # <<>>, Top.pc = "loop"
        PROVE  /\ Depth \in Int
               /\ Inst.op \in Falls => After \in DOMAIN Code /\ Depth = program.depth[After]
               /\ Inst.op \in Jumps => /\ Inst.to \in DOMAIN Code
                                      /\ Depth = program.depth[Inst.to]
    BY <1>c, <1>d, InstructionFacts DEF Depth, Inst, After, Plainly, Mimicked
  <1>e. ASSUME program' = program, frames' \in Seq(DeepCalls)
        PROVE  frames' \in Seq(DeepCalls')
    <2>1. DeepCalls' = DeepCalls
      BY <1>e DEF DeepCalls, DepthOf, Calls, Code
    <2> QED
      BY <1>e, <2>1
  <1>1. CASE PlainOn
    <2>1. frames # <<>> /\ Inst.op = "plain" /\ Top.pc = "loop"
      BY <1>1 DEF PlainOn, Translating
    <2>2. Frame(After, Depth) \in DeepCalls
      BY <2>1, <1>b, <1>d DEF Falls
    <2> QED
      BY <1>1, <2>1, <2>2, <1>e, ContinueType DEF PlainOn
  <1>2. CASE PlainJoins
    BY <1>2, <1>a, <1>e DEF PlainJoins, Translating
  <1>3. CASE Conditional
    <2>1. frames # <<>> /\ Inst.op = "if" /\ Top.pc = "loop"
      BY <1>3 DEF Conditional, Translating
    <2>2. Frame(After, Depth) \in DeepCalls
      BY <2>1, <1>b, <1>d DEF Falls
    <2>3. [Top EXCEPT !.depth = Depth, !.pc = "branched"] \in DeepCalls
      BY <2>1, <1>c, <1>d DEF DeepCalls, Calls, DepthOf, Inst, At, Jumps
    <2> QED
      BY <1>3, <2>1, <2>2, <2>3, <1>e, ContinueType DEF Conditional
  <1>4. CASE AfterConditional
    <2>1. frames # <<>> /\ Top.pc = "branched"
      BY <1>4 DEF AfterConditional, Returned
    <2>2. Frame(Inst.to, Top.depth) \in DeepCalls
      BY <2>1, <1>b, <1>c, InstructionFacts DEF Inst, Jumps
    <2> QED
      BY <1>4, <2>1, <2>2, <1>a, <1>e, ContinueType DEF AfterConditional
  <1>5. CASE Goto
    <2>1. frames # <<>> /\ Inst.op = "goto" /\ Top.pc = "loop"
      BY <1>5 DEF Goto, Translating
    <2>2. Frame(Inst.to, Depth) \in DeepCalls
      BY <2>1, <1>b, <1>d DEF Jumps
    <2> QED
      BY <1>5, <2>1, <2>2, <1>a, <1>e, ContinueType DEF Goto
  <1>6. CASE Leave
    BY <1>6, <1>a, <1>e DEF Leave, Translating
  <1>7. CASE ThrowOrRet
    BY <1>7, <1>a, <1>e DEF ThrowOrRet, Translating
  <1>8. CASE Jsr
    BY <1>8, <1>c DEF Jsr, Translating
  <1>9. CASE AfterJsr
    BY <1>9, <1>c DEF AfterJsr, Returned, DeepCalls
  <1>10. CASE NothingToDo
    BY <1>10, <1>a, <1>e DEF NothingToDo, Returned
  <1>11. CASE NextHandler
    <2>1. /\ handler + 1 \in DOMAIN program.handlers
          /\ program.handlers \in Seq(DOMAIN Code)
      BY <1>11, ProgramsAssumption DEF NextHandler, Code
    <2>3. program.depth[program.handlers[handler + 1]] = 1
      BY <2>1, ProgramsAssumption
    <2>2. Frame(program.handlers[handler + 1], 1) \in DeepCalls
      BY <2>1, <2>3, <1>b
    <2> QED
      BY <1>11, <2>2, <1>e DEF NextHandler
  <1>12. CASE Finish
    BY <1>12, <1>e DEF Finish
  <1> QED
    BY <1>0, <1>1, <1>2, <1>3, <1>4, <1>5, <1>6, <1>7, <1>8, <1>9, <1>10, <1>11, <1>12
    DEF Next

(* Where an instruction is reached, the mimic stack (utils.h:38-48) has the *)
(* depth that the operand stack has there whichever way control comes,      *)
(* although select_code copies it at each conditional branch, throws it     *)
(* away on each way back and reaches each instruction by one way only.      *)
(* This is of methods without subroutines, and without the instructions     *)
(* whose effect the mimic has wrong: LALOAD, DALOAD (code_gen.cpp:325-336), *)
(* MONITORENTER and MONITOREXIT (code_gen.cpp:1231-1242).                   *)
THEOREM DepthIsRight == Spec => [](Plainly => DepthRight)
  <1>1. Init => DepthInv
    <2> SUFFICES ASSUME Init PROVE DepthInv
      OBVIOUS
    <2>1. Shape /\ 0 \in DOMAIN Code /\ program.depth[0] = 0
      BY RoomInit, ProgramsAssumption DEF Init, RoomInv, Code
    <2>2. Frame(0, 0) \in DeepCalls
      BY <2>1 DEF Frame, DeepCalls, Calls, DepthOf
    <2> QED
      BY <2>1, <2>2 DEF Init, DepthInv
  <1>2. DepthInv => (Plainly => DepthRight)
    BY DEF DepthInv, DepthRight, DeepCalls, DepthOf, Calls, Top, At
  <1>3. RoomInv /\ DepthInv /\ [Next]_vars => (RoomInv /\ DepthInv)'
    BY RoomStep, DepthStep
  <1>4. Init => RoomInv /\ DepthInv
    BY <1>1, RoomInit
  <1> QED
    BY <1>2, <1>3, <1>4, PTL DEF Spec

-----------------------------------------------------------------------------
(* The walk while it is under way.  What an instruction that is translated  *)
(* needs elsewhere - the native code of the next one behind its own, that   *)
(* of its target, that of what follows a subroutine - is there, or a frame  *)
(* of select_code is about to emit it: the innermost one stands before an   *)
(* instruction, or one that waits will go on with it.                       *)
Loops(i) == frames # <<>> /\ Top.pc = "loop" /\ At = i

Reached(i) == Visited(i) \/ Loops(i)

(* The native code of i is what is emitted next. *)
Ready(i) == Loops(i) /\ ~Visited(i)

Waits(i, pc)  == \E k \in 1 .. Len(frames) : frames[k].pc = pc /\ frames[k].at = i
Behind(i, pc) == \E k \in 2 .. Len(frames) : frames[k].pc = pc /\ frames[k].at = i

NextOf(i) == i + Code[i].len
EndOf(i)  == info[i].native + Code[i].size

Follows(i) ==
    /\ Visited(NextOf(i))
    /\ \/ info[NextOf(i)].native = EndOf(i)
       \/ EndOf(i) \in DOMAIN glue /\ glue[EndOf(i)] = info[NextOf(i)].native

Linked(i) ==
    /\ Code[i].op \in Falls =>
         \/ Follows(i)
         \/ FollowedEarlier(i)
         \/ Ready(NextOf(i)) /\ pos = EndOf(i)
    /\ Code[i].op \in Jumps => info[i].target = Code[i].to
    /\ Code[i].op = "if" => Reached(Code[i].to) \/ Waits(i, "branched")
    /\ Code[i].op \in {"goto", "jsr"} => Reached(Code[i].to)
    /\ Code[i].op = "jsr" => Reached(NextOf(i)) \/ Waits(i, "called")
    /\ Code[i].op = "return" => info[i].target = program.length

Row == [visited : BOOLEAN, native : Nat, target : Nat, patch : Nat, dest : Nat, back : Nat]

Infos == [0 .. program.length -> Row]

(* A nop has no native code: where the last one emitted ends, there may be  *)
(* several instructions already, and the walk stands behind them.           *)
AtTheEnd(i) ==
    frames # <<>> /\ Top.pc = "loop" /\ At \in DOMAIN Code /\ ~Visited(At) /\ At > i

Walk ==
    /\ info \in Infos
    /\ \A o \in DOMAIN glue : o \in Nat /\ o < pos
    /\ \A i \in DOMAIN Code : Visited(i) =>
         /\ info[i].native <= pos
         /\ info[i].native = pos => AtTheEnd(i)
         /\ Linked(i)
    /\ Reached(0)
    /\ handler <= Len(program.handlers)
    /\ \A k \in 1 .. handler : Reached(program.handlers[k])

WalkInv == RoomInv /\ (status = "translating" => Walk) /\ ExecutesProgram

(* The end of an instruction lies behind its beginning. *)
LEMMA SizeFacts ==
    ASSUME program \in Programs, NEW i \in DOMAIN Code
    PROVE  /\ i \in Nat /\ i < program.length /\ program.length \in Nat \ {0}
           /\ Code[i].len \in Nat \ {0} /\ Code[i].size \in Nat /\ Code[i].size <= Slack
           /\ Code[i].op # "plain" => Code[i].size > 0
           /\ Code[i].to \in Nat
           /\ NextOf(i) \in Nat /\ NextOf(i) > i
  <1>1. program.code[i] \in Instruction /\ (program.code[i].op # "plain" => program.code[i].size > 0)
    BY ProgramsAssumption DEF Code
  <1>2. i \in 0 .. program.length - 1 /\ program.length \in Nat \ {0}
    BY ProgramsAssumption DEF Code
  <1>3. /\ Code[i].len \in Nat \ {0} /\ Code[i].size \in 0 .. Slack /\ Code[i].to \in Nat
        /\ Code[i].op # "plain" => Code[i].size > 0
    BY <1>1 DEF Code, Instruction
  <1> QED
    BY <1>2, <1>3, SizesAssumption DEF NextOf

LEMMA TailFacts ==
    ASSUME NEW S, NEW s \in Seq(S), s # <<>>
    PROVE  /\ Tail(s) \in Seq(S) /\ Len(s) \in Nat \ {0} /\ Len(Tail(s)) = Len(s) - 1
           /\ \A k \in 2 .. Len(s) : k - 1 \in 1 .. Len(s) - 1 /\ Tail(s)[k - 1] = s[k]
  OBVIOUS

LEMMA InFront ==
    ASSUME NEW S, NEW s \in Seq(S), NEW f, NEW g
    PROVE  /\ Len(<<f>> \o s) = Len(s) + 1 /\ (<<f>> \o s)[1] = f
           /\ Len(<<f, g>> \o s) = Len(s) + 2
           /\ (<<f, g>> \o s)[1] = f /\ (<<f, g>> \o s)[2] = g
           /\ \A k \in 1 .. Len(s) : /\ (<<f>> \o s)[k + 1] = s[k]
                                    /\ (<<f, g>> \o s)[k + 2] = s[k]
  OBVIOUS

(* The frames that wait stay when the innermost one is left, goes on, or    *)
(* calls select_code.                                                       *)
LEMMA WaitingStays ==
    ASSUME frames \in Seq(Calls), frames # <<>>, NEW i, NEW pc, Behind(i, pc), NEW d, NEW f, NEW g,
           \/ frames' = Return(d)
           \/ frames' = <<f>> \o Tail(frames)
           \/ frames' = <<f, g>> \o Tail(frames)
    PROVE  Waits(i, pc)'
  <1> DEFINE t == Tail(frames)
  <1>1. PICK k \in 2 .. Len(frames) : frames[k].pc = pc /\ frames[k].at = i
    BY DEF Behind
  <1>2. /\ t \in Seq(Calls) /\ Len(frames) \in Nat \ {0} /\ Len(t) = Len(frames) - 1
        /\ k - 1 \in 1 .. Len(t) /\ t[k - 1] = frames[k] /\ k \in Nat /\ Len(t) \in Nat
    BY <1>1, TailFacts
  <1> HIDE DEF t
  <1>a. (k - 1) + 1 = k /\ (k - 1) + 2 = k + 1 /\ k <= Len(t) + 1 /\ k >= 1
    BY <1>1, <1>2
  <1>3. CASE frames' = <<f>> \o t
    <2>1. Len(frames') = Len(t) + 1 /\ frames'[(k - 1) + 1] = t[k - 1]
      BY <1>2, <1>3, InFront
    <2>2. k \in 1 .. Len(frames') /\ frames'[k] = frames[k]
      BY <1>2, <1>a, <2>1
    <2> QED
      BY <1>1, <2>2 DEF Waits
  <1>4. CASE frames' = <<f, g>> \o t
    <2>1. Len(frames') = Len(t) + 2 /\ frames'[(k - 1) + 2] = t[k - 1]
      BY <1>2, <1>4, InFront
    <2>2. k + 1 \in 1 .. Len(frames') /\ frames'[k + 1] = frames[k]
      BY <1>2, <1>a, <2>1
    <2> QED
      BY <1>1, <2>2 DEF Waits
  <1>5. CASE frames' = Return(d)
    <2>1. CASE frames' = t
      BY <1>1, <1>2, <2>1 DEF Waits
    <2>2. CASE frames' = <<[frames[2] EXCEPT !.depth = d]>> \o Tail(t)
      <3> DEFINE h == [frames[2] EXCEPT !.depth = d]
                 u == Tail(t)
      <3>1. t # <<>>
        BY <1>2
      <3>2. u \in Seq(Calls) /\ Len(u) = Len(t) - 1
        BY <1>2, <3>1, TailFacts
      <3>3. frames[2] \in Calls
        BY <1>1, <1>2
      <3>4. h.pc = frames[2].pc /\ h.at = frames[2].at
        BY <3>3 DEF Calls
      <3>5. Len(frames') = Len(u) + 1 /\ frames'[1] = h
            /\ \A m \in 1 .. Len(u) : frames'[m + 1] = u[m]
        <4>1. frames' = <<h>> \o u
          BY <2>2
        <4> HIDE DEF h, u
        <4> QED
          BY <4>1, <3>2, InFront
      <3>6. CASE k = 2
        <4>1. 1 \in 1 .. Len(frames') /\ frames'[1].pc = pc /\ frames'[1].at = i
          BY <1>1, <3>4, <3>5, <3>6, <3>2, <1>2
        <4> QED
          BY <4>1 DEF Waits
      <3>7. CASE k # 2
        <4>1. k - 1 \in 2 .. Len(t)
          BY <1>1, <1>2, <3>7
        <4>2. (k - 1) - 1 \in 1 .. Len(u) /\ u[(k - 1) - 1] = t[k - 1]
          BY <1>2, <3>1, <3>2, <4>1, TailFacts
        <4>3. frames'[((k - 1) - 1) + 1] = t[k - 1]
          BY <3>5, <4>2
        <4>4. k - 1 \in 1 .. Len(frames') /\ frames'[k - 1] = frames[k]
          BY <1>2, <3>2, <3>5, <4>1, <4>3
        <4> QED
          BY <1>1, <4>4 DEF Waits
      <3> QED
        BY <3>6, <3>7
    <2> QED
      BY <1>5, <2>1, <2>2 DEF Return, t
  <1> QED
    BY <1>3, <1>4, <1>5 DEF t

(* A frame waits behind the innermost one, or is the innermost one. *)
LEMMA WaitsOrTop ==
    ASSUME NEW S, frames \in Seq(S), NEW i, NEW pc
    PROVE  Waits(i, pc) => Behind(i, pc) \/ (frames # <<>> /\ Top.pc = pc /\ At = i)
  BY DEF Waits, Behind, Top, At

-----------------------------------------------------------------------------
(* What a step of the walk leaves as it is.                                 *)
Onward ==
    /\ program' = program /\ status = "translating" /\ status' = "translating"
    /\ pos' \in Nat /\ pos' >= pos
    /\ \A o \in DOMAIN glue : o \in DOMAIN glue' /\ glue'[o] = glue[o]
    /\ \A o \in DOMAIN glue' : o \in Nat /\ o < pos'
    /\ \A i, pc : Behind(i, pc) => Waits(i, pc)'

(* A step that translates the instruction it stands at: what was to come    *)
(* next for the instructions before it has come, and it remains to show     *)
(* what this instruction needs.                                             *)
LEMMA VisitKeeps ==
    ASSUME Shape, Walk, Onward, handler' = handler,
           NEW here \in DOMAIN Code, Ready(here),
           info' \in Infos, info'[here].visited, info'[here].native = pos,
           \A i \in DOMAIN Code : i # here => info'[i] = info[i],
           pos' = pos => AtTheEnd(here)',
           Linked(here)'
    PROVE  Walk'
  <1> USE DEF Shape, Onward
  <1>w. /\ info \in Infos
        /\ \A i \in DOMAIN Code : Visited(i) =>
             info[i].native <= pos /\ (info[i].native = pos => AtTheEnd(i)) /\ Linked(i)
        /\ Reached(0) /\ handler <= Len(program.handlers)
        /\ \A k \in 1 .. handler : Reached(program.handlers[k])
    BY DEF Walk
  <1>h. frames # <<>> /\ Top.pc = "loop" /\ here = At /\ ~Visited(here)
    BY DEF Ready, Loops, Visited
  <1>0. program \in Programs /\ here \in DOMAIN Code /\ pos \in Nat
    BY <1>h
  <1>a. \A i \in DOMAIN Code : Visited(i) => i # here /\ Visited(i)' /\ info'[i] = info[i]
    BY <1>h DEF Visited
  <1>b. \A i \in DOMAIN Code : Loops(i) => i = here
    BY <1>h DEF Loops
  <1>c. Visited(here)' /\ info'[here].native = pos
    BY <1>h DEF Visited
  <1>d. \A i \in DOMAIN Code : Reached(i) => Visited(i)' /\ Reached(i)'
    BY <1>a, <1>b, <1>c DEF Reached
  <1>e. \A i, pc : pc # "loop" /\ Waits(i, pc) => Waits(i, pc)'
    <2> SUFFICES ASSUME NEW i, NEW pc, pc # "loop", Waits(i, pc) PROVE Waits(i, pc)'
      OBVIOUS
    <2>1. Behind(i, pc)
      BY <1>h, WaitsOrTop
    <2> QED
      BY <2>1
  <1>f. Code' = Code /\ Infos' = Infos
    BY DEF Code, Infos
  <1>g. \A i \in DOMAIN Code : /\ i \in Nat /\ info[i].native \in Nat /\ Code[i].size \in Nat
                               /\ (Code[i].op \in Falls \union {"jsr"} => NextOf(i) \in DOMAIN Code)
                               /\ (Code[i].op \in Jumps => Code[i].to \in DOMAIN Code)
    <2> SUFFICES ASSUME NEW i \in DOMAIN Code
                 PROVE  /\ i \in Nat /\ info[i].native \in Nat /\ Code[i].size \in Nat
                        /\ (Code[i].op \in Falls \union {"jsr"} => NextOf(i) \in DOMAIN Code)
                        /\ (Code[i].op \in Jumps => Code[i].to \in DOMAIN Code)
      OBVIOUS
    <2>1. i \in 0 .. program.length
      BY <1>0, SizeFacts
    <2>2. info[i].native \in Nat
      BY <1>w, <2>1 DEF Infos, Row
    <2> QED
      BY <1>0, <2>2, InstructionFacts, SizeFacts DEF NextOf
  <1>1. ASSUME NEW i \in DOMAIN Code, Visited(i)
        PROVE  /\ info'[i].native <= pos'
               /\ info'[i].native = pos' => AtTheEnd(i)'
               /\ Linked(i)'
    <2>1. i # here /\ info'[i] = info[i] /\ Linked(i) /\ info[i].native <= pos
      BY <1>1, <1>a, <1>w
    <2>2. info'[i].native <= pos'
      BY <2>1, <1>g, <1>0
    <2>3. ASSUME info'[i].native = pos'
          PROVE  AtTheEnd(i)'
      <3>1. info[i].native = pos /\ pos' = pos
        BY <2>1, <2>3, <1>g, <1>0
      <3>2. here > i
        BY <3>1, <1>1, <1>w, <1>h DEF AtTheEnd
      <3>3. /\ frames' # <<>> /\ Top'.pc = "loop" /\ ~Visited(At)'
            /\ At' \in DOMAIN Code' /\ At' > here
        BY <3>1, <1>h DEF AtTheEnd, Visited
      <3>4. At' \in Nat /\ here \in Nat /\ i \in Nat
        BY <3>3, <1>0, <1>f, <1>g
      <3>5. At' > i
        BY <3>2, <3>3, <3>4
      <3> QED
        BY <3>3, <3>5 DEF AtTheEnd, Visited
    <2>4. Linked(i)'
      <3>0. NextOf(i)' = NextOf(i) /\ EndOf(i)' = EndOf(i)
        BY <1>f, <2>1 DEF NextOf, EndOf
      <3>1. Code[i].op \in Falls => Follows(i)' \/ FollowedEarlier(i)'
        <4> SUFFICES ASSUME Code[i].op \in Falls
                     PROVE  Follows(i)' \/ FollowedEarlier(i)'
          OBVIOUS
        <4>1. NextOf(i) \in DOMAIN Code
          BY <1>g
        <4>2. CASE Follows(i)
          <5>1. Visited(NextOf(i))' /\ info'[NextOf(i)] = info[NextOf(i)]
            BY <3>0, <4>1, <4>2, <1>a DEF Follows, Visited
          <5> QED
            BY <3>0, <4>1, <4>2, <5>1 DEF Follows
        <4>3. CASE FollowedEarlier(i)
          <5>1. Visited(NextOf(i)) /\ info[NextOf(i)].native < info[i].native /\ Code[i].op = "if"
            BY <4>3 DEF FollowedEarlier, NextOf
          <5>2. info'[NextOf(i)].visited /\ info'[NextOf(i)] = info[NextOf(i)]
            BY <3>0, <4>1, <5>1, <1>a DEF Visited
          <5> QED
            BY <5>1, <5>2, <2>1, <1>f DEF FollowedEarlier, NextOf, Visited
        <4>4. CASE Ready(NextOf(i)) /\ pos = EndOf(i)
          <5>1. NextOf(i) = here
            BY <4>4, <1>h DEF Ready, Loops
          <5>2. Visited(NextOf(i))' /\ info'[NextOf(i)'].native = EndOf(i)'
            BY <5>1, <3>0, <4>4, <1>c DEF Visited
          <5> QED
            BY <5>2 DEF Follows
        <4> QED
          BY <4>2, <4>3, <4>4, <2>1 DEF Linked
      <3>2. Code[i].op \in Jumps =>
              /\ info'[i].target = Code[i].to
              /\ Visited(Code[i].to)' \/ (Code[i].op = "if" /\ Waits(i, "branched")')
        <4> SUFFICES ASSUME Code[i].op \in Jumps
                     PROVE  /\ info'[i].target = Code[i].to
                            /\ \/ info'[Code[i].to].visited
                               \/ Code[i].op = "if" /\ Waits(i, "branched")'
          BY <1>f DEF Visited
        <4>1. Code[i].to \in DOMAIN Code
          BY <1>g
        <4>2. Reached(Code[i].to) => info'[Code[i].to].visited
          BY <4>1, <1>d DEF Visited
        <4> QED
          BY <4>2, <2>1, <1>e DEF Linked, Jumps
      <3>3. Code[i].op = "jsr" => info'[NextOf(i)].visited \/ Waits(i, "called")'
        <4> SUFFICES ASSUME Code[i].op = "jsr"
                     PROVE  info'[NextOf(i)].visited \/ Waits(i, "called")'
          OBVIOUS
        <4>1. NextOf(i) \in DOMAIN Code
          BY <1>g
        <4>2. Reached(NextOf(i)) => info'[NextOf(i)].visited
          BY <4>1, <1>d DEF Visited
        <4> QED
          BY <4>2, <2>1, <1>e DEF Linked
      <3>4. Code[i].op = "return" => info'[i].target = program.length
        BY <2>1 DEF Linked
      <3> QED
        BY <3>0, <3>1, <3>2, <3>3, <3>4, <1>f DEF Linked, Reached, Visited, Jumps
    <2> QED
      BY <2>2, <2>3, <2>4
  <1>2. ASSUME NEW i \in DOMAIN Code, Visited(i)'
        PROVE  /\ info'[i].native <= pos'
               /\ info'[i].native = pos' => AtTheEnd(i)'
               /\ Linked(i)'
    <2>1. CASE i = here
      <3>1. info'[i].native = pos
        BY <2>1, <1>c
      <3>2. Linked(i)'
        BY <2>1, <1>h DEF Linked, Follows, FollowedEarlier, Ready, Reached, Loops, Waits, Visited, EndOf, NextOf
      <3>3. pos' = pos => AtTheEnd(i)'
        BY <2>1, <1>h DEF AtTheEnd, Visited
      <3> QED
        BY <3>1, <3>2, <3>3
    <2>2. CASE i # here
      <3>1. Visited(i)
        BY <2>2, <1>2, <1>h DEF Visited
      <3> QED
        BY <3>1, <1>1
    <2> QED
      BY <2>1, <2>2
  <1>3. 0 \in DOMAIN Code /\ Reached(0)'
    BY <1>w, <1>d, <1>0, ProgramsAssumption DEF Code
  <1>4. \A k \in 1 .. handler : Reached(program.handlers[k])'
    <2> SUFFICES ASSUME NEW k \in 1 .. handler PROVE Reached(program.handlers[k])'
      OBVIOUS
    <2>1. program.handlers \in Seq(DOMAIN Code)
      BY ProgramsAssumption DEF Code
    <2>2. program.handlers[k] \in DOMAIN Code
      BY <2>1, <1>w
    <2> QED
      BY <2>2, <1>d, <1>w DEF Reached, Visited, Loops
  <1>5. /\ info' \in Infos' /\ handler' <= Len(program'.handlers)
        /\ \A o \in DOMAIN glue' : o \in Nat /\ o < pos'
        /\ \A i \in DOMAIN Code' : Visited(i)' =>
             info'[i].native <= pos' /\ (info'[i].native = pos' => AtTheEnd(i)') /\ Linked(i)'
    BY <1>2, <1>f, <1>w
  <1> QED
    BY <1>3, <1>4, <1>5 DEF Walk, Visited, Reached, Loops

(* A step that translates no instruction: the frame that goes on, or is     *)
(* left, hands over what it was kept for.                                   *)
LEMMA MoveKeeps ==
    ASSUME Shape, Walk, Onward, info' = info,
           \A i : ~Ready(i),
           \A i \in DOMAIN Code :
             /\ Code[i].op = "if" /\ Waits(i, "branched") =>
                  Waits(i, "branched")' \/ Reached(Code[i].to)'
             /\ Code[i].op = "jsr" /\ Waits(i, "called") =>
                  Waits(i, "called")' \/ Reached(NextOf(i))',
           handler' \in Nat, handler' <= Len(program.handlers),
           \A k \in 1 .. handler' : k \in 1 .. handler \/ Reached(program.handlers[k])'
    PROVE  Walk'
  <1> USE DEF Shape, Onward
  <1>w. /\ info \in Infos
        /\ \A i \in DOMAIN Code : Visited(i) =>
             info[i].native <= pos /\ (info[i].native = pos => AtTheEnd(i)) /\ Linked(i)
        /\ Reached(0)
        /\ \A k \in 1 .. handler : Reached(program.handlers[k])
    BY DEF Walk
  <1>a. \A i : Reached(i) => info'[i].visited
    BY DEF Reached, Ready, Visited
  <1>f. Code' = Code /\ Infos' = Infos
    BY DEF Code, Infos
  <1>g. \A i \in DOMAIN Code : i \in Nat /\ info[i].native \in Nat
    <2> SUFFICES ASSUME NEW i \in DOMAIN Code PROVE i \in Nat /\ info[i].native \in Nat
      OBVIOUS
    <2>1. i \in 0 .. program.length
      BY SizeFacts
    <2> QED
      BY <1>w, <2>1 DEF Infos, Row
  <1>1. ASSUME NEW i \in DOMAIN Code, Visited(i)
        PROVE  /\ info'[i].native <= pos'
               /\ info'[i].native = pos' => AtTheEnd(i)'
               /\ Linked(i)'
    <2>1. Linked(i) /\ info[i].native <= pos /\ info[i].native # pos
      BY <1>1, <1>w DEF AtTheEnd, Ready, Loops
    <2>2. info'[i].native <= pos' /\ info'[i].native # pos'
      BY <2>1, <1>g
    <2>3. NextOf(i)' = NextOf(i) /\ EndOf(i)' = EndOf(i)
      BY <1>f DEF NextOf, EndOf
    <2>4. Code[i].op \in Falls => Follows(i)' \/ FollowedEarlier(i)'
      <3> SUFFICES ASSUME Code[i].op \in Falls PROVE Follows(i)' \/ FollowedEarlier(i)'
        OBVIOUS
      <3>1. CASE Follows(i)
        BY <3>1, <2>3 DEF Follows, Visited
      <3>2. CASE FollowedEarlier(i)
        BY <3>2, <1>f DEF FollowedEarlier, Visited
      <3> QED
        BY <3>1, <3>2, <2>1 DEF Linked
    <2>5. Code[i].op \in Jumps => info'[i].target = Code[i].to
      BY <2>1 DEF Linked
    <2>6. Code[i].op = "if" => Reached(Code[i].to)' \/ Waits(i, "branched")'
      BY <2>1, <1>a, <1>f DEF Linked, Reached, Visited
    <2>7. Code[i].op \in {"goto", "jsr"} => info'[Code[i].to].visited
      BY <2>1, <1>a DEF Linked
    <2>8. Code[i].op = "jsr" => Reached(NextOf(i))' \/ Waits(i, "called")'
      BY <2>1, <2>3, <1>a DEF Linked, Reached, Visited
    <2>9. Code[i].op = "return" => info'[i].target = program.length
      BY <2>1 DEF Linked
    <2>10. Linked(i)'
      BY <2>3, <2>4, <2>5, <2>6, <2>7, <2>8, <2>9, <1>f DEF Linked, Reached, Visited
    <2> QED
      BY <2>2, <2>10
  <1>2. /\ \A i \in DOMAIN Code' : Visited(i)' =>
             info'[i].native <= pos' /\ (info'[i].native = pos' => AtTheEnd(i)') /\ Linked(i)'
        /\ \A k \in 1 .. handler' : Reached(program.handlers[k])'
    <2>1. ASSUME NEW i \in DOMAIN Code', Visited(i)'
          PROVE  info'[i].native <= pos' /\ (info'[i].native = pos' => AtTheEnd(i)') /\ Linked(i)'
      BY <2>1, <1>1, <1>f DEF Visited
    <2>2. ASSUME NEW k \in 1 .. handler' PROVE Reached(program.handlers[k])'
      <3>1. CASE k \in 1 .. handler
        <4>1. info'[program.handlers[k]].visited
          BY <3>1, <1>w, <1>a
        <4> QED
          BY <4>1 DEF Reached, Visited
      <3> QED
        BY <3>1, <2>2 DEF Reached, Visited, Loops
    <2> QED
      BY <2>1, <2>2
  <1>3. Reached(0)'
    BY <1>w, <1>a DEF Reached, Visited
  <1>4. /\ info' \in Infos' /\ handler' <= Len(program'.handlers)
        /\ \A o \in DOMAIN glue' : o \in Nat /\ o < pos'
    BY <1>f, <1>w
  <1> QED
    BY <1>2, <1>3, <1>4 DEF Walk, Visited, Reached, Loops

LEMMA PutFacts ==
    ASSUME NEW S, NEW R, NEW f \in [S -> R], NEW h \in S, NEW r \in R
    PROVE  /\ [f EXCEPT ![h] = r] \in [S -> R] /\ [f EXCEPT ![h] = r][h] = r
           /\ \A i \in S : i # h => [f EXCEPT ![h] = r][i] = f[i]
  OBVIOUS

(* The entry of the instruction that is translated. *)
LEMMA VisitFacts ==
    ASSUME Shape, info \in Infos, NEW here \in DOMAIN Code, here = At,
           NEW to \in Nat, info' \in {Visit, VisitBranch(to)}
    PROVE  /\ info' \in Infos /\ info'[here].visited /\ info'[here].native = pos
           /\ \A i \in DOMAIN Code : i # here => info'[i] = info[i]
           /\ info' = VisitBranch(to) => info'[here].target = to
  <1>1. here \in 0 .. program.length /\ End \in Nat /\ pos \in Nat
    BY SizeFacts DEF Shape, End, Inst
  <1>2. \A i \in DOMAIN Code : i \in 0 .. program.length
    BY SizeFacts DEF Shape
  <1> DEFINE f1 == [info EXCEPT ![here].visited = TRUE]
             f2 == [f1 EXCEPT ![here].native = pos]
             f3 == [f2 EXCEPT ![here].target = to]
             f4 == [f3 EXCEPT ![here].patch = End]
             f5 == [f4 EXCEPT ![here].dest = End]
  <1>3. info' \in {f2, f5} /\ (info' = VisitBranch(to) => info' = f5)
    BY DEF Visit, VisitBranch
  <1>4. /\ f1 \in Infos /\ f1[here].visited
        /\ \A i \in DOMAIN Code : i # here => f1[i] = info[i]
    <2>1. info[here] \in Row
      BY <1>1 DEF Infos
    <2>2. [info[here] EXCEPT !.visited = TRUE] \in Row /\ [info[here] EXCEPT !.visited = TRUE].visited
      BY <2>1 DEF Row
    <2> QED
      BY <1>1, <1>2, <2>2, PutFacts DEF Infos
  <1> HIDE DEF f1
  <1>5. /\ f2 \in Infos /\ f2[here].visited /\ f2[here].native = pos
        /\ \A i \in DOMAIN Code : i # here => f2[i] = f1[i]
    <2> DEFINE r == [f1[here] EXCEPT !.native = pos]
    <2>0. f1[here] \in Row /\ End \in Nat /\ pos \in Nat /\ to \in Nat /\ f1[here].visited
      BY <1>1, <1>4 DEF Infos
    <2>1. r \in Row /\ r.visited /\ r.native = pos
      BY <2>0 DEF Row
    <2>2. f2 = [f1 EXCEPT ![here] = r]
      OBVIOUS
    <2> HIDE DEF r, f2
    <2> QED
      BY <1>1, <1>2, <1>4, <2>1, <2>2, PutFacts DEF Infos
  <1> HIDE DEF f2
  <1>6. /\ f3 \in Infos /\ f3[here].visited /\ f3[here].native = pos /\ f3[here].target = to
        /\ \A i \in DOMAIN Code : i # here => f3[i] = f2[i]
    <2> DEFINE r == [f2[here] EXCEPT !.target = to]
    <2>0. f2[here] \in Row /\ End \in Nat /\ pos \in Nat /\ to \in Nat /\ f2[here].visited /\ f2[here].native = pos
      BY <1>1, <1>5 DEF Infos
    <2>1. r \in Row /\ r.visited /\ r.native = pos /\ r.target = to
      BY <2>0 DEF Row
    <2>2. f3 = [f2 EXCEPT ![here] = r]
      OBVIOUS
    <2> HIDE DEF r, f3
    <2> QED
      BY <1>1, <1>2, <1>5, <2>1, <2>2, PutFacts DEF Infos
  <1> HIDE DEF f3
  <1>7. /\ f4 \in Infos /\ f4[here].visited /\ f4[here].native = pos /\ f4[here].target = to
        /\ \A i \in DOMAIN Code : i # here => f4[i] = f3[i]
    <2> DEFINE r == [f3[here] EXCEPT !.patch = End]
    <2>0. f3[here] \in Row /\ End \in Nat /\ pos \in Nat /\ to \in Nat /\ f3[here].visited /\ f3[here].native = pos /\ f3[here].target = to
      BY <1>1, <1>6 DEF Infos
    <2>1. r \in Row /\ r.visited /\ r.native = pos /\ r.target = to
      BY <2>0 DEF Row
    <2>2. f4 = [f3 EXCEPT ![here] = r]
      OBVIOUS
    <2> HIDE DEF r, f4
    <2> QED
      BY <1>1, <1>2, <1>6, <2>1, <2>2, PutFacts DEF Infos
  <1> HIDE DEF f4
  <1>8. /\ f5 \in Infos /\ f5[here].visited /\ f5[here].native = pos /\ f5[here].target = to
        /\ \A i \in DOMAIN Code : i # here => f5[i] = f4[i]
    <2> DEFINE r == [f4[here] EXCEPT !.dest = End]
    <2>0. f4[here] \in Row /\ End \in Nat /\ pos \in Nat /\ to \in Nat /\ f4[here].visited /\ f4[here].native = pos /\ f4[here].target = to
      BY <1>1, <1>7 DEF Infos
    <2>1. r \in Row /\ r.visited /\ r.native = pos /\ r.target = to
      BY <2>0 DEF Row
    <2>2. f5 = [f4 EXCEPT ![here] = r]
      OBVIOUS
    <2> HIDE DEF r, f5
    <2> QED
      BY <1>1, <1>2, <1>7, <2>1, <2>2, PutFacts DEF Infos
  <1> HIDE DEF f5
  <1> QED
    BY <1>3, <1>4, <1>5, <1>6, <1>7, <1>8

(* The frame in front, and the one behind it where select_code was called.  *)
LEMMA FrameFacts ==
    ASSUME frames \in Seq(Calls), frames # <<>>, NEW i, NEW d, NEW f
    PROVE  /\ frames' = Continue(i, d) =>
                /\ frames' = <<Frame(i, d)>> \o Tail(frames)
                /\ frames' # <<>> /\ Top' = Frame(i, d)
           /\ frames' = <<Frame(i, d), f>> \o Tail(frames) =>
                /\ frames' # <<>> /\ Top' = Frame(i, d)
                /\ \A pc : f.pc = pc => Waits(f.at, pc)'
  <1>1. Tail(frames) \in Seq(Calls)
    BY TailFacts
  <1>2. /\ Len(<<Frame(i, d)>> \o Tail(frames)) = Len(Tail(frames)) + 1
        /\ (<<Frame(i, d)>> \o Tail(frames))[1] = Frame(i, d)
        /\ Len(<<Frame(i, d), f>> \o Tail(frames)) = Len(Tail(frames)) + 2
        /\ (<<Frame(i, d), f>> \o Tail(frames))[1] = Frame(i, d)
        /\ (<<Frame(i, d), f>> \o Tail(frames))[2] = f
    BY <1>1, InFront
  <1>3. Len(Tail(frames)) \in Nat
    BY <1>1
  <1>4. CASE frames' = <<Frame(i, d)>> \o Tail(frames)
    <2>1. Len(frames') # 0 /\ Top' = Frame(i, d)
      BY <1>2, <1>3, <1>4 DEF Top
    <2>2. Len(<<>>) = 0
      OBVIOUS
    <2>3. frames' # <<>>
      BY <2>1, <2>2
    <2> QED
      BY <1>4, <2>1, <2>3
  <1>5. ASSUME frames' = <<Frame(i, d), f>> \o Tail(frames)
        PROVE  frames' # <<>> /\ Top' = Frame(i, d) /\ 2 \in 1 .. Len(frames') /\ frames'[2] = f
    BY <1>2, <1>3, <1>5 DEF Top
  <1> QED
    BY <1>4, <1>5 DEF Continue, Waits

(* The jump to an instruction that is translated stands where the native    *)
(* code before it ended, and takes no other jump's place.                   *)
LEMMA JoinFacts ==
    ASSUME \A o \in DOMAIN glue : o \in Nat /\ o < pos, pos \in Nat,
           NEW e \in Nat, e >= pos, NEW i, Joins(e, i), status' = "translating"
    PROVE  /\ pos' \in Nat /\ pos' > e
           /\ e \in DOMAIN glue' /\ glue'[e] = info[i].native
           /\ \A o \in DOMAIN glue : o \in DOMAIN glue' /\ glue'[o] = glue[o]
           /\ \A o \in DOMAIN glue' : o \in Nat /\ o < pos'
  <1>1. ~Full(e)
    BY DEF Joins, Set
  <1>2. /\ pos' = e + JumpSize
        /\ glue' = [o \in DOMAIN glue \union {e} |-> IF o = e THEN info[i].native ELSE glue[o]]
    BY <1>1 DEF Joins, Set
  <1>3. \A o \in DOMAIN glue : o # e
    OBVIOUS
  <1> QED
    BY <1>2, <1>3, SizesAssumption

LEMMA WalkStep ==
    ASSUME RoomInv, Walk, status = "translating", Next, status' = "translating"
    PROVE  Walk'
  <1>s. Shape /\ program \in Programs /\ pos \in Nat /\ frames \in Seq(Calls) /\ handler \in Nat
    BY DEF RoomInv, Shape
  <1>w. /\ info \in Infos /\ (\A o \in DOMAIN glue : o \in Nat /\ o < pos)
        /\ handler <= Len(program.handlers)
        /\ \A i \in DOMAIN Code : Visited(i) =>
             info[i].native <= pos /\ (info[i].native = pos => AtTheEnd(i)) /\ Linked(i)
    BY DEF Walk
  <1>p. program' = program /\ Code' = Code /\ Infos' = Infos
    BY DEF Next, PlainOn, PlainJoins, Conditional, AfterConditional, Goto, Leave, ThrowOrRet,
           Jsr, AfterJsr, NothingToDo, NextHandler, Finish, Code, Infos
  <1>a. ASSUME NEW op, Translating(op)
        PROVE  /\ frames # <<>> /\ Top.pc = "loop" /\ Inst.op = op
               /\ At \in DOMAIN Code /\ ~Visited(At) /\ Ready(At)
    <2>1. Top \in Calls
      BY <1>a, <1>s DEF Translating, Top
    <2> QED
      BY <1>a, <2>1 DEF Translating, Ready, Loops, Calls, At
  <1>b. ASSUME NEW here \in DOMAIN Code, here = At
        PROVE  /\ Inst = Code[here] /\ After = NextOf(here) /\ End = pos + Code[here].size
               /\ Code[here].size \in Nat /\ here \in Nat
               /\ Code[here].op # "plain" => Code[here].size > 0
               /\ After \in Nat /\ After > here
               /\ Inst.op \in Falls \union {"jsr"} => After \in DOMAIN Code
               /\ Inst.op \in Jumps => Inst.to \in DOMAIN Code /\ Inst.to \in Nat
               /\ \A i \in DOMAIN Code : info[i].native \in Nat
    <2>1. /\ Inst = Code[here] /\ After = NextOf(here) /\ End = pos + Code[here].size
      BY <1>b DEF Inst, After, NextOf, End
    <2>2. \A i \in DOMAIN Code : i \in 0 .. program.length
      BY <1>s, SizeFacts
    <2> QED
      BY <2>1, <2>2, SizeFacts, InstructionFacts, <1>s, <1>w DEF NextOf, Infos, Row
  <1>c. ASSUME NEW n, n \in Nat, pos' = pos + n, UNCHANGED glue
        PROVE  /\ pos' = pos + n /\ pos' \in Nat /\ pos' >= pos
               /\ \A o \in DOMAIN glue : o \in DOMAIN glue' /\ glue'[o] = glue[o]
               /\ \A o \in DOMAIN glue' : o \in Nat /\ o < pos'
    BY <1>c, <1>s, <1>w DEF Set
  <1>d. ASSUME frames # <<>>, NEW d, NEW f, NEW g,
               \/ frames' = Return(d)
               \/ frames' = <<f>> \o Tail(frames)
               \/ frames' = <<f, g>> \o Tail(frames)
        PROVE  \A i, pc : Behind(i, pc) => Waits(i, pc)'
    <2> SUFFICES ASSUME NEW i, NEW pc, Behind(i, pc) PROVE Waits(i, pc)'
      OBVIOUS
    <2> QED
      BY <1>d, <1>s, WaitingStays
  <1>1. CASE PlainOn
    <2>1. PICK here \in DOMAIN Code : here = At
      BY <1>1, <1>a DEF PlainOn
    <2>n. PICK next, d : next = After /\ d = Depth
      OBVIOUS
    <2>2. /\ frames # <<>> /\ Ready(here) /\ Code[here].op = "plain"
          /\ ~Visited(next) /\ next # here /\ next \in DOMAIN Code /\ next > here
          /\ NextOf(here) = next /\ NextOf(here)' = next
          /\ info' = Visit /\ pos' = pos + Code[here].size /\ UNCHANGED glue /\ handler' = handler
          /\ frames' = Continue(next, d) /\ frames' = <<Frame(next, d)>> \o Tail(frames)
          /\ Code[here].size \in Nat
      BY <1>1, <2>1, <2>n, <1>a, <1>b, <1>p DEF PlainOn, Set, End, Falls, Continue, NextOf
    <2>3. frames' # <<>> /\ Top' = Frame(next, d)
      BY <2>2, <1>s, FrameFacts
    <2>4. Onward
      BY <2>2, <1>c, <1>d, <1>p DEF Onward
    <2>5. /\ info' \in Infos /\ info'[here].visited /\ info'[here].native = pos
          /\ \A i \in DOMAIN Code : i # here => info'[i] = info[i]
      BY <2>1, <2>2, <1>s, <1>w, VisitFacts
    <2>6. Ready(next)' /\ At' = next
      BY <2>2, <2>3, <2>5 DEF Ready, Loops, Visited, At, Frame
    <2>7. pos' = EndOf(here)'
      BY <2>2, <2>5, <1>c, <1>s, <1>p DEF EndOf
    <2>8. Linked(here)'
      BY <2>2, <2>6, <2>7, <1>p DEF Linked, Ready, Loops, Visited, Jumps
    <2>9. AtTheEnd(here)'
      BY <2>2, <2>6, <1>p DEF AtTheEnd, Ready, Loops, Visited
    <2> QED
      BY <1>s, <2>2, <2>4, <2>5, <2>8, <2>9, VisitKeeps
  <1>2. CASE PlainJoins
    <2>1. PICK here \in DOMAIN Code : here = At
      BY <1>2, <1>a DEF PlainJoins
    <2> DEFINE next == NextOf(here)
    <2>2. /\ frames # <<>> /\ Ready(here) /\ Code[here].op = "plain"
          /\ Visited(next) /\ next # here /\ next \in DOMAIN Code
          /\ info' = Visit /\ Joins(pos + Code[here].size, next) /\ handler' = handler
          /\ \E d : frames' = Return(d)
          /\ Code[here].size \in Nat
      BY <1>2, <2>1, <1>a, <1>b DEF PlainJoins, Falls
    <2>3. pos + Code[here].size \in Nat /\ pos + Code[here].size >= pos
      BY <2>2, <1>s
    <2> DEFINE e == pos + Code[here].size
    <2>4. /\ pos' \in Nat /\ pos' > e
          /\ e \in DOMAIN glue' /\ glue'[e] = info[next].native
          /\ \A o \in DOMAIN glue : o \in DOMAIN glue' /\ glue'[o] = glue[o]
          /\ \A o \in DOMAIN glue' : o \in Nat /\ o < pos'
      BY <2>2, <2>3, <1>s, <1>w, JoinFacts
    <2>5. Onward /\ pos' > pos
      <3>1. pos' >= pos /\ pos' > pos
        BY <2>3, <2>4, <1>s
      <3> QED
        BY <2>2, <2>4, <3>1, <1>d, <1>p DEF Onward
    <2>6. /\ info' \in Infos /\ info'[here].visited /\ info'[here].native = pos
          /\ \A i \in DOMAIN Code : i # here => info'[i] = info[i]
      BY <2>1, <2>2, <1>s, <1>w, VisitFacts
    <2>7. Follows(here)'
      <3>1. info'[next] = info[next] /\ NextOf(here)' = next /\ EndOf(here)' = e
        BY <2>2, <2>6, <1>p DEF NextOf, EndOf
      <3> QED
        BY <2>2, <2>4, <3>1 DEF Follows, Visited
    <2>8. Linked(here)'
      BY <2>2, <2>7, <1>p DEF Linked, Jumps
    <2>9. Ready(here) /\ handler' = handler /\ Onward /\ (pos' = pos => AtTheEnd(here)')
      BY <2>2, <2>5, <1>s
    <2> QED
      BY <1>s, <2>6, <2>8, <2>9, VisitKeeps
  <1>3. CASE Conditional
    <2>1. PICK here \in DOMAIN Code : here = At
      BY <1>3, <1>a DEF Conditional
    <2>n. PICK next, d, f : /\ next = After /\ d = Depth
                            /\ f = [Top EXCEPT !.depth = Depth, !.pc = "branched"]
      OBVIOUS
    <2> DEFINE to == Code[here].to
    <2>2. /\ frames # <<>> /\ Ready(here) /\ Code[here].op = "if"
          /\ next # here /\ next \in DOMAIN Code /\ next > here /\ to \in Nat /\ here \in Nat
          /\ NextOf(here) = next /\ NextOf(here)' = next
          /\ info' = VisitBranch(to) /\ pos' = pos + Code[here].size /\ UNCHANGED glue
          /\ handler' = handler
          /\ frames' = <<Frame(next, d), f>> \o Tail(frames)
          /\ Code[here].size \in Nat /\ Code[here].size > 0
      BY <1>3, <2>1, <2>n, <1>a, <1>b, <1>p DEF Conditional, Set, Falls, Jumps, NextOf
    <2>3. f.pc = "branched" /\ f.at = here
      <3>1. Top \in Calls
        BY <2>2, <1>s DEF Top
      <3> QED
        BY <3>1, <2>1, <2>n DEF Calls, At
    <2>4. frames' # <<>> /\ Top' = Frame(next, d) /\ Waits(here, "branched")'
      <3>1. /\ frames' # <<>> /\ Top' = Frame(next, d)
            /\ \A pc : f.pc = pc => Waits(f.at, pc)'
        BY <2>2, <1>s, FrameFacts
      <3> QED
        BY <3>1, <2>3
    <2>5. pos' > pos /\ pos' = pos + Code[here].size
      BY <2>2, <1>c, <1>s
    <2>6. Onward
      <3>1. \A i, pc : Behind(i, pc) => Waits(i, pc)'
        BY <2>2, <1>d
      <3>2. /\ pos' \in Nat /\ pos' >= pos
            /\ \A o \in DOMAIN glue : o \in DOMAIN glue' /\ glue'[o] = glue[o]
            /\ \A o \in DOMAIN glue' : o \in Nat /\ o < pos'
        BY <2>2, <1>c
      <3> QED
        BY <3>1, <3>2, <1>p DEF Onward
    <2>7. /\ info' \in Infos /\ info'[here].visited /\ info'[here].native = pos
          /\ info'[here].target = to
          /\ \A i \in DOMAIN Code : i # here => info'[i] = info[i]
      BY <2>1, <2>2, <1>s, <1>w, VisitFacts
    <2>8. FollowedEarlier(here)' \/ (Ready(NextOf(here)) /\ pos = EndOf(here))'
      <3>1. info'[next] = info[next]
        BY <2>2, <2>7
      <3>2. CASE Visited(next)
        <4>1. info[next].native <= pos /\ (info[next].native = pos => AtTheEnd(next))
          BY <2>2, <3>2, <1>w
        <4>2. ~AtTheEnd(next)
          BY <2>1, <2>2, <1>s, SizeFacts DEF AtTheEnd
        <4>3. info[next].native \in Nat
          BY <2>1, <2>2, <1>b
        <4>4. info[next].native < pos
          BY <4>1, <4>2, <4>3, <1>s
        <4> QED
          BY <2>2, <2>7, <3>1, <3>2, <4>4, <1>p DEF FollowedEarlier, Visited, NextOf
      <3>3. CASE ~Visited(next)
        <4>1. Ready(next)'
          BY <2>4, <3>1, <3>3 DEF Ready, Loops, Visited, At, Frame
        <4> QED
          BY <2>2, <2>5, <2>7, <4>1, <1>p DEF Ready, Loops, Visited, EndOf
      <3> QED
        BY <3>2, <3>3
    <2>9. Linked(here)'
      BY <2>2, <2>4, <2>7, <2>8, <1>p DEF Linked, Jumps
    <2> QED
      BY <1>s, <2>2, <2>5, <2>6, <2>7, <2>9, VisitKeeps
  <1>4. CASE AfterConditional
    <2>1. /\ frames # <<>> /\ Top.pc = "branched" /\ Top \in Calls /\ info' = info
          /\ UNCHANGED <<pos, glue, handler>>
      BY <1>4, <1>s DEF AfterConditional, Returned, Top
    <2>2. PICK here \in DOMAIN Code : here = At
      BY <2>1 DEF Calls, At
    <2>n. PICK to, d : to = Code[here].to /\ d = Top.depth
      OBVIOUS
    <2>3. Inst.to = to /\ frames' = IF Visited(to) THEN Return(d) ELSE Continue(to, d)
      BY <1>4, <2>2, <2>n DEF AfterConditional, Inst
    <2>4. \A i, pc : Behind(i, pc) => Waits(i, pc)'
      <3>1. CASE frames' = Return(d)
        BY <2>1, <3>1, <1>d
      <3>2. CASE frames' = Continue(to, d)
        BY <2>1, <3>2, <1>d DEF Continue
      <3> QED
        BY <2>3, <3>1, <3>2
    <2>5. Onward
      BY <2>1, <2>4, <1>p, <1>s, <1>w DEF Onward
    <2>6. Reached(to)'
      <3>1. CASE Visited(to)
        BY <2>1, <3>1 DEF Reached, Visited
      <3>2. CASE ~Visited(to)
        <4>1. frames' # <<>> /\ Top' = Frame(to, d)
          BY <2>1, <2>3, <3>2, <1>s, FrameFacts
        <4> QED
          BY <4>1 DEF Reached, Loops, Frame, At
      <3> QED
        BY <3>1, <3>2
    <2>7. \A i \in DOMAIN Code :
            /\ Code[i].op = "if" /\ Waits(i, "branched") =>
                 Waits(i, "branched")' \/ Reached(Code[i].to)'
            /\ Code[i].op = "jsr" /\ Waits(i, "called") =>
                 Waits(i, "called")' \/ Reached(NextOf(i))'
      <3> SUFFICES ASSUME NEW i \in DOMAIN Code
                   PROVE  /\ Waits(i, "branched") => Waits(i, "branched")' \/ Reached(Code[i].to)'
                          /\ Waits(i, "called") => Waits(i, "called")'
        OBVIOUS
      <3>1. Waits(i, "branched") => Behind(i, "branched") \/ i = here
        BY <2>2, <1>s, WaitsOrTop
      <3>2. Waits(i, "called") => Behind(i, "called")
        BY <2>1, <1>s, WaitsOrTop
      <3>3. i = here => Reached(Code[i].to)'
        BY <2>6, <2>n, <1>p DEF Reached, Visited, Loops
      <3> QED
        BY <3>1, <3>2, <3>3, <2>4
    <2>8. \A i : ~Ready(i)
      BY <2>1 DEF Ready, Loops
    <2> QED
      BY <1>s, <1>w, <2>1, <2>5, <2>7, <2>8, MoveKeeps
  <1>5. CASE Goto
    <2>1. PICK here \in DOMAIN Code : here = At
      BY <1>5, <1>a DEF Goto
    <2>n. PICK to, d : to = Code[here].to /\ d = Depth
      OBVIOUS
    <2>2. /\ frames # <<>> /\ Ready(here) /\ Code[here].op = "goto"
          /\ to \in DOMAIN Code /\ to \in Nat
          /\ info' = VisitBranch(to) /\ pos' = pos + Code[here].size /\ UNCHANGED glue
          /\ handler' = handler
          /\ frames' = IF Visited(to) \/ to = here THEN Return(d) ELSE Continue(to, d)
          /\ Code[here].size \in Nat /\ Code[here].size > 0
      BY <1>5, <2>1, <2>n, <1>a, <1>b DEF Goto, Set, Jumps
    <2>3. \A i, pc : Behind(i, pc) => Waits(i, pc)'
      <3>1. CASE frames' = Return(d)
        BY <2>2, <3>1, <1>d
      <3>2. CASE frames' = Continue(to, d)
        BY <2>2, <3>2, <1>d DEF Continue
      <3> QED
        BY <2>2, <3>1, <3>2
    <2>4. pos' > pos
      BY <2>2, <1>c, <1>s
    <2>5. Onward
      BY <2>2, <2>3, <1>c, <1>p DEF Onward
    <2>6. /\ info' \in Infos /\ info'[here].visited /\ info'[here].native = pos
          /\ info'[here].target = to
          /\ \A i \in DOMAIN Code : i # here => info'[i] = info[i]
      BY <2>1, <2>2, <1>s, <1>w, VisitFacts
    <2>7. Reached(to)'
      <3>1. CASE Visited(to) \/ to = here
        BY <2>2, <2>6, <3>1 DEF Reached, Visited
      <3>2. CASE ~(Visited(to) \/ to = here)
        <4>1. frames' # <<>> /\ Top' = Frame(to, d)
          BY <2>2, <3>2, <1>s, FrameFacts
        <4> QED
          BY <4>1 DEF Reached, Loops, Frame, At
      <3> QED
        BY <3>1, <3>2
    <2>8. Linked(here)'
      BY <2>2, <2>n, <2>6, <2>7, <1>p DEF Linked, Falls, Reached, Visited, Loops
    <2> QED
      BY <1>s, <2>2, <2>4, <2>5, <2>6, <2>8, VisitKeeps
  <1>6. CASE Leave
    <2>1. PICK here \in DOMAIN Code : here = At
      BY <1>6, <1>a DEF Leave
    <2>n. PICK d : d = Depth
      OBVIOUS
    <2>2. /\ frames # <<>> /\ Ready(here) /\ Code[here].op = "return"
          /\ program.length \in Nat
          /\ info' = VisitBranch(program.length) /\ pos' = pos + Code[here].size /\ UNCHANGED glue
          /\ handler' = handler /\ frames' = Return(d)
          /\ Code[here].size \in Nat /\ Code[here].size > 0
      BY <1>6, <2>1, <2>n, <1>a, <1>b, <1>s, SizeFacts DEF Leave, Set
    <2>3. Onward /\ pos' > pos
      <3>1. pos' > pos
        BY <2>2, <1>c, <1>s
      <3>2. \A i, pc : Behind(i, pc) => Waits(i, pc)'
        BY <2>2, <1>d
      <3> QED
        BY <2>2, <3>1, <3>2, <1>c, <1>p DEF Onward
    <2>4. /\ info' \in Infos /\ info'[here].visited /\ info'[here].native = pos
          /\ info'[here].target = program.length
          /\ \A i \in DOMAIN Code : i # here => info'[i] = info[i]
      BY <2>1, <2>2, <1>s, <1>w, VisitFacts
    <2>5. Linked(here)'
      BY <2>2, <2>4, <1>p DEF Linked, Falls, Jumps
    <2> QED
      BY <1>s, <2>2, <2>3, <2>4, <2>5, VisitKeeps
  <1>7. CASE ThrowOrRet
    <2>1. PICK here \in DOMAIN Code : here = At
      BY <1>7, <1>a DEF ThrowOrRet
    <2>n. PICK d : d = Depth
      OBVIOUS
    <2>2. /\ frames # <<>> /\ Ready(here) /\ Code[here].op \in {"throw", "ret"}
          /\ info' = Visit /\ pos' = pos + Code[here].size /\ UNCHANGED glue
          /\ handler' = handler /\ frames' = Return(d)
          /\ Code[here].size \in Nat /\ Code[here].size > 0
      BY <1>7, <2>1, <2>n, <1>a, <1>b DEF ThrowOrRet, Set
    <2>3. Onward /\ pos' > pos
      <3>1. pos' > pos
        BY <2>2, <1>c, <1>s
      <3>2. \A i, pc : Behind(i, pc) => Waits(i, pc)'
        BY <2>2, <1>d
      <3> QED
        BY <2>2, <3>1, <3>2, <1>c, <1>p DEF Onward
    <2>4. /\ info' \in Infos /\ info'[here].visited /\ info'[here].native = pos
          /\ \A i \in DOMAIN Code : i # here => info'[i] = info[i]
      BY <2>1, <2>2, <1>s, <1>w, VisitFacts
    <2>5. Linked(here)'
      BY <2>2, <1>p DEF Linked, Falls, Jumps
    <2> QED
      BY <1>s, <2>2, <2>3, <2>4, <2>5, VisitKeeps
  <1>8. CASE Jsr
    <2>1. PICK here \in DOMAIN Code : here = At
      BY <1>8, <1>a DEF Jsr
    <2>n. PICK to, d, f : /\ to = Code[here].to /\ d = Depth
                          /\ f = [Top EXCEPT !.depth = Depth, !.pc = "called"]
      OBVIOUS
    <2>2. /\ frames # <<>> /\ Ready(here) /\ Code[here].op = "jsr"
          /\ to \in DOMAIN Code /\ to \in Nat
          /\ info' = VisitBranch(to) /\ pos' = pos + Code[here].size /\ UNCHANGED glue
          /\ handler' = handler
          /\ frames' = <<Frame(to, d), f>> \o Tail(frames)
          /\ Code[here].size \in Nat /\ Code[here].size > 0
      BY <1>8, <2>1, <2>n, <1>a, <1>b DEF Jsr, Set, Jumps
    <2>3. f.pc = "called" /\ f.at = here
      <3>1. Top \in Calls
        BY <2>2, <1>s DEF Top
      <3> QED
        BY <3>1, <2>1, <2>n DEF Calls, At
    <2>4. frames' # <<>> /\ Top' = Frame(to, d) /\ Waits(here, "called")'
      <3>1. /\ frames' # <<>> /\ Top' = Frame(to, d)
            /\ \A pc : f.pc = pc => Waits(f.at, pc)'
        BY <2>2, <1>s, FrameFacts
      <3> QED
        BY <3>1, <2>3
    <2>5. pos' > pos
      BY <2>2, <1>c, <1>s
    <2>6. Onward
      <3>1. \A i, pc : Behind(i, pc) => Waits(i, pc)'
        BY <2>2, <1>d
      <3> QED
        BY <2>2, <3>1, <1>c, <1>p DEF Onward
    <2>7. /\ info' \in Infos /\ info'[here].visited /\ info'[here].native = pos
          /\ info'[here].target = to
          /\ \A i \in DOMAIN Code : i # here => info'[i] = info[i]
      BY <2>1, <2>2, <1>s, <1>w, VisitFacts
    <2>8. Reached(to)'
      BY <2>4 DEF Reached, Loops, Frame, At
    <2>9. Linked(here)'
      BY <2>2, <2>n, <2>4, <2>7, <2>8, <1>p DEF Linked, Falls, Reached, Visited, Loops
    <2> QED
      BY <1>s, <2>2, <2>5, <2>6, <2>7, <2>9, VisitKeeps
  <1>9. CASE AfterJsr
    <2>1. /\ frames # <<>> /\ Top.pc = "called" /\ Top \in Calls /\ info' = info
          /\ handler' = handler
      BY <1>9, <1>s DEF AfterJsr, Returned, Top
    <2>2. PICK here \in DOMAIN Code : here = At
      BY <2>1 DEF Calls, At
    <2>n. PICK next, d : next = After /\ d = Top.depth
      OBVIOUS
    <2>3. NextOf(here) = next /\ NextOf(here)' = next
      BY <2>2, <2>n, <1>b, <1>p DEF NextOf
    <2>4. /\ \A i, pc : Behind(i, pc) => Waits(i, pc)'
          /\ pos' \in Nat /\ pos' >= pos
          /\ \A o \in DOMAIN glue : o \in DOMAIN glue' /\ glue'[o] = glue[o]
          /\ \A o \in DOMAIN glue' : o \in Nat /\ o < pos'
          /\ Reached(next)'
      <3>1. CASE Visited(next)
        <4>1. Joins(pos, next) /\ frames' = Return(d)
          BY <1>9, <2>n, <3>1 DEF AfterJsr
        <4>2. /\ pos' \in Nat /\ pos' > pos
              /\ \A o \in DOMAIN glue : o \in DOMAIN glue' /\ glue'[o] = glue[o]
              /\ \A o \in DOMAIN glue' : o \in Nat /\ o < pos'
          BY <4>1, <1>s, <1>w, JoinFacts
        <4>3. Reached(next)'
          BY <2>1, <3>1 DEF Reached, Visited
        <4>4. \A i, pc : Behind(i, pc) => Waits(i, pc)'
          BY <2>1, <4>1, <1>d
        <4> QED
          BY <4>2, <4>3, <4>4, <1>s
      <3>2. CASE ~Visited(next)
        <4>1. frames' = Continue(next, d) /\ UNCHANGED <<glue, pos>>
          BY <1>9, <2>n, <3>2 DEF AfterJsr
        <4>2. frames' # <<>> /\ Top' = Frame(next, d)
          BY <2>1, <4>1, <1>s, FrameFacts
        <4>3. Reached(next)'
          BY <4>2 DEF Reached, Loops, Frame, At
        <4>4. \A i, pc : Behind(i, pc) => Waits(i, pc)'
          BY <2>1, <4>1, <1>d DEF Continue
        <4> QED
          BY <4>1, <4>3, <4>4, <1>s, <1>w
      <3> QED
        BY <3>1, <3>2
    <2>5. Onward
      BY <2>4, <1>p DEF Onward
    <2>6. \A i \in DOMAIN Code :
            /\ Code[i].op = "if" /\ Waits(i, "branched") =>
                 Waits(i, "branched")' \/ Reached(Code[i].to)'
            /\ Code[i].op = "jsr" /\ Waits(i, "called") =>
                 Waits(i, "called")' \/ Reached(NextOf(i))'
      <3> SUFFICES ASSUME NEW i \in DOMAIN Code
                   PROVE  /\ Waits(i, "branched") => Waits(i, "branched")'
                          /\ Waits(i, "called") => Waits(i, "called")' \/ Reached(NextOf(i))'
        OBVIOUS
      <3>1. Waits(i, "called") => Behind(i, "called") \/ i = here
        BY <2>2, <1>s, WaitsOrTop
      <3>2. Waits(i, "branched") => Behind(i, "branched")
        BY <2>1, <1>s, WaitsOrTop
      <3>3. i = here => Reached(NextOf(i))'
        BY <2>3, <2>4 DEF Reached, Visited, Loops
      <3> QED
        BY <3>1, <3>2, <3>3, <2>4
    <2>7. \A i : ~Ready(i)
      BY <2>1 DEF Ready, Loops
    <2> QED
      BY <1>s, <1>w, <2>1, <2>5, <2>6, <2>7, MoveKeeps
  <1>10. CASE NothingToDo
    <2>1. /\ frames # <<>> /\ Top.pc = "loop" /\ Visited(At) /\ info' = info
          /\ UNCHANGED <<pos, glue, handler>>
      BY <1>10 DEF NothingToDo, Returned
    <2>n. PICK d : d = Top.depth
      OBVIOUS
    <2>2. \A i, pc : Behind(i, pc) => Waits(i, pc)'
      BY <1>10, <2>1, <2>n, <1>d DEF NothingToDo
    <2>3. Onward
      BY <2>1, <2>2, <1>p, <1>s, <1>w DEF Onward
    <2>4. \A i : Waits(i, "branched") => Waits(i, "branched")'
      BY <2>1, <2>2, <1>s, WaitsOrTop
    <2>5. \A i : Waits(i, "called") => Waits(i, "called")'
      BY <2>1, <2>2, <1>s, WaitsOrTop
    <2>6. \A i : ~Ready(i)
      BY <2>1 DEF Ready, Loops, Visited, At
    <2> QED
      BY <1>s, <1>w, <2>1, <2>3, <2>4, <2>5, <2>6, MoveKeeps
  <1>11. CASE NextHandler
    <2>1. /\ frames = <<>> /\ info' = info /\ UNCHANGED <<pos, glue>>
          /\ handler' = handler + 1 /\ handler < Len(program.handlers)
      BY <1>11 DEF NextHandler
    <2>n. PICK h : h = program.handlers[handler + 1]
      OBVIOUS
    <2>2. frames' = <<Frame(h, 1)>>
      BY <1>11, <2>1, <2>n DEF NextHandler
    <2>3. \A i, pc : ~Waits(i, pc) /\ ~Behind(i, pc)
      BY <2>1 DEF Waits, Behind
    <2>4. Onward
      BY <2>1, <2>3, <1>p, <1>s, <1>w DEF Onward
    <2>5. Reached(h)'
      BY <2>2 DEF Reached, Loops, Frame, At, Top
    <2>6. /\ handler' \in Nat /\ handler' <= Len(program.handlers)
          /\ \A k \in 1 .. handler' : k \in 1 .. handler \/ k = handler + 1
      <3>1. program.handlers \in Seq(DOMAIN Code)
        BY <1>s, ProgramsAssumption DEF Code
      <3> QED
        BY <2>1, <3>1, <1>s
    <2>7. \A k \in 1 .. handler' : k \in 1 .. handler \/ Reached(program.handlers[k])'
      <3> SUFFICES ASSUME NEW k \in 1 .. handler', k = handler + 1
                   PROVE  Reached(program.handlers[k])'
        BY <2>6
      <3>1. program'.handlers[k] = h
        BY <2>n, <1>p
      <3> QED
        BY <2>5, <3>1 DEF Reached, Visited, Loops
    <2>8. \A i : ~Ready(i)
      BY <2>1 DEF Ready, Loops
    <2> QED
      BY <1>s, <2>1, <2>3, <2>4, <2>6, <2>7, <2>8, MoveKeeps
  <1>12. CASE Finish
    BY <1>12 DEF Finish, Set
  <1> QED
    BY <1>1, <1>2, <1>3, <1>4, <1>5, <1>6, <1>7, <1>8, <1>9, <1>10, <1>11, <1>12 DEF Next

LEMMA WalkInit == Init => WalkInv
  <1> SUFFICES ASSUME Init PROVE WalkInv
    OBVIOUS
  <1>1. RoomInv /\ program \in Programs /\ program.length \in Nat /\ pos \in Nat
    BY RoomInit, ProgramsAssumption DEF RoomInv, Shape
  <1>2. info \in Infos
    BY <1>1 DEF Init, Entry, Infos, Row
  <1>3. \A i \in DOMAIN Code : ~Visited(i)
    <2> SUFFICES ASSUME NEW i \in DOMAIN Code PROVE ~Visited(i)
      OBVIOUS
    <2>1. i \in 0 .. program.length /\ i # program.length
      BY <1>1, SizeFacts
    <2> QED
      BY <2>1 DEF Init, Entry, Visited
  <1>4. Reached(0)
    BY DEF Init, Reached, Loops, Top, At, Frame
  <1>5. DOMAIN glue = {} /\ handler = 0 /\ status # "done"
    BY DEF Init
  <1>6. Len(program.handlers) \in Nat
    BY <1>1, ProgramsAssumption
  <1>7. Walk
    BY <1>2, <1>3, <1>4, <1>5, <1>6 DEF Walk
  <1> QED
    BY <1>1, <1>5, <1>7 DEF WalkInv, ExecutesProgram

(* When all is emitted no frame is left, so that everything the             *)
(* instructions need is there, and the patches fill in the branches.        *)
LEMMA FinishExecutes ==
    ASSUME RoomInv, Walk, Finish
    PROVE  ExecutesProgram'
  <1>1. /\ program \in Programs /\ pos \in Nat /\ frames = <<>>
        /\ handler = Len(program.handlers)
        /\ program' = program /\ glue' = glue /\ info' = Patched /\ pos' = pos + EpilogSize
    BY DEF RoomInv, Shape, Finish, Set
  <1>2. \A i : (Reached(i) => Visited(i)) /\ ~Ready(i) /\ ~AtTheEnd(i)
               /\ \A pc : ~Waits(i, pc)
    BY <1>1 DEF Reached, Ready, Loops, AtTheEnd, Waits
  <1> DEFINE length    == program.length
             native(i) == IF i = length THEN pos ELSE info[i].native
  <1>3. ASSUME NEW i \in DOMAIN Code
        PROVE  /\ i # length /\ i \in 0 .. length
               /\ info'[i].native = info[i].native /\ info'[i].visited = info[i].visited
               /\ info[i].target # 0 =>
                    /\ info'[i].dest = native(info[i].target)
                    /\ Code[i].op = "jsr" => info'[i].back = native(NextOf(i))
    <2>1. i # length /\ i \in 0 .. length
      BY <1>1, SizeFacts
    <2>2. info[i] \in Row
      BY <2>1 DEF Walk, Infos
    <2>3. info'[i] = IF info[i].target = 0 THEN info[i]
                     ELSE [info[i] EXCEPT !.dest = native(info[i].target),
                                          !.back = IF Code[i].op = "jsr" THEN native(NextOf(i))
                                                   ELSE 0]
      BY <1>1, <2>1 DEF Patched, NextOf
    <2> HIDE DEF native
    <2> QED
      BY <2>1, <2>2, <2>3 DEF Row
  <1>4. info'[length].native = pos /\ pos = pos' - EpilogSize
    <2>1. length \in 0 .. length /\ info[length] \in Row
      BY <1>1, ProgramsAssumption DEF Walk, Infos
    <2>2. info'[length] = [info[length] EXCEPT !.native = pos]
      BY <1>1, <2>1 DEF Patched
    <2> QED
      BY <1>1, <2>1, <2>2, SizesAssumption DEF Row
  <1>5. ASSUME NEW i \in {0} \union {program.handlers[k] : k \in DOMAIN program.handlers}
        PROVE  info'[i].visited
    <2>1. program.handlers \in Seq(DOMAIN Code) /\ 0 \in DOMAIN Code
      BY <1>1, ProgramsAssumption DEF Code
    <2>2. i \in DOMAIN Code
      BY <2>1
    <2>3. Reached(i)
      <3>1. \A k \in DOMAIN program.handlers : Reached(program.handlers[k])
        BY <1>1, <2>1 DEF Walk
      <3> QED
        BY <3>1 DEF Walk
    <2> QED
      BY <2>2, <2>3, <1>2, <1>3 DEF Visited
  <1>6. ASSUME NEW i \in DOMAIN Code, Visited(i)
        PROVE  /\ Code[i].op \in Falls =>
                    \/ /\ info'[NextOf(i)].visited
                       /\ \/ info'[NextOf(i)].native = info'[i].native + Code[i].size
                          \/ /\ info'[i].native + Code[i].size \in DOMAIN glue'
                             /\ glue'[info'[i].native + Code[i].size] = info'[NextOf(i)].native
                    \/ /\ Code[i].op = "if" /\ info'[NextOf(i)].visited
                       /\ info'[NextOf(i)].native < info'[i].native
               /\ Code[i].op \in Jumps /\ Code[i].to # 0 =>
                    info'[Code[i].to].visited /\ info'[i].dest = info'[Code[i].to].native
               /\ Code[i].op = "jsr" /\ Code[i].to # 0 =>
                    info'[NextOf(i)].visited /\ info'[i].back = info'[NextOf(i)].native
               /\ Code[i].op = "return" => info'[i].dest = info'[length].native
    <2>1. Linked(i)
      BY <1>6 DEF Walk
    <2>2. /\ Code[i].op \in Falls \union {"jsr"} => NextOf(i) \in DOMAIN Code
          /\ Code[i].op \in Jumps => Code[i].to \in DOMAIN Code
      BY <1>1, InstructionFacts DEF NextOf
    <2>3. Code[i].op \in Falls =>
                    \/ /\ info'[NextOf(i)].visited
                       /\ \/ info'[NextOf(i)].native = info'[i].native + Code[i].size
                          \/ /\ info'[i].native + Code[i].size \in DOMAIN glue'
                             /\ glue'[info'[i].native + Code[i].size] = info'[NextOf(i)].native
                    \/ /\ Code[i].op = "if" /\ info'[NextOf(i)].visited
                       /\ info'[NextOf(i)].native < info'[i].native
      <3> SUFFICES ASSUME Code[i].op \in Falls
                   PROVE \/ /\ info'[NextOf(i)].visited
                            /\ \/ info'[NextOf(i)].native = info'[i].native + Code[i].size
                               \/ /\ info'[i].native + Code[i].size \in DOMAIN glue'
                                  /\ glue'[info'[i].native + Code[i].size] = info'[NextOf(i)].native
                         \/ /\ Code[i].op = "if" /\ info'[NextOf(i)].visited
                            /\ info'[NextOf(i)].native < info'[i].native
        OBVIOUS
      <3>1. /\ info'[NextOf(i)].native = info[NextOf(i)].native
            /\ info'[NextOf(i)].visited = info[NextOf(i)].visited
            /\ info'[i].native = info[i].native
        BY <2>2, <1>3
      <3> QED
        BY <2>1, <3>1, <1>1, <1>2
        DEF Linked, Follows, FollowedEarlier, EndOf, NextOf, Visited
    <2>4. Code[i].op \in Jumps /\ Code[i].to # 0 =>
             /\ info[i].target = Code[i].to /\ Visited(Code[i].to)
             /\ info'[Code[i].to].visited /\ info'[i].dest = info'[Code[i].to].native
      <3> SUFFICES ASSUME Code[i].op \in Jumps, Code[i].to # 0
                   PROVE  /\ info[i].target = Code[i].to /\ Visited(Code[i].to)
                          /\ info'[Code[i].to].visited /\ info'[i].dest = info'[Code[i].to].native
        OBVIOUS
      <3>1. info[i].target = Code[i].to /\ Visited(Code[i].to)
        BY <2>1, <1>2 DEF Linked, Jumps
      <3>2. info'[i].dest = native(Code[i].to)
        BY <3>1, <1>3
      <3>3. /\ Code[i].to # length /\ info'[Code[i].to].native = info[Code[i].to].native
            /\ info'[Code[i].to].visited = info[Code[i].to].visited
        BY <2>2, <1>3
      <3> QED
        BY <3>1, <3>2, <3>3 DEF Visited
    <2>5. Code[i].op = "jsr" /\ Code[i].to # 0 =>
             info'[NextOf(i)].visited /\ info'[i].back = info'[NextOf(i)].native
      <3> SUFFICES ASSUME Code[i].op = "jsr", Code[i].to # 0
                   PROVE  info'[NextOf(i)].visited /\ info'[i].back = info'[NextOf(i)].native
        OBVIOUS
      <3>1. info[i].target # 0 /\ Visited(NextOf(i))
        BY <2>1, <2>4, <1>2 DEF Linked, Jumps
      <3>2. info'[i].back = native(NextOf(i))
        BY <3>1, <1>3
      <3>3. /\ NextOf(i) # length /\ info'[NextOf(i)].native = info[NextOf(i)].native
            /\ info'[NextOf(i)].visited = info[NextOf(i)].visited
        BY <2>2, <1>3
      <3> QED
        BY <3>1, <3>2, <3>3 DEF Visited
    <2>6. Code[i].op = "return" => info'[i].dest = info'[length].native
      <3>1. length # 0
        BY <1>1, ProgramsAssumption
      <3> QED
        BY <2>1, <3>1, <1>3, <1>4 DEF Linked
    <2> QED
      BY <2>3, <2>4, <2>5, <2>6
  <1>7. \A i \in DOMAIN Code : Visited(i)' = Visited(i)
    BY <1>3 DEF Visited
  <1>8. Code' = Code
    BY <1>1 DEF Code
  <1> QED
    BY <1>1, <1>4, <1>5, <1>6, <1>7, <1>8 DEF ExecutesProgram, FollowedEarlier, Visited, NextOf

(* The native code of a method does what its bytecode does, whatever its    *)
(* loops, handlers and subroutines (code_gen.cpp:119-1343): the walk leaves *)
(* nothing behind that an instruction it translated would need.  Of three   *)
(* things nothing is claimed, as the code has them wrong: what comes after  *)
(* a conditional branch when it was translated before the branch            *)
(* (FollowedEarlier), a branch to bytecode 0, and translations that wrote   *)
(* into the buffer given up (stray) or beyond its end (overrun).            *)
THEOREM ProgramIsExecuted == Spec => []ExecutesProgram
  <1>1. WalkInv /\ [Next]_vars => WalkInv'
    <2> SUFFICES ASSUME WalkInv, [Next]_vars PROVE WalkInv'
      OBVIOUS
    <2>1. RoomInv'
      BY RoomStep DEF WalkInv
    <2>2. CASE UNCHANGED vars
      <3>1. Walk' = Walk
        BY <2>2 DEF vars, Walk, Infos, Visited, Reached, Loops, Top, At, Code, AtTheEnd, Linked,
                    Follows, FollowedEarlier, Ready, Waits, NextOf, EndOf
      <3>2. ExecutesProgram' = ExecutesProgram
        BY <2>2 DEF vars, ExecutesProgram, Visited, FollowedEarlier, Code
      <3> QED
        BY <2>1, <2>2, <3>1, <3>2 DEF WalkInv, vars
    <2>3. CASE Next
      <3>1. status = "translating"
        BY <2>3 DEF Next, PlainOn, PlainJoins, Conditional, AfterConditional, Goto, Leave,
                    ThrowOrRet, Jsr, AfterJsr, NothingToDo, NextHandler, Finish, Translating,
                    Returned
      <3>2. Walk /\ RoomInv
        BY <3>1 DEF WalkInv
      <3>3. status' = "translating" => Walk'
        BY <2>3, <3>1, <3>2, WalkStep
      <3>4. CASE Finish
        BY <2>1, <3>2, <3>3, <3>4, FinishExecutes DEF WalkInv
      <3>5. CASE ~Finish
        <4>1. status' \in {"translating", "stray", "overrun"}
          BY <2>3, <3>1, <3>5 DEF Next, PlainOn, PlainJoins, Conditional, AfterConditional, Goto,
                    Leave, ThrowOrRet, Jsr, AfterJsr, NothingToDo, NextHandler, Joins, Set, Reused
        <4> QED
          BY <2>1, <3>3, <4>1 DEF WalkInv, ExecutesProgram
      <3> QED
        BY <3>4, <3>5
    <2> QED
      BY <2>2, <2>3
  <1>2. WalkInv => ExecutesProgram
    BY DEF WalkInv
  <1> QED
    BY WalkInit, <1>1, <1>2, PTL DEF Spec

-----------------------------------------------------------------------------
(* The frame                                                               *)

(* The words of a frame begin at these places: what the call and the       *)
(* prolog save, the locals, and as many operands as there are.             *)
Saved == {SavedMethod, SavedEbp, SavedReturn}

(* A frame of so many words whose offsets 16 bits can hold; the class file  *)
(* format has the arguments among the locals.                               *)
Fits(args, locals, operands) ==
    /\ args \in Nat /\ locals \in Nat /\ operands \in Nat /\ args <= locals
    /\ Word * (args + 1) < 32768
    /\ Word * (locals - args + operands + 2) <= 32768

LEMMA Int16Facts ==
    ASSUME NEW n \in Int, -32768 <= n, n < 32768
    PROVE  Int16(n) = n
BY DEF Int16

(* In such a frame the offsets are what they are meant to be. *)
LEMMA ExactOffsets ==
    ASSUME NEW args, NEW locals, NEW operands, Fits(args, locals, operands)
    PROVE  /\ \A i \in 0 .. locals - 1 :
                LocalOffset(args, i) = IF i < args THEN Word * (args + 1 - i)
                                       ELSE SavedMethod - Word * (i - args + 1)
           /\ FrameSize(args, locals) = LocalsEnd(args, locals)
           /\ \A i \in 0 .. operands - 1 :
                StackOffset(args, locals, i) = LocalsEnd(args, locals) - Word * (i + 1)
  <1> USE DEF Fits, Word, SavedMethod
  <1>1. ASSUME NEW i \in 0 .. locals - 1
        PROVE  LocalOffset(args, i) = IF i < args THEN Word * (args + 1 - i)
                                      ELSE SavedMethod - Word * (i - args + 1)
    <2>1. CASE i < args
      BY <2>1, Int16Facts DEF LocalOffset
    <2>2. CASE ~(i < args)
      BY <2>2, Int16Facts DEF LocalOffset
    <2> QED
      BY <2>1, <2>2
  <1>2. FrameSize(args, locals) = LocalsEnd(args, locals)
    BY Int16Facts DEF FrameSize, LocalsEnd
  <1>3. ASSUME NEW i \in 0 .. operands - 1
        PROVE  StackOffset(args, locals, i) = LocalsEnd(args, locals) - Word * (i + 1)
    BY Int16Facts DEF StackOffset, LocalsEnd
  <1> QED
    BY <1>1, <1>2, <1>3

(* No local is where another is, or where ebp, the return address or the   *)
(* method is saved; each has a word for itself (prepare_stackframe), as     *)
(* long as the frame is small enough for offsets of 16 bits.                *)
THEOREM LocalsApart ==
    ASSUME NEW args, NEW locals, NEW operands, Fits(args, locals, operands),
           NEW i \in 0 .. locals - 1, NEW j \in 0 .. locals - 1, i # j
    PROVE  /\ LocalOffset(args, i) >= LocalOffset(args, j) + Word
              \/ LocalOffset(args, j) >= LocalOffset(args, i) + Word
           /\ LocalOffset(args, i) \notin Saved
  <1>1. \A k \in {i, j} : LocalOffset(args, k) = IF k < args THEN Word * (args + 1 - k)
                                                 ELSE SavedMethod - Word * (k - args + 1)
    BY ExactOffsets
  <1> QED
    BY <1>1 DEF Fits, Saved, SavedMethod, SavedEbp, SavedReturn, Word

(* The operands are below all locals and all that is saved, the later      *)
(* pushed the lower, and the i-th is where a push finds the stack pointer  *)
(* that started at frame_size (stack_opnd and gen_prolog), as long as the   *)
(* frame is small enough for offsets of 16 bits.                            *)
THEOREM OperandsBelow ==
    ASSUME NEW args, NEW locals, NEW operands, Fits(args, locals, operands),
           NEW i \in 0 .. operands - 1, NEW l \in 0 .. locals - 1, NEW s \in Saved
    PROVE  /\ StackOffset(args, locals, i) + Word <= LocalOffset(args, l)
           /\ StackOffset(args, locals, i) + Word <= s
           /\ i + 1 < operands =>
                StackOffset(args, locals, i + 1) + Word = StackOffset(args, locals, i)
           /\ StackOffset(args, locals, 0) + Word = FrameSize(args, locals)
  <1>1. /\ LocalOffset(args, l) = IF l < args THEN Word * (args + 1 - l)
                                  ELSE SavedMethod - Word * (l - args + 1)
        /\ FrameSize(args, locals) = LocalsEnd(args, locals)
        /\ StackOffset(args, locals, i) = LocalsEnd(args, locals) - Word * (i + 1)
        /\ StackOffset(args, locals, 0) = LocalsEnd(args, locals) - Word * (0 + 1)
        /\ i + 1 < operands =>
             StackOffset(args, locals, i + 1) = LocalsEnd(args, locals) - Word * (i + 1 + 1)
    <2>1. 0 \in 0 .. operands - 1 /\ (i + 1 < operands => i + 1 \in 0 .. operands - 1)
      BY DEF Fits
    <2> QED
      BY <2>1, ExactOffsets
  <1> QED
    BY <1>1 DEF Fits, Saved, SavedMethod, SavedEbp, SavedReturn, Word, LocalsEnd

(* Arguments are passed where they are: the words that a caller with depth *)
(* operands has pushed for a call are the locals of the method it calls,   *)
(* whose ebp is below them, the return address and the saved ebp.  And     *)
(* the return, which takes them along, leaves the stack pointer at what    *)
(* the caller had below them (gen_epilog).  Both frames are small enough    *)
(* for offsets of 16 bits.                                                  *)
CalleeBase(base, args, locals, depth, passed) ==
    base + FrameSize(args, locals) - Word * (depth + passed) - Word - Word

THEOREM ArgumentsInPlace ==
    ASSUME NEW base \in Int,
           NEW args, NEW locals, NEW operands, Fits(args, locals, operands),
           NEW passed, NEW inner, NEW deep, Fits(passed, inner, deep),
           NEW depth \in Nat, depth + passed <= operands, NEW i \in 0 .. passed - 1
    PROVE  LET callee == CalleeBase(base, args, locals, depth, passed) IN
           /\ callee + LocalOffset(passed, i) = base + StackOffset(args, locals, depth + i)
           /\ callee + SavedReturn + Word + Word * passed
                = base + FrameSize(args, locals) - Word * depth
  <1>1. LocalOffset(passed, i) = Word * (passed + 1 - i)
    <2>1. i \in 0 .. inner - 1 /\ i < passed
      BY DEF Fits
    <2> QED
      BY <2>1, ExactOffsets
  <1>2. /\ FrameSize(args, locals) = LocalsEnd(args, locals)
        /\ StackOffset(args, locals, depth + i) = LocalsEnd(args, locals) - Word * (depth + i + 1)
    <2>1. depth + i \in 0 .. operands - 1
      BY DEF Fits
    <2> QED
      BY <2>1, ExactOffsets
  <1> QED
    BY <1>1, <1>2 DEF CalleeBase, Fits, SavedReturn, Word, LocalsEnd, SavedMethod
=============================================================================
