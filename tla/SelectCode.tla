----------------------------- MODULE SelectCode -----------------------------
(***************************************************************************)
(* The native code of each bytecode (select_code in code_gen.cpp), of the  *)
(* beginning and the end of a method (compile.cpp), and the code that the  *)
(* JIT puts between Java and C (jit_runtime.cpp).  The operand stack of a  *)
(* method is the stack of the processor; a mimic of it is taken along,     *)
(* whose depth says where operands are, and whose flags say which of them  *)
(* are references.  The order in which the bytecodes of a method are       *)
(* translated is in CodeGen.                                               *)
(*                                                                         *)
(* A method is a record: num, its number; static, native; args and ret,    *)
(* types; class, offset; locals and stack, max_locals and max_stack.       *)
(***************************************************************************)
EXTENDS X86Encoder, SequencesExt

CONSTANTS
    Methods,        \* by name
    ClassAt,        \* addresses of the classes, those of arrays too
    Fields,         \* of objects: type and offset, by name
    Statics         \* static fields: type and address, by name

Layout == INSTANCE FrameLayout

(* Types of values, by their letters in descriptors. *)
Size(t)   == CASE t = "B" -> 1 [] t \in {"C", "S"} -> 2 [] t \in {"I", "A"} -> 4
               [] t = "J" -> 8 [] t = "V" -> 0
Words(t)  == (Size(t) + 3) \div 4
Mode(t)   == CASE Size(t) = 1 -> "b" [] Size(t) = 2 -> "w" [] OTHER -> "d"
Log2(n)   == CASE n = 1 -> 0 [] n = 2 -> 1 [] n = 4 -> 2 [] n = 8 -> 3

DescriptorWords(mt) == FoldLeft(LAMBDA n, t : n + Words(t), 0, mt.args)
ArgWords(mt)        == DescriptorWords(mt) + (IF mt.static THEN 0 ELSE 1)
Args(mt)            == (IF mt.static THEN <<>> ELSE <<"A">>) \o mt.args

(* Addresses that become part of the code. *)

MethodAt(mt) == 64 + 4 * mt.num         \* jitted_code is the word there
StubAt(mt)   == 2000 + 100 * mt.num
EntryAt(mt)  == 4000 + 300 * mt.num     \* its code when it is compiled
NativeAt(mt) == 1100 + 10 * mt.num      \* what a native method is in C

Trampoline == 1900

CFunction == [jit_a_method |-> 1000, new_java_object |-> 1010, new_java_array_fast |-> 1020,
              java_object_checkcast |-> 1030, class_get_interface_method_offset |-> 1040,
              get_last_exception |-> 1050, throw_exception_object_java |-> 1060]

ArrayOverhead == 8          \* VM_ARRAY_OVERHEAD, JAVA_ARRAY_FIRST_ELEM_OFFSET
PointerMask   == 2147483644

-----------------------------------------------------------------------------
(* Emitting.  A context has the method, the mimic stack (which operands are *)
(* references) and the code; steps of code generation are folded over it.   *)

Code(bytes)      == [do |-> "code", bytes |-> bytes]
PushConst(v, ref) == [do |-> "push", bytes |-> PushImm(v), ref |-> ref]
PushRegister(r, ref) == [do |-> "push", bytes |-> PushReg(r), ref |-> ref]
PushCopy(r, i)   == [do |-> "copy", bytes |-> PushReg(r), i |-> i]
PopRegister(r)   == [do |-> "pop", bytes |-> Pop(r), n |-> 1]
Drop(n)          == [do |-> "pop", bytes |-> <<>>, n |-> n]
OnStack(op, r, i) == [do |-> "stack", op |-> op, r |-> r, i |-> i]
SetFlag(to, from) == [do |-> "flag", to |-> to, from |-> from]

LocalOpnd(mt, i) == Base(EBP, Layout!LocalOffset(ArgWords(mt), i))

(* stack_opnd, of the i-th operand from the top. *)
StackOpnd(mt, depth, i) == Base(EBP, Layout!StackOffset(ArgWords(mt), mt.locals, depth - i))

Ith(flags, i) == flags[Len(flags) + 1 - i]

InstOnStack(op, r, mem) ==
    CASE op = "load"  -> MovRegMem(r, mem, "d")
      [] op = "store" -> MovMemReg(mem, r, "d")
      [] op = "imul"  -> Imul(mem, "m")
      [] op = "neg"   -> Neg(mem, "m")
      [] op = "i2b"   -> WidenToFull(r, mem, TRUE, "b")
      [] op = "i2c"   -> WidenToFull(r, mem, FALSE, "b")
      [] op = "i2s"   -> WidenToFull(r, mem, TRUE, "w")
      [] OTHER        -> BinaluMemReg(op, mem, r)

Generate(k, s) ==
    CASE s.do = "code"  -> [k EXCEPT !.code = @ \o s.bytes]
      [] s.do = "push"  -> [k EXCEPT !.code = @ \o s.bytes, !.flags = Append(@, s.ref)]
      [] s.do = "copy"  -> [k EXCEPT !.code = @ \o s.bytes, !.flags = Append(@, Ith(@, s.i))]
      [] s.do = "pop"   -> [k EXCEPT !.code = @ \o s.bytes,
                                     !.flags = SubSeq(@, 1, Len(@) - s.n)]
      [] s.do = "stack" -> [k EXCEPT !.code = @ \o InstOnStack(s.op, s.r,
                                                  StackOpnd(k.mt, Len(k.flags), s.i))]
      [] s.do = "flag"  -> [k EXCEPT !.flags[Len(k.flags) + 1 - s.to] = Ith(k.flags, s.from)]

Move(to, from) == <<OnStack("load", EAX, from), OnStack("store", EAX, to)>>

(* Mutation: the mimic stack keeps what was there. *)
DupX1Flags == <<>>

DupX1 == <<SetFlag(2, 3), SetFlag(3, 1)>>

Duplicate(i) == <<OnStack("load", EAX, i), PushCopy(EAX, i)>>

Shuffles == {"POP", "POP2", "DUP", "DUP_X1", "DUP_X2", "DUP2", "DUP2_X1", "DUP2_X2", "SWAP"}

StackSteps(op) ==
    CASE op = "POP"     -> <<PopRegister(EAX)>>
      [] op = "POP2"    -> <<PopRegister(EAX), PopRegister(EAX)>>
      [] op = "DUP"     -> Duplicate(1)
      [] op = "DUP_X1"  -> Duplicate(1) \o Move(2, 3) \o Move(3, 1) \o DupX1
      [] op = "DUP_X2"  -> Duplicate(1) \o Move(2, 3) \o Move(3, 4) \o Move(4, 1)
      [] op = "DUP2"    -> Duplicate(2) \o Duplicate(2)
      [] op = "DUP2_X1" -> Duplicate(2) \o Duplicate(2) \o Move(3, 5) \o Move(4, 1) \o Move(5, 2)
      [] op = "DUP2_X2" -> Duplicate(2) \o Duplicate(2) \o Move(3, 5) \o Move(4, 6)
                             \o Move(5, 1) \o Move(6, 2)
      [] op = "SWAP"    -> <<OnStack("load", EAX, 1), OnStack("load", EDX, 2),
                             OnStack("store", EDX, 1), OnStack("store", EAX, 2)>>

IntBinary == [IADD |-> "add", ISUB |-> "sub", IAND |-> "and", IOR |-> "or", IXOR |-> "xor"]
Arith     == DOMAIN IntBinary \union {"IMUL", "IDIV", "IREM", "INEG", "LNEG", "I2B", "I2C", "I2S"}

CDQ == <<153>>

ArithSteps(op) ==
    CASE op \in DOMAIN IntBinary -> <<PopRegister(EAX), OnStack(IntBinary[op], EAX, 1)>>
      [] op \in {"IDIV", "IREM"} ->
           <<PopRegister(ECX), PopRegister(EAX), Code(CDQ), Code(Idiv(ECX, "r")),
             PushRegister(IF op = "IDIV" THEN EAX ELSE EDX, FALSE)>>
      [] op = "IMUL" -> <<PopRegister(EAX), OnStack("imul", EAX, 1), OnStack("store", EAX, 1)>>
      [] op = "INEG" -> <<OnStack("neg", EAX, 1)>>
      [] op = "LNEG" -> <<PopRegister(EAX), PopRegister(EDX), Code(Neg(EAX, "r")),
                          Code(BinaluRegImm("adc", EDX, 0)), Code(Neg(EDX, "r")),
                          PushRegister(EDX, FALSE), PushRegister(EAX, FALSE)>>
      [] op = "I2B"  -> <<OnStack("i2b", EAX, 1), OnStack("store", EAX, 1)>>
      [] op = "I2C"  -> <<OnStack("i2c", EAX, 1), OnStack("store", EAX, 1)>>
      [] op = "I2S"  -> <<OnStack("i2s", EAX, 1), OnStack("store", EAX, 1)>>

Consts == {"ACONST_NULL", "ICONST", "LCONST", "FCONST", "DCONST", "BIPUSH", "SIPUSH", "LDC",
           "LDC_STRING", "LDC2_W"}

ConstSteps(op, x) ==
    CASE op \in {"ICONST", "FCONST", "LDC"} -> <<PushConst(x, FALSE)>>
      [] op \in {"ACONST_NULL", "LDC_STRING"} -> <<PushConst(x, TRUE)>>
      [] op = "BIPUSH" -> <<PushConst(x % 256, FALSE)>>
      [] op = "SIPUSH" -> <<PushConst(x % 65536, FALSE)>>
      [] op \in {"LCONST", "DCONST"} -> <<PushConst(0, FALSE), PushConst(x, FALSE)>>
      [] op = "LDC2_W" -> <<PushConst(x[2], FALSE), PushConst(x[1], FALSE)>>

Locals == {"ILOAD", "ALOAD", "LLOAD", "ISTORE", "ASTORE", "LSTORE", "IINC"}

LocalLoad(mt, i, ref) == <<Code(MovRegMem(EAX, LocalOpnd(mt, i), "d")), PushRegister(EAX, ref)>>
LocalStore(mt, i)     == <<PopRegister(EAX), Code(MovMemReg(LocalOpnd(mt, i), EAX, "d"))>>

LocalSteps(mt, op, x) ==
    CASE op = "ILOAD" -> LocalLoad(mt, x, FALSE)
      [] op = "ALOAD" -> LocalLoad(mt, x, TRUE)
      [] op = "LLOAD" -> LocalLoad(mt, x + 1, FALSE) \o LocalLoad(mt, x, FALSE)
      [] op \in {"ISTORE", "ASTORE"} -> LocalStore(mt, x)
      [] op = "LSTORE" -> LocalStore(mt, x) \o LocalStore(mt, x + 1)
      [] op = "IINC"  -> <<Code(BinaluMemImm("add", LocalOpnd(mt, x[1]), x[2]))>>

ArrayLoad(t) ==
    <<PopRegister(EAX), PopRegister(ECX), Code(BinaluRegReg("xor", EDX, EDX))>>
    \o (IF t = "J"
        THEN <<Code(MovRegMem(EAX, Scaled(Log2(8), EAX, ECX, ArrayOverhead + 4), "d")),
               PushRegister(EAX, FALSE), PushRegister(EDX, FALSE)>>
        ELSE <<Code(MovRegMem(EDX, Scaled(Log2(Size(t)), EAX, ECX, ArrayOverhead), Mode(t)))>>)
    \o <<PushRegister(EDX, t = "A")>>

ArrayStore(t) ==
    LET n == Words(t) IN
    <<OnStack("load", ECX, n + 1), OnStack("load", EAX, n + 2), PopRegister(EDX)>>
    \o (IF t = "J"
        THEN <<PopRegister(EDX),
               Code(MovMemReg(Scaled(Log2(8), ECX, EAX, ArrayOverhead + 4), EDX, "d"))>>
        ELSE <<Code(MovMemReg(Scaled(Log2(Size(t)), ECX, EAX, ArrayOverhead), EDX, Mode(t)))>>)
    \o <<PopRegister(EAX), PopRegister(EAX)>>

GetStatic(t, addr) ==
    <<Code(BinaluRegReg("xor", EAX, EAX))>>
    \o (IF t = "J" THEN <<Code(MovRegMem(EDX, Address(addr + 4), "d")), PushRegister(EDX, FALSE)>>
        ELSE <<>>)
    \o <<Code(MovRegMem(EAX, Address(addr), Mode(t))), PushRegister(EAX, TRUE)>>

PutStatic(t, addr) ==
    <<PopRegister(EAX), Code(MovMemReg(Address(addr), EAX, Mode(t)))>>
    \o (IF t = "J" THEN <<PopRegister(EDX), Code(MovMemReg(Address(addr + 4), EDX, "d"))>> ELSE <<>>)

GetField(t, offset) ==
    <<Code(BinaluRegReg("xor", ECX, ECX)), PopRegister(EAX)>>
    \o (IF t = "J"
        THEN <<Code(MovRegMem(EDX, Base(EAX, offset + 4), "d")), PushRegister(EDX, FALSE)>>
        ELSE <<>>)
    \o <<Code(MovRegMem(ECX, Base(EAX, offset), Mode(t))), PushRegister(ECX, t = "A")>>

PutField(t, offset) ==
    <<OnStack("load", EAX, Words(t) + 1), PopRegister(ECX),
      Code(MovMemReg(Base(EAX, offset), ECX, Mode(t)))>>
    \o (IF t = "J" THEN <<PopRegister(ECX), Code(MovMemReg(Base(EAX, offset + 4), ECX, "d"))>>
        ELSE <<>>)
    \o <<PopRegister(EAX)>>

FieldSteps(op, x) ==
    CASE op = "GETSTATIC" -> GetStatic(Statics[x].type, Statics[x].addr)
      [] op = "PUTSTATIC" -> PutStatic(Statics[x].type, Statics[x].addr)
      [] op = "GETFIELD"  -> GetField(Fields[x].type, Fields[x].offset)
      [] op = "PUTFIELD"  -> PutField(Fields[x].type, Fields[x].offset)

CallC(f) == <<Code(MovRegImm(EAX, CFunction[f])), Code(Call(EAX, "r"))>>

ObjectSteps(op, x) ==
    CASE op = "NEW" ->
           <<PushConst(ClassAt[x], TRUE)>> \o CallC("new_java_object")
             \o <<Drop(1), PushRegister(EAX, TRUE)>>
      [] op = "NEWARRAY" ->
           <<PushConst(ClassAt[x], FALSE)>> \o CallC("new_java_array_fast")
             \o <<Drop(2), PushRegister(EAX, TRUE)>>
      [] op = "ARRAYLENGTH" ->
           <<PopRegister(EAX), Code(MovRegMem(EAX, Base(EAX, 4), "d")), PushRegister(EAX, FALSE)>>
      [] op = "CHECKCAST" ->
           <<OnStack("load", EAX, 1), PushRegister(EAX, TRUE), PushConst(ClassAt[x], TRUE)>>
             \o CallC("java_object_checkcast") \o <<Drop(2)>>
      [] op \in {"MONITORENTER", "MONITOREXIT"} -> <<>>
      [] op = "ATHROW" -> CallC("throw_exception_object_java") \o <<Drop(1)>>

(* What a call leaves in eax and edx is pushed. *)
PushResult(t) ==
    CASE t = "A" -> <<PushRegister(EAX, TRUE)>>
      [] t = "V" -> <<>>
      [] t = "J" -> <<PushRegister(EDX, FALSE), PushRegister(EAX, FALSE)>>
      [] OTHER   -> <<PushRegister(EAX, FALSE)>>

ClassOf(r, i) ==
    <<OnStack("load", r, i), Code(MovRegMem(r, Base(r, 0), "d")),
      Code(BinaluRegImm("and", r, PointerMask))>>

InvokeSteps(op, mt) ==
    LET n == DescriptorWords(mt) IN
    CASE op = "INVOKEVIRTUAL" ->
           ClassOf(EAX, n + 1) \o <<Code(Call(Base(EAX, mt.offset), "m")), Drop(n + 1)>>
             \o PushResult(mt.ret)
      [] op \in {"INVOKESPECIAL", "INVOKESTATIC"} ->
           <<Code(MovRegMem(EAX, Address(MethodAt(mt)), "d")),
             Code(BinaluRegImm("add", EAX, ArrayOverhead)), Code(Call(EAX, "r")),
             Drop(IF op = "INVOKESTATIC" THEN n ELSE n + 1)>>
             \o PushResult(mt.ret)
      [] op = "INVOKEINTERFACE" ->
           ClassOf(EAX, n + 1)
             \o <<PushConst(MethodAt(mt), TRUE), PushRegister(EAX, TRUE)>>
             \o CallC("class_get_interface_method_offset") \o <<Drop(2)>>
             \o ClassOf(ECX, n + 1)
             \o <<Code(BinaluRegReg("add", EAX, ECX)), Code(Call(Base(EAX, 0), "m")), Drop(n + 1)>>
             \o PushResult(mt.ret)

(* A branch is patched to go so many bytes further. *)
Far == 100

Branches    == {"IF", "IF_ICMP", "IF_ACMP", "IFNULL", "GOTO"}
Subroutines == {"JSR", "RET"}

(* A jsr is patched with the place where its own code ends. *)
SubroutineSteps(mt, op, x, at) ==
    CASE op = "JSR" -> LET jump == Jump(Far, "d")
                       IN  <<PushConst(at + Len(PushImm(0)) + Len(jump), FALSE), Code(jump)>>
      [] op = "RET" -> <<Code(JumpMem(LocalOpnd(mt, x)))>>

BranchSteps(op, cc) ==
    CASE op \in {"IF", "IFNULL"} ->
           <<PopRegister(EAX), Code(BinaluRegReg("or", EAX, EAX)), Code(Branch(cc, Far, "d"))>>
      [] op \in {"IF_ICMP", "IF_ACMP"} ->
           <<PopRegister(EAX), PopRegister(ECX), Code(BinaluRegReg("sub", ECX, EAX)),
             Code(Branch(cc, Far, "d"))>>
      [] op = "GOTO" -> <<Code(Jump(Far, "d"))>>

Prolog(mt) ==
    PushReg(EBP) \o MovRegReg(EBP, ESP) \o PushImm(MethodAt(mt))
    \o BinaluRegImm("add", ESP, Layout!FrameSize(ArgWords(mt), mt.locals) + 4)

Epilog(mt) == MovRegReg(ESP, EBP) \o Pop(EBP) \o Ret(4 * ArgWords(mt))

Returns == [IRETURN |-> "I", ARETURN |-> "A", LRETURN |-> "J", RETURN |-> "V"]

(* A return jumps to the epilog, which is put right behind it here. *)
ReturnSteps(mt, op) ==
    (IF op = "RETURN" THEN <<>> ELSE <<PopRegister(EAX)>>)
    \o (IF op = "LRETURN" THEN <<PopRegister(EDX)>> ELSE <<>>)
    \o <<Code(Jump(0, "d")), Code(Epilog(mt))>>

Elements == [IALOAD |-> "I", AALOAD |-> "A", LALOAD |-> "J", BALOAD |-> "B", CALOAD |-> "C",
             SALOAD |-> "S", IASTORE |-> "I", AASTORE |-> "A", LASTORE |-> "J", BASTORE |-> "B",
             CASTORE |-> "C", SASTORE |-> "S"]
ArrayLoads  == {"IALOAD", "AALOAD", "LALOAD", "BALOAD", "CALOAD", "SALOAD"}
FieldOps    == {"GETSTATIC", "PUTSTATIC", "GETFIELD", "PUTFIELD"}
ObjectOps   == {"NEW", "NEWARRAY", "ARRAYLENGTH", "CHECKCAST", "MONITORENTER",
                "MONITOREXIT", "ATHROW"}
Invocations == {"INVOKEVIRTUAL", "INVOKESPECIAL", "INVOKESTATIC", "INVOKEINTERFACE"}

(* select_code, for a bytecode, its operand, and where its code will be.    *)
(* (The bytecodes on floats and doubles are translated as those on ints    *)
(* and longs.)                                                             *)
Steps(mt, op, x, at) ==
    CASE op \in Consts            -> ConstSteps(op, x)
      [] op \in Locals            -> LocalSteps(mt, op, x)
      [] op \in Shuffles          -> StackSteps(op)
      [] op \in Arith             -> ArithSteps(op)
      [] op \in Branches          -> BranchSteps(op, x)
      [] op \in Subroutines       -> SubroutineSteps(mt, op, x, at)
      [] op \in FieldOps          -> FieldSteps(op, x)
      [] op \in ArrayLoads        -> ArrayLoad(Elements[op])
      [] op \in DOMAIN Elements   -> ArrayStore(Elements[op])
      [] op \in ObjectOps         -> ObjectSteps(op, x)
      [] op \in Invocations       -> InvokeSteps(op, Methods[x])
      [] op \in DOMAIN Returns    -> ReturnSteps(mt, op)
      [] op = "NOP"               -> <<>>

Translate(k, at, bc) ==
    FoldLeft(Generate, [k EXCEPT !.code = <<>>], Steps(k.mt, bc[1], bc[2], at))

(* The assertions of select_code about references among the operands. *)
FlagsAsExpected(k, op) ==
    LET f(i) == Ith(k.flags, i) IN
    CASE op \in DOMAIN IntBinary -> ~f(1) /\ ~f(2)
      [] op = "IF_ICMP"          -> ~f(1) /\ ~f(2)
      [] op = "IF_ACMP"          -> f(1) /\ f(2)
      [] op \in ArrayLoads       -> f(2) /\ ~f(1)
      [] op \in DOMAIN Elements  -> LET n == Words(Elements[op]) IN f(n + 2) /\ ~f(n + 1)
      [] OTHER                   -> TRUE

(* What ends in assert(0), whatever the operands. *)
Unsupported ==
    {"FADD", "FSUB", "FMUL", "FDIV", "FREM", "LADD", "DADD", "LSUB", "DSUB", "DMUL", "DDIV", "DREM",
     "LMUL", "LDIV", "LREM", "FNEG", "DNEG", "ISHL", "ISHR", "IUSHR", "LSHL", "LSHR", "LUSHR",
     "LAND", "LOR", "LXOR", "L2I", "I2L", "I2D", "F2L", "F2D", "I2F", "F2I", "L2D", "D2L", "L2F",
     "D2I", "D2F", "LCMP", "DCMPL", "DCMPG", "FCMPL", "FCMPG", "TABLESWITCH", "LOOKUPSWITCH",
     "ANEWARRAY", "INSTANCEOF", "WIDE", "MULTIANEWARRAY"}

-----------------------------------------------------------------------------
(* From C into Java: the stack is copied from an array, and the results go *)
(* where the caller wants them (getaddress_native_to_java_call).           *)
NativeToJava ==
    LET arg(n) == Base(EBP, n)
        test   == BinaluRegReg("or", ECX, ECX)
        more   == PushMem(Base(EAX, 0)) \o Dec(ECX) \o BinaluRegImm("add", EAX, 4)
        loop   == test \o Branch("eq", Len(more) + 2, "b") \o more
        start  == PushReg(EBP) \o MovRegReg(EBP, ESP)
                    \o PushReg(EBX) \o PushReg(ESI) \o PushReg(EDI)
                    \o MovRegMem(ECX, arg(8), "d") \o MovRegMem(EAX, arg(12), "d")
                    \o loop \o Jump(-Len(loop) - 2, "b")
                    \o Call(arg(16), "m")
                    \o MovRegMem(ECX, arg(24), "d") \o MovMemReg(Base(ECX, 0), EAX, "d")
                    \o MovRegMem(ECX, arg(28), "d") \o MovMemReg(Base(ECX, 0), EDX, "d")
        drop   == BinaluRegMem("add", ESP, arg(20))
    IN  start \o CallTarget(Trampoline + Len(start), CFunction.get_last_exception)
          \o BinaluRegReg("or", EAX, EAX) \o Branch("eq", Len(drop), "b") \o drop
          \o Pop(EDI) \o Pop(ESI) \o Pop(EBX) \o Pop(EBP) \o Ret(0)

(* What a method's code is until it is called (generate_compile_me_stub_ia32). *)
Stub(mt) ==
    LET push == PushImm(MethodAt(mt))
    IN  push \o CallTarget(StubAt(mt) + Len(push), CFunction.jit_a_method) \o JumpReg(EAX)

(* Around a native method: the arguments are put below the stack in the    *)
(* order of C, as copies from so far above esp to so far above it.         *)
Copies(acc, t) ==
    LET o == acc.offset IN
    IF t = "J"
    THEN [offset |-> o - 8, copies |-> acc.copies \o <<<<o, 4 - o>>, <<o - 4, 8 - (o - 4)>>>>]
    ELSE [offset |-> o - 4, copies |-> Append(acc.copies, <<o, -o>>)]

Wrapper(mt) ==
    LET size == 4 * ArgWords(mt)
        copy(c) == MovRegMem(ECX, Base(ESP, c[1]), "d") \o MovMemReg(Base(ESP, c[2]), ECX, "d")
        copies == FoldLeft(Copies, [offset |-> size, copies |-> <<>>], Args(mt)).copies
        code == FlattenSeq([i \in DOMAIN copies |-> copy(copies[i])])
                  \o BinaluRegImm("sub", ESP, size)
                  \o (IF mt.static THEN PushImm(ClassAt[mt.class]) ELSE <<>>)
    IN  code \o CallTarget(EntryAt(mt) + Len(code), NativeAt(mt)) \o Ret(size)

WrapperSize == 60           \* buf_size, which an assertion compares with
=============================================================================
