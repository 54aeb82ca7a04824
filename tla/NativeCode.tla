----------------------------- MODULE NativeCode -----------------------------
(***************************************************************************)
(* Java methods run as native code.  SelectCode gives the bytes of each    *)
(* bytecode; here the processor runs them, through the stub that has a     *)
(* method compiled when it is first called, the wrapper around a native    *)
(* method, the trampoline from C into Java, and the C functions of the VM. *)
(* Beside it goes what a Java machine does: frames, objects and static     *)
(* fields.                                                                 *)
(*                                                                         *)
(* A step is one bytecode, emitted and run at once: in the order of        *)
(* execution.  The walk that emits a method's bytecodes is in CodeGen.     *)
(* References are addresses in both worlds.                                *)
(***************************************************************************)
EXTENDS Ia32, SelectCode

CONSTANTS
    Mains,          \* what C calls: method, words of arguments, first bytecodes
    InstanceSize,   \* of each class
    Supers,         \* the classes and interfaces that an object of a class is of
    Vtable,         \* of each class, the methods by the offsets of their slots
    Objects, StaticValues,      \* what there is at the start
    Candidates,     \* the bytecodes a method may have
    MaxSteps,       \* bound: bytecodes chosen freely; returns are not counted
    MaxDepth        \* bound: frames

VARIABLES
    machine,        \* the processor and its memory; brk is the end of the heap
    contexts,       \* of the methods under way, outermost first: what the code
                    \* generator knows after the bytecode they are at, its code,
                    \* and soiled, that a wrong flag may be among the operands
    frames,         \* in Java: locals, operands, and bytecodes that come first
    objs, statics,  \* in Java: objects by reference, and static fields
    expected,       \* where the machine should be
    answer,         \* the words that the outermost method returned
    steps, status

vars == <<machine, contexts, frames, objs, statics, expected, answer, steps, status>>

-----------------------------------------------------------------------------
(* Memory begins at 64: below is what NULL leads to. *)
MemLo    == 64
ArgsAt   == 224             \* the arguments of the first call, and its results
EaxVar   == 232
EdxVar   == 236
HeapStart == 367            \* behind the objects there are
HeapEnd  == 416
StackLo  == 416
StackTop == 768
CodeAt(d) == 20000 + 1000 * d       \* of the bytecode a frame is at
CReturn  == 1                       \* where the trampoline returns to
Junk     == -1431655766             \* in registers and below the stack
JunkByte == 170

Word(t, v)  == [t |-> t, v |-> v]   \* I, A, half of a long: H, L; return address: R
WordTypes(t) == CASE t = "J" -> <<"H", "L">> [] t = "V" -> <<>> [] t = "A" -> <<"A">>
                  [] OTHER -> <<"I">>

(* The words of a value, and back; a long is <<low, high>>. *)
ToWords(t, v) ==
    CASE t = "J" -> <<Word("H", v[2]), Word("L", v[1])>>
      [] t = "V" -> <<>>
      [] t = "A" -> <<Word("A", v)>>
      [] OTHER   -> <<Word("I", v)>>

FromWords(t, v) ==
    CASE t = "J" -> <<v[2], v[1]>>
      [] t = "B" -> SignedByte(v[1] % 256)
      [] t = "C" -> v[1] % 65536
      [] t = "S" -> SignedHalf(v[1] % 65536)
      [] OTHER   -> v[1]

ToBytes(t, v) == IF t = "J" THEN Dword(v[1]) \o Dword(v[2]) ELSE Bytes(v, Size(t))

Header(cls) == ClassAt[cls] + 1     \* IS_JAVA_OBJ_MASK

FieldsOf(cls) == {f \in DOMAIN Fields : Fields[f].offset < InstanceSize[cls]}
IsArray(o)    == o.elem # "none"

ObjectImage(r, o) ==
    {[at |-> r, bytes |-> Dword(Header(o.cls))]}
    \union IF IsArray(o)
           THEN {[at |-> r + 4, bytes |-> Dword(Len(o.val))]}
                \union {[at |-> r + ArrayOverhead + Size(o.elem) * (i - 1),
                         bytes |-> ToBytes(o.elem, o.val[i])] : i \in DOMAIN o.val}
           ELSE {[at |-> r + Fields[f].offset, bytes |-> ToBytes(Fields[f].type, o.val[f])]
                   : f \in FieldsOf(o.cls)}

StaticsImage(values) ==
    {[at |-> Statics[s].addr, bytes |-> ToBytes(Statics[s].type, values[s])] : s \in DOMAIN Statics}

-----------------------------------------------------------------------------
(* The functions in C. *)

Natives    == {n \in DOMAIN Methods : Methods[n].native}
CAddresses == {CFunction[f] : f \in DOMAIN CFunction} \union {NativeAt(Methods[n]) : n \in Natives}

(* A function that takes its n words of arguments along (__stdcall). *)
Answer(m, n, v) == Return(SetReg(SetReg(SetReg(m, EAX, v), ECX, Junk), EDX, Junk), 4 * n)
Arg(m, i)       == LoadWord(m, m.reg[ESP] + 4 * i)

(* The code is there; jitted_code and the slot of the vtable lead to it.    *)
(* A static method has no slot: its offset leads to the head of its class.  *)
JitAMethod(m) ==
    LET mt  == CHOOSE k \in {Methods[n] : n \in DOMAIN Methods} : MethodAt(k) = Arg(m, 1)
        new == Store(Store(m, MethodAt(mt), 4, EntryAt(mt) - ArrayOverhead),
                     ClassAt[mt.class] + mt.offset, 4, EntryAt(mt))
    IN  CASE \A n \in DOMAIN Methods : MethodAt(Methods[n]) # Arg(m, 1) -> Stop(m)
          [] LoadWord(m, MethodAt(mt)) # StubAt(mt) - ArrayOverhead ->
               Answer(m, 1, LoadWord(m, MethodAt(mt)) + ArrayOverhead)
          [] mt.native /\ Len(Wrapper(mt)) > WrapperSize -> Stop(m)
          [] OTHER -> Answer(new, 1, EntryAt(mt))

ClassNamed(a) == CHOOSE c \in DOMAIN ClassAt : ClassAt[c] = a
ArrayClasses  == [int |-> "I", char |-> "C", byte |-> "B", short |-> "S", long |-> "J"]

(* The heap is all 0 from the start. *)
Allocated(m, n, cls, size) ==
    Answer([Store(m, m.brk, 4, Header(cls)) EXCEPT !.brk = @ + size], n, m.brk)

NewJavaObject(m) ==
    IF Arg(m, 1) \notin {ClassAt[c] : c \in DOMAIN InstanceSize} THEN Stop(m)
    ELSE LET c == ClassNamed(Arg(m, 1)) IN Allocated(m, 1, c, InstanceSize[c])

(* The class is that of the array in place of its number; a length is 16 bits. *)
NewJavaArrayFast(m) ==
    IF Arg(m, 1) \notin {ClassAt[c] : c \in DOMAIN ArrayClasses} THEN Stop(m)
    ELSE LET c   == ClassNamed(Arg(m, 1))
             len == Arg(m, 2) % 65536
         IN  Store(Allocated(m, 2, c, ArrayOverhead + len * Size(ArrayClasses[c])),
                   m.brk + 4, 4, len)

ClassInHeader(m, r) == ClassNamed(LoadWord(m, r) - 1)

Checkcast(m) ==
    LET fits == Arg(m, 2) = 0 \/ ClassNamed(Arg(m, 1)) \in Supers[ClassInHeader(m, Arg(m, 2))]
    IN  IF fits THEN Answer(m, 2, Junk) ELSE Stop(m)

Slot(cls, name) == CHOOSE o \in DOMAIN Vtable[cls] : Methods[Vtable[cls][o]].name = name

InterfaceMethodOffset(m) ==
    LET mt == CHOOSE k \in {Methods[n] : n \in DOMAIN Methods} : MethodAt(k) = Arg(m, 2)
    IN  Answer(m, 2, Slot(ClassNamed(Arg(m, 1)), mt.name))

(* What a native method computes, from the words of its arguments. *)
Weighed(v) == FoldLeft(LAMBDA s, i : Add(s, IF Small(v[i]) THEN i * v[i] ELSE 0), 0, [i \in DOMAIN v |-> i])

CallNative(m, mt) ==
    LET n     == ArgWords(mt)
        first == IF mt.static THEN 2 ELSE 1
        v     == [i \in 1 .. n |-> Arg(m, first + i - 1)]
    IN  IF mt.static /\ Arg(m, 1) # ClassAt[mt.class] THEN Stop(m)
        ELSE Answer(m, n + first - 1, Weighed(v))

CCall(m) ==
    CASE ~Has(m, m.reg[ESP], 4)                       -> Stop(m)
      [] m.pc = CFunction.get_last_exception          -> Answer(m, 0, 0)
      [] m.pc = CFunction.jit_a_method                -> JitAMethod(m)
      [] m.pc = CFunction.new_java_object             -> NewJavaObject(m)
      [] m.pc = CFunction.new_java_array_fast         -> NewJavaArrayFast(m)
      [] m.pc = CFunction.java_object_checkcast       -> Checkcast(m)
      [] m.pc = CFunction.class_get_interface_method_offset -> InterfaceMethodOffset(m)
      [] OTHER -> LET n == CHOOSE k \in Natives : NativeAt(Methods[k]) = m.pc
                  IN  CallNative(m, Methods[n])

(* The machine goes on until it is back where the translation has it. *)
RECURSIVE Go(_, _)
Go(m, code) ==
    LET n == Run(m, code) IN IF n.ok /\ n.pc \in CAddresses THEN Go(CCall(n), code) ELSE n

(* Nothing in the code may count on registers, flags or what was popped. *)
Tidy(m) ==
    [m EXCEPT !.reg[EAX] = Junk, !.reg[ECX] = Junk, !.reg[EDX] = Junk,
              !.zf = FALSE, !.sf = FALSE, !.of = FALSE, !.cf = FALSE,
              !.mem = [a \in DOMAIN m.mem |->
                         IF a >= StackLo /\ a < m.reg[ESP] THEN JunkByte ELSE m.mem[a]]]

FixedCode ==
    {[at |-> Trampoline, bytes |-> NativeToJava]}
    \union {[at |-> StubAt(Methods[n]), bytes |-> Stub(Methods[n])] : n \in DOMAIN Methods}
    \union {[at |-> EntryAt(Methods[n]), bytes |-> IF Methods[n].native THEN Wrapper(Methods[n])
                                                  ELSE Prolog(Methods[n])] : n \in DOMAIN Methods}

Pieces(ks) == FixedCode \union {[at |-> CodeAt(d), bytes |-> ks[d].code] : d \in DOMAIN ks}

Depth  == Len(contexts)
Top    == contexts[Depth]
Frame  == frames[Depth]
AfterCode(ks, d) == CodeAt(d) + Len(ks[d].code)

-----------------------------------------------------------------------------
(* Bytecodes, as the Java machine has them: what operands they take, and   *)
(* what they leave.                                                        *)

(* How the top n operands are shuffled; of those, the last m are moved or  *)
(* copied together.                                                        *)
Shuffle == [POP |-> [n |-> 1, m |-> 1, to |-> <<>>], POP2 |-> [n |-> 2, m |-> 2, to |-> <<>>],
            DUP |-> [n |-> 1, m |-> 1, to |-> <<1, 1>>], DUP_X1 |-> [n |-> 2, m |-> 1, to |-> <<2, 1, 2>>],
            DUP_X2 |-> [n |-> 3, m |-> 1, to |-> <<3, 1, 2, 3>>],
            DUP2 |-> [n |-> 2, m |-> 2, to |-> <<1, 2, 1, 2>>],
            DUP2_X1 |-> [n |-> 3, m |-> 2, to |-> <<2, 3, 1, 2, 3>>],
            DUP2_X2 |-> [n |-> 4, m |-> 2, to |-> <<3, 4, 1, 2, 3, 4>>],
            SWAP |-> [n |-> 2, m |-> 1, to |-> <<2, 1>>]]

Unary == {"INEG", "I2B", "I2C", "I2S"}

ArgTypes(mt) == FlattenSeq([i \in DOMAIN Args(mt) |-> WordTypes(Args(mt)[i])])

Takes(bc) ==
    LET op == bc[1]
        x  == bc[2]
    IN CASE op \in {"ISTORE", "IF", "NEWARRAY"} \union Unary -> <<"I">>
         [] op \in {"ASTORE", "IFNULL", "GETFIELD", "ARRAYLENGTH", "CHECKCAST", "MONITORENTER",
                     "MONITOREXIT", "ATHROW"} -> <<"A">>
         [] op \in {"LSTORE", "LNEG"} -> WordTypes("J")
         [] op \in Arith \ (Unary \union {"LNEG"}) \/ op = "IF_ICMP" -> <<"I", "I">>
         [] op = "IF_ACMP"          -> <<"A", "A">>
         [] op = "PUTSTATIC"        -> WordTypes(Statics[x].type)
         [] op = "PUTFIELD"         -> <<"A">> \o WordTypes(Fields[x].type)
         [] op \in ArrayLoads       -> <<"A", "I">>
         [] op \in DOMAIN Elements \ ArrayLoads -> <<"A", "I">> \o WordTypes(Elements[op])
         [] op \in Invocations      -> ArgTypes(Methods[x])
         [] op \in DOMAIN Returns   -> WordTypes(Returns[op])
         [] OTHER                   -> <<>>

Count(bc)    == IF bc[1] \in Shuffles THEN Shuffle[bc[1]].n ELSE Len(Takes(bc))
Taken(bc)    == SubSeq(Frame.stack, Len(Frame.stack) - Count(bc) + 1, Len(Frame.stack))
Below(bc)    == SubSeq(Frame.stack, 1, Len(Frame.stack) - Count(bc))
Operands(bc) == LET w == Taken(bc) IN [i \in DOMAIN w |-> w[i].v]

ArithOf(op, v) ==
    CASE op = "IADD" -> Add(v[1], v[2])
      [] op = "ISUB" -> Sub(v[1], v[2])
      [] op = "IMUL" -> v[1] * v[2]
      [] op = "IDIV" -> Quotient(v[1], v[2])
      [] op = "IREM" -> Remainder(v[1], v[2])
      [] op = "IAND" -> AndWords(v[1], v[2])
      [] op = "IOR"  -> OrWords(v[1], v[2])
      [] op = "IXOR" -> XorWords(v[1], v[2])
      [] op = "INEG" -> Sub(0, v[1])
      [] op = "I2B"  -> FromWords("B", v)
      [] op = "I2C"  -> FromWords("C", v)
      [] op = "I2S"  -> FromWords("S", v)

(* Two words negated together. *)
Negated(v) == <<Add(Complement(v[1]), IF v[2] = 0 THEN 1 ELSE 0), Sub(0, v[2])>>

FloatBits  == <<0, 1065353216, 1073741824>>     \* of 0, 1 and 2
DoubleHigh == <<0, 1072693248>>                 \* of 0 and 1

(* The words a bytecode leaves that changes nothing but its frame. *)
Gives(bc) ==
    LET op == bc[1]
        x  == bc[2]
        v  == Operands(bc)
    IN CASE op \in {"ICONST", "BIPUSH", "SIPUSH", "LDC"} -> <<Word("I", x)>>
         [] op \in {"ACONST_NULL", "LDC_STRING"} -> <<Word("A", x)>>
         [] op = "FCONST"           -> <<Word("I", FloatBits[x + 1])>>
         [] op = "LCONST"           -> ToWords("J", <<x, 0>>)
         [] op = "DCONST"           -> ToWords("J", <<0, DoubleHigh[x + 1]>>)
         [] op = "LDC2_W"           -> ToWords("J", x)
         [] op \in {"ILOAD", "ALOAD"} -> <<Frame.locals[x]>>
         [] op = "LLOAD"            -> <<Frame.locals[x + 1], Frame.locals[x]>>
         [] op = "LNEG"             -> LET n == Negated(v) IN <<Word("H", n[1]), Word("L", n[2])>>
         [] op \in Arith \ {"LNEG"} -> <<Word("I", ArithOf(op, v))>>
         [] op \in Shuffles         -> LET w == Taken(bc)
                                           s == Shuffle[op].to
                                       IN  [i \in DOMAIN s |-> w[s[i]]]
         [] op = "GETSTATIC"        -> ToWords(Statics[x].type, statics[x])
         [] op = "GETFIELD"         -> ToWords(Fields[x].type, objs[v[1]].val[x])
         [] op \in ArrayLoads       -> ToWords(Elements[op], objs[v[1]].val[v[2] + 1])
         [] op = "ARRAYLENGTH"      -> <<Word("I", Len(objs[v[1]].val))>>
         [] op = "CHECKCAST"        -> Taken(bc)
         [] OTHER                   -> <<>>

Room(bc) ==                         \* the words it leaves, by their number
    CASE bc[1] \in Invocations -> Len(WordTypes(Methods[bc[2]].ret))
      [] bc[1] \in {"NEW", "NEWARRAY", "JSR"} -> 1
      [] bc[1] \in ArrayLoads -> Len(WordTypes(Elements[bc[1]]))
      [] bc[1] = "GETFIELD"   -> Len(WordTypes(Fields[bc[2]].type))
      [] bc[1] = "ARRAYLENGTH" -> 1
      [] bc[1] \in {"IDIV", "IREM"} -> 1
      [] OTHER -> Len(Gives(bc))

(* An object of a kind that the bytecode may be used on, or NULL. *)
Fits(bc, ref) ==
    LET op == bc[1]
        o  == objs[ref]
    IN  ref # 0 =>
           CASE op \in {"GETFIELD", "PUTFIELD"} -> ~IsArray(o) /\ bc[2] \in FieldsOf(o.cls)
             [] op \in DOMAIN Elements -> o.elem = Elements[op]
             [] op = "ARRAYLENGTH"     -> IsArray(o)
             [] op \in Invocations     -> Methods[bc[2]].class \in Supers[o.cls]
             [] OTHER                  -> TRUE

HasReceiver(bc) ==
    \/ bc[1] \in DOMAIN Elements \union {"GETFIELD", "PUTFIELD", "ARRAYLENGTH"}
    \/ bc[1] \in Invocations \ {"INVOKESTATIC"}

Single(f, i) == i \in DOMAIN f.locals => f.locals[i].t \in {"I", "A", "R"}
Pair(f, i)   == {i, i + 1} \subseteq DOMAIN f.locals /\ f.locals[i].t = "L"

LocalFits(bc, mt) ==
    LET op == bc[1]
        i  == bc[2]
    IN CASE op = "ILOAD"  -> i \in DOMAIN Frame.locals /\ Frame.locals[i].t = "I"
         [] op = "IINC"   -> i[1] \in DOMAIN Frame.locals /\ Frame.locals[i[1]].t = "I"
         [] op = "ALOAD"  -> i \in DOMAIN Frame.locals /\ Frame.locals[i].t = "A"
         [] op = "RET"    -> i \in DOMAIN Frame.locals /\ Frame.locals[i].t = "R"
         [] op = "LLOAD"  -> Pair(Frame, i)
         [] op \in {"ISTORE", "ASTORE"} -> i < mt.locals /\ Single(Frame, i)
         [] op = "LSTORE" -> /\ i + 1 < mt.locals
                             /\ Pair(Frame, i) \/ (Single(Frame, i) /\ Single(Frame, i + 1))
         [] op \in DOMAIN Returns -> Returns[op] = (IF mt.ret \in {"B", "C", "S"} THEN "I" ELSE mt.ret)
         [] OTHER -> TRUE

(* Bounds: the products and quotients that Ia32 has, arrays for this heap. *)
Computed(op, w) ==
    /\ op = "IMUL" => Small(w[1].v) /\ Small(w[2].v)
    /\ op \in {"IDIV", "IREM"} => w[2].v # MinInt
    /\ op = "NEWARRAY" => w[1].v <= HeapEnd

(* Nothing splits a long, and the operands stay within max_stack. *)
Legal(bc) ==
    LET op == bc[1]
        mt == Top.mt
        w  == Taken(bc)
    IN  /\ Len(Frame.stack) >= Count(bc)
        /\ IF op \in Shuffles
           THEN w[1].t # "L" /\ w[Len(w) - Shuffle[op].m + 1].t # "L"
           ELSE \A i \in DOMAIN w : \/ w[i].t = Takes(bc)[i]
                                    \/ op = "ASTORE" /\ w[i].t = "R"
        /\ LocalFits(bc, mt)
        /\ HasReceiver(bc) => Fits(bc, w[1].v)
        /\ Computed(op, w)
        /\ Len(Frame.stack) - Count(bc) + Room(bc) <= mt.stack
        /\ op \in Invocations => Depth < MaxDepth

(* Where the Java machine throws an exception, which the code does not. *)
Throws(bc) ==
    LET op == bc[1]
        v  == Operands(bc)
    IN  \/ op = "ATHROW"
        \/ HasReceiver(bc) /\ v[1] = 0
        \/ op \in DOMAIN Elements /\ v[2] \notin 0 .. Len(objs[v[1]].val) - 1
        \/ op \in {"IDIV", "IREM"} /\ v[2] = 0
        \/ op = "NEWARRAY" /\ v[1] < 0
        \/ op = "CHECKCAST" /\ v[1] # 0 /\ bc[2] \notin Supers[objs[v[1]].cls]

Negative(words) == \E i \in DOMAIN words : words[i].v < 0

(* The code does what the Java machine does, with these exceptions. *)
Faithful(bc) ==
    LET op == bc[1]
        x  == bc[2]
        v  == Operands(bc)
    IN  ~ \/ Throws(bc)
          \/ op \in {"BIPUSH", "SIPUSH"} /\ x < 0              \* without their sign
          \/ op \in {"FCONST", "DCONST"} /\ x # 0              \* the int, not the float
          \/ op \in {"LALOAD", "LASTORE", "MONITORENTER", "MONITOREXIT"}
          \/ op = "GETFIELD" /\ Fields[x].type \in {"B", "S"} /\ Negative(Gives(bc))
          \/ op = "GETSTATIC" /\ Statics[x].type \in {"B", "S"} /\ Negative(Gives(bc))
          \/ op \in {"BALOAD", "SALOAD"} /\ Negative(Gives(bc))
          \/ op = "I2C" /\ v[1] % 256 # v[1] % 65536           \* widened from a byte
          \/ op \in {"IDIV", "IREM"} /\ v = <<MinInt, -1>>     \* the processor faults
          \/ op \in {"GETSTATIC", "PUTSTATIC"} /\ Statics[x].type = "J"
          \/ op = "PUTSTATIC" /\ Statics[x].type \in {"C", "S"}  \* address of 16 bits
          \/ op \in Invocations /\ "J" \in ToSet(Methods[x].args)    \* halves swapped

(* After these the flags of the operands need not be right. *)
Soils(bc) ==
    \/ bc[1] = "GETSTATIC" /\ Statics[bc[2]].type # "A"
    \/ /\ bc[1] \in {"DUP_X2", "DUP2_X1", "DUP2_X2", "SWAP"}
       /\ Cardinality({Taken(bc)[i].t = "A" : i \in 1 .. Count(bc)}) = 2

-----------------------------------------------------------------------------
Bytecodes ==
    CASE Frame.todo # <<>> -> {Head(Frame.todo)}
      [] steps < MaxSteps  -> Candidates
      [] OTHER             -> {bc \in Candidates : bc[1] \in DOMAIN Returns}

Counted(bc) == steps' = IF Frame.todo = <<>> /\ bc[1] \notin DOMAIN Returns THEN steps + 1 ELSE steps

(* The next bytecode, when the code that it gets is right. *)
Ready(bc) ==
    /\ bc[1] \notin Unsupported
    /\ Legal(bc)
    /\ FlagsAsExpected(Top, bc[1])
    /\ Faithful(bc)

Translated(bc) ==
    [contexts EXCEPT ![Depth] = [Translate(Top, CodeAt(Depth), bc) EXCEPT !.soiled = @ \/ Soils(bc)]]

Past(f) == [f EXCEPT !.todo = IF @ = <<>> THEN @ ELSE Tail(@)]

(* It leaves these words. *)
Leaves(bc, words) ==
    frames' = [frames EXCEPT ![Depth] = [Past(@) EXCEPT !.stack = Below(bc) \o words]]

(* ks are the contexts with the code of this bytecode. *)
Straight(ks) == contexts' = ks /\ expected' = AfterCode(ks, Depth)

Writes == {"PUTSTATIC", "PUTFIELD"} \union (DOMAIN Elements \ ArrayLoads)
Stores == {"ISTORE", "ASTORE", "LSTORE", "IINC"}
Moves  == (Consts \union Locals \union Shuffles \union Arith \union ArrayLoads
             \union {"GETSTATIC", "GETFIELD", "ARRAYLENGTH", "CHECKCAST", "NOP"}) \ Stores

MoveWords(bc, ks) ==
    /\ bc[1] \in Moves
    /\ Straight(ks)
    /\ Leaves(bc, Gives(bc))
    /\ UNCHANGED <<objs, statics, answer, status>>

SetLocals(bc, ks) ==
    LET op == bc[1]
        i  == bc[2]
        w  == Taken(bc)
        new == CASE op = "IINC"   -> i[1] :> Word("I", Add(Frame.locals[i[1]].v, i[2]))
                 [] op = "LSTORE" -> i :> w[2] @@ (i + 1) :> w[1]
                 [] OTHER         -> i :> w[1]
    IN  /\ bc[1] \in Stores
        /\ Straight(ks)
        /\ frames' = [frames EXCEPT ![Depth] = [Past(@) EXCEPT !.stack = Below(bc),
                                                                !.locals = new @@ @]]
        /\ UNCHANGED <<objs, statics, answer, status>>

Write(bc, ks) ==
    LET op == bc[1]
        x  == bc[2]
        v  == Operands(bc)
    IN  /\ bc[1] \in Writes
        /\ Straight(ks)
        /\ Leaves(bc, <<>>)
        /\ IF op = "PUTSTATIC"
           THEN statics' = [statics EXCEPT ![x] = FromWords(Statics[x].type, v)] /\ UNCHANGED objs
           ELSE /\ objs' = IF op = "PUTFIELD"
                           THEN [objs EXCEPT ![v[1]].val[x] = FromWords(Fields[x].type, Tail(v))]
                           ELSE [objs EXCEPT ![v[1]].val[v[2] + 1] =
                                                FromWords(Elements[op], SubSeq(v, 3, Len(v)))]
                /\ UNCHANGED statics
        /\ UNCHANGED <<answer, status>>

Zero(t) == IF t = "J" THEN <<0, 0>> ELSE 0

NewObject(c)     == [cls |-> c, elem |-> "none", val |-> [f \in FieldsOf(c) |-> Zero(Fields[f].type)]]
NewArray(c, len) == LET t == ArrayClasses[c]
                    IN  [cls |-> c, elem |-> t, val |-> [i \in 1 .. len |-> Zero(t)]]

Allocate(bc, ks) ==
    LET x    == bc[2]
        new  == IF bc[1] = "NEW" THEN NewObject(x) ELSE NewArray(x, Operands(bc)[1])
        size == IF bc[1] = "NEW" THEN InstanceSize[x]
                ELSE ArrayOverhead + Operands(bc)[1] * Size(ArrayClasses[x])
    IN  /\ bc[1] \in {"NEW", "NEWARRAY"}
        /\ machine.brk + size <= HeapEnd
        /\ Straight(ks)
        /\ Leaves(bc, <<Word("A", machine.brk)>>)
        /\ objs' = machine.brk :> new @@ objs
        /\ UNCHANGED <<statics, answer, status>>

Taking(bc) ==
    LET v  == Operands(bc)
        cc == bc[2]
        d  == IF Len(v) = 2 THEN <<v[1], v[2]>> ELSE <<v[1], 0>>
    IN  \/ bc[1] = "GOTO"
        \/ bc[1] # "GOTO" /\ CASE cc = "eq" -> d[1] = d[2] [] cc = "ne" -> d[1] # d[2]
                               [] cc = "lt" -> d[1] < d[2] [] cc = "ge" -> d[1] >= d[2]
                               [] cc = "gt" -> d[1] > d[2] [] cc = "le" -> d[1] <= d[2]

BranchTo(bc, ks) ==
    /\ bc[1] \in Branches
    /\ contexts' = ks
    /\ expected' = AfterCode(ks, Depth) + (IF Taking(bc) THEN Far ELSE 0)
    /\ Leaves(bc, <<>>)
    /\ UNCHANGED <<objs, statics, answer, status>>

JumpToSubroutine(bc, ks) ==
    /\ bc[1] = "JSR"
    /\ contexts' = ks
    /\ expected' = AfterCode(ks, Depth) + Far
    /\ Leaves(bc, <<Word("R", AfterCode(ks, Depth))>>)
    /\ UNCHANGED <<objs, statics, answer, status>>

ReturnFromSubroutine(bc, ks) ==
    /\ bc[1] = "RET"
    /\ contexts' = ks
    /\ expected' = Frame.locals[bc[2]].v
    /\ Leaves(bc, <<>>)
    /\ UNCHANGED <<objs, statics, answer, status>>

(* The method that is called: by the class of the object, or as named. *)
Called(bc) ==
    LET mt  == Methods[bc[2]]
        cls == objs[Operands(bc)[1]].cls
    IN CASE bc[1] = "INVOKEVIRTUAL"   -> Methods[Vtable[cls][mt.offset]]
         [] bc[1] = "INVOKEINTERFACE" -> Methods[Vtable[cls][Slot(cls, mt.name)]]
         [] OTHER                     -> mt

Context(mt)       == [mt |-> mt, flags |-> <<>>, code |-> <<>>, soiled |-> FALSE]

(* The low half of a long is the first of its locals. *)
AsLocal(w, i) == CASE w[i].t = "H" -> w[i + 1] [] w[i].t = "L" -> w[i - 1] [] OTHER -> w[i]

Entered(w, first) ==
    [locals |-> [i \in 0 .. Len(w) - 1 |-> AsLocal(w, i + 1)], stack |-> <<>>, todo |-> first]

Invoke(bc, ks) ==
    /\ bc[1] \in Invocations
    /\ ~Called(bc).native
    /\ \E first \in Called(bc).bodies :
         LET f == [Past(Frame) EXCEPT !.stack = Below(bc)]
         IN  /\ contexts' = Append(ks, Context(Called(bc)))
             /\ expected' = EntryAt(Called(bc)) + Len(Prolog(Called(bc)))
             /\ frames' = Append([frames EXCEPT ![Depth] = f], Entered(Taken(bc), first))
    /\ UNCHANGED <<objs, statics, answer, status>>

InvokeNative(bc, ks) ==
    LET mt    == Called(bc)
        value == Weighed(Operands(bc))
    IN  /\ bc[1] \in Invocations
        /\ mt.native
        /\ Straight(ks)
        /\ Leaves(bc, ToWords(mt.ret, value))
        /\ UNCHANGED <<objs, statics, answer, status>>

ReturnToCaller(bc, ks) ==
    LET d == Depth - 1
    IN  /\ Depth > 1
        /\ bc[1] \in DOMAIN Returns
        /\ contexts' = Front(ks)
        /\ expected' = AfterCode(ks, d)
        /\ frames' = [Front(frames) EXCEPT ![d].stack = @ \o Taken(bc)]
        /\ UNCHANGED <<objs, statics, answer, status>>

ReturnToC(bc, ks) ==
    /\ Depth = 1
    /\ bc[1] \in DOMAIN Returns
    /\ contexts' = <<>>
    /\ expected' = CReturn
    /\ frames' = <<>>
    /\ answer' = Taken(bc)
    /\ status' = "done"
    /\ UNCHANGED <<objs, statics>>

(* The translation stops, or it goes wrong. *)
Halts(how) ==
    /\ status' = how
    /\ UNCHANGED <<machine, contexts, frames, objs, statics, expected, answer, steps>>

Mistranslate(bc) == Legal(bc) /\ ~Faithful(bc) /\ Halts("astray")
AssertFails(bc)  == Legal(bc) /\ ~FlagsAsExpected(Top, bc[1]) /\ Halts("assert")
AssertsZero(bc)  == bc[1] \in Unsupported /\ Halts("assert(0)")

-----------------------------------------------------------------------------
(* C calls a static method (execute_java_method_ia32): the arguments are in *)
(* memory, and on the stack are those of the trampoline.                    *)
CallFromC(main) ==
    LET mt    == Methods[main.method]
        n     == DescriptorWords(mt)
        words == <<CReturn, n, ArgsAt, StubAt(mt), 4 * n, EaxVar, EdxVar>>
        dwords(s) == FlattenSeq([i \in DOMAIN s |-> Dword(s[i])])
        esp   == StackTop - 4 * Len(words)
        image == {[at |-> esp, bytes |-> dwords(words)],
                  [at |-> ArgsAt, bytes |-> dwords([i \in 1 .. n |-> main.args[i].v])]}
                 \union {[at |-> MethodAt(Methods[k]), bytes |-> Dword(StubAt(Methods[k]) - ArrayOverhead)]
                           : k \in DOMAIN Methods}
                 \union UNION {{[at |-> ClassAt[c] + o, bytes |-> Dword(StubAt(Methods[Vtable[c][o]]))]
                                  : o \in DOMAIN Vtable[c]} : c \in DOMAIN Vtable}
                 \union StaticsImage(StaticValues)
                 \union UNION {ObjectImage(r, Objects[r]) : r \in DOMAIN Objects}
    IN  [mem |-> [a \in MemLo .. StackTop - 1 |-> Fetch(image, a)],
         reg |-> [r \in 0 .. 7 |-> IF r = ESP THEN esp ELSE r + 1],
         pc |-> Trampoline, zf |-> FALSE, sf |-> FALSE, of |-> FALSE, cf |-> FALSE, ok |-> TRUE,
         brk |-> HeapStart]

Init ==
    \E main \in Mains :
      LET mt == Methods[main.method]
          ks == <<Context(mt)>>
      IN  /\ machine = Tidy(Go(CallFromC(main), Pieces(ks)))
          /\ contexts = ks
          /\ frames = <<Entered(main.args, main.todo)>>
          /\ objs = Objects /\ statics = StaticValues
          /\ expected = EntryAt(mt) + Len(Prolog(mt))
          /\ answer = <<>> /\ steps = 0 /\ status = "running"

Runs(bc, ks) ==
    /\ machine' = Tidy(Go(Goto(machine, CodeAt(Depth)), Pieces(ks)))
    /\ \/ MoveWords(bc, ks) \/ SetLocals(bc, ks) \/ Write(bc, ks) \/ Allocate(bc, ks)
       \/ BranchTo(bc, ks) \/ JumpToSubroutine(bc, ks)
       \/ ReturnFromSubroutine(bc, ks) \/ Invoke(bc, ks) \/ InvokeNative(bc, ks)
       \/ ReturnToCaller(bc, ks) \/ ReturnToC(bc, ks)

Next ==
    /\ status = "running"
    /\ \E bc \in Bytecodes :
         \/ Ready(bc) /\ Counted(bc) /\ Runs(bc, Translated(bc))
         \/ Mistranslate(bc) \/ AssertFails(bc) \/ AssertsZero(bc)

Spec == Init /\ [][Next]_vars

-----------------------------------------------------------------------------
Held(a, size) == IF Has(machine, a, size) THEN [i \in 1 .. size |-> machine.mem[a + i - 1]] ELSE <<>>
Holds(a, v)   == Held(a, 4) = Dword(v)
HoldsAll(image) == \A p \in image : Held(p.at, Len(p.bytes)) = p.bytes

(* Where ebp was in each frame, from the chain of saved ones. *)
FrameBase ==
    LET up[n \in Nat] == IF n = 0 THEN machine.reg[EBP]
                         ELSE IF Has(machine, up[n - 1], 4) THEN LoadWord(machine, up[n - 1]) ELSE 0
    IN  [d \in 1 .. Depth |-> up[Depth - d]]

FrameHolds(mt, f, base) ==
    /\ Holds(base + Layout!SavedMethod, MethodAt(mt))
    /\ \A i \in DOMAIN f.locals : Holds(base + Layout!LocalOffset(ArgWords(mt), i), f.locals[i].v)
    /\ \A i \in DOMAIN f.stack :
         Holds(base + Layout!StackOffset(ArgWords(mt), mt.locals, i - 1), f.stack[i].v)

(* As long as nothing is mistranslated, the native code does what the Java *)
(* machine does: the machine is at the code of the next bytecode, with the *)
(* stack pointer at the top operand; the locals and operands of every      *)
(* frame are on the stack where the translation looks for them, and the    *)
(* objects and static fields in memory have the values they should have.   *)
(* When the outermost method has returned, C finds its registers as it     *)
(* left them, and the result.                                              *)
WordsAgree ==
    status \in {"running", "done"} =>
      /\ machine.ok /\ machine.pc = expected
      /\ \A r \in DOMAIN objs : HoldsAll(ObjectImage(r, objs[r]))
      /\ HoldsAll(StaticsImage(statics))
      /\ \A d \in 1 .. Depth : FrameHolds(contexts[d].mt, frames[d], FrameBase[d])
      /\ status = "running" =>
           LET mt == Top.mt
           IN  machine.reg[ESP] = machine.reg[EBP] + Layout!FrameSize(ArgWords(mt), mt.locals)
                                    - 4 * Len(Frame.stack)
      /\ status = "done" =>
           /\ \A r \in {EBX, EBP, ESI, EDI} : machine.reg[r] = r + 1
           /\ machine.reg[ESP] = StackTop - 24
           /\ Len(answer) > 0 => Holds(EaxVar, answer[Len(answer)].v)
           /\ Len(answer) = 2 => Holds(EdxVar, answer[1].v)

(* The mimic stack knows which operands are references, except after the   *)
(* bytecodes that do not keep it, and only after those does an assertion   *)
(* of select_code about them fail.                                         *)
FlagsTell ==
    /\ \A d \in 1 .. Depth :
         LET k == contexts[d]
             s == frames[d].stack
         IN  /\ d = Depth => Len(k.flags) = Len(s)
             /\ ~k.soiled => \A i \in DOMAIN s : k.flags[i] = (s[i].t = "A")
    /\ status = "assert" => Top.soiled
=============================================================================
