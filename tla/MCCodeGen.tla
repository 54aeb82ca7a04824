----------------------------- MODULE MCCodeGen -----------------------------
(* Instances of CodeGen for TLC: every method of a few basic blocks, and    *)
(* methods with handlers and subroutines, behind paddings that let the      *)
(* buffer move at different places.  Sizes are those of the encoder.        *)
EXTENDS CodeGen, SequencesExt, FiniteSetsExt

Inst1(op, len, size, effect) ==
    [op |-> op, len |-> len, size |-> size, to |-> 0, effect |-> effect, mimic |-> effect]

Nop     == Inst1("plain", 1, 0, 0)
Iload   == Inst1("plain", 1, 4, 1)
Astore  == Inst1("plain", 1, 4, -1)
Iinc    == Inst1("plain", 3, 7, 0)
Dup     == Inst1("plain", 1, 4, 1)
Pop     == Inst1("plain", 1, 1, -1)
Ireturn == Inst1("return", 1, 6, -1)
Return0 == Inst1("return", 1, 5, 0)
Throw   == Inst1("throw", 1, 7, -1)
Ret     == Inst1("ret", 2, 3, 0)
Aload   == Inst1("plain", 1, 4, 1)
Lstore  == Inst1("plain", 1, 8, -2)
Laload  == [Inst1("plain", 1, 16, 0) EXCEPT !.mimic = 1]
Monitor == [Inst1("plain", 1, 0, -1) EXCEPT !.mimic = 0]
InvokeInterface == Inst1("plain", 5, 50, -1)
(* The target of these is, until assembled, the number of an instruction. *)
Ifeq(k)   == [Inst1("if", 3, 9, -1) EXCEPT !.to = k]
GotoTo(k) == [Inst1("goto", 3, 5, 0) EXCEPT !.to = k]
JsrTo(k)  == [Inst1("jsr", 3, 10, 1) EXCEPT !.to = k]

(* The index of each instruction of a list, and of the end.                *)
Indexes(list) == FoldLeft(LAMBDA is, inst : Append(is, Last(is) + inst.len), <<0>>, list)

Number(index, i) == CHOOSE k \in DOMAIN index : index[k] = i

(* The method with these instructions and handlers, as a set; its depths    *)
(* are given.  (Values that are used often are bound, so that TLC evaluates *)
(* them once.)                                                              *)
Method(list, handlers, depths) ==
    {[code |-> [i \in Range(Front(index)) |->
                  LET inst == list[Number(index, i)]
                  IN IF inst.op \in Jumps THEN [inst EXCEPT !.to = index[inst.to]] ELSE inst],
      length   |-> Last(index),
      handlers |-> [k \in DOMAIN handlers |-> index[handlers[k]]],
      depth    |-> [i \in Range(Front(index)) |-> depths[Number(index, i)]]] :
        index \in {Indexes(list)}}

(* A basic block is some work, a test with a branch, a jump or a return;   *)
(* targets are the numbers of blocks.                                      *)
Block(b) == CASE b[1] = "work" -> <<Iinc>>
              [] b[1] = "test" -> <<Iload, Ifeq(b[2])>>
              [] b[1] = "goto" -> <<GotoTo(b[2])>>
              [] OTHER         -> <<Return0>>

Blocks(n) == {<<"work">>, <<"return">>} \union ({"test", "goto"} \X (1 .. n))

Steps(bs, k) == (IF bs[k][1] \in {"work", "test"} THEN {k + 1} ELSE {})
                  \union (IF bs[k][1] \in {"test", "goto"} THEN {bs[k][2]} ELSE {})

Reachable(bs) ==
    FoldLeft(LAMBDA found, k : found \union UNION {Steps(bs, b) : b \in found},
             {1}, [k \in DOMAIN bs |-> k]) = DOMAIN bs

Padding(pad) == [k \in 1 .. pad |-> Nop]

OfBlocks(bs, pad) ==
    LET first(k) == pad + 1 + Len(FlattenSeq([b \in 1 .. k - 1 |-> Block(bs[b])]))
        block(k) == IF Len(bs[k]) = 2 THEN Block(<<bs[k][1], first(bs[k][2])>>) ELSE Block(bs[k])
    IN UNION {Method(list, <<>>, [k \in DOMAIN list |-> IF list[k].op = "if" THEN 1 ELSE 0]) :
                list \in {Padding(pad) \o FlattenSeq([k \in DOMAIN bs |-> block(k)])}}

Structured(n) ==
    {bs \in [1 .. n -> Blocks(n)] : bs[n][1] \in {"goto", "return"} /\ Reachable(bs)}

(* A value that stays on the stack around a condition, a handler in a loop, *)
(* a finally clause as a subroutine that has a branch of its own, the same   *)
(* called from a handler too, two subroutines, one that is called from a    *)
(* handler before code that is translated, and nops before such code.       *)
Others == UNION
    {Method(<<Iload, Dup, Ifeq(6), Iload, GotoTo(7), Dup, Pop, Ireturn>>, <<>>,
            <<0, 1, 2, 1, 2, 1, 2, 1>>),
     Method(<<Iload, Ifeq(5), Iinc, GotoTo(1), Return0, Astore, GotoTo(1)>>, <<6>>,
            <<0, 1, 0, 0, 0, 1, 0>>),
     Method(<<Iinc, JsrTo(6), Return0, Astore, GotoTo(1), Astore, Iload, Ifeq(10), Iinc, Ret>>,
            <<4>>, <<0, 0, 0, 1, 0, 1, 0, 1, 0, 0>>),
     Method(<<JsrTo(7), Return0, Astore, JsrTo(7), Iload, Throw, Astore, Ret>>, <<3>>,
            <<0, 0, 1, 0, 0, 1, 1, 0>>),
     Method(<<JsrTo(5), JsrTo(7), Iload, Ireturn, Astore, Ret, Astore, GotoTo(9), Iinc, Ret>>, <<>>,
            <<0, 0, 0, 1, 1, 0, 1, 0, 0, 0>>),
     Method(<<GotoTo(3), JsrTo(5), Iinc, Return0, Astore, Ret, Astore, GotoTo(2)>>, <<7>>,
            <<0, 0, 0, 0, 1, 0, 1, 0>>),
     Method(<<Iload, Ifeq(4), GotoTo(6), Nop, Nop, Return0>>, <<>>, <<0, 1, 0, 0, 0, 0>>)}

(* A loop that loads longs from an array, and a block that is synchronized. *)
Mismatched == UNION
    {Method(<<Aload, Iload, Laload, Lstore, Iload, Ifeq(1), Return0>>, <<>>, <<0, 1, 2, 2, 0, 1, 0>>),
     Method(<<Aload, Monitor, Iload, Ifeq(6), Iinc, Aload, Monitor, Return0, Astore, GotoTo(8)>>,
            <<9>>, <<0, 1, 0, 1, 0, 0, 1, 0, 1, 0>>)}

(* Calls one after the other.  The buffer of the first method cannot be    *)
(* doubled when it is full, nor that of the second, which is short to begin *)
(* with; that of the third has a length of zero.                            *)
Calling(n) == FlattenSeq([k \in 1 .. n |-> <<Aload, InvokeInterface>>])

Long == UNION {Method(list, <<>>, [k \in DOMAIN list |-> IF list[k] = InvokeInterface THEN 1 ELSE 0]) :
                 list \in {Calling(12) \o <<Return0>>, Calling(22) \o <<Return0>>,
                          Calling(21) \o <<Nop, Return0>>}}

Pads == {0, 3, 6, 9}

AllPrograms ==
    Others \union Mismatched \union Long \union UNION {OfBlocks(bs, pad) : bs \in Structured(4), pad \in Pads}

(* A name of its own, which TLC evaluates once. *)
MCPrograms == AllPrograms
=============================================================================
