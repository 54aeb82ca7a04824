-------------------------------- MODULE Ia32 --------------------------------
(***************************************************************************)
(* The processor, as far as the code emitter uses it.  A machine has reg,  *)
(* the registers by their numbers; mem, its memory by bytes; pc; the flags *)
(* zf, sf, of, and cf where it is used; and ok, that it has met nothing it *)
(* cannot do: an access outside the memory, an instruction that is not     *)
(* here, a division that faults.  Words are signed ints.                   *)
(***************************************************************************)
EXTENDS X86Encoder

LOCAL INSTANCE Bitwise

MaxInt == 2147483647
MinInt == -MaxInt - 1

(* Arithmetic of 32 bits. *)
Add(x, y) ==
    CASE x > 0 /\ y > 0 /\ x > MaxInt - y -> (x + MinInt) + (y + MinInt)
      [] x < 0 /\ y < 0 /\ x < MinInt - y -> (x - MinInt) + (y - MinInt)
      [] OTHER -> x + y

Complement(x) == -1 - x
Sub(x, y) == Add(Add(x, Complement(y)), 1)
Twice(x)  == Add(x, x)

ShiftLeft(x, n) == CASE n = 0 -> x [] n = 1 -> Twice(x) [] n = 2 -> Twice(Twice(x))
                     [] n = 3 -> Twice(Twice(Twice(x)))

SignedByte(b) == IF b < 128 THEN b ELSE b - 256
SignedHalf(h) == IF h < 32768 THEN h ELSE h - 65536

(* The word, half or byte with these bytes; halves and bytes are unsigned. *)
Value(b) ==
    CASE Len(b) = 1 -> b[1]
      [] Len(b) = 2 -> b[1] + 256 * b[2]
      [] Len(b) = 4 -> b[1] + 256 * b[2] + 65536 * b[3] + 16777216 * SignedByte(b[4])

Bytes(v, size) == SubSeq(Dword(v), 1, size)

Bytewise(Op(_, _), x, y) ==
    LET a == Dword(x)
        b == Dword(y)
    IN  Value([i \in 1 .. 4 |-> Op(a[i], b[i])])

AndWords(x, y) == Bytewise(LAMBDA a, b : a & b, x, y)
OrWords(x, y)  == Bytewise(LAMBDA a, b : a | b, x, y)
XorWords(x, y) == Bytewise(LAMBDA a, b : a ^^ b, x, y)

Small(x) == x \in -30000 .. 30000        \* products of these are words

(* Towards zero; y is not 0, nor the least of ints. *)
Quotient(x, y) ==
    LET d == IF y < 0 THEN -y ELSE y
        q == (x \div d) + (IF x < 0 /\ x % d # 0 THEN 1 ELSE 0)
    IN  IF y < 0 THEN -q ELSE q
Remainder(x, y) == x - y * Quotient(x, y)

-----------------------------------------------------------------------------
Stop(m) == [m EXCEPT !.ok = FALSE]

Has(m, a, size)  == {a, a + size - 1} \subseteq DOMAIN m.mem
Load(m, a, size) == Value([i \in 1 .. size |-> m.mem[a + i - 1]])
LoadWord(m, a)   == Load(m, a, 4)

Store(m, a, size, v) ==
    LET b == Bytes(v, size) IN
    CASE ~Has(m, a, size) -> Stop(m)
      [] size = 1 -> [m EXCEPT !.mem[a] = b[1]]
      [] size = 2 -> [m EXCEPT !.mem[a] = b[1], !.mem[a + 1] = b[2]]
      [] size = 4 -> [m EXCEPT !.mem[a] = b[1], !.mem[a + 1] = b[2],
                               !.mem[a + 2] = b[3], !.mem[a + 3] = b[4]]

SetReg(m, r, v) == [m EXCEPT !.reg[r] = v]
Goto(m, a)      == [m EXCEPT !.pc = a]

PushWord(m, v) == Store(SetReg(m, ESP, m.reg[ESP] - 4), m.reg[ESP] - 4, 4, v)
PopWord(m, r) ==
    IF ~Has(m, m.reg[ESP], 4) THEN Stop(m)
    ELSE SetReg(SetReg(m, ESP, m.reg[ESP] + 4), r, LoadWord(m, m.reg[ESP]))

(* A return that takes n bytes of arguments along. *)
Return(m, n) ==
    IF ~Has(m, m.reg[ESP], 4) THEN Stop(m)
    ELSE [SetReg(m, ESP, m.reg[ESP] + 4 + n) EXCEPT !.pc = LoadWord(m, m.reg[ESP])]

CallTo(m, back, target) == Goto(PushWord(m, back), target)

-----------------------------------------------------------------------------
(* Code is a set of pieces, each with its address and bytes. *)
Covers(piece, a) == a >= piece.at /\ a < piece.at + Len(piece.bytes)
InCode(code, a)  == \E piece \in code : Covers(piece, a)
Fetch(code, a) ==
    IF InCode(code, a)
    THEN LET piece == CHOOSE p \in code : Covers(p, a) IN piece.bytes[a - piece.at + 1]
    ELSE 0
FetchValue(code, a, size) == Value([i \in 1 .. size |-> Fetch(code, a + i - 1)])

(* The operand that a mod-r/m byte at a stands for: a register, or memory  *)
(* at an address; with what is in the middle of the byte, and where the    *)
(* instruction goes on.                                                    *)
Operand(m, code, a) ==
    LET b     == Fetch(code, a)
        mod   == b \div 64
        sib   == b % 8 = ESP
        s     == Fetch(code, a + 1)
        from  == IF sib THEN a + 2 ELSE a + 1
        disp  == IF mod = 1 THEN SignedByte(Fetch(code, from)) ELSE FetchValue(code, from, 4)
        index == (s \div 8) % 8
        base  == m.reg[IF sib THEN s % 8 ELSE b % 8]
        there == IF sib /\ index # ESP THEN Add(base, ShiftLeft(m.reg[index], s \div 64))
                 ELSE base
    IN  CASE mod = 0 -> [kind |-> "none", mid |-> 0, next |-> a]
          [] mod = 3 -> [kind |-> "reg", r |-> b % 8, mid |-> (b \div 8) % 8, next |-> a + 1]
          [] OTHER   -> [kind |-> "mem", a |-> Add(there, disp), mid |-> (b \div 8) % 8,
                         next |-> IF mod = 1 THEN from + 1 ELSE from + 4]

Usable(m, o, size) ==
    \/ o.kind = "reg" /\ (size = 1 => o.r < 4)
    \/ o.kind = "mem" /\ Has(m, o.a, size)

Get(m, o, size) ==
    IF o.kind = "reg" THEN Value(Bytes(m.reg[o.r], size)) ELSE Load(m, o.a, size)

(* A part of a register leaves the rest of it alone. *)
Put(m, o, size, v) ==
    IF o.kind = "mem" THEN Store(m, o.a, size, v)
    ELSE SetReg(m, o.r, Value(Bytes(v, size) \o SubSeq(Dword(m.reg[o.r]), size + 1, 4)))

Register(r) == [kind |-> "reg", r |-> r]

Flagged(m, r, of) == [m EXCEPT !.zf = (r = 0), !.sf = (r < 0), !.of = of, !.cf = FALSE]

(* The arithmetic of two words; op is its number in the instruction. *)
Arithmetic(m, op, o, x, y) ==
    LET r == CASE op = 0 -> Add(x, y)
               [] op = 1 -> OrWords(x, y)
               [] op = 2 -> Add(Add(x, y), IF m.cf THEN 1 ELSE 0)
               [] op = 4 -> AndWords(x, y)
               [] op \in {5, 7} -> Sub(x, y)
               [] op = 6 -> XorWords(x, y)
        of == CASE op \in {0, 2} -> (x < 0) = (y < 0) /\ (r < 0) # (x < 0)
                [] op \in {5, 7} -> (x < 0) # (y < 0) /\ (r < 0) # (x < 0)
                [] OTHER -> FALSE
        flagged == Flagged(m, r, of)
    IN  IF op = 3 THEN Stop(m) ELSE IF op = 7 THEN flagged ELSE Put(flagged, o, 4, r)

Condition(m, cc) ==
    CASE cc = CC.eq -> m.zf
      [] cc = CC.ne -> ~m.zf
      [] cc = CC.lt -> m.sf # m.of
      [] cc = CC.ge -> m.sf = m.of
      [] cc = CC.le -> m.zf \/ m.sf # m.of
      [] cc = CC.gt -> ~m.zf /\ m.sf = m.of

(* The instructions whose opcode is 247 and 255, by what is in the middle  *)
(* of the byte after it.                                                   *)
Group3(m, o) ==
    LET x == Get(m, o, 4)
        a == m.reg[EAX]
    IN CASE o.mid = 3 ->
              [Put(Flagged(m, Sub(0, x), x = MinInt), o, 4, Sub(0, x)) EXCEPT !.cf = (x # 0)]
         [] o.mid = 5 /\ Small(x) /\ Small(a) ->
              SetReg(SetReg(m, EAX, a * x), EDX, IF a * x < 0 THEN -1 ELSE 0)
         [] /\ o.mid = 7 /\ x \notin {0, MinInt} /\ <<a, x>> # <<MinInt, -1>>
            /\ m.reg[EDX] = (IF a < 0 THEN -1 ELSE 0) ->
              SetReg(SetReg(m, EAX, Quotient(a, x)), EDX, Remainder(a, x))
         [] OTHER -> Stop(m)

Group5(m, o) ==
    LET x == Get(m, o, 4) IN
    CASE o.mid = 2 -> CallTo(m, o.next, x)
      [] o.mid = 4 -> Goto(m, x)
      [] o.mid = 6 -> PushWord(m, x)
      [] OTHER -> Stop(m)

(* The instructions of two bytes of opcode. *)
TwoByte(m, code, at, op, o) ==
    LET n == Goto(m, o.next) IN
    CASE op \in {182, 190} /\ Usable(m, o, 1) ->
           SetReg(n, o.mid, IF op = 190 THEN SignedByte(Get(m, o, 1)) ELSE Get(m, o, 1))
      [] op \in {183, 191} /\ Usable(m, o, 2) ->
           SetReg(n, o.mid, IF op = 191 THEN SignedHalf(Get(m, o, 2)) ELSE Get(m, o, 2))
      [] op - 16 \in {CC[c] : c \in {"eq", "ne", "lt", "ge", "le", "gt"}} ->
           Goto(m, at + 4 + (IF Condition(m, op - 16) THEN FetchValue(code, at, 4) ELSE 0))
      [] OTHER -> Stop(m)

(* The instruction with this opcode, its operands at this address; o is    *)
(* what a mod-r/m byte there would stand for.                              *)
Execute(m, code, half, at, op, o) ==
    LET byte2 == Fetch(code, at)
        size == IF op % 2 = 0 THEN 1 ELSE IF half THEN 2 ELSE 4
        imm  == FetchValue(code, at, 4)
        n    == Goto(m, o.next)
        r    == Register(o.mid)
    IN CASE op \in 80 .. 87   -> PushWord(Goto(m, at), m.reg[op - 80])
         [] op \in 88 .. 95   -> PopWord(Goto(m, at), op - 88)
         [] op = 104          -> PushWord(Goto(m, at + 4), imm)
         [] op \in 184 .. 191 -> SetReg(Goto(m, at + 4), op - 184, imm)
         [] op \in {136, 137} /\ Usable(m, o, size) /\ Usable(m, r, size) ->
              Put(n, o, size, Get(m, r, size))
         [] op \in {138, 139} /\ Usable(m, o, size) /\ Usable(m, r, size) ->
              Put(n, r, size, Get(m, o, size))
         [] op \in {160, 161} /\ Has(m, imm, size) ->
              Put(Goto(m, at + 4), Register(EAX), size, Load(m, imm, size))
         [] op \in {162, 163} ->
              Store(Goto(m, at + 4), imm, size, Value(Bytes(m.reg[EAX], size)))
         [] op < 64 /\ op % 8 = 1 /\ Usable(m, o, 4) ->
              Arithmetic(n, op \div 8, o, Get(m, o, 4), m.reg[o.mid])
         [] op < 64 /\ op % 8 = 3 /\ Usable(m, o, 4) ->
              Arithmetic(n, op \div 8, r, m.reg[o.mid], Get(m, o, 4))
         [] op < 64 /\ op % 8 = 5 ->
              Arithmetic(Goto(m, at + 4), op \div 8, Register(EAX), m.reg[EAX], imm)
         [] op = 129 /\ Usable(m, o, 4) ->
              Arithmetic(Goto(m, o.next + 4), o.mid, o, Get(m, o, 4),
                         FetchValue(code, o.next, 4))
         [] op = 247 /\ Usable(m, o, 4) -> Group3(n, o)
         [] op = 255 /\ Usable(m, o, 4) -> Group5(n, o)
         [] op = 153          -> SetReg(Goto(m, at), EDX, IF m.reg[EAX] < 0 THEN -1 ELSE 0)
         [] op \in 72 .. 79   ->
              LET x == Sub(m.reg[op - 72], 1)
              IN  SetReg(Flagged(Goto(m, at), x, x = MaxInt), op - 72, x)
         [] op = 15 -> TwoByte(m, code, at + 1, byte2, Operand(m, code, at + 1))
         [] op \in {CC.eq, CC.ne} ->
              Goto(m, at + 1 + (IF Condition(m, op) THEN SignedByte(byte2) ELSE 0))
         [] op = 232          -> CallTo(m, at + 4, at + 4 + imm)
         [] op = 233          -> Goto(m, at + 4 + imm)
         [] op = 235          -> Goto(m, at + 1 + SignedByte(byte2))
         [] op = 195          -> Return(m, 0)
         [] op = 194          -> Return(m, FetchValue(code, at, 2))
         [] OTHER             -> Stop(m)

(* One instruction, which may begin with the prefix for halves of words. *)
Instruction(m, code) ==
    LET half == Fetch(code, m.pc) = 102
        at   == IF half THEN m.pc + 2 ELSE m.pc + 1
    IN  Execute(m, code, half, at, Fetch(code, at - 1), Operand(m, code, at))

(* The machine runs until it leaves the code or stops. *)
RECURSIVE Run(_, _)
Run(m, code) == IF m.ok /\ InCode(code, m.pc) THEN Run(Instruction(m, code), code) ELSE m
=============================================================================
