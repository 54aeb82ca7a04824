----------------------------- MODULE X86Encoder -----------------------------
(***************************************************************************)
(* The code emitter of ia32_jit/x86.cpp: functions that append the bytes   *)
(* of one instruction to a buffer.  Here each is the sequence of bytes it  *)
(* appends.  A register is its number, an operand in memory a record, and  *)
(* an immediate operand an int.  korp_ia32_mode is split: which operands   *)
(* there are is in the name of an operator or in kind, their width in      *)
(* size.  The modes that no caller uses are left out.                      *)
(***************************************************************************)
EXTENDS Integers, Sequences

EAX == 0
ECX == 1
EDX == 2
EBX == 3
ESP == 4
EBP == 5
ESI == 6
EDI == 7

(* imm_opnd_inst, by the size of the operand *)
Byte(v)  == <<v % 256>>
Half(v)  == <<v % 256, (v \div 256) % 256>>
Dword(v) == <<v % 256, (v \div 256) % 256, (v \div 65536) % 256, (v \div 16777216) % 256>>

OpndSizePrefix(size) == IF size = "w" THEN <<102>> ELSE <<>>
AddrModePrefix       == <<103>>
Wide(size)           == IF size = "b" THEN 0 ELSE 1    \* opcodes come in pairs

(* Operands in memory: at a register and a displacement, with a scaled     *)
(* index in between, or at an address (mem_base_opnd, mem_opnd,            *)
(* mem_addr_opnd).                                                         *)
Base(base, disp) == [kind |-> "base", base |-> base, disp |-> disp]
Scaled(scale, index, base, disp) ==
    [kind |-> "sib", scale |-> scale, index |-> index, base |-> base, disp |-> disp]
Address(disp) == [kind |-> "default", disp |-> disp]

Modrm(mod, regop, rm)   == <<(mod % 4) * 64 + (regop % 8) * 8 + (rm % 8)>>
Sib(scale, index, base) == <<(scale % 4) * 64 + (index % 8) * 8 + (base % 8)>>

Disp8(disp)    == disp \in -128 .. 127
Disp(disp)     == IF Disp8(disp) THEN Byte(disp) ELSE Dword(disp)
DispMod(disp)  == IF Disp8(disp) THEN 1 ELSE 2

(* mem_inst.  An address gets the mode of a register, and a displacement   *)
(* that the processor takes for code.                                      *)
MemInst(mem, regop) ==
    CASE mem.kind = "base" ->
            Modrm(DispMod(mem.disp), regop, mem.base)
            \o (IF mem.base = ESP THEN Sib(0, ESP, ESP) ELSE <<>>)
            \o Disp(mem.disp)
      [] mem.kind = "sib" ->
            Modrm(DispMod(mem.disp), regop, ESP)
            \o Sib(mem.scale, mem.index, mem.base) \o Disp(mem.disp)
      [] mem.kind = "default" ->
            Modrm(3, regop, EBP) \o Dword(mem.disp)

(* rm_opnd_inst: the kind of the operand that is not the register. *)
RmOpnd(opnd, regop, kind) ==
    IF kind \in {"r", "rr", "ri"} THEN Modrm(3, regop, opnd) ELSE MemInst(opnd, regop)

-----------------------------------------------------------------------------
(* mov, by the kind of its operands *)

MovRegImm(r, v) == <<184 + r>> \o Dword(v)

Short(r, mem) == r = EAX /\ mem.kind = "default"

MovRegMem(r, mem, size) ==
    OpndSizePrefix(size)
    \o (IF Short(r, mem) THEN <<160 + Wide(size)>> \o Dword(mem.disp)
        ELSE <<138 + Wide(size)>> \o MemInst(mem, r))

(* A half of eax gets the prefix for the size of addresses besides. *)
MovMemReg(mem, r, size) ==
    OpndSizePrefix(size)
    \o (IF r = EAX /\ size = "w" THEN AddrModePrefix ELSE <<>>)
    \o (IF Short(r, mem) THEN <<162 + Wide(size)>> \o Dword(mem.disp)
        ELSE <<136 + Wide(size)>> \o MemInst(mem, r))

MovRegReg(to, from) == <<137>> \o Modrm(3, from, to)

-----------------------------------------------------------------------------
(* binalu and unialu; alu_op is the table that x86_init fills. *)

Alu == [add |-> 0, or |-> 1, adc |-> 2, sbb |-> 3, and |-> 4, sub |-> 5, xor |-> 6, cmp |-> 7]

BinaluRegMem(op, r, mem)  == <<8 * Alu[op] + 3>> \o MemInst(mem, r)
BinaluMemReg(op, mem, r)  == <<8 * Alu[op] + 1>> \o MemInst(mem, r)
BinaluRegReg(op, to, from) == <<8 * Alu[op] + 1>> \o Modrm(3, from, to)
BinaluRegImm(op, r, v) ==
    (IF r = EAX THEN <<8 * Alu[op] + 5>> ELSE <<129>> \o Modrm(3, Alu[op], r)) \o Dword(v)
BinaluMemImm(op, mem, v) == <<129>> \o MemInst(mem, Alu[op]) \o Dword(v)

Dec(r) == <<72 + r>>
Neg(opnd, kind) == <<247>> \o RmOpnd(opnd, 3, kind)

(* muldiv *)
Imul(opnd, kind) == <<247>> \o RmOpnd(opnd, 5, kind)
Idiv(opnd, kind) == <<247>> \o RmOpnd(opnd, 7, kind)

-----------------------------------------------------------------------------
PushReg(r)  == <<80 + r>>
PushMem(mem) == <<255>> \o MemInst(mem, 6)
PushImm(v)  == <<104>> \o Dword(v)
Pop(r)      == <<88 + r>>

(* Mutation: the bytes of the arguments are not part of the return. *)
RetPlain(n) == <<195>>

Ret(n) == IF n = 0 THEN <<195>> ELSE <<194>> \o Half(n)

Call(opnd, kind) == <<255>> \o RmOpnd(opnd, 2, kind)

(* A call emitted at here (mode TARGET). *)
CallTarget(here, target) == <<232>> \o Dword(target - here - 5)

JumpReg(r) == <<255>> \o Modrm(3, 4, r)
JumpMem(mem) == <<255>> \o MemInst(mem, 4)
Jump(d, size) == IF size = "b" THEN <<235>> \o Byte(d) ELSE <<233>> \o Dword(d)

(* korp_cc_kind *)
CC == [ult |-> 114, uge |-> 115, eq |-> 116, ne |-> 117, ule |-> 118, ugt |-> 119,
       lt |-> 124, ge |-> 125, le |-> 126, gt |-> 127]

Branch(cc, d, size) ==
    IF size = "b" THEN <<CC[cc]>> \o Byte(d) ELSE <<15, CC[cc] + 16>> \o Dword(d)

(* widen_to_full *)
WidenToFull(r, mem, signed, size) ==
    <<15, (IF signed THEN 190 ELSE 182) + Wide(size)>> \o MemInst(mem, r)
=============================================================================
