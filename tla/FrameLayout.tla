---------------------------- MODULE FrameLayout ----------------------------
(***************************************************************************)
(* The frame of a compiled method (prepare_stackframe in compile.cpp), in  *)
(* bytes from where ebp points.  The caller has pushed the arguments, the  *)
(* call the return address; the prolog saves ebp and the method; then come *)
(* the locals that are not arguments, a word that is not used, and the     *)
(* operand stack, which is the processor's own.                            *)
(*                                                                         *)
(* A method has args words of arguments, this among them, and so many      *)
(* words of locals and of operands.                                        *)
(***************************************************************************)
EXTENDS Integers

Word == 4                       \* BYTES_OF_INT

SavedMethod  == -Word
SavedEbp     == 0
SavedReturn  == Word

(* An offset is kept in 16 bits (korp_comp_info in compile.h). *)
Int16(n) == ((n + 32768) % 65536) - 32768

(* Mutation: the saved return address is not accounted for. *)
LocalOffsetLow(args, i) ==
    Int16(IF i < args THEN Word * (args - i) ELSE SavedMethod - Word * (i - args + 1))

(* locals_info *)
LocalOffset(args, i) ==
    Int16(IF i < args THEN Word * (args + 1 - i) ELSE SavedMethod - Word * (i - args + 1))

(* The locals and the unused word end here; args is not larger than locals. *)
LocalsEnd(args, locals) == SavedMethod - Word * (locals - args) - Word

(* frame_size *)
FrameSize(args, locals) == Int16(LocalsEnd(args, locals))

(* stack_info *)
StackOffset(args, locals, i) == Int16(LocalsEnd(args, locals) - Word * (i + 1))
=============================================================================
