------------------------------ MODULE JavaHeap ------------------------------
(***************************************************************************)
(* The allocator: all objects, those of the VM and those of Java, come     *)
(* from one block of memory by moving a pointer (gc/object_create.cpp).    *)
(* Nothing is ever given back, and nothing compares the pointer with the   *)
(* end of the block.  VM objects carry their length in a bit field of      *)
(* their header, from which the allocator computes their size.             *)
(*                                                                         *)
(* A heap is a value here: the functions of the VM that allocate are       *)
(* operators from heaps to heaps.  An object is known by the order of its  *)
(* allocation.                                                             *)
(***************************************************************************)
EXTENDS Integers, Sequences

CONSTANTS
    HeapSize,       \* the bytes that gc_init asks for
    LengthBits,     \* LENGTH_MASK: bits of an array length in a header
    SizeBits        \* the width of the result of get_vm_object_size

ASSUME HeapAssumption == HeapSize \in Nat /\ LengthBits \in Nat /\ SizeBits \in Nat

ObjOverhead   == 4      \* VM_OBJ_OVERHEAD, and the header of a Java object
ArrayOverhead == 8      \* VM_ARRAY_OVERHEAD; header and length of a Java array

(* A heap has mem, the pointer; objs, the objects; ok, that whatever was    *)
(* written so far lies within the object it was meant for.                  *)
Ref(h)     == DOMAIN h.objs
Obj(h, r)  == h.objs[r].obj
Newest(h)  == Len(h.objs)
Put(h, r, obj) == [h EXCEPT !.objs[r].obj = obj]

(* An object of so many bytes at this place; need is what its user writes to. *)
Place(h, from, size, need, obj) ==
    [h EXCEPT !.mem  = from + size,
              !.objs = Append(@, [from |-> from, size |-> size, obj |-> obj]),
              !.ok   = @ /\ need <= size /\ from + size <= HeapSize]

(* gc_new_java_object, gc_new_java_array *)
NewJavaObject(h, size, obj) == Place(h, h.mem, size, size, obj)

NewJavaArray(h, len, elem, obj) ==
    LET size == ArrayOverhead + elem * len
    IN  Place(h, h.mem, size, size, obj)

(* gc_new_vm_object: VM objects are aligned to words. *)
Aligned(m) == ((m + 3) \div 4) * 4

NewVm(h, size, need, obj) == Place(h, Aligned(h.mem), size, need, obj)

(* get_vm_object_size of the header that new_vm_array has built. *)
VmArraySize(len, elem) ==
    (elem * (len % 2^LengthBits) + ArrayOverhead) % 2^SizeBits

NewVmArray(h, len, elem, obj) ==
    NewVm(h, VmArraySize(len, elem), ArrayOverhead + elem * len, obj)

NewVmObject(h, size, obj) == NewVm(h, size % 2^LengthBits, size, obj)

(* Objects lie side by side, in the order of their allocation. *)
Apart(h) ==
    /\ \A r \in Ref(h) : h.objs[r].from + h.objs[r].size <= h.mem
    /\ \A r, q \in Ref(h) : r < q => h.objs[r].from + h.objs[r].size <= h.objs[q].from
=============================================================================
