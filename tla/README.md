# Verification of the mini JVM

This directory holds the TLA+ models, the TLC configurations and the
machine-checked proofs kept beside the JVM in `src/korp_src`: a small,
single-threaded Java virtual machine with a class loader, a preparation phase
that lays out objects and vtables, a just-in-time compiler for x86 and a few
native methods. There is no interpreter, no collector and no thread; what makes
the machine hard is *recursion*. `load_class`, `class_initialize` and
`jit_a_method` call themselves and one another with half-built classes and
methods in every native frame, so the order of their side effects is decided by
the shape of the Java program.

## 1. The system

| component | source | state | operations |
|---|---|---|---|
| class loader | `class/class_loader.cpp` | a `korp_class` in every frame of `load_class`; `kclass->state` | `load_class`, `load_class_array_creation`, `load_class_from_media`, `load_class_supers`, `collocate_class_vtable`, `prepare_java_class_object` |
| class table | `class/class_table.cpp` | name -> `korp_class`, 256 buckets | search, insert (`remove` is never called) |
| start-up | `korp/korp.cpp` | `kenv->globals` | `preload_class`, `prepare_globals`, `start_java_execution` |
| class parser | `class/class_parse.cpp` | the constant pool, fields and methods of one class | `class_parse` |
| preparation | `class/class_prepare.cpp` | field offsets, vtable, interface table, static data | `class_prepare` |
| resolution | `class/vm_interface.cpp`, `class/class_utils.cpp` | constant pool entries (name, then pointer) | `class_resolve_class/field/method`, recursive lookups |
| initialization | `class/class_initialize.cpp` | `state`, `initilizing_flag` | `class_initialize` |
| JIT driver | `ia32_jit/jit_support.cpp`, `compile.cpp` | `kmethod->state`, vtable slots | `jit_a_method`, `compile` |
| code generator | `ia32_jit/code_gen.cpp` | mimic stack, code buffer, branch table | `select_code`, `generate_code` |
| string pool | `class/string_pool.cpp`, `utils/utils.cpp` | interned strings | lookup, conversions |
| allocator | `gc/object_create.cpp`, `class/vm_class.h` | the bump pointer; sizes in header bit fields | `gc_new_*` |
| natives | `natives/*.cpp` | Java arrays and strings | `arraycopy`, `String` and `StringBuffer` methods |
| run-time helpers | `ia32_jit/jit_runtime.cpp`, `utils/runtime.cpp` | none: code that is generated once | trampoline, stub, wrapper, `new_java_*`, casts |
| encoder | `ia32_jit/x86.cpp` | none | one function per kind of instruction |

How they interact. `main` calls `korp_init`, which preloads `java/lang/Class`
(and with it `java/lang/Object`), builds the primitive classes and loads the
classes the VM itself depends on; then `start_java_execution` loads the main
class and enters its code through a compilation stub. Every method starts as a
stub that calls `jit_a_method`; compiling resolves constant pool entries, which
loads classes, and initializes classes, which runs - and so compiles - more
code. All of them share the class table, the string pool and `kenv->globals`.
Errors are reported through one `exc` variable handed down by pointer; a thrown
exception is `assert(0)`.

What is hard to test, and what therefore the properties are about, is in the
`hazards` of `PROJECT.json`, each at its line. In short: supers that form a
cycle, an error half-way through a recursive load, packing a class with its
vtable (which *moves* it), publishing an array class before it is finished,
classes loaded before `java/lang/Class` is usable, a class path whose files can
be read at one moment and not at the next, initialization and compilation that
re-enter themselves, sizes packed into bit fields, code buffers that move,
arrays that strings and buffers share, class files in which every number decides
how the rest is read, and native code that counts on where the code before it
has left its operands.

## 2. The modules

| module | what it is |
|---|---|
| `ClassRegistry` | abstract specification: names are bound to classes once and for all, supers before subclasses, and answers come from the registry |
| `ClassLoader` | the loader, the class table and start-up, in full detail |
| `ClassLoaderInv` | the inductive invariant `IInv` of `ClassLoader`, and what holds on top of it where the class path allows |
| `MCClassLoader` | instances for TLC |
| `ClassLoaderProofs` | proofs about the loader: type correctness and the invariant step by step, then the theorems |
| `InitLifecycle` | abstract specification: initializations nest, each class is initialized once, an initializer starts after the superclass was begun |
| `AbstractProofs` | proofs about the two abstract specifications |
| `ClassInit` | `class_initialize`, `jit_a_method` and compiled code on one native stack |
| `ClassInitProofs` | proofs about it, and that it implements `InitLifecycle` |
| `ClassPrepare` | field layout, vtables and interface tables |
| `ClassPrepareProofs` | proofs about it |
| `Resolve` | constant pool entries, the lookups of members, casts |
| `ResolveProofs` | proofs about it |
| `CodeGen` | the translation of one method: the walk over the bytecode, the code buffer, branches and patches, the mimic stack |
| `CodeGenProofs` | proofs about it, and about `FrameLayout` |
| `ClassParse` | `class_parse`: from the cells of a file to the pool and the members |
| `ClassParseProofs` | proofs about it |
| `JavaHeap` | the allocator, as operators on heaps |
| `JavaStrings` | the string pool, the conversions between the two kinds of strings, and the natives on strings and arrays |
| `JavaStringsProofs` | proofs about the allocator, the pool and the strings |
| `X86Encoder` | the bytes of each instruction the code generator uses |
| `FrameLayout` | where arguments, locals and operands are, from `ebp` |
| `SelectCode` | what is emitted for each bytecode, and the code between Java and C |
| `Ia32` | a processor that runs these bytes (external: the manual's instructions, as far as the encoder emits them) |
| `NativeCode` | emitted code run by the processor, beside a Java machine that runs the bytecode |
| `MCClassInit`, `MCClassPrepare`, `MCResolve`, `MCCodeGen`, `MCClassParse`, `MCJavaStrings`, `MCNativeCode` | instances for TLC |

The detailed modules are separate because the code keeps the phases
apart: a class is loaded, within that prepared, and only then initialized.
`ClassLoader` takes `class_prepare` as one step that fails or not, `ClassPrepare`
says what it computes and relies on the supers being prepared, which
`ClassLoader` proves (`SupersPreparedFirst`); `ClassInit` starts from vtables as
`ClassPrepare` leaves them, and from resolved references. `Resolve` takes
`load_class` by what the loader promises: a class is loaded with everything
above it, or it is not and some of what is above it may be. `CodeGen` takes the
bytecode of a method as the class file format allows it and has nothing to do
with other classes; the calls that a translation makes on the way are what
`ClassInit` and `Resolve` are about.

`NativeCode` composes `X86Encoder`, `SelectCode`, `FrameLayout` and `Ia32`, and
takes the *order* in which code is emitted from `CodeGen`, so that it can run
each bytecode where execution meets it. `JavaStrings` is built on `JavaHeap`.
What `ClassLoader` takes as the outcome of reading a file is what `ClassParse`
computes, and the pool that `Resolve` starts from is the one it leaves.

### ClassLoader and the code

The native stack is a variable. A frame of `load_class` is a record of the name
it loads, the place it will go on at (`pc`) and the object it is building; one
action is the code a frame runs between two recursive calls, with its early
returns.

| pc | the frame is | code |
|---|---|---|
| `search` | at the entry of `load_class` | `class_loader.cpp:455-484`: `Found`, `LoadElement`, `PrimitiveElement`, `MediaFails`, `MediaFinds` |
| `elem` | waiting for the element class of an array | `224-239`: `ElementLoaded` |
| `super` | waiting for the superclass | `424-434`: `SuperLoaded` |
| `nextIntf`, `intf` | in the loop over the superinterfaces, waiting for one | `436-447`: `LoadInterface`, `InterfaceLoaded`, `SupersLoaded` |
| `link` | past `load_class_supers` | `491-516`: `PrepareFails`, `LinkInterface`, `LinkClass` |

`heap` is the list of `korp_class` objects in the order they were allocated; the
address is the identity, as in the code. `members` stands for the arrays
`field_info` and `method_info`, which the original and the packed copy share,
and `owner` for the `owner_class` pointers in them. `table` is the class table
as a function of names, since names are interned and the chain of a bucket never
holds one twice; `Insert` keeps the entry it finds, as `class_table_insert`
does. `ret` and `exc` are the return value and the shared error. `disk` is the
class path: for each directory and name, what `class_parse` would make of the
file. An I/O error is the choice of a set of broken directories at each look-up.
`load_class` never resets `exc`: `preload_class` sets it to `LD_OK` (`korp.cpp:19`),
`prepare_globals` uses one variable for all its requests, and `korp.cpp:53`, `203`,
`java_lang.cpp:29` and the resolutions of the code generator pass it uninitialised
(`unset`). `Ask` therefore takes the value `exc` has at the call, and a request that
succeeds leaves it as it was.

Some things of the code that one could take for modelling errors are kept on
purpose: an array class is inserted in the table *before* it is prepared and
copied; the flag `LoadingSupers` is set on objects that are not in the table;
the class of `V` is stored in the slot of `J` at start-up; the empty name is
refused with `ClassCircularityError` (366-369); and of the array class of a class
whose name has one character (`ShortNames`) the end is looked for behind the `;`, so
that 217 writes through NULL (`ShortElement`, a crash).

### ClassInit and the code

Again the native stack is a variable and a step is what a frame does between
two calls.

| pc | the frame is | code |
|---|---|---|
| `initialize` | at the entry of `class_initialize` | `class_initialize.cpp:33-74`: `InitializeReturns`, `InitializeBegins` |
| `clinit` | past the initialization of the superclass | `76-85`: `RunInitializer` |
| `complete` | past the class initializer | `87-101`: `Complete` |
| `jit` | at the entry of `jit_a_method` | `jit_support.cpp:55-75`: `JitReturns`, `JitBegins` |
| `translate` | in `compile`, before instruction `at` | `jit_support.cpp:76-101`, `code_gen.cpp`: `Translate`, `JitEnds`, `JitFails` |
| `run` | compiled code, before instruction `at` | `Pass`, `Allocate`, `CallDirect`, `CallVirtual`, `MethodReturns` |

A method body is a sequence of the instructions that matter here: a field
access, a direct call (`invokestatic`, `invokespecial`), a virtual call, an
interface call, `new`, and what `Class.newInstance` does. Translation visits all
of them in order; execution may `Pass` any, since branches are not modelled, so
what is shown of the code that is executed holds for every path. What is
peculiar to this code and is kept:

* the test of the superclass (`class_initialize.cpp:67`) compares the whole state
  word with one flag, so the recursive call is always made; it returns at once;
* `get_last_exception` never reports an exception (a throw is `assert(0)`), so
  an initializer always completes normally, and the states of a failed
  initialization are not reached;
* `invokeinterface` initializes the owner of the *method being translated*, and
  `new` initializes nothing: the call of the constructor does;
* `method_update_vtable` writes the compiled entry into the vtable of the owner
  only; subclasses keep the stub, which finds the method compiled and jumps;
* the offset of a static method is 0, and that is where the entry is written.

`jit_a_method` can be entered for a method that is being translated below on the
stack, through an initializer the translation has started. The method is then
translated twice, each time into code of its own. The comments at
`jit_support.cpp:65-70` say otherwise: compilation is exclusive, and whoever enters
finds the method compiled or not compiled. The code only tests for
`MS_Compiled` and goes on when the state is `MS_BeingCompiled`, and the model does
the same; that nothing comes to harm by it is part of what `SlotsLeadToMethods`,
`InitializedBeforeUse` and `Termination` show.

Under the refinement mapping, `active` of `InitLifecycle` is the set of the
classes of `clinit` and `complete` frames, `within` the pairs of these whose
frames are one below the other, `done` the classes with the bit `Initialized`,
`started` these and the classes in a `complete` frame.

### ClassPrepare and the code

One action is the whole of `class_prepare`; its result is written as operators
that say what each loop computes. `FieldOffset`, `StaticSize` and `InstanceSize`
are `prepare_fields` (refs first, then the other fields, 16-bit sizes);
`Overridden`, `MethodOffset` and `Vtable` are `override_superclass_method`,
`prepare_methods` and `prepare_instance_vtable`; `Collected` and `Eliminated`
are `prepare_interfaces`, where the elimination of duplicates is a fold over
the pairs of indices in the order of the two loops, with its backward scan that
has no lower bound; `InterfaceTable` and `Asserts` are
`prepare_interface_table`. `PrepareCrashes` is a failed assertion or the overrun
of the scan.

The properties have conditions where the code needs them, and each has a name.
`Hidden` excludes signatures of package-private methods (the package of a class
is still NULL when it is compared, so they are never overridden and end the
search). `FewDuplicates` is the case the elimination of duplicates handles: at
most one repetition, and not of the last entry. `InterfacesComplete` asks it of
the class and of all that is above it, since a class inherits the table of its
superclass with what that has lost. `InitializerLast` and `Implements`
are what the assertions of `prepare_interface_table` take for granted: the
`<clinit>` of an interface is its last method, as the compilers of the time
emitted it, and a concrete class has a method for each of its interfaces'.
`ProperFiles` is what `class_parse` does not check and a compiler guarantees:
the instance methods of a class differ in name or type, and the only static
method of an interface is its initializer. That no superclass is an interface is
an assumption on the hierarchies, since `load_class_supers` refuses the class
(`class_loader.cpp:428`). `Chain`, `AllAbove` and `AllInterfaces`, what is above a
class, are least sets closed under `super` and `intfs`, so that facts about them
can be proved without recursion.

### Resolve and the code

The state is the class table as a set and, for each constant pool, the entries
that have been replaced by what they name. An action is the resolution of one
entry by the code generator, with the recursive resolution of the class:
`ResolveClass` (`new`, `checkcast`), and for a field or a method `MemberResolved`,
`MemberFails` and `ClassUnavailable`, according to how far `class_resolve_field`
and `class_resolve_method` get. Since translations nest, the next entry may be
that of any loaded class. The code generator looks neither at the result of a
resolution nor at `exc` and goes on with `kfield->owner_class`, so every failure
for a member is the end of the VM; for a class it compiles NULL into the code.

Kept as they are: `class_lookup_*_recursive` pass the class on where the
interface is meant (`Recurs`; `Lookup` is then what the loop over the
superclasses finds); the access check is between the class that the reference
names and the one that declares the member, without regard to the class that
makes the reference, so a private member is accessible to all.
An endless hierarchy is left out (`HierarchiesAssumption`): the load of such a
class never returns, so nothing is resolved against it. `ProperSupers` is what
`load_class_supers` checks (one root, no interface as a superclass) and what it
leaves to the compiler (the superclass of an interface is the root, only
interfaces are implemented); only the property of casts needs it.
`LegalReferencesLink` is the part of access control a correct Java program
depends on: what the language allows is not refused, whatever was loaded, resolved
or refused before. Its definition of a legal reference is Java's, and leaves out
members inherited from interfaces, for which the lookup does not end (section 3).
Left out are also the references that rely on the unnamed package (`NeedsUnnamed`):
`class_create_package_name` (`class_utils.cpp:66-81`) takes the name up to the last
`/`, which is all of the name where there is none, so that each class without a
package is in one of its own (`Package`) and two of them are refused what is not
public.

### CodeGen and the code

`info` is the array `bcinst_info` of `compile`, with what `generate_code` writes
into the buffer for an entry (`dest`, the destination of the branch, and `back`,
the return address of a `jsr`); until it is patched a branch leads to the place
behind it. `pos` and `cap` are the code buffer, `glue` the jumps that
`select_code` adds where the walk meets code that is emitted already.

| frame of `select_code` | code |
|---|---|
| `loop` at an instruction not visited | `code_gen.cpp:150-160` and its case: `PlainOn`, `PlainJoins`, `Conditional`, `Goto`, `Leave`, `ThrowOrRet`, `Jsr` |
| `loop` at one that is | `148`: `NothingToDo` |
| `branched`: waiting for what follows a conditional branch | `692-700`, the same at `743-751` and `1309-1317`: `AfterConditional` |
| `called`: waiting for a subroutine | `794-797`, `1325-1337`: `AfterJsr` |

`NextHandler` and `Finish` are the rest of `generate_code`. A plain instruction
(loads, stores, arithmetic, field access, calls, object creation) is known by
the bytes it takes, by what it does to the depth of the operand stack (`effect`),
and by what the code does to that of the mimic (`mimic`). Kept as they are:

* the first buffer, and each one twice as long, is an array, and an array's length
  keeps 15 bits (`Kept`, `vm_class.h:83`). A method of 4096 bytes of bytecode gets
  a buffer of length 0; one whose code outgrows 16384 bytes gets a shorter buffer
  than the one that is copied into it. The model stops in the status `overrun`.
  `RoomLeft` says that this is when it happens, and not before. The instance has
  1024 in place of 32768, so that methods of some tens of instructions get there;
* `laload` and `daload` push three words on the mimic (`code_gen.cpp:325-336`),
  `monitorenter` and `monitorexit` pop none (1231-1242). `DepthRight` is about the
  methods where both depths move alike (`Mimicked`); of the others, which the
  instance has too, everything else is asserted;
* `jsr_w` reads its offset from the opcode byte on (`code_gen.cpp:783`), so that its
  target is some other place. The model has `jsr` only;
* `codebuf_set` copies the buffer to a new one, but `select_code` goes on with
  its pointer `buf` (`Reused`); the model stops in the status `stray`, from which
  nothing good can be said (run `moved`);
* nothing is emitted when what follows a conditional branch was translated
  before it (`code_gen.cpp:693`), so that control goes on into whatever is
  emitted next. `FollowedEarlier` names the case, and `ExecutesProgram` leaves it
  out. Compilers produce it for a loop with its test at the end and a `break`;
* a `nop` has no native code of its own. Where the walk meets translated code
  behind it, the jump stands where the nop does, and two nops before such a join
  share it: `ExecutesProgram` looks for the jump at the end of the instruction,
  which is where control is;
* a branch to the first instruction has target 0, which means none: it is not
  patched, and left out of the property by `inst.to # 0`;
* the second `jsr` to a subroutine finds it translated and keeps the return
  address on the mimic stack (`CalledOnce`). `DepthRight` also needs that no way
  out of a subroutine leaves something on the stack, as in all programs here.

### ClassParse and the code

A file is a sequence of cells: each number is one cell whatever its width, and a
character of a name is one cell. `pos` is `*buf`; `pc` is the loop that is at
work and `left` the counters of the loops; `pool` is `korp_cpool_info` with
`slots`, `tags` and `size`; `member` is the field or method under construction.

| pc | code (`class_parse.cpp`) |
|---|---|
| `header`, `pool` | `parse_constant_pool`, first pass: `ReadHeader`, `ReadEntry`, `EndOfPool` |
| `check` | its second pass: `CheckEntry`, `EndOfCheck` |
| `class`, `intfs` | `class_parse`, `parse_interface`: `ReadClass`, `ReadInterfaces` |
| `fields`, `field`, `fieldattr` | `parse_field`: counts, members, `ConstantValue`; the fields the VM adds are `EndOfFields` |
| `methods`, `method`, `methodattr`, `codeattr` | `parse_method`, `parse_code` and its tables |
| `attr` | the attributes of the class, and the end |

Each stage either goes on, or ends with `out = "refused"` (the function returns
false), or with `out = "stray"`: an array has been read beyond its end. What is
there may look right or wrong, so a stray read also may refuse. Kept as they are:
the slot just behind the pool passes the range check (97); a NameAndType has its
name checked twice and its descriptor never; the attribute of a static field's
value is looked for under the name `ConstantVlaue` (499), while the comments at 489
and 508 say `ConstantValue`, so that the constants of a class compiled by anybody else
are never read (`ReadsBack` leaves the value of such a field open, for code and
comments differ about it, and compares those that are found under the name of the
code); of the descriptor of such a field only the first character is looked at; a handler's class is not checked; a method may have two `Code` attributes, and
an empty table of handlers (547) or none of lines leaves that of the first with
the code of the second, which may be shorter (`codes` counts them, and
`AcceptedHolds` asks only methods with at most one to agree with their tables);
an array of bytes has a length of 15 bits (`MaxLength`), and the size of an array
of references, four bytes for each, is computed in 16 bits (`get_vm_object_size`),
so that from 16382 elements on it gets less room than is written to (`MaxRefs`):
a text of 32767 characters or more, which the string pool copies with a 0 behind
it, a code or a table beyond these limits makes the parser stray.

### JavaHeap, JavaStrings and the code

A heap is a value, and the functions that allocate are operators from heaps to
heaps; `ok` says that all that was written lay within the object it was meant
for. An action of `JavaStrings` is one call by the program: `Ldc` (a constant
that the code generator makes part of the code), `StringBufferAppend`,
`StringBufferToString`, `SystemArraycopy`, `ClassForName`, `SystemGetProperty`,
and what Java code does with the same arrays (`Substring`, `StringBufferInsert`:
external). A call ends in `thrown` where the code throws (`assert(0)`), and in
`stray` where it writes beyond an object or the heap; from there on only the
places of objects are asserted. Kept as they are:

* `append` grows a buffer by looking up a native string of that many letters
  `a` and taking the array of its Java string (`java_lang.cpp:124-136`): a
  program that has a constant of nothing but `a` loses its text. `Tainted` names
  such strings;
* `charAt` and `indexOf` ignore the offset (`Whole` is the case they are right);
* `indexOf(c, from)` takes `from` only to answer -1 when it lies beyond the array
  (`java_lang.cpp:91-94`), and then looks from the beginning. `ReadersSeeTheText`
  compares it with the first place at `from` or behind it, and leaves out the
  search for a character that stands before `from` too;
* what is written to a buffer that has the array of an interned string of letters
  `a` is written to the string as well: of such strings and buffers (`Tainted`)
  nothing is said about the text;
* `toString` packs into twice as many bytes as there are characters
  (`PackedFits`), `new_kstring_from_jarray` into a fixed number (`PackRoom`);
* `arraycopy` adds offset and length in 32 bits before it compares.

### NativeCode and the code

A step is one bytecode: it is translated (`Translate`, with the mimic stack of
the method), its bytes are put at a place of their own, and the processor runs
from there until it is where the bytecode should leave it, through stubs,
wrappers, trampoline and the functions in C. Beside it the Java machine takes
the same step on frames, objects and static fields. After each step the scratch
registers, the flags and all below the stack pointer are filled with junk
(`Tidy`), so that nothing holds by accident.

| variable | code |
|---|---|
| `contexts` | per method under way: `korp_method`, the flags of its `korp_stack`, its code |
| `machine` | memory (a few hundred bytes: class heads with vtables, static fields, objects, heap, stack), registers, flags; `brk` is the heap pointer |
| `frames`, `objs`, `statics` | the Java machine (external) |
| `expected`, `status` | where the processor should be; `running`, `done`, or how it ended |

The run ends (`assert(0)`) at a bytecode the code generator has not, (`assert`)
when an assertion about the flags of operands fails, and (`astray`) where the
code is known to do something else than the Java machine. `Faithful` is the list
of those, and all of them are the code as it is:

* nothing is thrown: for a null receiver, an index out of bounds, a negative size, a failing cast,
  a division by zero, `athrow`;
* `bipush` and `sipush` lose the sign; `fconst` and `dconst` push the integer 1
  or 2 in place of the float; `i2c` widens a byte;
* negative bytes and shorts come without their sign out of fields, static fields
  and arrays;
* `laload`, `lastore` and the access to static longs mix up halves; so does a
  call with a long argument;
* a 16-bit store of `eax` to a static field has an address of 16 bits;
* `monitorenter` and `monitorexit` leave their operand on the stack;
* `MinInt / -1` makes the processor fault.

`Soils` are the bytecodes after which the mimic stack is wrong about which
operands are references: `getstatic` of anything else than a reference, and the
shuffles `dup_x2`, `dup2_x1`, `dup2_x2` and `swap` when they move words of both
kinds. `FlagsTell` says that nothing else makes an assertion fail. Of the
pairs of `IF_ICMP` and `IF_ACMP` the flags are asserted too (714-722). Compiling a
static method overwrites the head of its class (`JitAMethod`; the same in
`ClassInit`), and the wrapper around a native method has 60 bytes
(`WrapperSize`), which five arguments of a static method fill with 59.

### Bounds

In `ClassLoader`: `MaxObjects`, `MaxDepth` and `MaxRequests` bound the heap, the native stack and
the requests. The first is never reached in a run that checks liveness or
answers (TLC would report the VM stuck: every request is answered or the process
dead), the second is the code's real limit, modelled as a crash. In the acyclic
run five names and two dimensions of arrays need at most five frames, of six.
Three to six class names are enough to have a class above a class above an
interface, a shared interface, a superclass that is refused at each of the four
places where the code refuses one, and an array over each of them.

In `ClassInit`: `MaxDepth` is 24. A program in `Looping` calls itself and fills
the stack, where the model stops as the process would; all others finish, which
`Termination` shows, so the bound is not reached by them. The 96 programs that
are not in `Looping` put two classes, one the superclass of the other, into
mutual initialization in every way the instructions allow.

In `ClassPrepare` the hierarchies are the bound: `java/lang/Object`, two
interfaces of which one may extend the other, a class and its subclass, with
every choice of implemented interfaces (the duplicates that inheritance makes
included), overriding and new methods in different orders, package-private
methods, `<clinit>` before and after other methods, and fields of each size. The class may implement both interfaces in either order, with
one an extension of the other: then it may lose one, and its subclass, which
repeats nothing, inherits the loss.
`KlassSize` is 96, a multiple of the size of a ref; its value matters only in
that vtable offsets are beyond it.

In `Resolve` the programs are the bound: two interfaces, a class and a subclass
in another package that may hide and override its members, where the subclass
has one interface through the other or through its superclass,
a class that refers to all of them and one that is not public, in named packages and
in the unnamed one; a field of every access, and every combination of tag and named class that the code tells apart,
with and without a superinterface whose file is missing. `Recurs` is not
followed any further than that there is no end to it.

In `CodeGen` the methods are the bound: all that consist of four basic blocks
(work, a test, a jump, a return, with any target) which can be reached, 1710 of
them, each behind 0, 3, 6 and 9 bytes of padding, so that the buffer is moved
at the prolog, at each kind of instruction and not at all; and six methods with
a value on the stack around a condition, a handler in a loop, and subroutines; two
with instructions that are mimicked wrong; and three sequences of calls whose buffer
cannot be doubled, or has no length to begin with.
The numbers of bytes are those of the encoder and of `compile.cpp`. Four blocks
are two loops that share code, or a loop with a test at either end and a way
out of its middle.

In `ClassParse` the files are the bound: a class with each kind of constant,
member and attribute, and one that the VM adds fields to, written with the
constants turned around in both directions (a long at either end, a reference
before what it refers to) and its attributes in three orders with unknown ones
between them, 48 files in all; two of them cut at every cell; and each cell of one, and
each behind the pool of another, changed to ten values: tags, valid indices, the
first index behind the pool and both limits of an array among them; and a code, a
table of lines and a text at and beyond these limits, which are 60 and 40 here.

In `JavaStrings` the header fields are 4 and 5 bits, `MaxInt` is 127, the heap
500 bytes and the pack buffer 8: a buffer that grows twice reaches the first, a
copy with offset 127 the second, five calls the third. Three constants (one
letter, two bytes of UTF-8, two letters `a`) and two buffers, of which one has to
grow at once, are enough to have an array shared by an interned string, a
substring and a buffer.

In `NativeCode` two bytecodes are chosen freely (`MaxSteps`), out of 105
instances of all the translated ones and one that is not, behind 31 beginnings that leave stacks of up to six
words of every kind; calls nest to depth two (`MaxDepth`), and each called method
runs to its end. Factors, divisors and array lengths are small (`Computed`).
Objects and arrays lie side by side without padding and hold values that differ
in every byte, so that a wrong offset or width shows; the method `big` has a
local that needs a long displacement.

### Fairness

`FairSpec` asks for weak fairness of the steps of the loader and of start-up
taken together: the VM is one thread, it never waits for anything, so a step it
can take is taken. Nothing obliges the application to make a request. `FairSpec` of `ClassInit` is
the same for the same reason. Weak fairness of the whole next-state relation is
enough: at every point the thread has one thing to do, except that compiled code
takes an instruction or not, and either goes forward. `FairSpec` of `CodeGen` is
the same: it is one C function that calls itself.

## 3. The runs

| run | what it shows |
|---|---|
| `acyclic` | 72 shapes of an acyclic class hierarchy, every order of two requests after start-up: a published class is complete and linked to published supers, nothing points to an original that packing freed, supers are prepared first, failure leaves no trace and is reported although `exc` is not reset, only classes that deserve it are refused (the empty name among them), entries are stable, every request is answered and the process survives, but for the array class of a class with a name of one character. Start-up includes the primitive classes with the slot two of them share, and an array class |
| `faulty` | two directories with different versions of the classes, one of which may fail to be read at any moment; cyclic hierarchies, with the stack overflow they cause; hierarchies with each kind of refusal; start-up with each of the runtime classes missing, malformed or sound: the loader implements `ClassRegistry`, answers are loaded classes with their own mirror, a request that fails says so and leaves nothing behind (a later one tries again), classes that cannot be loaded stay out of the table, and Java code gets a class of the application only when the classes the VM depends on are there |
| `circularity` | *violation* of `CyclesAreRefused`: a class whose supers lead back to it is parsed below itself until the native stack is full (below) |
| `init` | for 96 programs that end and 8 that loop: the flag of a class is set exactly while one frame initializes it, compiled code, field accesses, direct calls and objects meet only classes whose initialization has begun, slots lead to the methods they were made for; `class_initialize` implements `InitLifecycle`; programs that do not call themselves end |
| `prepare` | fields of an object never overlap whichever class declares them, a virtual or interface call arrives at the nearest declaration, interface lists are complete, assertions hold, under the conditions named above |
| `duplicates` | *violation*: eliminating duplicate interfaces loses others |
| `resolve` | for 180 programs, in every order of translations: a reference resolves to the nearest declaration whatever was loaded or failed before, the class behind a resolved member is resolved and loaded, entries do not change, legal references are not refused except those that need the unnamed package, a cast succeeds exactly for the classes and interfaces above a class |
| `codegen` | for 6852 methods: native code follows each way through the bytecode, branches and returns lead where they should, the buffer has room whenever an instruction is translated, as long as an array can be that long, the mimic stack has the verifier's depth where each instruction is mimicked right, the walk ends |
| `moved` | *violation*: code is emitted into a buffer that has been given up |
| `parse` | a class is read back as it was written (but for the value of a `ConstantValue`), wherever its constants stand and however its attributes are arranged; a file that ends early is refused wherever it ends; with any one cell changed, what is accepted hangs together: pool entries refer to entries of the right kind, tables stay within the code |
| `strings` | five calls in any order: no string changes its text, whoever shares its array; a buffer holds what was put into it however often it grew; equal texts are one object; the readers see the text; objects do not overlap and have room for what they hold |
| `native` | every two bytecodes on stacks of many shapes, in methods that C calls and that call compiled, inherited, overridden and native methods: the processor is where it should be, with every local, operand, object and static field in its place, and gives C its registers and the result back; the mimic stack knows the references |

Deadlock is not checked: the VM stops when it has crashed, when `main` has
returned, when every class is prepared or an unresolvable member has ended it, a translation when it is done, and the loader when the application
makes no more requests.

### What the violations say

* `class_loader.cpp:470` tests the flag `CS_LoadingSupers` of a class found in
  the table, but no class gets into the table before the flag is cleared (447,
  515). `A extends B`, `B extends A` is parsed over and over until the stack is
  full, which is where the trace of the run ends.
* `class_prepare.cpp:409`: when the repeated entry is itself the last one, the
  scan for "last one" (408) goes down to the entries before it and cuts the
  table off there. With K, L, K the class is left with K.
* `compile.cpp:24-31` exchanges the buffer for a larger one. `code_gen.cpp:1334-1337`
  and, after a `goto`, `1325` use the pointer into the old one again;
  `codebuf_set` takes its distance from the new buffer for an offset, which makes
  the old buffer current again, and the code of the method lacks everything from
  there on. A method of some 15 to 50 bytes of bytecode that has a jump where
  less than 100 bytes are left is enough.

More of this kind have no run of their own. The models do the same as the code,
and the properties leave the case out by a condition with a name:

* `class_loader.cpp:237` publishes the array object that `load_class` then
  copies; the insertion of the copy (515) is refused because the name is bound,
  so the table keeps an object that `collocate_class_vtable` has freed, which is
  never `CS_Loaded` and has no `java_object`. The first request gets the copy,
  every later one the original: two classes for one name.
* `jit_support.cpp:43` writes the address of compiled code at the offset of the
  method from its class. `vm_class.h:16-21` describes the first word of every
  object as its header, and 0 is the offset of a static method.
* `class_utils.cpp:101` and `157` call the lookup again with the class instead of
  the interface just read, below the comment "not class, lookup interface". A
  call through an interface of a method its superinterface declares fills the
  stack; so does a reference to a member that is missing altogether, where
  `NoSuchMethodError` is meant.
* `class_prepare.cpp:67` gives the first static field offset 0 from an object
  that `prepare_static_data` creates with a header, so the field starts out with
  the header for a value.
* `korp.cpp:74` assigns to `long_class` where `void_class` is meant, so that the
  element class of `long[]` is the class of `void`.
* `class_parse.cpp:499` looks for `ConstantVlaue`, where the comments (489, 508) say
  `ConstantValue`: fields with such a constant start out as 0.
* `jit_support.cpp:65-70` says that compilation is exclusive; a method may be
  compiled while it is being compiled (section 2).
* `class_loader.cpp:216` looks for the `;` of `[LA;` from behind it, and 217 writes
  through NULL.
* `class_loader.cpp:366-369` refuses the empty name with `ClassCircularityError`.
* `class_utils.cpp:66-81` makes a package of the name of a class that has none.
* `compile.cpp:25-27` and `211-212` ask for more than 15 bits of length can say.
* `code_gen.cpp:325-336`, `1231-1242` move the mimic stack otherwise than the
  bytecode moves the operands.
* `java_lang.cpp:91-94` searches from the beginning of the array whatever `from` is.
* `java_lang.cpp:130` takes the array of an interned string for a new one.
* The bytecodes listed under `NativeCode` above.

## 4. What is proved

TLC checks the instances of section 3; the theorems hold for every value of the
constants: every set of names and every class path, every program, any depth of
the stack and any size of the heap. What they assume of the constants is named in
the modules (`ASSUME`), and TLC evaluates it in each run; hypotheses of a single
theorem stand in its `ASSUME ... PROVE` and are listed here. Each safety theorem
of a specification follows the same plan: an invariant, usually called `IInv`,
that implies the property, one lemma per action for the step, and the rule of
temporal induction at the end.

### The class registry and the loader

`AbstractProofs`: `AnswersAreConsistent`, `HierarchyIsWellFounded`. The
second needs the observation that the last of a set of bound names to be bound
has no super that was bound after it; the invariant says of every non-empty set
of bound names that one of them has no super in it, and `Bind` keeps it because
the new name is a super of none.

`ClassLoaderProofs`, for every class path:

* `Invariance`, and from it `TypeCorrectness`, `NoPointerToOriginal`,
  `SupersArePreparedFirst`, `BindingsAreStable`, `RejectedStayOut`;
* `CircularityOnlyOfNoName`: the check for `ClassCircularityError` is dead code, on
  cyclic class paths as on others: the error is raised for the empty name and for no
  other. (The run `circularity` shows what happens instead.) It holds because no
  class in the table has the flag `LoadingSupers` (`NeverLoading`);
* `StartsUp`: `korp_init` looks at no result, and Java code may run in a VM with every
  global NULL. But when it has got a class of the application, the classes the VM
  depends on are all there, because whatever is loaded without `java/lang/Class` ends
  in `new_java_object` (`PreloadComesFirst`);
* `AnswersAreLoaded`: what a request returned is loaded and has a mirror, and
  stays so (`Mature`), though the first array object of a name may be freed.

With a hypothesis on the class path:

| theorem | hypothesis | without it |
|---|---|---|
| `PublishedAreLinked`, `LoaderImplementsRegistry` | `Determined`: a name is read from one place, or the hierarchy has no cycle | a class path with a cycle *and* a directory that fails at one moment and is read at the next lets a name be loaded within its own load, from another file: two classes for one name |
| `FailuresLeaveNoTrace` | `Determined`, `BootCovers` (start-up makes a class for each element type), and only where `java/lang/Class` was loaded | after a failed `preload_class`, which nobody looks at, there are no element types, and an array of a primitive type is answered with NULL and `exc` as it was |
| `NoCycleNoReentrance` | no cycle | see `circularity` |
| `OnlyRejectedAreRefused` | one directory, always readable; no class is named like a primitive | what is refused depends on which directory could be read |

Why `IInv` is needed. That a published class is complete says nothing of the
frame that is about to publish it: that its object belongs to it alone
(`OwnObject`, `Unpublished`), that the supers it has stored are in the table
under the names the file gives (`BuildsOK`), that what a recursive call returns
is the class the caller asked for (`CallsOK`, `ResultOK`), that the objects of
the heap keep prepared supers (`HeapOK`). The proof separates the frame on top
of the stack from those below: a step that only writes to fresh objects and
publishes only fresh objects is called `Steady`, a steady step keeps what the
lower frames and the table know (`FrameKept`, `TableKept`), and it remains to
say what the step does to the top frame (`AfterReturn`, `AfterGoto`,
`AfterCall`). `RejectedStayOut` is a second induction on top of `IInv`: a class
about to be linked has all its supers in the table, so a set of classes each of
which is refused for itself or for a member of the set never gets its first
member in.

Why `OneClassPerName` is needed. `PublishedLinked` says that a super is *the very
class* the table binds its name to, and `IInv` only knows that it was when it was
stored. It would cease to be if a name that is being loaded were bound
meanwhile. On a class path without a cycle this cannot be, since along the stack
the ranks go down (`StackDescends`), so a name never is on it twice; where a name
is read from one place, it may be on the stack twice, but then every load of it
meets the same file and the same cycle, and none of them comes to an end before
the stack does (`FirstReadable`, `NamesUnbound`). From there `StoredBound` and
`ReturnsBound` follow. The refinement maps each binding of a name to `Bind` and
each answer of a request to `Answer`; all other steps stutter.

### Initialization

`AbstractProofs`, for every hierarchy: `LifecycleInvariance`,
`InitializationsNest` and `SupersAlwaysBegun`.

`ClassInitProofs`, for every hierarchy, every vtable in which a method is at its
offset (`VtablesAssumption`) and every program in which `new` is followed by the
call of a constructor, as javac emits it (`Lawful`): `TypeCorrectness`,
`FlagsTellOfFrames`, `NothingUsedBeforeInitialized`, `SlotsAreRight` and
`ImplementsInitLifecycle`, so that what is proved of
`InitLifecycle` holds of `class_initialize`.

`InitializedBeforeUse` is far from inductive. That compiled code finds its class
begun rests on the translation having asked for it, which may have happened in
another translation of the same method, further down; and between the request
and the flag stands a call that has just been made. `PromisesKept` says for each
frame which classes its code has asked for so far (`ReliesOn`), and that each of
them has begun unless the frame above is the call that asks; `CodeReady` says the
same of methods that are compiled; `WellNested` which frames can stand on which
(a translation only calls `class_initialize`, which returns before it goes on).
`Begun` is kept because a flag is cleared only in the step that sets
`Initialized`, which needs `FlagOnStack`: one frame for each flag. The
refinement follows from `WellNested`, `FlagOnStack` and `PromisesKept`.

### Preparation

`ClassPrepareProofs`, for every finite set of classes:

* `FieldsStayApart`, where all objects stay below 64 KB (`SmallObjects`): the
  places of the fields of one class are intervals behind those of its superclass,
  references first. Sizes are 16-bit in the code, and wrap beyond that;
* `CallsAlwaysArrive`, for `ProperFiles`. The invariant says of the vtable of each
  prepared class that slots tell methods apart and keep their signatures
  downwards (`SlotsKeepSignatures`), and that a slot holds the nearest method with
  its signature in the chain;
* `InterfacesAreComplete`. The elimination of duplicates is a fold over the pairs
  of indices: `Iteration` and `Recursion` show that such a fold is defined, and
  `FoldStays` and `FoldPasses` what it computes when its steps change nothing, or
  one of them does; `EliminateOne` says what that step is. The
  attempt to prove the property as it was first stated failed, and rightly so: a
  class that collects few duplicates may still inherit a table that has lost an
  interface. TLC found the hierarchy once the instance had room for it, and the
  property now asks for few duplicates in the classes above as well;
* `AssertionsHoldForProperFiles`, and `TypeCorrect`, for `ProperFiles`.

### Resolution

`ResolveProofs`, for every set of declarations without an endless hierarchy and
pools in which a member's entry names an entry of a class, which
`parse_constant_pool` checks (`class_parse.cpp:250-260`):

* `ResolvedStays` needs `ResolvedIsBacked`: the class's entry is stored again by
  each member that is resolved through it, and that this changes nothing follows
  from the entry holding the class it names;
* `ReferencesAreRight`: a resolved member is the nearest declaration. `Lookup`
  goes up the superclasses recursively. That such a function exists is shown by
  writing one down, and that it is right by a class for which it is wrong while it
  is right for all above it, which the well-founded hierarchy provides
  (`HierarchyEnds`, `LookupFinds`): a smallest counterexample in place of an
  induction;
* `LegalReferencesDoLink`: the reference whose resolution ends the VM is not a legal
  one, or needs the unnamed package, whatever else the program has in its pools;
* `CastsAreRight`, for `ProperSupers`: `java_instanceof_class` answers true exactly
  for what is above the class (`InstanceOfBelow`), although superclasses and
  interfaces are searched by separate code;
* `TypeCorrectness`.

### Class files

`ClassParseProofs`, for every set of files whatsoever, not only those a compiler
or the writer of the instance produces, and whatever the limits of arrays are. A
file that makes the parser read or write behind an array is not accepted in the
model but ends as `stray`, and nothing is said of it:

* `ParsedClassIsTyped`: at each moment what has been read is of its type, and the
  pool, once made, has the slots it says;
* `AcceptedHangsTogether`: in a class that is accepted the entries of the pool name
  entries of the kind they need, the names are texts of the pool, and the tables
  of a method with one `Code` attribute lie within its code.

The invariant follows the loops. While the pool is read its entries are as the
file has them (`RawEntry`: an index is a number and no more); while it is checked
those before `next` are finished (`DoneEntry`) and the others are not, and an
entry is judged by the kind another will have when it is finished, so what was
found to agree still agrees after the later ones have been turned
(`PoolHoldsIsNext`). From then on nothing changes the pool, and each stage adds
names that are texts of it (`ClassInv`, `MemberInv`). The attempt to prove the
property for all methods failed at a method with two `Code` attributes; TLC then
showed the accepted class, and the instance has such files now.

### Code generation and layout

`CodeGenProofs`, for every set of methods that the class file format allows
(`ProgramsAssumption`) and any sizes such that no instruction, and neither prolog
nor jump, takes more than `Slack` bytes, the number the code gives
(`compile.cpp:24`):

* `RoomIsLeft`, for every method whose first buffer has a length an array can have,
  and until the code has half that length, less an instruction. It takes to know that all frames are at instructions of the
  method (`Calls`), and that a waiting frame is at a branch or a `jsr`;
* `DepthIsRight`, from what the depth of a waiting frame is (`DeepCalls`). It is
  about methods without subroutines, since with them the statement depends on
  what the subroutine does, and without the four instructions that are mimicked
  wrong (`Plainly`);
* `ProgramIsExecuted`: when the translation is done, the native code does what the
  bytecode does, with loops, handlers and subroutines. Nothing is said of what
  comes after a conditional branch that was translated before it, of branches to
  the first instruction, and of translations that strayed or overran. The walk is depth-first, so at any moment most instructions lead to code
  that does not exist yet. The invariant (`Walk`) says of each visited instruction
  what it still lacks and who will supply it (`Linked`): its successor is behind
  it, or a jump to it is, or it is the instruction the innermost frame is about to
  emit exactly there (`Ready`); the target of a branch is visited, or under way,
  or a waiting frame will go on with it (`Waits`). That no emission slips in
  between an instruction and its successor rests on the places being in order
  (`AtTheEnd`), and that patching finds every target on no frame being left at the
  end. The attempt found two nops before a join, which the property as it was
  first stated did not allow for; the instance has that method now;
* `LocalsApart`, `OperandsBelow` and `ArgumentsInPlace`, for arguments, locals and
  operands whose offsets are within 16 bits (`Fits`: `compile.h:29-33` keeps no more,
  and beyond that, from about 8190 words, the offsets of the code wrap): each has a word of its own, none is where
  `ebp`, the return address or the method is saved, an operand's word is the one
  the stack pointer comes to, and the words a caller pushed are the first locals
  of the method it calls. What `native` checks of a few methods rests on these
  for all whose frame is small enough.

### The heap, the pool and the strings

`JavaStringsProofs`, for every program, whatever its constants are, any sizes of
the heap, of the hash table and of the fields of a header (`HeapAssumption`,
`ProgramAssumption`: characters are 16 bits wide, and there is at least one
chain): `HeapStaysApart`, `StringsAreConstants`, `BuffersSayTheirText`,
`TextsAreUnique` and `ReadersAreRight`, one for each property of the run
`strings`. Below them:

* `AllocationKeepsApart` (whichever function allocates, of whatever size, the new
  object is behind all others and these stay), and from it `WritesStayInside` (a
  byte belongs to one object);
* `TextsSurviveUtf8`: unpacking gives back what was packed, for every text. Packing
  concatenates, a fold over the characters; unpacking is a recursive function of
  the place. `FlattenFolds` and `Unwinding` show what each of them is, again by
  the least place where it would be wrong.

None of the properties is inductive. The invariant (`Inv`) says of the objects
and of what the program was told (`World`):

| part | says | needed because |
|---|---|---|
| `Linked` | a string or a buffer reaches no further than its array; an interned string stands for the bytes it was interned for | copying reads from there on; toString answers with a string somebody else had |
| `Private` | a buffer shares its array with nobody, unless the array is one of letters `a` (`Lent`) | append and insert write to it |
| `Sole` | no two native strings have the same array behind them | a buffer is lent the array of one of them, and only the text of that one may be lost |
| `Pool` | every native string is in the chain of its hash, each text once | a lookup that missed a string would make a second one |
| `OwnOK` | the arrays the program copies to are no string's and no buffer's | arraycopy writes to them |
| `SaidOK`, `ResultsOK` | a string or a buffer holds what it was given, unless lent; each string the program was given is the one of its text in the pool | the properties speak of these |

A call consists of steps of two kinds, and each kind has one lemma. What makes
objects and interns them `Keeps` the rest: no string, buffer or array that was
there changes, a native string gets its Java string once, and what is new has a
new array or shares that of a string (`KeepsOK`, `WorldKept`; `Lookups`,
`Jstrings`, `InternedGot` show it of the functions of the pool). What writes is
an `Overwrites`: one array gets other slots and perhaps one buffer another count,
and whoever else has the array has one of letters `a` (`OverwritesOK`,
`WorldOverwritten`). `append` is one of the first kind followed by one of the
second. That the exception for letters `a` cannot be left out is what the code
does (`Tainted`); the proof shows that it is the only one. It also found that a
heap too small for the constants of the program was called trusted at the start.

### What is only model-checked

* Liveness: `EveryRequestAnswered`, `Termination` of programs and
  `TranslationEnds`. The prover has no reasoning about fairness or `ENABLED`.
* `ReadsBack` and `CutsRefused` of `ClassParse`. They compare the parser with a
  writer of class files, which belongs to the instance: its output is put together
  by folds over the whole class, so that a proof would be an induction over the
  class for each of the parser's loops.
* `NativeCode`: its processor runs until it stops, which is a RECURSIVE operator,
  and its flags and words are computed with the operators on bits, neither of
  which the prover can see.
* `DepthRight` of `CodeGen` for methods with subroutines: `DepthIsRight` is about
  those without. A subroutine hands the depth of its last way out back to the
  `jsr`, whatever the verifier says of it, so that a proof needs an assumption on
  all ways out of all subroutines; the run checks the programs of the instance.

## 5. Abstractions, and what is not modelled

Abstractions:

* In `ClassLoader`, `class_parse` is its outcome: a file is missing, malformed or
  a class with its super, interfaces and flags; `class_prepare` is one step that
  fails exactly when a field descriptor has no size. What they do inside is in
  `ClassParse` and `ClassPrepare`, an assertion that fails in the latter only.
* In `ClassParse` names are strings of characters without their UTF-8 form (which
  is in `JavaStrings`), and numbers are cells without their width.
* In `ClassInit` a receiver of a virtual call is any object made so far whose
  class has the method. `Class.newInstance` makes objects of classes nobody has
  initialized: `InitializedBeforeUse` is about `new` and leaves them out.
* In `ClassLoader`, `ClassInit`, `ClassPrepare` and `Resolve` names are values,
  not strings: that interning makes pointer comparison equality is assumed there,
  and shown by `OneStringPerText` (`TextsAreUnique`).
* Classes an application names like a primitive ("I") are allowed by the model
  and excluded by the properties: the table is keyed by name, so such a class is
  never loaded. Of their array classes (`[LI;`) the model makes no difference to
  those of the primitive.
* `AnswersLoaded`, `PublishedLinked` and `OnlyRejectedRefused` are about classes that
  come from files. Of array classes the table keeps the object that was freed
  (section 3); they are only asked to be answered, to fail properly and to stay.
* In `CodeGen` an array has at most 1024 elements in the run and any number in the
  theorems; of a buffer that has grown too long nothing is modelled but that it is
  overrun.
* Where the properties of `JavaStrings` leave out strings and buffers, they have a
  name: `Tainted` (the array of an interned string of letters `a`), `Whole` (`charAt`
  and `indexOf` are right for these), `TooLong` (a native string whose length or size
  its header cannot tell gets less room than it takes). A program is `Trusted` until
  it has written outside an object.
* The classes of an `implements` list are taken to be interfaces.
* In `NativeCode` the C functions that compiled code calls are operators on the
  machine: they take their arguments from its stack, leave their result and junk
  in the other registers. Addresses are small numbers of the model's choosing.
* A branch is patched to lead a fixed distance further: where branches lead is
  `CodeGen`'s. The bytecodes on floats and doubles that share a case with those on
  ints and longs are not listed apart. Table jumps, arithmetic on floats and
  most of that on longs, and arrays of arrays end in `assert(0)` in the code
  (`Unsupported`).
* In `JavaStrings` natives are known by name; how a method finds its function
  (`natives.cpp`) is a table look-up. `equals` is called with a string, since with
  NULL it reads through the NULL.

Not modelled:

* The copying of constant values into the static data (`prepare_static_data`),
  and the constants the code generator reads from a pool by `cp_get_*`.
* Casts of arrays (`utils.cpp:411` is an assignment where a comparison is meant).
* `arraycopy` between arrays of references, the load at the end of
  `Class.forName`, `putchar`.
* Names and paths longer than the buffers of 256 bytes (`class_loader.cpp:211`, `375`,
  `class_utils.cpp:29`, `70`), which are copied without a check, and the command line.
* A `jsr_w`; the four instructions that are mimicked wrong, beyond what they do to the
  depth; frames of more than 32 KB, whose offsets wrap, beyond the theorems that say
  up to where they do not.
* The handlers of exceptions at run time: nothing is ever thrown. Their
  translation is in `CodeGen`.
* Shifts and the three-operand forms of the encoder, which nothing calls;
  `string_pool_remove` and `class_table_remove`, likewise; the prepass, whose call
  is commented out (`compile.cpp:271-273`).
* The build files, which CMake and Visual Studio generated, and the demo programs.

There is no crash and restart, no lost or reordered message and no second thread
in this program: nothing is persistent but the class files, and the only thing
that fails and may be tried again is reading one, which `faulty` is about.

## 6. Plan

The control of the parts listed in section 1 is modelled; section 5 says where data
and single operations are left out. What could be added, in the order of what
matters most:

1. `CodeGen`: `DepthRight` for methods with subroutines that are called once.
2. The copying of constants (`prepare_static_data`, `cp_get_*`), so that what becomes
   of a `ConstantValue` can be followed from the file to the field.
3. Arrays of references: casts (`utils.cpp:411`) and `arraycopy` between them.
4. Names and paths that do not fit the buffers of 256 bytes.
