----------------------------- MODULE ClassLoader -----------------------------
(***************************************************************************)
(* The class loader of the VM: load_class and everything it calls, the     *)
(* system class table, and the part of VM start-up (preload_class,         *)
(* prepare_globals) that fills the table before any Java code runs.        *)
(*                                                                         *)
(* The VM has one thread, so the hard part is not parallelism but          *)
(* recursion: load_class calls itself for an element class, a superclass   *)
(* and each superinterface, with a half-built class in every frame.  The   *)
(* native stack is therefore explicit (stack, depth, ret, exc) and a step  *)
(* is the code a frame runs between two recursive calls.                   *)
(***************************************************************************)
EXTENDS Naturals, Sequences

CONSTANTS
    ClassNames,     \* names of classes that come from class files
    ArrayNames,     \* names of array classes ("[I", "[LA;", "[[LA;")
    PrimNames,      \* names of primitive classes ("I", "J", "V"); an
                    \* application class may have one of these names too
    NoName,         \* the NULL string pointer
    EmptyName,      \* the name of no characters, which a class file may give
    ShortNames,     \* names of classes that have one character
    ObjectName,     \* "java/lang/Object"
    ClassName,      \* "java/lang/Class"
    ElemName,       \* the element class name of each array name
    BaseName,       \* the name left when every dimension is stripped
    BootPrims,      \* the preload_primitive_class calls: <<[name, slot], ...>>
    BootLoads,      \* the names prepare_globals loads after them, in order
    NDirs,          \* number of directories on the class path
    Faulty,         \* the directories whose reads may fail with an I/O error
    Disks,          \* the contents the class path may have
    MaxObjects,     \* bound: korp_class objects the VM heap has room for
    MaxDepth,       \* bound: load_class frames the native stack has room for
    MaxRequests     \* bound: requests made once the VM has booted

Names == ClassNames \union ArrayNames \union PrimNames
Ref   == 1..MaxObjects
Dirs  == 1..NDirs

(* "unset" is what an exc holds that its caller does not initialise. *)
Errors == {"OK", "unset", "NoClassDefFound", "ClassFormat", "ClassCircularity",
           "IncompatibleClassChange"}
Failing == Errors \ {"OK", "unset"}

(* The bits of kclass->state the loader writes. *)
Flags == {"LoadingSupers", "Prepared", "Loaded"}

(* A file on the class path, as class_parse sees it.  "malformed" is any   *)
(* file class_parse rejects, one that defines another class included.      *)
ClassFile == [kind : {"missing", "malformed", "class"},
              super : ClassNames \union {NoName},
              intfs : Seq(ClassNames),
              isInterface : BOOLEAN, isFinal : BOOLEAN,
              typesOk : BOOLEAN]   \* every field descriptor has a size

ASSUME NamesAssumption ==
    /\ ClassNames \intersect ArrayNames = {}
    /\ ArrayNames \intersect PrimNames = {}
    /\ NoName \notin Names
    /\ ObjectName \in ClassNames
    /\ ClassName \in ClassNames \ {ObjectName}
    /\ {ObjectName, ClassName} \intersect PrimNames = {}
    /\ EmptyName \notin {ObjectName, ClassName} \union ShortNames \union PrimNames
    /\ ShortNames \subseteq ClassNames \ {ObjectName, ClassName}
    /\ ElemName \in [ArrayNames -> Names]
    /\ BaseName \in [ArrayNames -> ClassNames \union PrimNames]
    /\ \A a \in ArrayNames :
         BaseName[a] = IF ElemName[a] \in ArrayNames THEN BaseName[ElemName[a]]
                                                    ELSE ElemName[a]

ASSUME BootAssumption ==
    /\ BootPrims \in Seq([name : PrimNames, slot : PrimNames])
    /\ BootLoads \in Seq((ClassNames \union ArrayNames) \ {ObjectName, ClassName})

ASSUME BoundsAssumption ==
    /\ MaxObjects \in Nat /\ MaxDepth \in Nat /\ MaxRequests \in Nat
    /\ NDirs \in Nat /\ Faulty \subseteq Dirs

ASSUME DisksAssumption == Disks \subseteq [Dirs -> [ClassNames -> ClassFile]]

VARIABLES
    disk,       \* the class path, fixed for the life of the VM
    heap,       \* the korp_class objects, by address
    next,       \* the address the next korp_class object gets
    table,      \* the system loader's class_table: name -> address, 0 = NULL
    stack,      \* the active calls of load_class, innermost at depth
    depth,
    ret,        \* the value the last call of load_class returned
    exc,        \* *exc, which every call of one request shares
    phase,      \* what the VM's main function is doing
    asked,      \* the name main or Java code is waiting for, or NoName
    step,       \* the position in BootPrims or in BootLoads
    primSlot,   \* kenv->globals->boolean_class ... void_class
    global,     \* kenv->globals->java_lang_Object_class and the like
    answers,    \* history: what each top-level request returned
    requests    \* requests made since the boot

loaderVars == <<heap, next, table, stack, depth, ret, exc>>
mainVars   == <<phase, asked, step, primSlot, global, answers, requests>>
vars       == <<disk, loaderVars, mainVars>>

FileClasses == ClassNames \ PrimNames

Globals == {ObjectName, ClassName} \union {BootLoads[i] : i \in DOMAIN BootLoads}

(* The memory behind an address no korp_class has been allocated at. *)
NoClass == [name |-> NoName, dir |-> 0, super |-> 0, intfs |-> <<>>,
            elem |-> 0, base |-> 0, state |-> {}, mirror |-> 0,
            package |-> FALSE, members |-> 0, owner |-> 0, freed |-> FALSE]

(* The object load_class_from_classfile makes of a file, at address r.     *)
(* members stands for its field_info and method_info and owner for the     *)
(* owner_class of the fields and methods in them.                           *)
ParsedClass(name, d, r) ==
    [name |-> name, dir |-> d, super |-> 0, intfs |-> <<>>, elem |-> 0,
     base |-> 0, state |-> {"LoadingSupers"}, mirror |-> 0, package |-> FALSE,
     members |-> r, owner |-> r, freed |-> FALSE]

(* The object set_array_class makes. *)
ArrayClass(name, elem, base, r) ==
    [name |-> name, dir |-> 0, super |-> global[ObjectName], intfs |-> <<>>,
     elem |-> elem, base |-> base, state |-> {}, mirror |-> 0,
     package |-> heap[base].package, members |-> r, owner |-> r, freed |-> FALSE]

(* The object preload_primitive_class makes, prepared. *)
PrimitiveClass(name, r) ==
    [name |-> name, dir |-> 0, super |-> global[ObjectName], intfs |-> <<>>,
     elem |-> 0, base |-> 0, state |-> {"Prepared"}, mirror |-> 0,
     package |-> FALSE, members |-> r, owner |-> r, freed |-> FALSE]

NoFrame == [name |-> NoName, pc |-> "none", obj |-> 0]

Phases == {"preload", "prims", "globals", "run", "crashed"}
Pcs    == {"none", "search", "elem", "super", "nextIntf", "intf", "link"}

Top     == stack[depth]
FileOf(r) == disk[heap[r].dir][heap[r].name]

(* kclass->modifier is 0 for a class that comes from no class file. *)
IsInterface(r) == heap[r].dir # 0 /\ FileOf(r).isInterface
IsFinal(r)     == heap[r].dir # 0 /\ FileOf(r).isFinal

-----------------------------------------------------------------------------
(* Calls and returns of load_class.                                         *)

FrameAt(name, pc, obj) == [name |-> name, pc |-> pc, obj |-> obj]

(* The caller will go on at pc with obj. *)
Call(n, pc, obj) ==
    /\ depth < MaxDepth
    /\ stack' = [d \in 1..MaxDepth |->
                   IF d = depth + 1 THEN FrameAt(n, "search", 0)
                   ELSE IF d = depth THEN FrameAt(Top.name, pc, obj) ELSE stack[d]]
    /\ depth' = depth + 1

Return(r, e) ==
    /\ stack' = [stack EXCEPT ![depth] = NoFrame]
    /\ depth' = depth - 1
    /\ ret' = r
    /\ exc' = e

Goto(pc, obj) ==
    /\ stack' = [stack EXCEPT ![depth] = FrameAt(Top.name, pc, obj)]
    /\ UNCHANGED <<depth, ret>>

Crash == phase' = "crashed" /\ UNCHANGED <<loaderVars, asked, step, primSlot,
                                            global, answers, requests>>

(* gc_new_vm_object for a korp_class; the object is zeroed. *)
Alloc(class) ==
    /\ next \in Ref
    /\ heap' = [heap EXCEPT ![next] = class]
    /\ next' = next + 1

(* Mutations: the last entry wins; nothing is inserted. *)
InsertLast(tbl, r, name) == [tbl EXCEPT ![name] = r]
InsertNothing(tbl, r, name) == tbl

(* class_table_insert never replaces the entry of a name it finds. *)
Insert(tbl, r, name) == IF tbl[name] = 0 THEN [tbl EXCEPT ![name] = r] ELSE tbl

-----------------------------------------------------------------------------
(* load_class, from its entry to its return.                                *)

(* The class is in the table: it is returned unless its supers are being   *)
(* loaded, which is reported as a circularity.                              *)
Found ==
    /\ Top.pc = "search"
    /\ table[Top.name] # 0
    /\ LET r == table[Top.name]
       IN IF "LoadingSupers" \in heap[r].state
          THEN Return(0, "ClassCircularity")
          ELSE Return(r, exc)
    /\ UNCHANGED <<heap, next, table>>

(* load_class_array_creation first loads the element class ...  The end of *)
(* its name is looked for from the second character behind it on.           *)
LoadElement ==
    /\ Top.pc = "search"
    /\ Top.name \in ArrayNames
    /\ table[Top.name] = 0
    /\ ElemName[Top.name] \notin PrimNames \union ShortNames
    /\ Call(ElemName[Top.name], "elem", Top.obj)
    /\ UNCHANGED <<heap, next, table, ret, exc>>

(* ... then builds the array class and publishes it at once, before it is  *)
(* prepared and before it is packed with its vtable.  A base class that is *)
(* not in the table is a NULL dereference in set_array_class.              *)
CreateArray(elem) ==
    LET base == table[BaseName[Top.name]]
    IN /\ base # 0
       /\ Alloc(ArrayClass(Top.name, elem, base, next))
       /\ table' = Insert(table, next, Top.name)
       /\ Goto("link", next)
       /\ UNCHANGED exc

ElementLoaded ==
    /\ Top.pc = "elem"
    /\ IF ret = 0
       THEN Return(0, exc) /\ UNCHANGED <<heap, next, table>>
       ELSE CreateArray(ret)

(* get_primitive_class_from_type: a global of the VM, never NULL at boot. *)
PrimitiveElement ==
    /\ Top.pc = "search"
    /\ Top.name \in ArrayNames
    /\ table[Top.name] = 0
    /\ ElemName[Top.name] \in PrimNames
    /\ LET elem == primSlot[ElemName[Top.name]]
       IN IF elem = 0
          THEN Return(0, exc) /\ UNCHANGED <<heap, next, table>>
          ELSE CreateArray(elem)

(* load_class_from_media tries the directories in class path order; a file *)
(* it cannot read or parse is passed over.  The empty name it refuses.      *)
Readable(readable, n) == {d \in readable : disk[d][n].kind = "class"}

MediaFails ==
    /\ Top.pc = "search"
    /\ Top.name \in ClassNames
    /\ table[Top.name] = 0
    /\ \/ Top.name = EmptyName /\ Return(0, "ClassCircularity")
       \/ /\ Top.name # EmptyName
          /\ \E broken \in SUBSET Faulty : Readable(Dirs \ broken, Top.name) = {}
          /\ Return(0, "NoClassDefFound")
    /\ UNCHANGED <<heap, next, table>>

(* The parsed class goes straight to load_class_supers: a superclass is    *)
(* required of every class but java/lang/Object.                            *)
MediaFinds ==
    /\ Top.pc = "search"
    /\ Top.name \in ClassNames \ {EmptyName}
    /\ table[Top.name] = 0
    /\ \E broken \in SUBSET Faulty :
          LET found == Readable(Dirs \ broken, Top.name)
          IN \E dir \in found :
               LET super == disk[dir][Top.name].super
               IN /\ \A d \in found : dir <= d
                  /\ Alloc(ParsedClass(Top.name, dir, next))
                  /\ CASE super # NoName ->
                            /\ Call(super, "super", next)
                            /\ exc' = "OK"
                            /\ UNCHANGED ret
                       [] super = NoName /\ Top.name = ObjectName ->
                            /\ Goto("nextIntf", next)
                            /\ exc' = "OK"
                       [] super = NoName /\ Top.name # ObjectName ->
                            Return(0, "ClassFormat")
    /\ UNCHANGED table

(* Mutations: the flags of the superclass are not checked; the flags of the *)
(* class itself are.                                                        *)
SuperLoadedUnchecked ==
    /\ Top.pc = "super"
    /\ IF ret = 0
       THEN Return(0, exc) /\ UNCHANGED heap
       ELSE /\ heap' = [heap EXCEPT ![Top.obj].super = ret]
            /\ Goto("nextIntf", Top.obj)
            /\ UNCHANGED exc
    /\ UNCHANGED <<next, table>>

SuperLoadedChecksClass ==
    /\ Top.pc = "super"
    /\ IF ret = 0
       THEN Return(0, exc) /\ UNCHANGED heap
       ELSE IF IsInterface(Top.obj) \/ IsFinal(Top.obj)
       THEN Return(0, "IncompatibleClassChange") /\ UNCHANGED heap
       ELSE /\ heap' = [heap EXCEPT ![Top.obj].super = ret]
            /\ Goto("nextIntf", Top.obj)
            /\ UNCHANGED exc
    /\ UNCHANGED <<next, table>>

SuperLoaded ==
    /\ Top.pc = "super"
    /\ IF ret = 0
       THEN Return(0, exc) /\ UNCHANGED heap
       ELSE IF IsInterface(ret) \/ IsFinal(ret)
       THEN Return(0, "IncompatibleClassChange") /\ UNCHANGED heap
       ELSE /\ heap' = [heap EXCEPT ![Top.obj].super = ret]
            /\ Goto("nextIntf", Top.obj)
            /\ UNCHANGED exc
    /\ UNCHANGED <<next, table>>

(* The loop over interface_info: a slot holds the interface's name until   *)
(* it is loaded, its class afterwards.                                      *)
LoadInterface ==
    LET intfs == FileOf(Top.obj).intfs
        i     == Len(heap[Top.obj].intfs) + 1
    IN /\ Top.pc = "nextIntf"
       /\ i <= Len(intfs)
       /\ Call(intfs[i], "intf", Top.obj)
       /\ UNCHANGED <<heap, next, table, ret, exc>>

(* Mutation: the loop does not advance. *)
InterfaceNotStored ==
    /\ Top.pc = "intf"
    /\ IF ret = 0
       THEN Return(0, exc)
       ELSE Goto("nextIntf", Top.obj) /\ UNCHANGED exc
    /\ UNCHANGED <<heap, next, table>>

InterfaceLoaded ==
    /\ Top.pc = "intf"
    /\ IF ret = 0
       THEN Return(0, exc) /\ UNCHANGED heap
       ELSE /\ heap' = [heap EXCEPT ![Top.obj].intfs = Append(@, ret)]
            /\ Goto("nextIntf", Top.obj)
            /\ UNCHANGED exc
    /\ UNCHANGED <<next, table>>

(* Mutation: the loop ends before the last superinterface. *)
SupersLoadedTooSoon ==
    /\ Top.pc = "nextIntf"
    /\ Len(heap[Top.obj].intfs) + 1 >= Len(FileOf(Top.obj).intfs)
    /\ heap' = [heap EXCEPT ![Top.obj].state = @ \ {"LoadingSupers"}]
    /\ Goto("link", Top.obj)
    /\ UNCHANGED <<next, table, exc>>

SupersLoaded ==
    /\ Top.pc = "nextIntf"
    /\ Len(heap[Top.obj].intfs) = Len(FileOf(Top.obj).intfs)
    /\ heap' = [heap EXCEPT ![Top.obj].state = @ \ {"LoadingSupers"}]
    /\ Goto("link", Top.obj)
    /\ UNCHANGED <<next, table, exc>>

(* Does the class get its own java.lang.Class object here?  The two that   *)
(* exist before java/lang/Class is usable get theirs in preload_class.     *)
NeedsMirror(name) == name \notin {ObjectName, ClassName}

(* Mutation: the class is published before it is prepared, as arrays are.  *)
PrepareFailsPublished ==
    /\ Top.pc = "link"
    /\ Top.name \in ClassNames
    /\ ~FileOf(Top.obj).typesOk
    /\ Return(0, "IncompatibleClassChange")
    /\ table' = Insert(table, Top.obj, Top.name)
    /\ UNCHANGED <<heap, next>>

(* class_prepare fails on a field type without a size.                      *)
PrepareFails ==
    /\ Top.pc = "link"
    /\ Top.name \in ClassNames
    /\ ~FileOf(Top.obj).typesOk
    /\ Return(0, "IncompatibleClassChange")
    /\ UNCHANGED <<heap, next, table>>

(* Mutations: the class is copied before it is marked prepared; its mirror *)
(* is made before it is copied.                                             *)
FinishedUnprepared(c, r) ==
    [c EXCEPT !.state = @ \union {"Loaded"}, !.package = TRUE,
              !.mirror = IF NeedsMirror(c.name) THEN r ELSE @]
FinishedMirrorFirst(c, r) ==
    [c EXCEPT !.state = @ \union {"Prepared", "Loaded"}, !.package = TRUE,
              !.mirror = IF NeedsMirror(c.name) THEN c.members ELSE @]

(* What the rest of load_class makes of a class.  Its Java mirror is a     *)
(* java.lang.Class object whose class slot holds the address r.            *)
Finished(c, r) ==
    [c EXCEPT !.state = @ \union {"Prepared", "Loaded"}, !.package = TRUE,
              !.mirror = IF NeedsMirror(c.name) THEN r ELSE @]

(* Mutation: the fields and methods keep the owner they had. *)
DiscardedOwning(c, r) == [c EXCEPT !.state = @ \union {"Prepared"}, !.freed = TRUE]

(* What collocate_class_vtable leaves of the original once its fields and  *)
(* methods have been handed to the copy at r.                               *)
Discarded(c, r) ==
    [c EXCEPT !.state = @ \union {"Prepared"}, !.owner = r, !.freed = TRUE]

CanLink == Top.pc = "link" /\ (Top.name \in ClassNames => FileOf(Top.obj).typesOk)

(* Mutation: an interface gets its mirror later. *)
LinkInterfaceEarly ==
    /\ CanLink
    /\ Top.name \in ClassNames /\ IsInterface(Top.obj)
    /\ heap' = [heap EXCEPT ![Top.obj] = Finished(@, Top.obj)]
    /\ table' = Insert(table, Top.obj, Top.name)
    /\ Return(Top.obj, exc)
    /\ UNCHANGED next

(* An interface has no vtable: it stays the object it is.                  *)
LinkInterface ==
    /\ CanLink
    /\ Top.name \in ClassNames /\ IsInterface(Top.obj)
    /\ NeedsMirror(Top.name) => global[ClassName] # 0
    /\ heap' = [heap EXCEPT ![Top.obj] = Finished(@, Top.obj)]
    /\ table' = Insert(table, Top.obj, Top.name)
    /\ Return(Top.obj, exc)
    /\ UNCHANGED next

(* Any other class is copied behind a new header with room for its vtable; *)
(* its fields and methods are handed to the copy and the original is freed.*)
LinkClass ==
    /\ CanLink
    /\ Top.name \in ClassNames => ~IsInterface(Top.obj)
    /\ NeedsMirror(Top.name) => global[ClassName] # 0
    /\ next \in Ref
    /\ heap' = [heap EXCEPT ![Top.obj] = Discarded(@, next),
                            ![next] = Finished(heap[Top.obj], next)]
    /\ next' = next + 1
    /\ table' = Insert(table, next, Top.name)
    /\ Return(next, exc)

(* new_java_object(NULL): a class was loaded although java/lang/Class was  *)
(* not.                                                                     *)
LinkWithoutClassClass ==
    /\ CanLink
    /\ NeedsMirror(Top.name) /\ global[ClassName] = 0
    /\ Crash

(* The ; behind a name of one character is not found: strchr is NULL.       *)
ShortElement ==
    /\ Top.pc = "search"
    /\ Top.name \in ArrayNames
    /\ table[Top.name] = 0
    /\ ElemName[Top.name] \in ShortNames \ PrimNames
    /\ Crash

(* A call too many for the native stack. *)
StackOverflow ==
    /\ depth = MaxDepth
    /\ \/ /\ Top.pc = "search"
          /\ table[Top.name] = 0
          /\ Top.name \in ArrayNames => ElemName[Top.name] \notin PrimNames
       \/ /\ Top.pc = "nextIntf"
          /\ Len(heap[Top.obj].intfs) < Len(FileOf(Top.obj).intfs)
    /\ Crash

LoaderStep ==
    /\ depth > 0
    /\ \/ Found \/ LoadElement \/ ElementLoaded \/ PrimitiveElement
       \/ MediaFails \/ MediaFinds \/ SuperLoaded
       \/ LoadInterface \/ InterfaceLoaded \/ SupersLoaded
       \/ PrepareFails \/ LinkInterface \/ LinkClass
    /\ UNCHANGED mainVars

LoaderCrash == depth > 0 /\ (LinkWithoutClassClass \/ ShortElement \/ StackOverflow)

-----------------------------------------------------------------------------
(* Start-up, and the requests that come after it.                           *)

(* A top-level call of load_class, which does not reset exc.                *)
Ask(n, e) ==
    /\ depth = 0
    /\ asked = NoName
    /\ asked' = n
    /\ Call(n, "none", 0)
    /\ exc' = e
    /\ UNCHANGED <<heap, next, table, ret>>

Answered(n) == depth = 0 /\ asked = n /\ n # NoName

Record(n) == answers' = answers \union {[name |-> n, class |-> ret, exc |-> exc]}

PreloadClass ==
    /\ phase = "preload"
    /\ Ask(ClassName, "OK")
    /\ UNCHANGED <<phase, step, primSlot, global, answers, requests>>

(* The rest of preload_class.  korp_init does not look at the result, so   *)
(* the VM goes on to run the application without java/lang/Class.           *)
ClassPreloaded ==
    /\ phase = "preload"
    /\ Answered(ClassName)
    /\ asked' = NoName
    /\ Record(ClassName)
    /\ IF exc # "OK"
       THEN phase' = "run" /\ UNCHANGED <<heap, global>>
       ELSE LET object == heap[ret].super
            IN /\ phase' = "prims"
               /\ global' = [global EXCEPT ![ClassName] = ret,
                                           ![ObjectName] = object]
               /\ heap' = [heap EXCEPT ![ret].mirror = ret,
                                       ![object].mirror = object]
    /\ UNCHANGED <<next, table, stack, depth, ret, exc, step, primSlot, requests>>

(* preload_primitive_class, once for each type. *)
PreloadPrimitive ==
    /\ phase = "prims"
    /\ step <= Len(BootPrims)
    /\ Alloc(PrimitiveClass(BootPrims[step].name, next))
    /\ table' = Insert(table, next, BootPrims[step].name)
    /\ primSlot' = [primSlot EXCEPT ![BootPrims[step].slot] = next]
    /\ step' = step + 1
    /\ UNCHANGED <<stack, depth, ret, exc, phase, asked, global, answers, requests>>

PrimitivesDone ==
    /\ phase = "prims"
    /\ step = Len(BootPrims) + 1
    /\ phase' = "globals" /\ step' = 1
    /\ UNCHANGED <<loaderVars, asked, primSlot, global, answers, requests>>

(* All the calls of prepare_globals share one exc. *)
LoadGlobal ==
    /\ phase = "globals"
    /\ step <= Len(BootLoads)
    /\ Ask(BootLoads[step], IF step = 1 THEN "unset" ELSE exc)
    /\ UNCHANGED <<phase, step, primSlot, global, answers, requests>>

(* prepare_globals stores what it gets, NULL included. *)
GlobalLoaded ==
    /\ phase = "globals"
    /\ step <= Len(BootLoads)
    /\ Answered(BootLoads[step])
    /\ asked' = NoName
    /\ Record(BootLoads[step])
    /\ global' = [global EXCEPT ![BootLoads[step]] = ret]
    /\ step' = step + 1
    /\ UNCHANGED <<loaderVars, phase, primSlot, requests>>

(* It then looks fields up in java/lang/String and java/lang/StringBuffer. *)
BootDone ==
    /\ phase = "globals"
    /\ step = Len(BootLoads) + 1
    /\ phase' = IF \E n \in Globals \intersect ClassNames : global[n] = 0
                THEN "crashed" ELSE "run"
    /\ UNCHANGED <<loaderVars, asked, step, primSlot, global, answers, requests>>

(* The main class, Class.forName, and every constant pool class entry the  *)
(* JIT resolves, each with an exc of its own; only start_java_execution     *)
(* makes two requests with one.                                             *)
Request(n) ==
    /\ phase = "run"
    /\ requests < MaxRequests
    /\ \E e \in {"unset"} \union (IF requests = 1 THEN {exc} ELSE {}) : Ask(n, e)
    /\ requests' = requests + 1
    /\ UNCHANGED <<phase, step, primSlot, global, answers>>

RequestDone ==
    /\ phase = "run"
    /\ Answered(asked)
    /\ asked' = NoName
    /\ Record(asked)
    /\ UNCHANGED <<loaderVars, phase, step, primSlot, global, requests>>

BootStep ==
    \/ PreloadClass \/ ClassPreloaded
    \/ PreloadPrimitive \/ PrimitivesDone
    \/ LoadGlobal \/ GlobalLoaded \/ BootDone

RunStep == RequestDone \/ \E n \in ClassNames \union ArrayNames : Request(n)

-----------------------------------------------------------------------------
Init ==
    /\ disk \in Disks
    /\ heap = [r \in Ref |-> NoClass] /\ next = 1
    /\ table = [n \in Names |-> 0]
    /\ stack = [d \in 1..MaxDepth |-> NoFrame] /\ depth = 0
    /\ ret = 0 /\ exc = "OK"
    /\ phase = "preload" /\ asked = NoName /\ step = 1
    /\ primSlot = [p \in PrimNames |-> 0]
    /\ global = [n \in Globals |-> 0]
    /\ answers = {} /\ requests = 0

Next ==
    /\ phase # "crashed"
    /\ LoaderStep \/ LoaderCrash \/ BootStep \/ RunStep
    /\ UNCHANGED disk

Spec == Init /\ [][Next]_vars

(* The VM is one thread and the loader never waits, so a step it can take  *)
(* is taken.  Nothing obliges the application to make a request.            *)
Running == phase # "crashed" /\ UNCHANGED disk
FairSpec ==
    /\ Spec
    /\ WF_vars(Running /\ (LoaderStep \/ LoaderCrash \/ BootStep \/ RequestDone))

-----------------------------------------------------------------------------
(* What the loader promises.                                                *)

ClassObject ==
    [name : Names \union {NoName}, dir : 0..NDirs, super : 0..MaxObjects,
     intfs : Seq(0..MaxObjects), elem : 0..MaxObjects, base : 0..MaxObjects,
     state : SUBSET Flags, mirror : 0..MaxObjects, package : BOOLEAN,
     members : 0..MaxObjects, owner : 0..MaxObjects, freed : BOOLEAN]

Frame == [name : Names \union {NoName}, pc : Pcs, obj : 0..MaxObjects]

(* Every variable has the type its declaration in the code gives it. *)
TypeOK ==
    /\ disk \in Disks
    /\ heap \in [Ref -> ClassObject] /\ next \in 1..(MaxObjects + 1)
    /\ table \in [Names -> 0..MaxObjects]
    /\ stack \in [1..MaxDepth -> Frame] /\ depth \in 0..MaxDepth
    /\ ret \in 0..MaxObjects /\ exc \in Errors
    /\ phase \in Phases /\ asked \in Names \union {NoName} /\ step \in Nat
    /\ primSlot \in [PrimNames -> 0..MaxObjects]
    /\ global \in [Globals -> 0..MaxObjects]
    /\ answers \subseteq [name : Names \union {NoName}, class : 0..MaxObjects,
                           exc : Errors]
    /\ requests \in 0..MaxRequests

Published(r) == r # 0 /\ table[heap[r].name] = r

(* A class from a class file is in the table only when its superclass and  *)
(* all its superinterfaces are resolved, in the order the file lists them, *)
(* to classes that are in the table under the names the file gives, and it *)
(* is itself prepared, loaded, packaged and not a freed original.          *)
PublishedLinked ==
    \A n \in FileClasses :
      LET r == table[n]  c == heap[r]  file == FileOf(r)
      IN r # 0 =>
           /\ c.name = n
           /\ c.state = {"Prepared", "Loaded"} /\ c.package /\ ~c.freed
           /\ c.super = IF file.super = NoName THEN 0 ELSE table[file.super]
           /\ c.super = 0 => n = ObjectName
           /\ Len(c.intfs) = Len(file.intfs)
           /\ \A i \in 1..Len(file.intfs) :
                c.intfs[i] = table[file.intfs[i]] /\ c.intfs[i] # 0

(* Packing a class with its vtable moves it: its fields and methods, and   *)
(* its java.lang.Class object, all point to the object that is published,  *)
(* never to the original the packing frees.                                 *)
NothingPointsToOriginal ==
    \A n \in FileClasses :
      table[n] # 0 =>
        /\ heap[heap[table[n]].members].owner = table[n]
        /\ NeedsMirror(n) => heap[table[n]].mirror = table[n]

(* Supers are prepared before the class that inherits their layout and     *)
(* vtable is: class_prepare never meets an unprepared super.               *)
SupersPreparedFirst ==
    depth > 0 /\ Top.pc = "link" =>
      LET c == heap[Top.obj]
      IN /\ c.super # 0 => "Prepared" \in heap[c.super].state
         /\ \A i \in 1..Len(c.intfs) : "Prepared" \in heap[c.intfs[i]].state

(* While a class waits for its supers or its element class, no other call  *)
(* for the same name is active: no class is built twice at the same time.  *)
NoReentrantLoad ==
    \A d, e \in 1..depth : d # e => stack[d].name # stack[e].name

(* A class whose supers lead back to it is refused (class_loader.h lists    *)
(* ClassCircularityError among the errors of the loader): it is never      *)
(* parsed again below itself until the native stack is full.               *)
CyclesAreRefused ==
    ~ (phase = "crashed" /\
         \E d, e \in 1..depth : /\ d # e /\ stack[d].name = stack[e].name
                               /\ {stack[d].pc, stack[e].pc} \subseteq {"super", "intf"})

(* A request that fails says so: with NULL comes an error, although exc is *)
(* not reset between requests and often not set at all, and the class is   *)
(* not in the table, so that a later request tries again instead of getting *)
(* a class that is half built.  preload_class looks at exc alone: there it *)
(* is OK exactly when a class is returned.                                 *)
FailureLeavesNoTrace ==
    depth = 0 /\ asked # NoName =>
      /\ ret = 0 => exc \in Failing /\ table[asked] = 0
      /\ phase = "preload" => (exc = "OK" <=> ret # 0)

(* What makes a class impossible to load: no name, no file that parses, no *)
(* superclass, a field type without a size, a superclass that is final or  *)
(* an interface, or a super that is itself impossible to load.  A class    *)
(* above which the hierarchy never ends is impossible to load as well.     *)
BadFile(file, n, bad) ==
    \/ n = EmptyName
    \/ file.kind # "class"
    \/ file.super = NoName /\ n # ObjectName
    \/ ~file.typesOk
    \/ file.super \in bad
    \/ \E i \in 1..Len(file.intfs) : file.intfs[i] \in bad
    \/ /\ file.super \in FileClasses
       /\ \A d \in Dirs : LET super == disk[d][file.super]
                         IN super.kind = "class" => super.isFinal \/ super.isInterface

AllBad(bad) == \A n \in bad : \A d \in Dirs : BadFile(disk[d][n], n, bad)

Rejected == UNION {bad \in SUBSET FileClasses : AllBad(bad)}

(* A class that is impossible to load, because of its own file or of any   *)
(* file above it, never gets into the table, whatever is loaded when.      *)
RejectedNeverPublished == \A n \in Rejected : table[n] = 0

(* And only such a class is refused.  (One directory that can be read.)    *)
OnlyRejectedRefused ==
    depth = 0 /\ asked \in FileClasses /\ ret = 0 => asked \in Rejected

(* What a successful request for a class of a file returns is a class with *)
(* the name asked for that has been loaded and has a java.lang.Class object *)
(* of its own.                                                              *)
AnswersLoaded ==
    \A a \in answers : a.class # 0 /\ a.name \in FileClasses =>
      /\ heap[a.class].name = a.name
      /\ "Loaded" \in heap[a.class].state
      /\ NeedsMirror(a.name) => heap[a.class].mirror = a.class

(* korp_init looks at no result, and the VM goes on even when              *)
(* preload_class has failed and every global is NULL.  But Java code never *)
(* gets a class of the application from such a VM: once it has one, the    *)
(* classes the VM depends on are all there.                                 *)
Application == FileClasses \ Globals

RunsSupported ==
    phase = "run" /\ (\E a \in answers : a.class # 0 /\ a.name \in Application)
      => \A n \in Globals \intersect ClassNames : global[n] # 0

(* An entry of the class table is never changed or removed. *)
BindingsStable ==
    [][\A n \in Names : table[n] # 0 => table'[n] = table[n]]_vars

(* Where the hierarchy has no cycle every request is answered, and the VM  *)
(* survives it: no super is NULL where load_class uses it, and the         *)
(* recursion never fills the stack.  Left out is the array class of a class *)
(* with a name of one character, on which load_class_array_creation writes *)
(* through NULL.                                                            *)
ShortArray(n) == n \in ArrayNames /\ BaseName[n] \in ShortNames

EveryRequestAnswered ==
    depth > 0 ~> \/ depth = 0 /\ phase # "crashed"
                 \/ phase = "crashed" /\ ShortArray(asked)

-----------------------------------------------------------------------------
(* The loader implements the registry of ClassRegistry: the class table,   *)
(* restricted to classes from class files, is the registry, and a request  *)
(* is answered with what it holds.                                          *)

DirectSupers(c) ==
    {heap[s].name : s \in ({c.super} \union {c.intfs[i] : i \in 1..Len(c.intfs)}) \ {0}}

Registry == INSTANCE ClassRegistry WITH
    Names   <- FileClasses,
    Ids     <- Ref,
    bound   <- [n \in FileClasses |-> table[n]],
    supers  <- [n \in FileClasses |->
                  IF table[n] = 0 THEN {}
                  ELSE FileClasses \intersect DirectSupers(heap[table[n]])],
    answers <- {[name |-> a.name, class |-> a.class] :
                  a \in {b \in answers : b.name \in FileClasses}}

(* Every behaviour of the loader is one of the registry.                   *)
ImplementsRegistry == Registry!RegistrySpec

=============================================================================
