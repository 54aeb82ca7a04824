--------------------------- MODULE ClassLoaderInv ---------------------------
(***************************************************************************)
(* The inductive invariant behind the theorems about ClassLoader.  It says *)
(* what every frame of the native stack knows: a frame that is building a  *)
(* class owns an object nobody else can see yet, the supers it has         *)
(* resolved so far are in the table, and the frame above it is loading     *)
(* exactly the class it waits for.                                          *)
(***************************************************************************)
EXTENDS ClassLoader

Building  == {"super", "nextIntf", "intf", "link"}
Waiting   == {"elem", "super", "intf"}
Allocated == 1..(next - 1)

IsPrepared(r) == r \in Allocated /\ "Prepared" \in heap[r].state

(* What a frame may be doing with which kind of name. *)
FrameOK(f) ==
    /\ f.name \in ClassNames \union ArrayNames
    /\ f.pc # "none"
    /\ f.pc = "elem" => f.name \in ArrayNames
    /\ f.pc \in {"super", "nextIntf", "intf"} => f.name \in ClassNames
    /\ f.pc \in Building => f.obj \in Allocated /\ heap[f.obj].name = f.name

FramesOK == \A d \in 1..depth : FrameOK(stack[d])

(* The objects in the heap are what set_array_class, preload_primitive_    *)
(* class and load_class_from_classfile made them, and have prepared supers.*)
ObjectOK(r) ==
    LET c == heap[r]
    IN /\ c.name \in Names
       /\ c.name \in FileClasses => c.dir \in Dirs /\ FileOf(r).kind = "class"
       /\ c.super # 0 => IsPrepared(c.super)
       /\ \A i \in 1..Len(c.intfs) : IsPrepared(c.intfs[i])

HeapOK == \A r \in Allocated : ObjectOK(r)

(* The supers a class has resolved are in the table.                       *)
SupersIn(r) ==
    LET c == heap[r]  file == FileOf(r)
    IN /\ IF file.super = NoName
          THEN c.super = 0 /\ c.name = ObjectName
          ELSE /\ c.super \in Allocated /\ heap[c.super].name = file.super
               /\ table[file.super] # 0
               /\ ~IsInterface(c.super) /\ ~IsFinal(c.super)
       /\ Len(c.intfs) <= Len(file.intfs)
       /\ \A i \in 1..Len(c.intfs) : table[file.intfs[i]] # 0

(* A class under construction. *)
BuildOK(f) ==
    LET c == heap[f.obj]  file == FileOf(f.obj)
    IN /\ c.dir \in Dirs /\ file.kind = "class" /\ f.name # EmptyName
       /\ c.state = IF f.pc = "link" THEN {} ELSE {"LoadingSupers"}
       /\ ~c.freed /\ c.members = f.obj /\ c.owner = f.obj
       /\ f.pc = "super" => file.super # NoName /\ c.intfs = <<>>
       /\ f.pc # "super" => SupersIn(f.obj)
       /\ f.pc = "intf" => Len(c.intfs) < Len(file.intfs)
       /\ f.pc = "link" => Len(c.intfs) = Len(file.intfs)

BuildsOK == \A d \in 1..depth :
    stack[d].pc \in Building /\ stack[d].name \in ClassNames => BuildOK(stack[d])

(* A class from a file that is in the table is complete.                   *)
Complete(r) ==
    LET c == heap[r]
    IN /\ c.state = {"Prepared", "Loaded"} /\ c.package /\ ~c.freed
       /\ c.dir \in Dirs /\ FileOf(r).kind = "class" /\ FileOf(r).typesOk
       /\ SupersIn(r) /\ Len(c.intfs) = Len(FileOf(r).intfs)
       /\ c.members \in Allocated /\ heap[c.members].name = c.name
       /\ heap[c.members].owner = r
       /\ NeedsMirror(c.name) => c.mirror = r

(* The table binds a name to a class of that name. *)
EntryOK(n) ==
    /\ table[n] \in Allocated
    /\ heap[table[n]].name = n
    /\ n \notin ArrayNames => "Prepared" \in heap[table[n]].state
    /\ n \in FileClasses => Complete(table[n])

TableOK == \A n \in Names : table[n] # 0 => EntryOK(n)

(* An object under construction belongs to one frame and is not published, *)
(* and so are its fields and methods.                                       *)
OwnObject == \A d, e \in 1..depth :
    stack[d].pc \in Building /\ stack[e].pc \in Building /\ d # e
      => stack[d].obj # stack[e].obj

Unpublished == \A d \in 1..depth :
    stack[d].pc \in Building /\ stack[d].name \in ClassNames =>
      /\ \A n \in Names : table[n] # stack[d].obj
      /\ \A n \in FileClasses : table[n] # 0 => heap[table[n]].members # stack[d].obj

(* The name that a waiting frame, or main at depth 0, has asked for.       *)
Wanted(f) ==
    IF f.pc = "elem" THEN ElemName[f.name]
    ELSE IF f.pc = "super" THEN FileOf(f.obj).super
    ELSE FileOf(f.obj).intfs[Len(heap[f.obj].intfs) + 1]

Pending(d) == IF d = 0 THEN asked ELSE Wanted(stack[d])

CallsOK ==
    /\ \A d \in 1..(depth - 1) : stack[d].pc \in Waiting
    /\ \A d \in 1..depth : stack[d].name = Pending(d - 1)

(* A class that has been returned is the one that was asked for.  Until    *)
(* java/lang/Class is there, NULL comes with an error.                     *)
Resuming == IF depth = 0 THEN asked # NoName ELSE Top.pc \in Waiting

ResultOK == Resuming =>
    /\ ret # 0 =>
         /\ ret \in Allocated /\ heap[ret].name = Pending(depth)
         /\ table[Pending(depth)] # 0
         /\ Pending(depth) \notin ArrayNames => IsPrepared(ret)
    /\ ret = 0 /\ phase = "preload" => exc \in Failing

(* What main is waiting for. *)
MainOK ==
    /\ asked # NoName => asked \in ClassNames \union ArrayNames
    /\ step >= 1
    /\ phase = "prims" => depth = 0
    /\ phase = "preload" => \A d \in 1..depth : stack[d].name \in ClassNames
    /\ global[ObjectName] # 0 => IsPrepared(global[ObjectName])

IInv == /\ TypeOK /\ FramesOK /\ HeapOK /\ BuildsOK /\ TableOK /\ OwnObject
        /\ Unpublished /\ CallsOK /\ ResultOK /\ MainOK

-----------------------------------------------------------------------------
(* What is true only if no load gets under way a second time and succeeds  *)
(* before the first one: the class of a name is then one class.            *)

(* A name is always read from one and the same directory: there is one     *)
(* file for it, or the first of them can always be read.                   *)
OneSource(path) ==
    \A n \in ClassNames : \A d, e \in Dirs :
      d < e /\ path[d][n].kind = "class" /\ path[e][n].kind = "class" => d \notin Faulty

(* The rank of a name is higher than that of every name its load asks for. *)
Descends(path, rank) ==
    /\ \A a \in ArrayNames : rank[ElemName[a]] < rank[a]
    /\ \A n \in ClassNames : \A d \in Dirs :
         LET file == path[d][n]
         IN file.kind = "class" =>
              /\ file.super # NoName => rank[file.super] < rank[n]
              /\ \A i \in 1..Len(file.intfs) : rank[file.intfs[i]] < rank[n]

Acyclic(path) == \E rank \in [Names -> Nat] : Descends(path, rank)

Determined(path) == OneSource(path) \/ Acyclic(path)

(* Along the stack the ranks go down. *)
StackDescends == \A rank \in [Names -> Nat] : Descends(disk, rank) =>
    \A d, e \in 1..depth : d < e => rank[stack[e].name] < rank[stack[d].name]

(* A file is passed over only for one that cannot be read.                 *)
FirstReadable == \A d \in 1..depth :
    stack[d].pc \in Building /\ stack[d].name \in ClassNames =>
      \A e \in Dirs : e < heap[stack[d].obj].dir /\ disk[e][stack[d].name].kind = "class"
                        => e \in Faulty

(* A name is not bound while its class waits for its supers or its element *)
(* class, nor while it is about to be linked; but an array class is bound  *)
(* before it is linked.                                                     *)
Incomplete(f) == f.pc = "elem" \/ (f.pc \in Building /\ f.name \in ClassNames)

NamesUnbound == \A d \in 1..depth :
    /\ Incomplete(stack[d]) => table[stack[d].name] = 0
    /\ stack[d].pc = "elem" => ElemName[stack[d].name] \notin PrimNames
    /\ stack[d].pc = "link" /\ stack[d].name \in ArrayNames => table[stack[d].name] # 0

(* A super that is stored in a class is the one the table binds its name to.*)
SupersBound(r) ==
    LET c == heap[r]  file == FileOf(r)
    IN /\ c.super # 0 => file.super # NoName /\ c.super = table[file.super]
       /\ Len(c.intfs) <= Len(file.intfs)
       /\ \A i \in 1..Len(c.intfs) : c.intfs[i] = table[file.intfs[i]]

StoredBound == \A r \in Allocated : heap[r].name \in ClassNames /\ heap[r].dir # 0 => SupersBound(r)

(* What is returned is what the table binds the name to, NULL included.    *)
ReturnsBound == Resuming =>
    /\ ret = 0 => table[Pending(depth)] = 0
    /\ ret # 0 /\ Pending(depth) \in ClassNames => ret = table[Pending(depth)]

OneClassPerName == /\ StackDescends /\ FirstReadable /\ NamesUnbound
                   /\ StoredBound /\ ReturnsBound

-----------------------------------------------------------------------------
(* What is returned, and how failure is reported.                          *)

(* A class that has been through load_class. *)
Mature(r) == /\ r \in Allocated /\ "Loaded" \in heap[r].state
             /\ NeedsMirror(heap[r].name) => heap[r].mirror = r

(* Until java/lang/Class is there an error is reported only while NULL is  *)
(* being passed down the stack, never with a class.                        *)
ErrorsOK ==
    phase = "preload" => /\ exc # "unset"
                         /\ exc # "OK" => (depth = 0 \/ Resuming) /\ ret = 0

(* No class in the table is still loading its supers: what load_class looks *)
(* for to find a circularity is never there.                               *)
NoneLoading ==
    /\ \A n \in Names : table[n] # 0 => "LoadingSupers" \notin heap[table[n]].state
    /\ depth > 0 /\ Top.pc = "link" => "LoadingSupers" \notin heap[Top.obj].state

ReturnsMature ==
    /\ Resuming /\ ret # 0 /\ Pending(depth) \in FileClasses => Mature(ret)
    /\ \A a \in answers : a.class # 0 /\ a.name \in FileClasses =>
         Mature(a.class) /\ heap[a.class].name = a.name

(* As long as java/lang/Class is not usable no class file but those of the *)
(* two classes that need no java.lang.Class object becomes a class, not    *)
(* even when the VM goes on after preload_class has failed.                 *)
NothingBeforeClassClass ==
    global[ClassName] = 0 =>
      \A n \in FileClasses : table[n] # 0 => ~NeedsMirror(n)

(* The VM runs with the classes it depends on in place, or with none.      *)
RunsWithGlobals ==
    phase = "run" =>
      \/ \A n \in Globals \intersect ClassNames : global[n] # 0
      \/ \A n \in Globals : global[n] = 0

(* A class that has been answered is in the table under its name.          *)
AnswersBound == \A a \in answers : a.class # 0 => a.name \in Names /\ table[a.name] # 0

(* The element types of arrays have a class once the VM has started, unless *)
(* it runs without java/lang/Class.                                         *)
SlotsNeeded == {ElemName[a] : a \in ArrayNames} \intersect PrimNames
SlotsFilled == \A p \in SlotsNeeded : primSlot[p] # 0
BootCovers  == \A p \in SlotsNeeded : \E i \in 1..Len(BootPrims) : BootPrims[i].slot = p

StartOK ==
    /\ phase = "preload" => step = 1 /\ \A n \in Globals : global[n] = 0
    /\ phase = "prims" => asked = NoName
    /\ phase = "globals" /\ step > Len(BootLoads) => asked = NoName
    /\ phase = "crashed" => depth > 0 \/ asked = NoName
    /\ phase = "prims" => \A i \in 1..Len(BootPrims) :
         i < step => primSlot[BootPrims[i].slot] # 0
    /\ BootCovers /\ phase = "globals" => SlotsFilled
    /\ BootCovers /\ phase = "run" => SlotsFilled \/ global[ClassName] = 0

(* NULL comes with an error as long as every element type has its class;   *)
(* before the primitive classes are made only classes of files are asked   *)
(* for.                                                                     *)
NullsReported ==
    (phase = "preload" \/ SlotsFilled) /\ Resuming /\ ret = 0 => exc \in Failing

=============================================================================
