-------------------------- MODULE ClassLoaderProofs --------------------------
(* The inductive invariant of ClassLoader, step by step of the loader, and   *)
(* the theorems about its class table that follow, for every class path.    *)
EXTENDS ClassLoaderInv, TLAPS

-----------------------------------------------------------------------------
(* What the invariant says about the frame on top of the stack.            *)

LEMMA TopFacts ==
  ASSUME TypeOK, FramesOK, depth > 0
  PROVE  /\ depth \in 1..MaxDepth /\ Top \in Frame /\ FrameOK(Top)
         /\ Top.name \in Names
         /\ Top.pc \in Building => Top.obj \in Ref /\ heap[Top.obj] \in ClassObject
<1>1. depth \in 1..MaxDepth /\ Top \in Frame
  BY BoundsAssumption DEF TypeOK, Top
<1>2. FrameOK(Top)
  BY <1>1 DEF FramesOK, Top
<1>3. next - 1 <= MaxObjects /\ next \in Nat
  BY BoundsAssumption DEF TypeOK
<1> QED BY <1>1, <1>2, <1>3, BoundsAssumption
        DEF TypeOK, FrameOK, Names, Ref, Building, Allocated

LEMMA FileType ==
  ASSUME TypeOK, NEW r \in Ref, heap[r].name \in ClassNames, heap[r].dir \in Dirs
  PROVE  FileOf(r) \in ClassFile
  BY DisksAssumption DEF TypeOK, FileOf

-----------------------------------------------------------------------------
(* Type correctness.                                                        *)

LEMMA InitTypeOK == Init => TypeOK
  BY NamesAssumption, BoundsAssumption, DisksAssumption
  DEF Init, TypeOK, Ref, ClassObject, Frame, NoClass, NoFrame, Errors, Phases,
      Pcs, Names, Globals, Dirs

(* A frame pushed, popped or moved on leaves a well-typed stack. *)
LEMMA CallType ==
  ASSUME TypeOK, NEW n \in Names, NEW pc \in Pcs, NEW obj \in 0..MaxObjects,
         depth > 0 => Top.name \in Names, Call(n, pc, obj)
  PROVE  stack' \in [1..MaxDepth -> Frame] /\ depth' \in 0..MaxDepth
<1>1. FrameAt(n, "search", 0) \in Frame
  BY BoundsAssumption DEF FrameAt, Frame, Pcs
<1>2. depth > 0 => FrameAt(Top.name, pc, obj) \in Frame
  BY DEF FrameAt, Frame
<1> QED BY <1>1, <1>2, BoundsAssumption DEF TypeOK, Call

LEMMA ReturnType ==
  ASSUME TypeOK, depth > 0, NEW r \in 0..MaxObjects, NEW e \in Errors, Return(r, e)
  PROVE  /\ stack' \in [1..MaxDepth -> Frame] /\ depth' \in 0..MaxDepth
         /\ ret' \in 0..MaxObjects /\ exc' \in Errors
<1>1. NoFrame \in Frame
  BY BoundsAssumption DEF NoFrame, Frame, Pcs
<1> QED BY <1>1, BoundsAssumption DEF TypeOK, Return

LEMMA GotoType ==
  ASSUME TypeOK, NEW pc \in Pcs, NEW obj \in 0..MaxObjects,
         Top.name \in Names, Goto(pc, obj)
  PROVE  /\ stack' \in [1..MaxDepth -> Frame] /\ depth' \in 0..MaxDepth
         /\ ret' \in 0..MaxObjects
<1>1. FrameAt(Top.name, pc, obj) \in Frame
  BY DEF FrameAt, Frame
<1> QED BY <1>1 DEF TypeOK, Goto

LEMMA AllocType ==
  ASSUME TypeOK, NEW c \in ClassObject, Alloc(c)
  PROVE  heap' \in [Ref -> ClassObject] /\ next' \in 1..(MaxObjects + 1)
  BY BoundsAssumption DEF TypeOK, Alloc, Ref

LEMMA InsertType ==
  ASSUME TypeOK, NEW r \in 0..MaxObjects, NEW n \in Names
  PROVE  Insert(table, r, n) \in [Names -> 0..MaxObjects]
  BY DEF TypeOK, Insert

(* The objects the loader makes are class objects. *)
LEMMA ObjectTypes ==
  ASSUME TypeOK, NEW name \in Names, NEW r \in Ref
  PROVE  /\ \A dir \in Dirs : ParsedClass(name, dir, r) \in ClassObject
         /\ PrimitiveClass(name, r) \in ClassObject
         /\ \A elem \in 0..MaxObjects : \A base \in Ref :
              ArrayClass(name, elem, base, r) \in ClassObject
<1>1. /\ global[ObjectName] \in 0..MaxObjects
      /\ \A base \in Ref : heap[base].package \in BOOLEAN
  BY DEF TypeOK, Globals, ClassObject
<1>2. /\ r \in 0..MaxObjects /\ 0 \in 0..MaxObjects /\ Ref \subseteq 0..MaxObjects
      /\ <<>> \in Seq(0..MaxObjects) /\ Dirs \subseteq 0..NDirs /\ 0 \in 0..NDirs
  BY BoundsAssumption DEF Ref, Dirs
<1> QED BY <1>1, <1>2 DEF ParsedClass, PrimitiveClass, ArrayClass, ClassObject, Flags

LEMMA UpdateTypes ==
  ASSUME NEW c \in ClassObject, NEW r \in 0..MaxObjects
  PROVE  /\ Finished(c, r) \in ClassObject /\ Discarded(c, r) \in ClassObject
         /\ [c EXCEPT !.super = r] \in ClassObject
         /\ [c EXCEPT !.intfs = Append(@, r)] \in ClassObject
         /\ [c EXCEPT !.state = @ \ {"LoadingSupers"}] \in ClassObject
         /\ [c EXCEPT !.mirror = r] \in ClassObject
<1>1. Finished(c, r) \in ClassObject
  BY DEF Finished, ClassObject, Flags
<1>2. Discarded(c, r) \in ClassObject
  BY DEF Discarded, ClassObject, Flags
<1>3. [c EXCEPT !.super = r] \in ClassObject
  BY DEF ClassObject
<1>4. [c EXCEPT !.intfs = Append(@, r)] \in ClassObject
  <2>1. Append(c.intfs, r) \in Seq(0..MaxObjects)
    BY DEF ClassObject
  <2> QED BY <2>1 DEF ClassObject
<1>5. [c EXCEPT !.state = @ \ {"LoadingSupers"}] \in ClassObject
  BY DEF ClassObject, Flags
<1>6. [c EXCEPT !.mirror = r] \in ClassObject
  BY DEF ClassObject
<1> QED BY <1>1, <1>2, <1>3, <1>4, <1>5, <1>6

LEMMA CreateArrayType ==
  ASSUME TypeOK, Top.name \in ArrayNames, NEW elem \in 0..MaxObjects,
         CreateArray(elem)
  PROVE  /\ heap' \in [Ref -> ClassObject] /\ next' \in 1..(MaxObjects + 1)
         /\ table' \in [Names -> 0..MaxObjects]
         /\ stack' \in [1..MaxDepth -> Frame] /\ depth' \in 0..MaxDepth
         /\ ret' \in 0..MaxObjects /\ exc' \in Errors
<1> DEFINE base == table[BaseName[Top.name]]
<1>1. Top.name \in Names /\ BaseName[Top.name] \in Names
  BY NamesAssumption DEF Names
<1>2. base \in Ref /\ next \in Ref /\ next \in 0..MaxObjects
  BY <1>1, BoundsAssumption DEF CreateArray, Alloc, TypeOK, Ref
<1>3. heap' \in [Ref -> ClassObject] /\ next' \in 1..(MaxObjects + 1)
  BY <1>1, <1>2, AllocType, ObjectTypes DEF CreateArray
<1>4. table' \in [Names -> 0..MaxObjects]
  BY <1>1, <1>2, InsertType DEF CreateArray
<1>5. /\ stack' \in [1..MaxDepth -> Frame] /\ depth' \in 0..MaxDepth
      /\ ret' \in 0..MaxObjects
  <2>1. Goto("link", next) /\ "link" \in Pcs
    BY DEF CreateArray, Pcs
  <2> QED BY <1>1, <1>2, <2>1, GotoType
<1>6. exc' \in Errors
  BY DEF CreateArray, TypeOK
<1> QED BY <1>3, <1>4, <1>5, <1>6

(* The loader's own variables. *)
LoaderTypeOK ==
    /\ heap \in [Ref -> ClassObject] /\ next \in 1..(MaxObjects + 1)
    /\ table \in [Names -> 0..MaxObjects]
    /\ stack \in [1..MaxDepth -> Frame] /\ depth \in 0..MaxDepth
    /\ ret \in 0..MaxObjects /\ exc \in Errors

(* The file of the class under construction in the frame on top. *)
LEMMA TopFile ==
  ASSUME TypeOK, FramesOK, BuildsOK, depth > 0, Top.pc \in Building,
         Top.name \in ClassNames
  PROVE  /\ Top.obj \in Ref /\ BuildOK(Top) /\ FileOf(Top.obj) \in ClassFile
         /\ heap[Top.obj].name = Top.name
<1>1. Top.obj \in Ref /\ heap[Top.obj].name = Top.name /\ depth \in 1..depth
  BY TopFacts, BoundsAssumption DEF FrameOK, TypeOK
<1>2. BuildOK(Top)
  BY <1>1 DEF BuildsOK, Top
<1> QED BY <1>1, <1>2, FileType DEF BuildOK

LEMMA MediaFindsType ==
  ASSUME TypeOK, FramesOK, BuildsOK, depth > 0, MediaFinds
  PROVE  LoaderTypeOK'
<1>1. Top.name \in Names /\ Top.name \in ClassNames /\ Top \in Frame
  BY TopFacts DEF MediaFinds
<1>2. PICK dir \in Dirs :
        LET super == disk[dir][Top.name].super
        IN /\ Alloc(ParsedClass(Top.name, dir, next))
           /\ CASE super # NoName ->
                     Call(super, "super", next) /\ exc' = "OK" /\ UNCHANGED ret
                [] super = NoName /\ Top.name = ObjectName ->
                     Goto("nextIntf", next) /\ exc' = "OK"
                [] super = NoName /\ Top.name # ObjectName ->
                     Return(0, "ClassFormat")
  BY DEF MediaFinds, Readable
<1> DEFINE super == disk[dir][Top.name].super
<1>3. next \in Ref /\ next \in 0..MaxObjects
  BY <1>2 DEF Alloc, Ref
<1>4. heap' \in [Ref -> ClassObject] /\ next' \in 1..(MaxObjects + 1)
  BY <1>1, <1>2, <1>3, AllocType, ObjectTypes
<1>5. super \in ClassNames \union {NoName}
  BY <1>1, DisksAssumption DEF TypeOK, ClassFile
<1>6. /\ {"super", "nextIntf"} \subseteq Pcs /\ 0 \in 0..MaxObjects
      /\ {"OK", "ClassFormat"} \subseteq Errors
  BY BoundsAssumption DEF Pcs, Errors
<1>7. /\ stack' \in [1..MaxDepth -> Frame] /\ depth' \in 0..MaxDepth
      /\ ret' \in 0..MaxObjects /\ exc' \in Errors
  <2>1. CASE super # NoName
    <3>1. super \in Names /\ ret' = ret /\ exc' = "OK" /\ Call(super, "super", next)
      BY <1>2, <1>5, <2>1 DEF Names
    <3>2. ret \in 0..MaxObjects
      BY DEF TypeOK
    <3> QED BY <1>1, <1>3, <1>6, <3>1, <3>2, CallType
  <2>2. CASE super = NoName /\ Top.name = ObjectName
    BY <1>1, <1>2, <1>3, <1>6, <2>2, GotoType
  <2>3. CASE super = NoName /\ Top.name # ObjectName
    BY <1>2, <1>6, <2>3, ReturnType
  <2> QED BY <2>1, <2>2, <2>3
<1>8. table' \in [Names -> 0..MaxObjects]
  BY DEF MediaFinds, TypeOK
<1> QED BY <1>4, <1>7, <1>8 DEF LoaderTypeOK

LEMMA LoaderStepType ==
  ASSUME TypeOK, FramesOK, BuildsOK, depth > 0, LoaderStep
  PROVE  LoaderTypeOK'
<1>1. /\ Top \in Frame /\ Top.name \in Names /\ Top.obj \in 0..MaxObjects
      /\ FrameOK(Top) /\ LoaderTypeOK
  BY TopFacts DEF Frame, TypeOK, LoaderTypeOK
<1>2. /\ 0 \in 0..MaxObjects /\ ret \in 0..MaxObjects /\ exc \in Errors
      /\ {"ClassCircularity", "NoClassDefFound", "IncompatibleClassChange"}
           \subseteq Errors
      /\ {"elem", "super", "intf", "nextIntf", "link"} \subseteq Pcs
  BY BoundsAssumption DEF TypeOK, Errors, Pcs
<1>3. ASSUME NEW r \in 0..MaxObjects, NEW e \in Errors, Return(r, e),
             UNCHANGED <<heap, next, table>>
      PROVE  LoaderTypeOK'
  BY <1>1, <1>3, ReturnType DEF LoaderTypeOK
<1>4. CASE Found
  BY <1>1, <1>2, <1>3, <1>4 DEF Found, TypeOK
<1>5. CASE LoadElement
  <2>1. ElemName[Top.name] \in Names
    BY <1>5, NamesAssumption DEF LoadElement
  <2>2. Call(ElemName[Top.name], "elem", Top.obj)
    BY <1>5 DEF LoadElement
  <2> QED BY <1>1, <1>2, <1>5, <2>1, <2>2, CallType DEF LoadElement, LoaderTypeOK
<1>6. CASE ElementLoaded
  <2>1. Top.name \in ArrayNames
    BY <1>1, <1>6 DEF ElementLoaded, FrameOK
  <2> QED BY <1>2, <1>3, <1>6, <2>1, CreateArrayType DEF ElementLoaded, LoaderTypeOK
<1>7. CASE PrimitiveElement
  <2>1. primSlot[ElemName[Top.name]] \in 0..MaxObjects
    BY <1>7 DEF PrimitiveElement, TypeOK
  <2> QED BY <1>2, <1>3, <1>7, <2>1, CreateArrayType
          DEF PrimitiveElement, LoaderTypeOK
<1>8. CASE MediaFails
  <2>1. \E e \in Errors : Return(0, e)
    BY <1>2, <1>8 DEF MediaFails, Errors
  <2> QED BY <1>2, <1>3, <1>8, <2>1 DEF MediaFails
<1>9. CASE MediaFinds
  BY <1>9, MediaFindsType
<1>10. CASE SuperLoaded
  <2>1. Top.obj \in Ref /\ heap[Top.obj] \in ClassObject
    BY <1>1, <1>10, TopFacts DEF SuperLoaded, FrameOK, Building
  <2>2. CASE UNCHANGED heap /\ \E e \in Errors : Return(0, e)
    BY <1>2, <1>3, <1>10, <2>2 DEF SuperLoaded
  <2>3. CASE heap' = [heap EXCEPT ![Top.obj].super = ret]
             /\ Goto("nextIntf", Top.obj) /\ UNCHANGED exc
    <3>1. heap' \in [Ref -> ClassObject]
      BY <1>1, <1>2, <2>1, <2>3, UpdateTypes DEF LoaderTypeOK
    <3> QED BY <1>1, <1>2, <1>10, <2>3, <3>1, GotoType DEF SuperLoaded, LoaderTypeOK
  <2> QED BY <1>2, <1>10, <2>2, <2>3 DEF SuperLoaded
<1>11. CASE LoadInterface
  <2> DEFINE intfs == FileOf(Top.obj).intfs
             i     == Len(heap[Top.obj].intfs) + 1
  <2>1. intfs \in Seq(ClassNames) /\ i \in 1..Len(intfs)
    <3>1. Top.pc \in Building /\ Top.name \in ClassNames
      BY <1>1, <1>11 DEF LoadInterface, FrameOK, Building
    <3>2. heap[Top.obj].intfs \in Seq(0..MaxObjects) /\ intfs \in Seq(ClassNames)
      BY <3>1, TopFile DEF TypeOK, ClassObject, ClassFile
    <3> QED BY <1>11, <3>2 DEF LoadInterface
  <2>2. intfs[i] \in Names /\ Call(intfs[i], "intf", Top.obj)
    BY <1>11, <2>1 DEF LoadInterface, Names
  <2> QED BY <1>1, <1>2, <1>11, <2>2, CallType DEF LoadInterface, LoaderTypeOK
<1>12. CASE InterfaceLoaded
  <2>1. Top.obj \in Ref /\ heap[Top.obj] \in ClassObject
    BY <1>1, <1>12, TopFacts DEF InterfaceLoaded, FrameOK, Building
  <2>2. CASE UNCHANGED heap /\ Return(0, exc)
    BY <1>2, <1>3, <1>12, <2>2 DEF InterfaceLoaded
  <2>3. CASE heap' = [heap EXCEPT ![Top.obj].intfs = Append(@, ret)]
             /\ Goto("nextIntf", Top.obj) /\ UNCHANGED exc
    <3>1. heap' \in [Ref -> ClassObject]
      BY <1>1, <1>2, <2>1, <2>3, UpdateTypes DEF LoaderTypeOK
    <3> QED BY <1>1, <1>2, <1>12, <2>3, <3>1, GotoType
            DEF InterfaceLoaded, LoaderTypeOK
  <2> QED BY <1>12, <2>2, <2>3 DEF InterfaceLoaded
<1>13. CASE SupersLoaded
  <2>1. Top.obj \in Ref /\ heap[Top.obj] \in ClassObject
    BY <1>1, <1>13, TopFacts DEF SupersLoaded, FrameOK, Building
  <2>2. heap' \in [Ref -> ClassObject]
    BY <1>1, <1>2, <1>13, <2>1, UpdateTypes DEF SupersLoaded, LoaderTypeOK
  <2> QED BY <1>1, <1>2, <1>13, <2>2, GotoType DEF SupersLoaded, LoaderTypeOK
<1>14. CASE PrepareFails
  BY <1>2, <1>3, <1>14 DEF PrepareFails
<1>15. CASE LinkInterface \/ LinkClass
  <2>1. Top.obj \in Ref /\ Top.obj \in 0..MaxObjects /\ heap[Top.obj] \in ClassObject
    BY <1>1, <1>15, TopFacts DEF LinkInterface, LinkClass, CanLink, FrameOK, Building
  <2>2. CASE LinkInterface
    <3>1. heap' \in [Ref -> ClassObject]
      BY <1>1, <2>1, <2>2, UpdateTypes DEF LinkInterface, LoaderTypeOK
    <3>2. table' \in [Names -> 0..MaxObjects]
      BY <1>1, <2>1, <2>2, InsertType DEF LinkInterface
    <3> QED BY <1>1, <1>2, <2>1, <2>2, <3>1, <3>2, ReturnType
            DEF LinkInterface, LoaderTypeOK
  <2>3. CASE LinkClass
    <3>1. next \in Ref /\ next \in 0..MaxObjects /\ next' \in 1..(MaxObjects + 1)
      BY <2>3, BoundsAssumption DEF LinkClass, Ref
    <3>2. heap' \in [Ref -> ClassObject]
      BY <1>1, <2>1, <2>3, <3>1, UpdateTypes DEF LinkClass, LoaderTypeOK
    <3>3. table' \in [Names -> 0..MaxObjects]
      BY <1>1, <2>3, <3>1, InsertType DEF LinkClass
    <3> QED BY <1>2, <2>3, <3>1, <3>2, <3>3, ReturnType DEF LinkClass, LoaderTypeOK
  <2> QED BY <1>15, <2>2, <2>3
<1> QED BY <1>4, <1>5, <1>6, <1>7, <1>8, <1>9, <1>10, <1>11, <1>12, <1>13, <1>14,
           <1>15 DEF LoaderStep

LEMMA AskType ==
  ASSUME TypeOK, NEW n \in ClassNames \union ArrayNames, NEW e \in Errors, Ask(n, e)
  PROVE  LoaderTypeOK' /\ asked' \in Names \union {NoName}
<1>1. Call(n, "none", 0) /\ depth = 0 /\ n \in Names
  BY DEF Ask, Names
<1>2. 0 \in 0..MaxObjects /\ "none" \in Pcs
  BY BoundsAssumption DEF Pcs
<1>3. stack' \in [1..MaxDepth -> Frame] /\ depth' \in 0..MaxDepth
  BY <1>1, <1>2, CallType
<1> QED BY <1>1, <1>2, <1>3 DEF Ask, TypeOK, LoaderTypeOK

LEMMA RecordType ==
  ASSUME TypeOK, NEW n \in Names, Record(n)
  PROVE  answers' \subseteq [name : Names \union {NoName}, class : 0..MaxObjects,
                              exc : Errors]
  BY DEF TypeOK, Record

LEMMA SeqItem ==
  ASSUME NEW S, NEW q \in Seq(S), NEW i \in Nat, i >= 1, i <= Len(q)
  PROVE  q[i] \in S
  OBVIOUS

LEMMA BootNames ==
  ASSUME TypeOK, MainOK
  PROVE  /\ ClassName \in ClassNames \union ArrayNames
         /\ step <= Len(BootLoads) => BootLoads[step] \in ClassNames \union ArrayNames
         /\ step <= Len(BootPrims) =>
              BootPrims[step] \in [name : PrimNames, slot : PrimNames]
<1>1. step \in Nat /\ step >= 1
  BY DEF TypeOK, MainOK
<1>2. ClassName \in ClassNames
  BY NamesAssumption
<1>3. step <= Len(BootLoads) => BootLoads[step] \in ClassNames \union ArrayNames
  BY <1>1, BootAssumption
<1>4. step <= Len(BootPrims) =>
        BootPrims[step] \in [name : PrimNames, slot : PrimNames]
  BY <1>1, BootAssumption, SeqItem
<1> QED BY <1>2, <1>3, <1>4

LEMMA BootStepType ==
  ASSUME TypeOK, MainOK, ResultOK, BootStep, UNCHANGED disk
  PROVE  TypeOK'
<1>1. LoaderTypeOK /\ ClassName \in Names
  BY NamesAssumption DEF TypeOK, LoaderTypeOK, Names
<1>2. NoName \in Names \union {NoName} /\ {"run", "crashed", "globals", "prims"} \subseteq Phases
  BY DEF Phases
<1>3. CASE PreloadClass
  <2>1. ClassName \in ClassNames \union ArrayNames /\ "OK" \in Errors
    BY NamesAssumption DEF Errors
  <2>2. Ask(ClassName, "OK")
    BY <1>3 DEF PreloadClass
  <2>3. LoaderTypeOK' /\ asked' \in Names \union {NoName}
    BY <2>1, <2>2, AskType
  <2> QED BY <1>3, <2>3 DEF PreloadClass, TypeOK, LoaderTypeOK
<1>4. CASE ClassPreloaded
  <2>1. answers' \subseteq [name : Names \union {NoName}, class : 0..MaxObjects,
                              exc : Errors]
    BY <1>1, <1>4, RecordType DEF ClassPreloaded
  <2>2. CASE exc # "OK"
    BY <1>2, <1>4, <2>1, <2>2 DEF ClassPreloaded, TypeOK
  <2>3. CASE exc = "OK"
    <3>1. ret \in Allocated
      BY <1>4, <2>3, NamesAssumption
         DEF ClassPreloaded, Answered, ResultOK, Resuming, Failing
    <3>2. ret \in Ref /\ ret \in 0..MaxObjects
      BY <3>1, BoundsAssumption DEF TypeOK, Allocated, Ref
    <3> DEFINE object == heap[ret].super
    <3>3. object \in 0..MaxObjects
      BY <3>2 DEF TypeOK, ClassObject
    <3>4. heap' = [heap EXCEPT ![ret].mirror = ret, ![object].mirror = object]
      BY <1>4, <2>3 DEF ClassPreloaded
    <3>5. heap' \in [Ref -> ClassObject]
      <4>1. [heap EXCEPT ![ret].mirror = ret] \in [Ref -> ClassObject]
        BY <1>1, <3>2, UpdateTypes DEF LoaderTypeOK
      <4> HIDE DEF object
      <4>2. CASE object \in Ref
        BY <3>3, <3>4, <4>1, <4>2, UpdateTypes
      <4>3. CASE object \notin Ref
        BY <3>4, <4>1, <4>3
      <4> QED BY <4>2, <4>3
    <3>6. global' \in [Globals -> 0..MaxObjects]
      BY <1>4, <2>3, <3>2, <3>3 DEF ClassPreloaded, TypeOK
    <3> QED BY <1>2, <1>4, <2>1, <2>3, <3>5, <3>6 DEF ClassPreloaded, TypeOK
  <2> QED BY <2>2, <2>3
<1>5. CASE PreloadPrimitive
  <2>1. /\ BootPrims[step].name \in Names /\ next \in Ref /\ next \in 0..MaxObjects
        /\ Alloc(PrimitiveClass(BootPrims[step].name, next))
        /\ table' = Insert(table, next, BootPrims[step].name)
    BY <1>5, BootNames, BoundsAssumption DEF PreloadPrimitive, Alloc, Names, Ref
  <2>2. heap' \in [Ref -> ClassObject] /\ next' \in 1..(MaxObjects + 1)
    BY <2>1, AllocType, ObjectTypes
  <2>3. table' \in [Names -> 0..MaxObjects]
    BY <2>1, InsertType
  <2>4. primSlot' \in [PrimNames -> 0..MaxObjects] /\ step' \in Nat
    <3>1. primSlot \in [PrimNames -> 0..MaxObjects] /\ step \in Nat
      BY DEF TypeOK
    <3>2. primSlot' = [primSlot EXCEPT ![BootPrims[step].slot] = next]
          /\ step' = step + 1
      BY <1>5 DEF PreloadPrimitive
    <3>3. step' \in Nat
      BY <3>1, <3>2
    <3>4. primSlot' \in [PrimNames -> 0..MaxObjects]
      BY <2>1, <3>1, <3>2
    <3> QED BY <3>3, <3>4
  <2> QED BY <1>5, <2>2, <2>3, <2>4 DEF PreloadPrimitive, TypeOK
<1>6. CASE PrimitivesDone
  BY <1>2, <1>6 DEF PrimitivesDone, TypeOK, loaderVars
<1>7. CASE LoadGlobal
  <2>1. PICK e : e = IF step = 1 THEN "unset" ELSE exc
    OBVIOUS
  <2>2. e \in Errors /\ Ask(BootLoads[step], e)
    BY <1>7, <2>1 DEF LoadGlobal, TypeOK, Errors
  <2>3. BootLoads[step] \in ClassNames \union ArrayNames
    BY <1>7, BootNames DEF LoadGlobal
  <2>4. LoaderTypeOK' /\ asked' \in Names \union {NoName}
    BY <2>2, <2>3, AskType
  <2> QED BY <1>7, <2>4 DEF LoadGlobal, TypeOK, LoaderTypeOK
<1>8. CASE GlobalLoaded
  <2>1. BootLoads[step] \in Names
    BY <1>8, BootNames DEF GlobalLoaded, Names
  <2>2. global' \in [Globals -> 0..MaxObjects] /\ step' \in Nat
    <3>1. /\ global \in [Globals -> 0..MaxObjects] /\ ret \in 0..MaxObjects
          /\ step \in Nat
      BY DEF TypeOK
    <3>2. global' = [global EXCEPT ![BootLoads[step]] = ret] /\ step' = step + 1
      BY <1>8 DEF GlobalLoaded
    <3>3. step' \in Nat
      BY <3>1, <3>2
    <3>4. global' \in [Globals -> 0..MaxObjects]
      BY <3>1, <3>2
    <3> QED BY <3>3, <3>4
  <2>3. answers' \subseteq [name : Names \union {NoName}, class : 0..MaxObjects,
                              exc : Errors]
    BY <1>8, <2>1, RecordType DEF GlobalLoaded
  <2> QED BY <1>2, <1>8, <2>2, <2>3 DEF GlobalLoaded, TypeOK, loaderVars
<1>9. CASE BootDone
  BY <1>2, <1>9 DEF BootDone, TypeOK, loaderVars
<1> QED BY <1>3, <1>4, <1>5, <1>6, <1>7, <1>8, <1>9 DEF BootStep

LEMMA RunStepType ==
  ASSUME TypeOK, MainOK, RunStep, UNCHANGED disk
  PROVE  TypeOK'
<1>1. ASSUME NEW n \in ClassNames \union ArrayNames, Request(n)
      PROVE  TypeOK'
  <2>1. PICK e : e \in {"unset", exc} /\ Ask(n, e)
    BY <1>1 DEF Request
  <2>2. e \in Errors
    BY <2>1 DEF TypeOK, Errors
  <2>3. LoaderTypeOK' /\ asked' \in Names \union {NoName}
    BY <2>1, <2>2, AskType
  <2> QED BY <1>1, <2>3, BoundsAssumption DEF Request, TypeOK, LoaderTypeOK
<1>2. CASE RequestDone
  <2>1. asked \in Names
    BY <1>2 DEF RequestDone, Answered, TypeOK
  <2> QED BY <1>2, <2>1, RecordType DEF RequestDone, TypeOK, loaderVars
<1> QED BY <1>1, <1>2 DEF RunStep

LEMMA StepType ==
  ASSUME IInv, [Next]_vars
  PROVE  TypeOK'
<1>1. /\ TypeOK /\ FramesOK /\ BuildsOK /\ MainOK /\ ResultOK
  BY DEF IInv
<1>2. CASE UNCHANGED vars
  BY <1>1, <1>2 DEF vars, loaderVars, mainVars, TypeOK
<1>3. CASE LoaderStep /\ UNCHANGED disk /\ depth > 0
  BY <1>1, <1>3, LoaderStepType DEF LoaderStep, mainVars, TypeOK, LoaderTypeOK
<1>4. CASE LoaderCrash /\ UNCHANGED disk
  BY <1>1, <1>4 DEF LoaderCrash, LinkWithoutClassClass, ShortElement, StackOverflow, Crash,
                    loaderVars, TypeOK, Phases
<1>5. CASE BootStep /\ UNCHANGED disk
  BY <1>1, <1>5, BootStepType
<1>6. CASE RunStep /\ UNCHANGED disk
  BY <1>1, <1>6, RunStepType
<1>7. LoaderStep => depth > 0
  BY DEF LoaderStep
<1> QED BY <1>2, <1>3, <1>4, <1>5, <1>6, <1>7 DEF Next


-----------------------------------------------------------------------------
(* What a step of the loader leaves as it was.                              *)

(* Classes keep their identity and stay prepared; names stay bound.        *)
NamesKept ==
    /\ disk' = disk
    /\ next <= next'
    /\ \A r \in Allocated : /\ heap'[r].name = heap[r].name
                            /\ heap'[r].dir = heap[r].dir
                            /\ "Prepared" \in heap[r].state =>
                                 "Prepared" \in heap'[r].state
    /\ \A n \in Names : table[n] # 0 => table'[n] = table[n]

(* The object the innermost frame is building, and those allocated since.  *)
Mine(r)  == depth > 0 /\ Top.pc \in Building /\ r = Top.obj
Fresh(r) == r \notin Allocated \/ Mine(r)

(* The step only writes to fresh objects and only publishes fresh objects. *)
Steady ==
    /\ NamesKept
    /\ \A r \in Allocated : ~Mine(r) => heap'[r] = heap[r]
    /\ \A r \in Allocated' : Fresh(r) => ObjectOK(r)'
    /\ \A n \in Names : table[n] = 0 /\ table'[n] # 0 =>
         /\ EntryOK(n)' /\ Fresh(table'[n])
         /\ n \in FileClasses => Fresh(heap'[table'[n]].members)

(* The frames up to the k-th are in order. *)
FramesTo(k) ==
    /\ \A d \in 1..k : FrameOK(stack[d])
    /\ \A d \in 1..k :
         stack[d].pc \in Building /\ stack[d].name \in ClassNames => BuildOK(stack[d])
    /\ \A d, e \in 1..k :
         stack[d].pc \in Building /\ stack[e].pc \in Building /\ d # e
           => stack[d].obj # stack[e].obj
    /\ \A d \in 1..k : stack[d].pc \in Building /\ stack[d].name \in ClassNames =>
         /\ \A n \in Names : table[n] # stack[d].obj
         /\ \A n \in FileClasses : table[n] # 0 =>
              heap[table[n]].members # stack[d].obj

LEMMA FramesSplit == FramesTo(depth) <=> FramesOK /\ BuildsOK /\ OwnObject /\ Unpublished
  BY DEF FramesTo, FramesOK, BuildsOK, OwnObject, Unpublished

LEMMA AllocatedRefs ==
  ASSUME TypeOK
  PROVE  Allocated \subseteq Ref /\ 0 \notin Allocated /\ next \in Nat
  BY BoundsAssumption DEF TypeOK, Allocated, Ref

LEMMA Intervals ==
  ASSUME NEW a \in Nat, NEW b \in Nat, a <= b
  PROVE  1..(a - 1) \subseteq 1..(b - 1)
  OBVIOUS

LEMMA AllocatedGrows ==
  ASSUME TypeOK, TypeOK', NamesKept
  PROVE  Allocated \subseteq Allocated'
<1>1. next \in Nat /\ next' \in Nat /\ next <= next'
  BY AllocatedRefs, BoundsAssumption DEF TypeOK, NamesKept
<1>2. 1..(next - 1) \subseteq 1..(next' - 1)
  BY <1>1, Intervals
<1> QED BY <1>2 DEF Allocated

LEMMA PreparedKept ==
  ASSUME TypeOK, TypeOK', NamesKept, NEW r, IsPrepared(r)
  PROVE  IsPrepared(r)'
  BY AllocatedGrows DEF IsPrepared, NamesKept

LEMMA SupersKept ==
  ASSUME TypeOK, TypeOK', NamesKept, NEW r \in Allocated,
         heap[r].name \in ClassNames, heap[r].dir \in Dirs,
         heap'[r].super = heap[r].super, heap'[r].intfs = heap[r].intfs,
         SupersIn(r)
  PROVE  SupersIn(r)'
<1> DEFINE c == heap[r]  file == FileOf(r)
<1>1. file \in ClassFile /\ r \in Ref
  BY AllocatedRefs, FileType
<1>2. FileOf(r)' = file /\ heap'[r].name = c.name
  BY DEF NamesKept, FileOf
<1>3. c.intfs \in Seq(0..MaxObjects)
  BY <1>1 DEF TypeOK, ClassObject
<1>4. ASSUME NEW s \in Allocated
      PROVE  /\ heap'[s].name = heap[s].name
             /\ IsInterface(s)' = IsInterface(s) /\ IsFinal(s)' = IsFinal(s)
  BY DEF NamesKept, IsInterface, IsFinal, FileOf
<1>5. \A n \in ClassNames : table[n] # 0 => table'[n] # 0
  BY DEF NamesKept, Names
<1>6. ASSUME file.super # NoName
      PROVE  (/\ heap[r].super \in Allocated /\ heap[heap[r].super].name = file.super
              /\ table[file.super] # 0
              /\ ~IsInterface(heap[r].super) /\ ~IsFinal(heap[r].super))'
  <2>1. /\ c.super \in Allocated /\ heap[c.super].name = file.super
        /\ table[file.super] # 0 /\ ~IsInterface(c.super) /\ ~IsFinal(c.super)
    BY <1>6 DEF SupersIn
  <2>2. file.super \in ClassNames
    BY <1>1, <1>6 DEF ClassFile
  <2> QED BY <1>2, <1>4, <1>5, <2>1, <2>2, AllocatedGrows
<1>7. Len(c.intfs) <= Len(file.intfs)
      /\ \A i \in 1..Len(c.intfs) : table'[file.intfs[i]] # 0
  <2>1. file.intfs \in Seq(ClassNames)
    BY <1>1 DEF ClassFile
  <2> QED BY <1>3, <1>5, <2>1 DEF SupersIn
<1> QED BY <1>2, <1>6, <1>7 DEF SupersIn

LEMMA HeapKept ==
  ASSUME TypeOK, TypeOK', HeapOK, Steady
  PROVE  HeapOK'
<1> SUFFICES ASSUME NEW r \in Allocated' PROVE ObjectOK(r)'
  BY DEF HeapOK
<1>1. CASE Fresh(r)
  BY <1>1 DEF Steady
<1>2. CASE ~Fresh(r)
  <2>1. r \in Allocated /\ heap'[r] = heap[r] /\ disk' = disk /\ ObjectOK(r)
    BY <1>2 DEF Fresh, Steady, NamesKept, HeapOK
  <2>2. \A s : IsPrepared(s) => IsPrepared(s)'
    BY PreparedKept DEF Steady
  <2> QED BY <2>1, <2>2 DEF ObjectOK, FileOf
<1> QED BY <1>1, <1>2

LEMMA EntryKept ==
  ASSUME TypeOK, TypeOK', FramesOK, TableOK, Unpublished, Steady,
         NEW n \in Names, table[n] # 0
  PROVE  /\ EntryOK(n)'
         /\ n \in FileClasses => heap'[table[n]] = heap[table[n]] /\ table'[n] = table[n]
<1> PICK r : r = table[n]
  OBVIOUS
<1>1. /\ table'[n] = r /\ EntryOK(n) /\ r \in Allocated /\ heap[r].name = n
      /\ r \in Allocated' /\ heap'[r].name = n
  BY AllocatedGrows DEF TableOK, EntryOK, Steady, NamesKept
<1>2. n \notin ArrayNames => "Prepared" \in heap'[r].state
  BY <1>1 DEF EntryOK, Steady, NamesKept
<1>3. ASSUME n \in FileClasses
      PROVE  Complete(r)' /\ heap'[r] = heap[r]
  <2> PICK m : m = heap[r].members
    OBVIOUS
  <2>1. /\ Complete(r) /\ m \in Allocated /\ heap[m].name = n
        /\ heap[r].dir \in Dirs /\ n \in ClassNames
    BY <1>1, <1>3 DEF EntryOK, Complete, FileClasses
  <2>2. ~Mine(r) /\ ~Mine(m)
    <3>1. SUFFICES ASSUME depth > 0, Top.pc \in Building, Top.obj \in {r, m}
                   PROVE  FALSE
      BY DEF Mine
    <3>2. FrameOK(Top) /\ depth \in 1..depth
      BY <3>1, TopFacts, BoundsAssumption DEF TypeOK
    <3>3. Top.name = n
      BY <1>1, <2>1, <3>1, <3>2 DEF FrameOK
    <3> QED BY <1>3, <2>1, <3>1, <3>2, <3>3 DEF Unpublished, Top
  <2>3. heap'[r] = heap[r] /\ heap'[m] = heap[m] /\ m \in Allocated'
    BY <1>1, <2>1, <2>2, AllocatedGrows DEF Steady
  <2>4. SupersIn(r)' /\ FileOf(r)' = FileOf(r)
    BY <1>1, <2>1, <2>3, SupersKept DEF Complete, Steady, NamesKept, FileOf
  <2> QED BY <2>1, <2>3, <2>4 DEF Complete
<1> QED BY <1>1, <1>2, <1>3 DEF EntryOK

LEMMA TableKept ==
  ASSUME TypeOK, TypeOK', FramesOK, TableOK, Unpublished, Steady
  PROVE  TableOK'
<1> SUFFICES ASSUME NEW n \in Names, table'[n] # 0 PROVE EntryOK(n)'
  BY DEF TableOK
<1> QED BY EntryKept DEF Steady

(* A frame that is not the innermost one keeps what it knows.              *)
LEMMA FrameKept ==
  ASSUME TypeOK, TypeOK', FramesOK, BuildsOK, OwnObject, Steady,
         NEW d \in 1..depth, d # depth, stack'[d] = stack[d]
  PROVE  /\ FrameOK(stack[d])'
         /\ stack[d].pc \in Building =>
              stack[d].obj \in Allocated /\ stack[d].obj # 0 /\ ~Mine(stack[d].obj)
         /\ stack[d].pc \in Building /\ stack[d].name \in ClassNames =>
              BuildOK(stack[d])'
         /\ stack[d].pc \in Waiting => Wanted(stack[d])' = Wanted(stack[d])
<1> PICK f : f = stack[d]
  OBVIOUS
<1>1. FrameOK(f) /\ stack'[d] = f
  BY DEF FramesOK
<1>2. ASSUME f.pc \in Building
      PROVE  /\ f.obj \in Allocated /\ ~Mine(f.obj) /\ f.obj # 0
             /\ heap'[f.obj] = heap[f.obj] /\ f.obj \in Allocated'
  <2>1. f.obj \in Allocated
    BY <1>1, <1>2 DEF FrameOK
  <2>2. ~Mine(f.obj)
    <3>1. depth \in 1..depth
      BY BoundsAssumption DEF TypeOK
    <3> QED BY <1>2, <3>1 DEF Mine, OwnObject, Top
  <2> QED BY <2>1, <2>2, AllocatedGrows, AllocatedRefs DEF Steady
<1>3. FrameOK(f)'
  BY <1>1, <1>2 DEF FrameOK
<1>4. disk' = disk
  BY DEF Steady, NamesKept
<1>5. ASSUME f.pc \in Building, f.name \in ClassNames
      PROVE  BuildOK(f)'
  <2>1. BuildOK(f) /\ heap[f.obj].name = f.name
    BY <1>1, <1>5 DEF BuildsOK, FrameOK
  <2>2. FileOf(f.obj)' = FileOf(f.obj)
    BY <1>2, <1>4, <1>5 DEF FileOf
  <2>3. f.pc # "super" => SupersIn(f.obj)'
    BY <1>2, <1>5, <2>1, SupersKept DEF BuildOK, Steady
  <2> QED BY <1>2, <1>5, <2>1, <2>2, <2>3 DEF BuildOK
<1>6. ASSUME f.pc \in Waiting
      PROVE  Wanted(f)' = Wanted(f)
  <2>1. CASE f.pc = "elem"
    BY <2>1 DEF Wanted
  <2>2. CASE f.pc # "elem"
    BY <1>2, <1>4, <1>6, <2>2 DEF Wanted, Waiting, Building, FileOf
  <2> QED BY <2>1, <2>2
<1>7. f = stack[d] /\ f = stack'[d]
  BY <1>1
<1>8. /\ FrameOK(stack[d])' <=> FrameOK(f)'
      /\ BuildOK(stack[d])' <=> BuildOK(f)'
      /\ Wanted(stack[d])' = Wanted(f)'
  BY <1>7
<1> QED BY <1>2, <1>3, <1>5, <1>6, <1>8

LEMMA LowerFrames ==
  ASSUME TypeOK, TypeOK', FramesOK, BuildsOK, OwnObject, Unpublished, TableOK, Steady,
         NEW k \in Nat, k < depth, \A d \in 1..k : stack'[d] = stack[d]
  PROVE  FramesTo(k)'
<1>1. \A d \in 1..k : d \in 1..depth /\ d # depth /\ stack'[d] = stack[d]
  BY BoundsAssumption DEF TypeOK
<1>2. ASSUME NEW d \in 1..k
      PROVE  /\ FrameOK(stack[d])'
             /\ stack'[d].pc \in Building /\ stack'[d].name \in ClassNames =>
                  BuildOK(stack[d])'
  BY <1>1, FrameKept
<1>3. ASSUME NEW d \in 1..k, NEW e \in 1..k,
             stack'[d].pc \in Building, stack'[e].pc \in Building, d # e
      PROVE  stack'[d].obj # stack'[e].obj
  BY <1>1, <1>3 DEF OwnObject
<1>4. ASSUME NEW d \in 1..k, stack'[d].pc \in Building, stack'[d].name \in ClassNames
      PROVE  /\ \A n \in Names : table'[n] # stack'[d].obj
             /\ \A n \in FileClasses : table'[n] # 0 =>
                  heap'[table'[n]].members # stack'[d].obj
  <2> PICK o : o = stack[d].obj
    OBVIOUS
  <2>1. /\ o = stack'[d].obj /\ o \in Allocated /\ ~Mine(o) /\ ~Fresh(o) /\ o # 0
        /\ \A n \in Names : table[n] # o
        /\ \A n \in FileClasses : table[n] # 0 => heap[table[n]].members # o
    BY <1>1, <1>4, FrameKept DEF Fresh, Unpublished
  <2>2. ASSUME NEW n \in Names
        PROVE  /\ table'[n] # o
               /\ n \in FileClasses /\ table'[n] # 0 => heap'[table'[n]].members # o
    <3>1. CASE table[n] # 0
      <4>1. table'[n] = table[n] /\ (n \in FileClasses => heap'[table[n]] = heap[table[n]])
        BY <3>1, EntryKept DEF Steady, NamesKept
      <4> QED BY <2>1, <3>1, <4>1
    <3>2. CASE table[n] = 0
      BY <2>1, <3>2 DEF Steady
    <3> QED BY <3>1, <3>2
  <2>3. FileClasses \subseteq Names
    BY DEF FileClasses, Names
  <2> QED BY <2>1, <2>2, <2>3
<1> QED BY <1>2, <1>3, <1>4 DEF FramesTo

(* The frames that stay below still wait for the same names.               *)
LEMMA CallsKept ==
  ASSUME TypeOK, TypeOK', FramesOK, BuildsOK, OwnObject, CallsOK, Steady, depth > 0,
         UNCHANGED asked, \A d \in 1..(depth - 1) : stack'[d] = stack[d]
  PROVE  /\ \A d \in 1..(depth - 1) : stack'[d].pc \in Waiting
         /\ \A d \in 0..(depth - 1) : Pending(d)' = Pending(d)
         /\ \A d \in 1..(depth - 1) : stack'[d].name = Pending(d - 1)'
         /\ Top.name = Pending(depth - 1)
<1>1. \A d \in 1..(depth - 1) : /\ d \in 1..depth /\ d # depth /\ stack'[d] = stack[d]
                                /\ stack[d].pc \in Waiting
  BY BoundsAssumption DEF TypeOK, CallsOK
<1>2. ASSUME NEW d \in 0..(depth - 1)
      PROVE  Pending(d)' = Pending(d)
  <2>1. CASE d = 0
    BY <2>1 DEF Pending
  <2>2. CASE d # 0
    <3>1. d \in 1..(depth - 1)
      BY <2>2, BoundsAssumption DEF TypeOK
    <3> QED BY <1>1, <2>2, <3>1, FrameKept DEF Pending
  <2> QED BY <2>1, <2>2
<1>3. \A d \in 1..(depth - 1) : d - 1 \in 0..(depth - 1)
  BY BoundsAssumption DEF TypeOK
<1>4. depth \in 1..depth
  BY BoundsAssumption DEF TypeOK
<1>5. \A d \in 1..depth : stack[d].name = Pending(d - 1)
  BY DEF CallsOK
<1> QED BY <1>1, <1>2, <1>3, <1>4, <1>5 DEF Top

LEMMA MainKept ==
  ASSUME TypeOK, TypeOK', MainOK, Steady, UNCHANGED mainVars,
         phase = "prims" => depth' = 0,
         phase = "preload" => \A d \in 1..depth' : stack'[d].name \in ClassNames
  PROVE  MainOK'
<1>1. IsPrepared(global[ObjectName]) => IsPrepared(global[ObjectName])'
  <2> PICK g : g = global[ObjectName]
    OBVIOUS
  <2>1. IsPrepared(g) => IsPrepared(g)'
    BY PreparedKept DEF Steady
  <2>2. global'[ObjectName] = g
    BY DEF mainVars
  <2> QED BY <2>1, <2>2
<1> QED BY <1>1 DEF MainOK, mainVars

LEMMA AfterReturn ==
  ASSUME IInv, TypeOK', Steady, depth > 0, UNCHANGED mainVars,
         NEW r, NEW e, Return(r, e),
         r # 0 => /\ r \in Allocated' /\ heap'[r].name = Top.name
                  /\ table'[Top.name] # 0
                  /\ Top.name \notin ArrayNames => IsPrepared(r)',
         r = 0 /\ phase = "preload" => e \in Failing
  PROVE  IInv'
<1>1. /\ TypeOK /\ FramesOK /\ HeapOK /\ BuildsOK /\ TableOK /\ OwnObject
      /\ Unpublished /\ CallsOK /\ MainOK
  BY DEF IInv
<1>2. depth \in Nat /\ depth' = depth - 1 /\ depth' \in Nat /\ depth' < depth
  BY <1>1, BoundsAssumption DEF TypeOK, Return
<1>3. \A d \in 1..(depth - 1) : stack'[d] = stack[d]
  BY <1>1, <1>2, BoundsAssumption DEF Return, TypeOK
<1>4. FramesOK' /\ BuildsOK' /\ OwnObject' /\ Unpublished'
  <2> PICK k \in Nat : k = depth - 1
    BY <1>2
  <2>1. FramesTo(k)' /\ depth' = k
    BY <1>1, <1>2, <1>3, LowerFrames
  <2> QED BY <2>1 DEF FramesTo, FramesOK, BuildsOK, OwnObject, Unpublished
<1>5. HeapOK' /\ TableOK'
  BY <1>1, HeapKept, TableKept
<1>6. asked' = asked /\ phase' = phase
  BY DEF mainVars
<1>7. CallsOK' /\ Pending(depth)' = Top.name
  <2> PICK k : k = depth - 1
    OBVIOUS
  <2>1. /\ \A d \in 1..k : stack'[d].pc \in Waiting /\ stack'[d].name = Pending(d - 1)'
        /\ \A d \in 0..k : Pending(d)' = Pending(d)
        /\ Top.name = Pending(k)
    BY <1>1, <1>3, <1>6, CallsKept
  <2>2. depth' = k /\ k \in 0..k /\ \A d \in 1..(k - 1) : d \in 1..k
    BY <1>2
  <2>3. Pending(depth)' = Pending(k)'
    BY <2>2 DEF Pending
  <2> QED BY <2>1, <2>2, <2>3 DEF CallsOK
<1>8. ResultOK'
  <2>1. ret' = r /\ exc' = e
    BY DEF Return
  <2> QED BY <1>6, <1>7, <2>1 DEF ResultOK
<1>9. MainOK'
  <2>1. phase = "prims" => depth' = 0
    BY <1>1, <1>2 DEF MainOK
  <2>2. phase = "preload" => \A d \in 1..depth' : stack'[d].name \in ClassNames
    BY <1>1, <1>2, <1>3 DEF MainOK
  <2> QED BY <1>1, <2>1, <2>2, MainKept
<1> QED BY <1>4, <1>5, <1>7, <1>8, <1>9 DEF IInv

(* The innermost frame goes on with its object or with a new one.          *)
LEMMA TopMovesOn ==
  ASSUME TypeOK, TypeOK', FramesOK, BuildsOK, OwnObject, Unpublished, TableOK, Steady,
         NEW k \in Nat, k = depth, k > 0, \A d \in 1..(k - 1) : stack'[d] = stack[d],
         NEW f, stack'[k] = f, FrameOK(f)',
         f.pc \in Building => Fresh(f.obj),
         f.pc \in Building /\ f.name \in ClassNames => BuildOK(f)' /\ table' = table
  PROVE  FramesTo(k)'
<1>1. PICK j \in Nat : j = k - 1
  OBVIOUS
<1>2. FramesTo(j)'
  BY <1>1, LowerFrames
<1>3. \A d \in 1..k : d # k => d \in 1..j /\ d \in 1..depth /\ stack'[d] = stack[d]
  BY <1>1
<1>4. ASSUME NEW d \in 1..k
      PROVE  /\ FrameOK(stack[d])'
             /\ stack'[d].pc \in Building /\ stack'[d].name \in ClassNames =>
                  BuildOK(stack[d])'
  <2>1. CASE d = k
    BY <2>1
  <2>2. CASE d # k
    BY <1>2, <1>3, <2>2 DEF FramesTo
  <2> QED BY <2>1, <2>2
<1>5. ASSUME NEW d \in 1..k, d # k, stack'[d].pc \in Building, f.pc \in Building
      PROVE  stack'[d].obj # f.obj
  <2>1. stack[d].obj \in Allocated /\ ~Mine(stack[d].obj)
    BY <1>3, <1>5, FrameKept
  <2> QED BY <1>3, <1>5, <2>1 DEF Fresh
<1>6. ASSUME NEW d \in 1..k, NEW e \in 1..k,
             stack'[d].pc \in Building, stack'[e].pc \in Building, d # e
      PROVE  stack'[d].obj # stack'[e].obj
  <2>1. CASE d = k
    BY <1>5, <1>6, <2>1
  <2>2. CASE e = k
    BY <1>5, <1>6, <2>2
  <2>3. CASE d # k /\ e # k
    BY <1>2, <1>3, <1>6, <2>3 DEF FramesTo
  <2> QED BY <2>1, <2>2, <2>3
<1>7. ASSUME f.pc \in Building, f.name \in ClassNames
      PROVE  /\ \A n \in Names : table'[n] # f.obj
             /\ \A n \in FileClasses : table'[n] # 0 =>
                  heap'[table'[n]].members # f.obj
  <2>1. table' = table /\ f.obj # 0 /\ Fresh(f.obj)
    <3>1. f.obj \in Allocated'
      BY <1>7 DEF FrameOK
    <3>2. 0 \notin Allocated'
      BY DEF Allocated
    <3> QED BY <1>7, <3>1, <3>2
  <2>2. ASSUME NEW n \in Names, table[n] # 0
        PROVE  /\ table[n] # f.obj
               /\ n \in FileClasses => heap'[table[n]].members # f.obj
    <3>1. table[n] \in Allocated
          /\ (n \in FileClasses => heap[table[n]].members \in Allocated)
      BY <2>2 DEF TableOK, EntryOK, Complete
    <3>2. n \in FileClasses => heap'[table[n]] = heap[table[n]]
      BY <2>2, EntryKept
    <3>3. CASE f.obj \notin Allocated
      BY <3>1, <3>2, <3>3
    <3>4. CASE Mine(f.obj)
      <4>1. f.obj = stack[k].obj /\ stack[k].pc \in Building /\ k \in 1..depth
        BY <3>4 DEF Mine, Top
      <4>2. CASE stack[k].name \in ClassNames
        BY <2>2, <3>2, <4>1, <4>2 DEF Unpublished
      <4>3. CASE stack[k].name \notin ClassNames
        <5>1. stack[k].name = f.name
          <6>1. heap[f.obj].name = stack[k].name /\ f.obj \in Allocated
            BY <4>1 DEF FramesOK, FrameOK
          <6>2. heap'[f.obj].name = f.name
            BY <1>7 DEF FrameOK
          <6> QED BY <6>1, <6>2 DEF Steady, NamesKept
        <5> QED BY <1>7, <4>3, <5>1
      <4> QED BY <4>2, <4>3
    <3> QED BY <2>1, <3>3, <3>4 DEF Fresh
  <2>3. FileClasses \subseteq Names
    BY DEF FileClasses, Names
  <2> QED BY <2>1, <2>2, <2>3
<1>8. ASSUME NEW d \in 1..k, stack'[d].pc \in Building, stack'[d].name \in ClassNames
      PROVE  /\ \A n \in Names : table'[n] # stack'[d].obj
             /\ \A n \in FileClasses : table'[n] # 0 =>
                  heap'[table'[n]].members # stack'[d].obj
  <2>1. CASE d = k
    BY <1>7, <1>8, <2>1
  <2>2. CASE d # k
    BY <1>2, <1>3, <1>8, <2>2 DEF FramesTo
  <2> QED BY <2>1, <2>2
<1> QED BY <1>4, <1>6, <1>8 DEF FramesTo

LEMMA AfterGoto ==
  ASSUME IInv, TypeOK', Steady, depth > 0, UNCHANGED mainVars,
         NEW pc \in {"nextIntf", "link"}, NEW obj, Goto(pc, obj),
         NEW f, f = FrameAt(Top.name, pc, obj), FrameOK(f)', Fresh(obj),
         f.name \in ClassNames => BuildOK(f)' /\ table' = table
  PROVE  IInv'
<1>1. /\ TypeOK /\ FramesOK /\ HeapOK /\ BuildsOK /\ TableOK /\ OwnObject
      /\ Unpublished /\ CallsOK /\ MainOK
  BY DEF IInv
<1>2. PICK k \in Nat : k = depth /\ k = depth' /\ k > 0
  BY <1>1, BoundsAssumption DEF TypeOK, Goto
<1>3. f.name = Top.name /\ f.pc = pc /\ f.obj = obj
  BY DEF FrameAt
<1>4. stack'[k] = f /\ \A d \in 1..(k - 1) : stack'[d] = stack[d]
  <2>1. stack' = [stack EXCEPT ![k] = f]
    BY <1>2 DEF Goto
  <2>2. k \in 1..MaxDepth /\ stack \in [1..MaxDepth -> Frame]
    BY <1>1, <1>2, BoundsAssumption DEF TypeOK
  <2>3. \A d \in 1..(k - 1) : d \in 1..MaxDepth /\ d # k
    BY <2>2, BoundsAssumption
  <2> QED BY <2>1, <2>2, <2>3
<1>5. FramesOK' /\ BuildsOK' /\ OwnObject' /\ Unpublished'
  <2>1. FramesTo(k)'
    BY <1>1, <1>2, <1>3, <1>4, TopMovesOn
  <2> QED BY <1>2, <2>1 DEF FramesTo, FramesOK, BuildsOK, OwnObject, Unpublished
<1>6. HeapOK' /\ TableOK'
  BY <1>1, HeapKept, TableKept
<1>7. asked' = asked
  BY DEF mainVars
<1>8. CallsOK'
  <2>0. k > 0
    BY <1>2
  <2> PICK j \in Nat : j = k - 1
    BY <2>0
  <2>1. /\ \A d \in 1..j : stack'[d].pc \in Waiting /\ stack'[d].name = Pending(d - 1)'
        /\ \A d \in 0..j : Pending(d)' = Pending(d)
        /\ Top.name = Pending(j)
    BY <1>1, <1>2, <1>4, <1>7, CallsKept
  <2>2. stack'[k].name = Pending(j)'
    BY <1>3, <1>4, <2>1
  <2>3. \A d \in 1..k : d = k \/ d \in 1..j
    OBVIOUS
  <2>4. ASSUME NEW d \in 1..k
        PROVE  stack'[d].name = Pending(d - 1)'
    <3>1. CASE d = k
      BY <2>2, <3>1
    <3> QED BY <2>1, <2>3, <3>1
  <2>5. depth' = k /\ depth' - 1 = j
    BY <1>2
  <2> QED BY <2>1, <2>4, <2>5 DEF CallsOK
<1>9. ResultOK'
  <2>1. depth' = k /\ k # 0
    BY <1>2
  <2>2. Top' = f /\ f.pc \notin Waiting
    BY <1>3, <1>4, <2>1 DEF Top, Waiting
  <2> QED BY <2>1, <2>2 DEF ResultOK, Resuming
<1>10. MainOK'
  <2>1. phase = "prims" => depth' = 0
    BY <1>1, <1>2 DEF MainOK
  <2>2. phase = "preload" => \A d \in 1..depth' : stack'[d].name \in ClassNames
    <3>1. \A d \in 1..k : stack'[d].name = stack[d].name
      BY <1>2, <1>3, <1>4 DEF Top
    <3> QED BY <1>1, <1>2, <3>1 DEF MainOK
  <2> QED BY <1>1, <2>1, <2>2, MainKept
<1> QED BY <1>5, <1>6, <1>8, <1>9, <1>10 DEF IInv

LEMMA AfterCall ==
  ASSUME IInv, TypeOK', Steady, depth > 0, UNCHANGED <<mainVars, table>>,
         NEW n \in ClassNames \union ArrayNames, NEW pc \in Waiting, NEW obj,
         Call(n, pc, obj), NEW f, f = FrameAt(Top.name, pc, obj), FrameOK(f)',
         pc \in Building => Fresh(obj) /\ BuildOK(f)',
         Wanted(f)' = n, phase = "preload" => n \in ClassNames
  PROVE  IInv'
<1>1. /\ TypeOK /\ FramesOK /\ HeapOK /\ BuildsOK /\ TableOK /\ OwnObject
      /\ Unpublished /\ CallsOK /\ MainOK
  BY DEF IInv
<1>2. PICK k \in Nat : k = depth /\ depth' = k + 1 /\ k > 0
  BY <1>1, BoundsAssumption DEF TypeOK, Call
<1>3. f.name = Top.name /\ f.pc = pc /\ f.obj = obj
  BY DEF FrameAt
<1> PICK g : g = FrameAt(n, "search", 0)
  OBVIOUS
<1>4. g.name = n /\ g.pc = "search" /\ g.obj = 0
  BY DEF FrameAt
<1>5. /\ stack'[k] = f /\ stack'[k + 1] = g
      /\ \A d \in 1..(k - 1) : stack'[d] = stack[d]
  <2>1. stack' = [d \in 1..MaxDepth |->
                   IF d = k + 1 THEN g ELSE IF d = k THEN f ELSE stack[d]]
    BY <1>2 DEF Call
  <2>2. k + 1 \in 1..MaxDepth /\ k \in 1..MaxDepth /\ 1..(k - 1) \subseteq 1..MaxDepth
    BY <1>2, BoundsAssumption DEF Call
  <2> QED BY <1>2, <2>1, <2>2
<1>6. FramesOK' /\ BuildsOK' /\ OwnObject' /\ Unpublished'
  <2>1. FramesTo(k)'
    BY <1>1, <1>2, <1>3, <1>5, TopMovesOn DEF Building, Waiting
  <2>2. \A d \in 1..depth' : d \in 1..k \/ d = k + 1
    BY <1>2
  <2>3. FrameOK(g)' /\ g.pc \notin Building
    BY <1>4 DEF FrameOK, Building
  <2> QED BY <1>5, <2>1, <2>2, <2>3
          DEF FramesTo, FramesOK, BuildsOK, OwnObject, Unpublished
<1>7. HeapOK' /\ TableOK'
  BY <1>1, HeapKept, TableKept
<1>8. asked' = asked
  BY DEF mainVars
<1>9. CallsOK'
  <2> PICK j \in Nat : j = k - 1
    BY <1>2
  <2>1. /\ \A d \in 1..j : stack'[d].pc \in Waiting /\ stack'[d].name = Pending(d - 1)'
        /\ \A d \in 0..j : Pending(d)' = Pending(d)
        /\ Top.name = Pending(j)
    BY <1>1, <1>2, <1>5, <1>8, CallsKept
  <2>2. stack'[k].name = Pending(j)' /\ stack'[k].pc \in Waiting
    BY <1>2, <1>3, <1>5, <2>1
  <2>3. Pending(k)' = n
    BY <1>2, <1>5 DEF Pending
  <2>4. ASSUME NEW d \in 1..k
        PROVE  stack'[d].name = Pending(d - 1)' /\ stack'[d].pc \in Waiting
    <3>1. CASE d = k
      BY <2>2, <3>1
    <3>2. CASE d # k
      <4>1. d \in 1..j
        BY <1>2, <3>2
      <4> QED BY <2>1, <4>1
    <3> QED BY <3>1, <3>2
  <2>5. ASSUME NEW d \in 1..(k + 1)
        PROVE  stack'[d].name = Pending(d - 1)'
    <3>1. CASE d = k + 1
      <4>1. d - 1 = k
        BY <3>1
      <4> QED BY <1>4, <1>5, <2>3, <3>1, <4>1
    <3>2. CASE d # k + 1
      <4>1. d \in 1..k
        BY <3>2
      <4> QED BY <2>4, <4>1
    <3> QED BY <3>1, <3>2
  <2>6. depth' - 1 = k
    BY <1>2
  <2> QED BY <1>2, <2>4, <2>5, <2>6 DEF CallsOK
<1>10. ResultOK'
  <2>1. Top' = g /\ g.pc \notin Waiting /\ depth' # 0
    BY <1>2, <1>4, <1>5 DEF Top, Waiting
  <2> QED BY <2>1 DEF ResultOK, Resuming
<1>11. MainOK'
  <2>1. phase # "prims"
    BY <1>1 DEF MainOK
  <2>2. phase = "preload" => \A d \in 1..depth' : stack'[d].name \in ClassNames
    <3>1. \A d \in 1..k : stack'[d].name = stack[d].name
      BY <1>2, <1>3, <1>5 DEF Top
    <3>2. \A d \in 1..depth' : d \in 1..k \/ d = k + 1
      BY <1>2
    <3> QED BY <1>1, <1>2, <1>4, <1>5, <3>1, <3>2 DEF MainOK
  <2> QED BY <1>1, <2>1, <2>2, MainKept
<1> QED BY <1>6, <1>7, <1>9, <1>10, <1>11 DEF IInv

-----------------------------------------------------------------------------
(* Every step of the loader keeps the invariant.                            *)

LEMMA IdleSteady ==
  ASSUME TypeOK, HeapOK, UNCHANGED <<disk, heap, next, table>>
  PROVE  Steady /\ Allocated' = Allocated
<1>1. Allocated' = Allocated
  BY DEF Allocated
<1>2. \A s : IsPrepared(s)' <=> IsPrepared(s)
  BY <1>1 DEF IsPrepared
<1>3. ASSUME NEW r \in Allocated PROVE ObjectOK(r)'
  BY <1>1, <1>2 DEF HeapOK, ObjectOK, FileOf
<1>4. next <= next'
  BY AllocatedRefs
<1> QED BY <1>1, <1>3, <1>4 DEF Steady, NamesKept

LEMMA IdleReturn ==
  ASSUME IInv, TypeOK', depth > 0, UNCHANGED <<disk, heap, next, table, mainVars>>,
         NEW e, Return(0, e), phase = "preload" => e \in Failing
  PROVE  IInv'
<1>1. Steady
  BY IdleSteady DEF IInv
<1> QED BY <1>1, AfterReturn DEF mainVars

(* NULL that comes up from below has an error with it while the VM boots.  *)
LEMMA NullReported ==
  ASSUME IInv, depth > 0, Top.pc \in Waiting, ret = 0, phase = "preload"
  PROVE  exc \in Failing
  BY BoundsAssumption DEF IInv, TypeOK, ResultOK, Resuming

LEMMA FoundStep ==
  ASSUME IInv, TypeOK', depth > 0, Found, UNCHANGED <<disk, mainVars>>
  PROVE  IInv'
<1> PICK r : r = table[Top.name]
  OBVIOUS
<1>1. TypeOK /\ FramesOK /\ TableOK /\ HeapOK
  BY DEF IInv
<1>2. Top.name \in Names
  BY <1>1, TopFacts
<1>3. r # 0 /\ EntryOK(Top.name)
  BY <1>1, <1>2 DEF Found, TableOK
<1>4. CASE Return(0, "ClassCircularity")
  BY <1>4, IdleReturn DEF Found, Failing, Errors
<1>5. CASE Return(r, exc)
  <2>1. Steady /\ Allocated' = Allocated /\ heap' = heap /\ table' = table
    BY <1>1, IdleSteady DEF Found
  <2>2. r \in Allocated' /\ heap'[r].name = Top.name /\ table'[Top.name] # 0
    BY <1>3, <2>1 DEF EntryOK
  <2>3. Top.name \notin ArrayNames => IsPrepared(r)'
    BY <1>3, <2>1 DEF EntryOK, IsPrepared
  <2> QED BY <1>3, <1>5, <2>1, <2>2, <2>3, AfterReturn
<1> QED BY <1>4, <1>5 DEF Found

LEMMA TopWith ==
  ASSUME TypeOK, FramesOK, depth > 0, NEW pc \in Waiting, NEW f,
         f = FrameAt(Top.name, pc, Top.obj), UNCHANGED <<heap, next>>,
         pc = "elem" => Top.name \in ArrayNames,
         pc # "elem" => Top.name \in ClassNames /\ Top.pc \in Building
  PROVE  FrameOK(f)'
<1>1. FrameOK(Top) /\ Allocated' = Allocated
  BY TopFacts DEF Allocated
<1> QED BY <1>1 DEF FrameOK, FrameAt, Waiting, Building

LEMMA LoadElementStep ==
  ASSUME IInv, TypeOK', depth > 0, LoadElement, UNCHANGED <<disk, mainVars>>
  PROVE  IInv'
<1>1. TypeOK /\ FramesOK /\ HeapOK /\ MainOK
  BY DEF IInv
<1>2. Steady
  BY <1>1, IdleSteady DEF LoadElement
<1> PICK f : f = FrameAt(Top.name, "elem", Top.obj)
  OBVIOUS
<1> PICK n : n = ElemName[Top.name]
  OBVIOUS
<1>3. FrameOK(f)' /\ "elem" \in Waiting /\ "elem" \notin Building
  BY <1>1, TopWith DEF LoadElement, Waiting, Building
<1>4. Top.name \in ArrayNames /\ n \in ClassNames \union ArrayNames
  BY NamesAssumption DEF LoadElement, Names
<1>5. Wanted(f)' = n
  BY DEF Wanted, FrameAt
<1>6. phase # "preload"
  <2>1. depth \in 1..depth
    BY <1>1, BoundsAssumption DEF TypeOK
  <2> QED BY <1>1, <1>4, <2>1, NamesAssumption DEF MainOK, Top
<1>7. Call(n, "elem", Top.obj) /\ UNCHANGED <<mainVars, table>>
  BY DEF LoadElement
<1> QED BY <1>2, <1>3, <1>4, <1>5, <1>6, <1>7, AfterCall

(* A step that only writes to the object of the innermost frame.           *)
LEMMA WriteSteady ==
  ASSUME TypeOK, TypeOK', FramesOK, BuildsOK, HeapOK, depth > 0, Top.pc \in Building,
         NEW c, heap' = [heap EXCEPT ![Top.obj] = c],
         c.name = heap[Top.obj].name, c.dir = heap[Top.obj].dir,
         "Prepared" \in heap[Top.obj].state => "Prepared" \in c.state,
         c.super # 0 => IsPrepared(c.super),
         \A i \in 1..Len(c.intfs) : IsPrepared(c.intfs[i]),
         UNCHANGED <<disk, next>>,
         \A n \in Names : table[n] # 0 => table'[n] = table[n],
         \A n \in Names : table[n] = 0 /\ table'[n] # 0 =>
           /\ EntryOK(n)' /\ table'[n] = Top.obj
           /\ n \in FileClasses => c.members = Top.obj
  PROVE  Steady
<1> PICK o : o = Top.obj
  OBVIOUS
<1>1. o \in Allocated /\ o \in Ref /\ Mine(o)
  BY TopFacts DEF FrameOK, Mine
<1>2. heap'[o] = c /\ \A r \in Ref : r # o => heap'[r] = heap[r]
  BY <1>1 DEF TypeOK
<1>3. Allocated \subseteq Ref /\ Allocated' = Allocated /\ next <= next'
  BY AllocatedRefs DEF Allocated
<1>4. NamesKept
  BY <1>1, <1>2, <1>3 DEF NamesKept
<1>5. \A s : IsPrepared(s) => IsPrepared(s)'
  BY <1>4, PreparedKept
<1>6. \A r \in Allocated : ~Mine(r) => heap'[r] = heap[r]
  BY <1>1, <1>2, <1>3
<1>7. ASSUME NEW r \in Allocated', Fresh(r) PROVE ObjectOK(r)'
  <2>1. r = o
    BY <1>3, <1>7 DEF Fresh, Mine
  <2>2. ObjectOK(o) /\ FileOf(o)' = FileOf(o)
    BY <1>1, <1>2 DEF HeapOK, FileOf
  <2> QED BY <1>2, <1>5, <2>1, <2>2 DEF ObjectOK
<1> QED BY <1>1, <1>2, <1>4, <1>6, <1>7 DEF Steady, Fresh

LEMMA AllocFacts ==
  ASSUME TypeOK, NEW c, Alloc(c), NEW o, o = next
  PROVE  /\ Allocated' = Allocated \union {o} /\ o \notin Allocated /\ next <= next'
         /\ o # 0 /\ heap'[o] = c /\ \A r \in Allocated : heap'[r] = heap[r]
<1>1. /\ o \notin Allocated /\ Allocated \subseteq Ref /\ o \in Ref /\ o # 0
      /\ next <= next' /\ Allocated' = Allocated \union {o}
  <2>1. next \in Ref /\ next' = next + 1 /\ next \in Nat /\ next > 0
    BY BoundsAssumption DEF Alloc, Ref
  <2>2. 1..((next + 1) - 1) = 1..(next - 1) \union {next} /\ next \notin 1..(next - 1)
    BY <2>1
  <2> QED BY <2>1, <2>2, AllocatedRefs DEF Allocated
<1> QED BY <1>1 DEF Alloc, TypeOK

(* A step that only allocates an object.                                    *)
LEMMA AllocSteady ==
  ASSUME TypeOK, TypeOK', HeapOK, NEW c, Alloc(c), UNCHANGED disk,
         NEW o, o = next, ObjectOK(o)', \A n \in Names : table[n] # 0 => table'[n] = table[n],
         \A n \in Names : table[n] = 0 /\ table'[n] # 0 =>
           EntryOK(n)' /\ table'[n] = next /\ n \notin FileClasses
  PROVE  Steady
<1>1. /\ Allocated' = Allocated \union {o} /\ o \notin Allocated /\ next <= next'
      /\ heap'[o] = c /\ \A r \in Allocated : heap'[r] = heap[r]
  BY AllocFacts
<1>2. heap'[o] = c /\ \A r \in Allocated : heap'[r] = heap[r]
  BY <1>1
<1>3. NamesKept
  BY <1>1, <1>2 DEF NamesKept
<1>4. \A s : IsPrepared(s) => IsPrepared(s)'
  BY <1>3, PreparedKept
<1>5. ASSUME NEW r \in Allocated' PROVE ObjectOK(r)'
  <2>1. CASE r = o
    BY <2>1
  <2>2. CASE r \in Allocated
    <3>1. ObjectOK(r) /\ heap'[r] = heap[r] /\ disk' = disk
      BY <1>2, <2>2 DEF HeapOK
    <3> QED BY <1>4, <3>1 DEF ObjectOK, FileOf
  <2> QED BY <1>1, <2>1, <2>2
<1> QED BY <1>1, <1>2, <1>3, <1>5 DEF Steady, Fresh

LEMMA CreateArrayStep ==
  ASSUME IInv, TypeOK', depth > 0, Top.name \in ArrayNames, NEW elem,
         CreateArray(elem), UNCHANGED <<disk, mainVars>>
  PROVE  IInv'
<1> PICK o : o = next
  OBVIOUS
<1> PICK c : c = ArrayClass(Top.name, elem, table[BaseName[Top.name]], next)
  OBVIOUS
<1> PICK f : f = FrameAt(Top.name, "link", o)
  OBVIOUS
<1>1. TypeOK /\ HeapOK /\ MainOK
  BY DEF IInv
<1>2. Alloc(c) /\ table' = Insert(table, o, Top.name) /\ Goto("link", o)
  BY DEF CreateArray
<1>3. /\ Allocated' = Allocated \union {o} /\ o \notin Allocated /\ o # 0
      /\ heap'[o] = c /\ next <= next' /\ \A r \in Allocated : heap'[r] = heap[r]
  BY <1>1, <1>2, AllocFacts
<1>4. /\ c.name = Top.name /\ c.super = global[ObjectName] /\ c.intfs = <<>>
      /\ Top.name \in Names /\ Top.name \notin ClassNames
  BY NamesAssumption DEF ArrayClass, Names
<1>5. ObjectOK(o)'
  <2>1. c.super # 0 => IsPrepared(c.super)'
    <3> PICK s : s = c.super
      OBVIOUS
    <3>1. s # 0 => IsPrepared(s)
      BY <1>1, <1>4 DEF MainOK
    <3> QED BY <1>3, <3>1 DEF IsPrepared
  <2> QED BY <1>3, <1>4, <2>1 DEF ObjectOK, FileClasses
<1>6. /\ \A n \in Names : table[n] # 0 => table'[n] = table[n]
      /\ \A n \in Names : table[n] = 0 /\ table'[n] # 0 => n = Top.name /\ table'[n] = o
  BY <1>1, <1>2, <1>4 DEF Insert, TypeOK
<1>7. ASSUME NEW n \in Names, table[n] = 0, table'[n] # 0
      PROVE  EntryOK(n)' /\ table'[n] = o /\ n \notin FileClasses
  BY <1>3, <1>4, <1>6, <1>7 DEF EntryOK, FileClasses
<1>8. Steady
  BY <1>1, <1>2, <1>5, <1>6, <1>7, AllocSteady
<1>9. FrameOK(f)' /\ f.name \notin ClassNames
  BY <1>3, <1>4 DEF FrameOK, FrameAt
<1> QED BY <1>2, <1>3, <1>8, <1>9, AfterGoto DEF Fresh

LEMMA ArraySteps ==
  ASSUME IInv, TypeOK', depth > 0, ElementLoaded \/ PrimitiveElement,
         UNCHANGED <<disk, mainVars>>
  PROVE  IInv'
<1>1. Top.name \in ArrayNames
  BY TopFacts DEF IInv, ElementLoaded, PrimitiveElement, FrameOK
<1>2. phase # "preload"
  <2>1. depth \in 1..depth /\ MainOK
    BY BoundsAssumption DEF IInv, TypeOK
  <2> QED BY <1>1, <2>1, NamesAssumption DEF MainOK, Top
<1>3. CASE \E elem : CreateArray(elem)
  BY <1>1, <1>3, CreateArrayStep
<1>4. CASE Return(0, exc) /\ UNCHANGED <<heap, next, table>>
  BY <1>2, <1>4, IdleReturn
<1> QED BY <1>3, <1>4 DEF ElementLoaded, PrimitiveElement

LEMMA RefusalSteps ==
  ASSUME IInv, TypeOK', depth > 0, MediaFails \/ PrepareFails,
         UNCHANGED <<disk, mainVars>>
  PROVE  IInv'
<1>1. PICK e \in {"ClassCircularity", "NoClassDefFound", "IncompatibleClassChange"} :
        Return(0, e)
  BY DEF MediaFails, PrepareFails
<1>2. e \in Failing /\ UNCHANGED <<heap, next, table>>
  BY DEF MediaFails, PrepareFails, Failing, Errors
<1> QED BY <1>1, <1>2, IdleReturn

LEMMA MediaFindsStep ==
  ASSUME IInv, TypeOK', depth > 0, MediaFinds, UNCHANGED <<disk, mainVars>>
  PROVE  IInv'
<1>1. /\ TypeOK /\ FramesOK /\ HeapOK /\ MainOK
      /\ Top.name \in Names /\ Top.name \in ClassNames \ {EmptyName} /\ table' = table
  BY TopFacts DEF IInv, MediaFinds
<1>2. PICK dir \in Dirs :
        LET super == disk[dir][Top.name].super
        IN /\ disk[dir][Top.name].kind = "class"
           /\ Alloc(ParsedClass(Top.name, dir, next))
           /\ CASE super # NoName ->
                     Call(super, "super", next) /\ exc' = "OK" /\ UNCHANGED ret
                [] super = NoName /\ Top.name = ObjectName ->
                     Goto("nextIntf", next) /\ exc' = "OK"
                [] super = NoName /\ Top.name # ObjectName ->
                     Return(0, "ClassFormat")
  BY DEF MediaFinds, Readable
<1> PICK file : file = disk[dir][Top.name]
  OBVIOUS
<1> PICK o : o = next
  OBVIOUS
<1> PICK c : c = ParsedClass(Top.name, dir, o)
  OBVIOUS
<1>3. /\ Allocated' = Allocated \union {o} /\ o \notin Allocated /\ o # 0
      /\ heap'[o] = c /\ next <= next' /\ \A r \in Allocated : heap'[r] = heap[r]
  BY <1>1, <1>2, AllocFacts
<1>4. file \in ClassFile /\ file.kind = "class" /\ Len(file.intfs) \in Nat
  <2>1. file \in ClassFile
    BY <1>1, DisksAssumption DEF TypeOK
  <2> QED BY <1>2, <2>1 DEF ClassFile
<1>5. /\ c.name = Top.name /\ c.dir = dir /\ c.super = 0 /\ c.intfs = <<>>
      /\ c.state = {"LoadingSupers"} /\ ~c.freed /\ c.members = o /\ c.owner = o
  BY DEF ParsedClass
<1>6. FileOf(o)' = file
  BY <1>3, <1>5 DEF FileOf
<1>7. ObjectOK(o)'
  BY <1>1, <1>3, <1>4, <1>5, <1>6 DEF ObjectOK
<1>8. Steady
  BY <1>1, <1>2, <1>7, AllocSteady
<1>9. CASE file.super # NoName
  <2> PICK f : f = FrameAt(Top.name, "super", o)
    OBVIOUS
  <2> PICK n : n = file.super
    OBVIOUS
  <2>1. f.name = Top.name /\ f.pc = "super" /\ f.obj = o
    BY DEF FrameAt
  <2>2. FrameOK(f)'
    BY <1>1, <1>3, <1>5, <2>1 DEF FrameOK
  <2>3. BuildOK(f)'
    BY <1>1, <1>3, <1>4, <1>5, <1>6, <1>9, <2>1 DEF BuildOK
  <2>4. Wanted(f)' = n
    BY <1>6, <2>1 DEF Wanted
  <2>5. n \in ClassNames /\ Call(n, "super", o) /\ UNCHANGED <<mainVars, table>>
    BY <1>1, <1>2, <1>4, <1>9 DEF ClassFile
  <2>6. "super" \in Waiting /\ Fresh(o)
    BY <1>3 DEF Waiting, Fresh
  <2> QED BY <1>8, <2>2, <2>3, <2>4, <2>5, <2>6, AfterCall
<1>10. CASE file.super = NoName /\ Top.name = ObjectName
  <2> PICK f : f = FrameAt(Top.name, "nextIntf", o)
    OBVIOUS
  <2>1. f.name = Top.name /\ f.pc = "nextIntf" /\ f.obj = o
    BY DEF FrameAt
  <2>2. FrameOK(f)'
    BY <1>1, <1>3, <1>5, <2>1 DEF FrameOK
  <2>3. SupersIn(o)'
    BY <1>3, <1>4, <1>5, <1>6, <1>10 DEF SupersIn
  <2>4. BuildOK(f)'
    BY <1>1, <1>3, <1>4, <1>5, <1>6, <2>1, <2>3 DEF BuildOK
  <2>5. Goto("nextIntf", o) /\ Fresh(o)
    BY <1>2, <1>3, <1>10 DEF Fresh
  <2> QED BY <1>1, <1>8, <2>2, <2>4, <2>5, AfterGoto
<1>11. CASE file.super = NoName /\ Top.name # ObjectName
  <2>1. Return(0, "ClassFormat")
    BY <1>2, <1>11
  <2> QED BY <1>8, <2>1, AfterReturn DEF Failing, Errors
<1> QED BY <1>9, <1>10, <1>11

(* What the innermost frame knows about the object it builds.              *)
LEMMA TopBuild ==
  ASSUME IInv, depth > 0, Top.pc \in Building, Top.name \in ClassNames
  PROVE  /\ Top.obj \in Allocated /\ Top.obj \in Ref /\ Mine(Top.obj)
         /\ heap[Top.obj].name = Top.name /\ heap[Top.obj] \in ClassObject
         /\ BuildOK(Top) /\ ObjectOK(Top.obj)
         /\ FileOf(Top.obj) \in ClassFile
         /\ heap[Top.obj].intfs \in Seq(0..MaxObjects)
<1>1. TypeOK /\ FramesOK /\ BuildsOK /\ HeapOK
  BY DEF IInv
<1>2. FrameOK(Top) /\ Top.obj \in Ref /\ heap[Top.obj] \in ClassObject
  BY <1>1, TopFacts
<1>3. BuildOK(Top) /\ FileOf(Top.obj) \in ClassFile
  BY <1>1, TopFile
<1>4. Top.obj \in Allocated /\ heap[Top.obj].name = Top.name
  BY <1>2 DEF FrameOK
<1>5. ObjectOK(Top.obj)
  BY <1>1, <1>4 DEF HeapOK
<1>6. heap[Top.obj].intfs \in Seq(0..MaxObjects)
  BY <1>2 DEF ClassObject
<1> QED BY <1>2, <1>3, <1>4, <1>5, <1>6 DEF Mine

(* What a frame knows about the class it waited for.                        *)
LEMMA TopResult ==
  ASSUME IInv, depth > 0, Top.pc \in Waiting, ret # 0
  PROVE  /\ ret \in Allocated /\ heap[ret].name = Wanted(Top)
         /\ table[Wanted(Top)] # 0
         /\ Wanted(Top) \notin ArrayNames => IsPrepared(ret)
<1>1. depth # 0 /\ ResultOK
  BY BoundsAssumption DEF IInv, TypeOK
<1>2. Pending(depth) = Wanted(Top)
  BY <1>1 DEF Pending, Top
<1> QED BY <1>1, <1>2 DEF ResultOK, Resuming

(* The innermost frame writes c to the class it builds and goes on at pc.  *)
LEMMA WriteStep ==
  ASSUME IInv, TypeOK', depth > 0, Top.pc \in Building, Top.name \in ClassNames,
         UNCHANGED <<disk, next, table, mainVars>>,
         NEW c, heap' = [heap EXCEPT ![Top.obj] = c],
         c.name = heap[Top.obj].name, c.dir = heap[Top.obj].dir,
         "Prepared" \in heap[Top.obj].state => "Prepared" \in c.state,
         c.super # 0 => IsPrepared(c.super),
         \A i \in 1..Len(c.intfs) : IsPrepared(c.intfs[i]),
         NEW pc \in {"nextIntf", "link"}, Goto(pc, Top.obj),
         NEW f, f = FrameAt(Top.name, pc, Top.obj), BuildOK(f)'
  PROVE  IInv'
<1>1. TypeOK /\ FramesOK /\ BuildsOK /\ HeapOK
  BY DEF IInv
<1>2. Steady
  BY <1>1, WriteSteady
<1> PICK o : o = Top.obj
  OBVIOUS
<1>3. /\ o \in Allocated /\ Fresh(o) /\ heap'[o] = c /\ c.name = Top.name
      /\ Allocated' = Allocated
  BY <1>1, TopBuild DEF Fresh, TypeOK, Allocated
<1>4. f.name = Top.name /\ f.pc = pc /\ f.obj = o
  BY DEF FrameAt
<1>5. FrameOK(f)'
  BY <1>3, <1>4 DEF FrameOK
<1> QED BY <1>2, <1>3, <1>5, AfterGoto

LEMMA SuperLoadedStep ==
  ASSUME IInv, TypeOK', depth > 0, SuperLoaded, UNCHANGED <<disk, mainVars>>
  PROVE  IInv'
<1>1. TypeOK /\ FramesOK /\ BuildsOK /\ HeapOK
  BY DEF IInv
<1>2. Top.pc \in Building /\ Top.pc \in Waiting /\ Top.name \in ClassNames
  BY <1>1, TopFacts DEF SuperLoaded, FrameOK, Building, Waiting
<1>3. CASE ret = 0
  BY <1>2, <1>3, IdleReturn, NullReported DEF SuperLoaded
<1>4. CASE ret # 0 /\ (IsInterface(ret) \/ IsFinal(ret))
  BY <1>4, IdleReturn DEF SuperLoaded, Failing, Errors
<1>5. CASE ret # 0 /\ ~IsInterface(ret) /\ ~IsFinal(ret)
  <2> PICK o : o = Top.obj
    OBVIOUS
  <2> PICK c : c = [heap[o] EXCEPT !.super = ret]
    OBVIOUS
  <2> PICK s : s = ret
    OBVIOUS
  <2> PICK file : file = FileOf(o)
    OBVIOUS
  <2> PICK f : f = FrameAt(Top.name, "nextIntf", Top.obj)
    OBVIOUS
  <2>1. /\ o \in Allocated /\ o \in Ref /\ heap[o].name = Top.name
        /\ heap[o] \in ClassObject /\ BuildOK(Top) /\ ObjectOK(o) /\ file \in ClassFile
    BY <1>2, TopBuild
  <2>2. /\ heap' = [heap EXCEPT ![Top.obj] = c] /\ Goto("nextIntf", Top.obj)
        /\ UNCHANGED <<next, table>>
    BY <1>5 DEF SuperLoaded
  <2>3. /\ heap[o].dir \in Dirs /\ file.kind = "class" /\ file.super # NoName
        /\ heap[o].intfs = <<>> /\ heap[o].state = {"LoadingSupers"}
        /\ ~heap[o].freed /\ heap[o].members = o /\ heap[o].owner = o /\ Top.name # EmptyName
    BY <2>1 DEF BuildOK, SuperLoaded
  <2>4. /\ c.name = heap[o].name /\ c.dir = heap[o].dir /\ c.super = s
        /\ c.intfs = <<>> /\ c.state = {"LoadingSupers"} /\ ~c.freed
        /\ c.members = o /\ c.owner = o
    BY <2>1, <2>3 DEF ClassObject
  <2>5. Wanted(Top) = file.super /\ file.super \in ClassNames
    BY <2>1, <2>3 DEF Wanted, SuperLoaded, ClassFile
  <2>6. /\ s \in Allocated /\ heap[s].name = file.super /\ table[file.super] # 0
        /\ IsPrepared(s)
    BY <1>2, <1>5, <2>5, TopResult, NamesAssumption
  <2>7. /\ Allocated' = Allocated /\ heap'[o] = c /\ heap'[s].name = heap[s].name
        /\ heap'[s].dir = heap[s].dir
    BY <1>1, <2>1, <2>2, <2>4, <2>6, AllocatedRefs DEF Allocated, TypeOK
  <2>8. FileOf(o)' = file /\ ~IsInterface(s)' /\ ~IsFinal(s)'
    BY <1>5, <2>4, <2>7 DEF FileOf, IsInterface, IsFinal
  <2>9. Len(file.intfs) \in Nat
    BY <2>1 DEF ClassFile
  <2>10. SupersIn(o)'
    <3>1. heap'[o].super = s /\ heap'[o].intfs = <<>> /\ heap'[o].name = heap[o].name
      BY <2>4, <2>7
    <3>2. s \in Allocated' /\ heap'[s].name = file.super /\ table'[file.super] # 0
      BY <2>2, <2>6, <2>7
    <3> QED BY <2>3, <2>8, <2>9, <3>1, <3>2 DEF SupersIn
  <2>11. BuildOK(f)'
    <3>1. f.name = Top.name /\ f.pc = "nextIntf" /\ f.obj = o
      BY DEF FrameAt
    <3> QED BY <2>3, <2>4, <2>7, <2>8, <2>10, <3>1 DEF BuildOK
  <2>12. /\ c.name = heap[Top.obj].name /\ c.dir = heap[Top.obj].dir
         /\ "Prepared" \in heap[Top.obj].state => "Prepared" \in c.state
         /\ c.super # 0 => IsPrepared(c.super)
         /\ \A i \in 1..Len(c.intfs) : IsPrepared(c.intfs[i])
    BY <2>3, <2>4, <2>6
  <2>13. UNCHANGED <<disk, next, table, mainVars>>
    BY <2>2
  <2> QED BY <1>2, <2>2, <2>11, <2>12, <2>13, WriteStep
<1> QED BY <1>3, <1>4, <1>5

LEMMA LoadInterfaceStep ==
  ASSUME IInv, TypeOK', depth > 0, LoadInterface, UNCHANGED <<disk, mainVars>>
  PROVE  IInv'
<1> PICK o : o = Top.obj
  OBVIOUS
<1> PICK file : file = FileOf(o)
  OBVIOUS
<1> PICK i : i = Len(heap[o].intfs) + 1
  OBVIOUS
<1> PICK n : n = file.intfs[i]
  OBVIOUS
<1> PICK f : f = FrameAt(Top.name, "intf", o)
  OBVIOUS
<1>1. TypeOK /\ FramesOK /\ HeapOK
  BY DEF IInv
<1>2. Top.pc \in Building /\ Top.name \in ClassNames
  BY <1>1, TopFacts DEF LoadInterface, FrameOK, Building
<1>3. /\ BuildOK(Top) /\ file \in ClassFile /\ Mine(o)
      /\ heap[o].intfs \in Seq(0..MaxObjects)
  BY <1>2, TopBuild
<1>4. /\ i <= Len(file.intfs) /\ Call(n, "intf", o)
      /\ UNCHANGED <<heap, next, table, mainVars>>
  BY DEF LoadInterface
<1>5. n \in ClassNames /\ Len(heap[o].intfs) < Len(file.intfs)
  <2>1. file.intfs \in Seq(ClassNames) /\ i \in Nat /\ i >= 1
    BY <1>3 DEF ClassFile
  <2> QED BY <1>3, <1>4, <2>1
<1>6. Steady
  BY <1>1, <1>4, IdleSteady
<1>7. f.name = Top.name /\ f.pc = "intf" /\ f.obj = o
  BY DEF FrameAt
<1>8. FrameOK(f)'
  BY <1>1, <1>2, <1>4, TopWith DEF Waiting
<1>9. Wanted(f)' = n
  BY <1>4, <1>7 DEF Wanted, FileOf
<1>10. BuildOK(f)'
  <2>1. /\ heap[o].state = {"LoadingSupers"} /\ SupersIn(o)
        /\ heap[o].dir \in Dirs /\ file.kind = "class"
        /\ ~heap[o].freed /\ heap[o].members = o /\ heap[o].owner = o /\ Top.name # EmptyName
    BY <1>3 DEF BuildOK, LoadInterface
  <2>2. SupersIn(o)'
    BY <1>2, <1>6, <2>1, <1>1, <1>4, SupersKept, TopBuild DEF Steady
  <2>3. heap' = heap /\ FileOf(o)' = file
    BY <1>4 DEF FileOf
  <2> QED BY <1>5, <1>7, <2>1, <2>2, <2>3 DEF BuildOK
<1> QED BY <1>4, <1>5, <1>6, <1>8, <1>9, <1>10, <1>3, AfterCall DEF Waiting, Fresh

LEMMA InterfaceLoadedStep ==
  ASSUME IInv, TypeOK', depth > 0, InterfaceLoaded, UNCHANGED <<disk, mainVars>>
  PROVE  IInv'
<1>1. TypeOK /\ FramesOK /\ BuildsOK /\ HeapOK
  BY DEF IInv
<1>2. Top.pc \in Building /\ Top.pc \in Waiting /\ Top.name \in ClassNames
  BY <1>1, TopFacts DEF InterfaceLoaded, FrameOK, Building, Waiting
<1>3. CASE ret = 0
  BY <1>2, <1>3, IdleReturn, NullReported DEF InterfaceLoaded
<1>4. CASE ret # 0
  <2> PICK o : o = Top.obj
    OBVIOUS
  <2> PICK c : c = [heap[o] EXCEPT !.intfs = Append(@, ret)]
    OBVIOUS
  <2> PICK s : s = ret
    OBVIOUS
  <2> PICK file : file = FileOf(o)
    OBVIOUS
  <2> PICK k : k = Len(heap[o].intfs)
    OBVIOUS
  <2> PICK f : f = FrameAt(Top.name, "nextIntf", Top.obj)
    OBVIOUS
  <2>1. /\ o \in Allocated /\ o \in Ref /\ heap[o].name = Top.name
        /\ heap[o] \in ClassObject /\ BuildOK(Top) /\ ObjectOK(o) /\ file \in ClassFile
        /\ heap[o].intfs \in Seq(0..MaxObjects)
    BY <1>2, TopBuild
  <2>2. /\ heap' = [heap EXCEPT ![Top.obj] = c] /\ Goto("nextIntf", Top.obj)
        /\ UNCHANGED <<next, table>>
    BY <1>4 DEF InterfaceLoaded
  <2>3. /\ heap[o].dir \in Dirs /\ file.kind = "class" /\ SupersIn(o)
        /\ k < Len(file.intfs) /\ heap[o].state = {"LoadingSupers"}
        /\ ~heap[o].freed /\ heap[o].members = o /\ heap[o].owner = o /\ Top.name # EmptyName
    BY <2>1 DEF BuildOK, InterfaceLoaded
  <2>4. /\ c.name = heap[o].name /\ c.dir = heap[o].dir /\ c.super = heap[o].super
        /\ c.intfs = Append(heap[o].intfs, s) /\ c.state = {"LoadingSupers"}
        /\ ~c.freed /\ c.members = o /\ c.owner = o
    BY <2>1, <2>3 DEF ClassObject
  <2>5. Wanted(Top) = file.intfs[k + 1] /\ file.intfs[k + 1] \in ClassNames
    <3>1. file.intfs \in Seq(ClassNames) /\ k \in Nat
      BY <2>1 DEF ClassFile
    <3> QED BY <2>3, <3>1 DEF Wanted, InterfaceLoaded
  <2>6. table[file.intfs[k + 1]] # 0 /\ IsPrepared(s) /\ s \in 0..MaxObjects
    <3>1. s \in Allocated /\ table[file.intfs[k + 1]] # 0 /\ IsPrepared(s)
      BY <1>2, <1>4, <2>5, TopResult, NamesAssumption
    <3> QED BY <1>1, <3>1 DEF TypeOK
  <2>7. /\ Len(c.intfs) = k + 1 /\ k \in Nat /\ c.intfs[k + 1] = s
        /\ \A i \in 1..(k + 1) : i # k + 1 => i \in 1..k /\ c.intfs[i] = heap[o].intfs[i]
    BY <2>1, <2>4, <2>6
  <2>8. /\ \A i \in 1..k : IsPrepared(heap[o].intfs[i]) /\ table[file.intfs[i]] # 0
        /\ c.super # 0 => IsPrepared(c.super)
    BY <2>1, <2>3, <2>4 DEF ObjectOK, SupersIn
  <2>9. \A i \in 1..Len(c.intfs) : IsPrepared(c.intfs[i]) /\ table[file.intfs[i]] # 0
    <3> SUFFICES ASSUME NEW i \in 1..(k + 1)
                 PROVE  IsPrepared(c.intfs[i]) /\ table[file.intfs[i]] # 0
      BY <2>7
    <3>1. CASE i = k + 1
      BY <2>6, <2>7, <3>1
    <3>2. CASE i # k + 1
      BY <2>7, <2>8, <3>2
    <3> QED BY <3>1, <3>2
  <2>10. /\ heap'[o] = c /\ FileOf(o)' = file /\ Allocated' = Allocated
         /\ \A r \in Allocated : heap'[r].name = heap[r].name /\ heap'[r].dir = heap[r].dir
    BY <1>1, <2>1, <2>2, <2>4, AllocatedRefs DEF Allocated, TypeOK, FileOf
  <2>11. SupersIn(o)'
    <3>1. IF file.super = NoName
          THEN c.super = 0 /\ c.name = ObjectName
          ELSE (/\ c.super \in Allocated /\ heap[c.super].name = file.super
                /\ table[file.super] # 0
                /\ ~IsInterface(c.super) /\ ~IsFinal(c.super))
      BY <2>3, <2>4 DEF SupersIn
    <3> PICK p : p = c.super
      OBVIOUS
    <3>2. p \in Allocated =>
            /\ heap'[p].name = heap[p].name
            /\ IsInterface(p)' = IsInterface(p) /\ IsFinal(p)' = IsFinal(p)
      BY <2>10 DEF IsInterface, IsFinal, FileOf
    <3>3. heap'[o].super = p /\ heap'[o].name = c.name /\ heap'[o].intfs = c.intfs
      BY <2>10
    <3>4. IF file.super = NoName
          THEN heap'[o].super = 0 /\ heap'[o].name = ObjectName
          ELSE /\ heap'[o].super \in Allocated' /\ heap'[heap'[o].super].name = file.super
               /\ table'[file.super] # 0
               /\ ~IsInterface(p)' /\ ~IsFinal(p)'
      BY <2>2, <2>10, <3>1, <3>2, <3>3
    <3>5. Len(heap'[o].intfs) <= Len(file.intfs)
      <4>1. Len(file.intfs) \in Nat
        BY <2>1 DEF ClassFile
      <4> QED BY <2>3, <2>7, <3>3, <4>1
    <3>6. \A i \in 1..Len(heap'[o].intfs) : table'[file.intfs[i]] # 0
      BY <2>2, <2>9, <3>3
    <3> QED BY <2>10, <3>3, <3>4, <3>5, <3>6 DEF SupersIn
  <2>12. BuildOK(f)'
    <3>1. f.name = Top.name /\ f.pc = "nextIntf" /\ f.obj = o
      BY DEF FrameAt
    <3> QED BY <2>3, <2>4, <2>10, <2>11, <3>1 DEF BuildOK
  <2>13. /\ c.name = heap[Top.obj].name /\ c.dir = heap[Top.obj].dir
         /\ "Prepared" \in heap[Top.obj].state => "Prepared" \in c.state
         /\ c.super # 0 => IsPrepared(c.super)
         /\ \A i \in 1..Len(c.intfs) : IsPrepared(c.intfs[i])
    BY <2>3, <2>4, <2>8, <2>9
  <2>14. UNCHANGED <<disk, next, table, mainVars>>
    BY <2>2
  <2> QED BY <1>2, <2>2, <2>12, <2>13, <2>14, WriteStep
<1> QED BY <1>3, <1>4

LEMMA SupersLoadedStep ==
  ASSUME IInv, TypeOK', depth > 0, SupersLoaded, UNCHANGED <<disk, mainVars>>
  PROVE  IInv'
<1> PICK o : o = Top.obj
  OBVIOUS
<1> PICK c : c = [heap[o] EXCEPT !.state = @ \ {"LoadingSupers"}]
  OBVIOUS
<1> PICK file : file = FileOf(o)
  OBVIOUS
<1> PICK f : f = FrameAt(Top.name, "link", Top.obj)
  OBVIOUS
<1>1. TypeOK /\ FramesOK /\ BuildsOK /\ HeapOK
  BY DEF IInv
<1>2. Top.pc \in Building /\ Top.name \in ClassNames
  BY <1>1, TopFacts DEF SupersLoaded, FrameOK, Building
<1>3. /\ o \in Allocated /\ o \in Ref /\ heap[o].name = Top.name
      /\ heap[o] \in ClassObject /\ BuildOK(Top) /\ ObjectOK(o) /\ file \in ClassFile
  BY <1>2, TopBuild
<1>4. /\ heap' = [heap EXCEPT ![Top.obj] = c] /\ Goto("link", Top.obj)
      /\ UNCHANGED <<next, table>> /\ Len(heap[o].intfs) = Len(file.intfs)
  BY DEF SupersLoaded
<1>5. /\ heap[o].dir \in Dirs /\ file.kind = "class" /\ SupersIn(o)
      /\ heap[o].state = {"LoadingSupers"}
      /\ ~heap[o].freed /\ heap[o].members = o /\ heap[o].owner = o /\ Top.name # EmptyName
  BY <1>3 DEF BuildOK, SupersLoaded
<1>6. /\ c.name = heap[o].name /\ c.dir = heap[o].dir /\ c.super = heap[o].super
      /\ c.intfs = heap[o].intfs /\ c.state = {} /\ ~c.freed
      /\ c.members = o /\ c.owner = o
  BY <1>3, <1>5 DEF ClassObject
<1>7. /\ c.name = heap[Top.obj].name /\ c.dir = heap[Top.obj].dir
      /\ "Prepared" \in heap[Top.obj].state => "Prepared" \in c.state
      /\ c.super # 0 => IsPrepared(c.super)
      /\ \A i \in 1..Len(c.intfs) : IsPrepared(c.intfs[i])
  BY <1>3, <1>5, <1>6 DEF ObjectOK
<1>8. UNCHANGED <<disk, next, table, mainVars>>
  BY <1>4
<1>9. Steady
  BY <1>1, <1>2, <1>4, <1>7, WriteSteady
<1>10. heap'[o] = c /\ FileOf(o)' = file
  BY <1>1, <1>3, <1>4, <1>6 DEF TypeOK, FileOf
<1>11. SupersIn(o)'
  BY <1>1, <1>2, <1>3, <1>5, <1>6, <1>9, <1>10, SupersKept DEF Steady
<1>12. BuildOK(f)'
  <2>1. f.name = Top.name /\ f.pc = "link" /\ f.obj = o
    BY DEF FrameAt
  <2>2. /\ heap'[o].dir \in Dirs /\ heap'[o].state = {} /\ ~heap'[o].freed
        /\ heap'[o].members = o /\ heap'[o].owner = o
        /\ Len(heap'[o].intfs) = Len(file.intfs)
    BY <1>4, <1>5, <1>6, <1>10
  <2> QED BY <1>5, <1>10, <1>11, <2>1, <2>2 DEF BuildOK
<1> QED BY <1>2, <1>4, <1>7, <1>8, <1>12, WriteStep

LEMMA LinkInterfaceStep ==
  ASSUME IInv, TypeOK', depth > 0, LinkInterface, UNCHANGED <<disk, mainVars>>
  PROVE  IInv'
<1> PICK o : o = Top.obj
  OBVIOUS
<1> PICK c : c = Finished(heap[o], o)
  OBVIOUS
<1> PICK file : file = FileOf(o)
  OBVIOUS
<1>1. TypeOK /\ FramesOK /\ BuildsOK /\ HeapOK
  BY DEF IInv
<1>2. Top.pc \in Building /\ Top.name \in ClassNames /\ Top.name \in Names
  BY <1>1, TopFacts DEF LinkInterface, CanLink, Building
<1>3. /\ o \in Allocated /\ o \in Ref /\ heap[o].name = Top.name /\ o # 0
      /\ heap[o] \in ClassObject /\ BuildOK(Top) /\ ObjectOK(o) /\ file \in ClassFile
  BY <1>1, <1>2, TopBuild, AllocatedRefs
<1>4. /\ heap' = [heap EXCEPT ![Top.obj] = c] /\ Return(o, exc) /\ file.typesOk
      /\ table' = Insert(table, o, Top.name) /\ UNCHANGED next
  BY <1>2 DEF LinkInterface, CanLink
<1>5. /\ heap[o].dir \in Dirs /\ file.kind = "class" /\ SupersIn(o)
      /\ heap[o].state = {} /\ ~heap[o].freed /\ heap[o].members = o
      /\ heap[o].owner = o /\ Len(heap[o].intfs) = Len(file.intfs)
  BY <1>3 DEF BuildOK, LinkInterface, CanLink
<1>6. /\ c.name = heap[o].name /\ c.dir = heap[o].dir /\ c.super = heap[o].super
      /\ c.intfs = heap[o].intfs /\ c.state = {"Prepared", "Loaded"} /\ ~c.freed
      /\ c.package /\ c.members = o /\ c.owner = o
      /\ NeedsMirror(c.name) => c.mirror = o
  BY <1>3, <1>5 DEF Finished, ClassObject
<1>7. /\ heap'[o] = c /\ FileOf(o)' = file /\ Allocated' = Allocated
      /\ \A r \in Allocated : heap'[r].name = heap[r].name /\ heap'[r].dir = heap[r].dir
                              /\ ("Prepared" \in heap[r].state =>
                                    "Prepared" \in heap'[r].state)
  BY <1>1, <1>3, <1>4, <1>6, AllocatedRefs DEF Allocated, TypeOK, FileOf
<1>8. /\ \A n \in Names : table[n] # 0 => table'[n] = table[n]
      /\ \A n \in Names : table[n] = 0 /\ table'[n] # 0 => n = Top.name /\ table'[n] = o
      /\ table'[Top.name] # 0
  BY <1>1, <1>2, <1>3, <1>4 DEF Insert, TypeOK
<1>9. NamesKept
  <2>1. next <= next'
    BY <1>1, <1>4, AllocatedRefs
  <2> QED BY <1>7, <1>8, <2>1 DEF NamesKept
<1>10. SupersIn(o)'
  BY <1>1, <1>2, <1>3, <1>5, <1>6, <1>7, <1>9, SupersKept
<1>11. Complete(o)'
  BY <1>3, <1>4, <1>5, <1>6, <1>7, <1>10 DEF Complete
<1>12. ASSUME NEW n \in Names, table[n] = 0, table'[n] # 0
       PROVE  /\ EntryOK(n)' /\ table'[n] = Top.obj
              /\ n \in FileClasses => c.members = Top.obj
  BY <1>3, <1>6, <1>7, <1>8, <1>11, <1>12 DEF EntryOK
<1>13. /\ c.super # 0 => IsPrepared(c.super)
       /\ \A i \in 1..Len(c.intfs) : IsPrepared(c.intfs[i])
  BY <1>3, <1>6 DEF ObjectOK
<1>14. Steady
  <2>1. c.name = heap[Top.obj].name /\ c.dir = heap[Top.obj].dir /\ UNCHANGED <<disk, next>>
    BY <1>4, <1>6
  <2>2. "Prepared" \in heap[Top.obj].state => "Prepared" \in c.state
    BY <1>6
  <2> QED BY <1>1, <1>2, <1>4, <1>8, <1>12, <1>13, <2>1, <2>2, WriteSteady
<1>15. IsPrepared(o)'
  BY <1>3, <1>6, <1>7 DEF IsPrepared
<1> QED BY <1>3, <1>4, <1>6, <1>7, <1>8, <1>14, <1>15, AfterReturn

(* The copy of a class behind its vtable is complete when the table gets it.*)
LEMMA LinkClassStep ==
  ASSUME IInv, TypeOK', depth > 0, LinkClass, UNCHANGED <<disk, mainVars>>
  PROVE  IInv'
<1> PICK o : o = Top.obj
  OBVIOUS
<1> PICK p : p = next
  OBVIOUS
<1> PICK c : c = Finished(heap[o], p)
  OBVIOUS
<1> PICK old : old = Discarded(heap[o], p)
  OBVIOUS
<1>1. /\ TypeOK /\ FramesOK /\ BuildsOK /\ HeapOK /\ TableOK
      /\ FrameOK(Top) /\ Top.name \in Names /\ Top.pc = "link" /\ Top.pc \in Building
  BY TopFacts DEF IInv, LinkClass, CanLink, Building
<1>2. /\ o \in Allocated /\ o \in Ref /\ heap[o].name = Top.name /\ o # 0
      /\ heap[o] \in ClassObject /\ ObjectOK(o) /\ Mine(o)
  BY <1>1, AllocatedRefs DEF FrameOK, HeapOK, Mine, TypeOK
<1>3. /\ heap' = [heap EXCEPT ![o] = old, ![p] = c] /\ Return(p, exc)
      /\ table' = Insert(table, p, Top.name) /\ next' = next + 1 /\ p \in Ref
  BY DEF LinkClass
<1>4. /\ p \notin Allocated /\ Allocated' = Allocated \union {p} /\ p # 0 /\ p # o
      /\ next <= next' /\ Allocated \subseteq Ref
  <2>1. next \in Nat /\ next > 0
    BY <1>3, BoundsAssumption DEF Ref
  <2>2. 1..((next + 1) - 1) = 1..(next - 1) \union {next} /\ next \notin 1..(next - 1)
    BY <2>1
  <2> QED BY <1>1, <1>2, <1>3, <2>1, <2>2, AllocatedRefs DEF Allocated
<1>5. /\ c.name = heap[o].name /\ c.dir = heap[o].dir /\ c.super = heap[o].super
      /\ c.intfs = heap[o].intfs /\ c.package /\ c.members = heap[o].members
      /\ "Prepared" \in c.state /\ c.freed = heap[o].freed
      /\ c.state = heap[o].state \union {"Prepared", "Loaded"}
      /\ NeedsMirror(c.name) => c.mirror = p
  BY <1>2 DEF Finished, ClassObject
<1>6. /\ old.name = heap[o].name /\ old.dir = heap[o].dir /\ old.super = heap[o].super
      /\ old.intfs = heap[o].intfs /\ old.owner = p /\ "Prepared" \in old.state
  BY <1>2 DEF Discarded, ClassObject
<1>7. /\ heap'[o] = old /\ heap'[p] = c
      /\ \A r \in Allocated : r # o => heap'[r] = heap[r]
  BY <1>1, <1>2, <1>3, <1>4 DEF TypeOK
<1>8. /\ \A n \in Names : table[n] # 0 => table'[n] = table[n]
      /\ \A n \in Names : table[n] = 0 /\ table'[n] # 0 => n = Top.name /\ table'[n] = p
      /\ table'[Top.name] # 0
  BY <1>1, <1>3, <1>4 DEF Insert, TypeOK
<1>9. NamesKept
  BY <1>4, <1>6, <1>7, <1>8 DEF NamesKept
<1>10. \A s : IsPrepared(s) => IsPrepared(s)'
  BY <1>1, <1>9, PreparedKept
<1>11. FileOf(o)' = FileOf(o) /\ FileOf(p)' = FileOf(o)
  BY <1>5, <1>6, <1>7 DEF FileOf
<1>12. ASSUME NEW r \in {o, p} PROVE ObjectOK(r)'
  <2>1. /\ heap'[r].name = heap[o].name /\ heap'[r].dir = heap[o].dir
        /\ heap'[r].super = heap[o].super /\ heap'[r].intfs = heap[o].intfs
        /\ FileOf(r)' = FileOf(o)
    BY <1>5, <1>6, <1>7, <1>11
  <2> QED BY <1>2, <1>10, <2>1 DEF ObjectOK
<1>13. ASSUME Top.name \in ClassNames PROVE Complete(p)'
  <2>1. /\ BuildOK(Top) /\ FileOf(o).typesOk
    BY <1>1, <1>13, TopBuild DEF LinkClass, CanLink
  <2>2. /\ heap[o].dir \in Dirs /\ FileOf(o).kind = "class" /\ SupersIn(o)
        /\ heap[o].state = {} /\ ~heap[o].freed /\ heap[o].members = o
        /\ Len(heap[o].intfs) = Len(FileOf(o).intfs)
    BY <1>1, <2>1 DEF BuildOK
  <2>3. SupersIn(o)'
    BY <1>1, <1>2, <1>6, <1>7, <1>9, <1>13, <2>2, SupersKept
  <2>4. SupersIn(p)'
    BY <1>5, <1>6, <1>7, <1>11, <2>3 DEF SupersIn
  <2>5. /\ c.state = {"Prepared", "Loaded"} /\ ~c.freed /\ c.members = o
    BY <1>5, <2>2
  <2>6. o \in Allocated' /\ heap'[o].name = heap'[p].name /\ heap'[o].owner = p
    BY <1>2, <1>4, <1>5, <1>6, <1>7
  <2> QED BY <1>5, <1>7, <1>11, <2>1, <2>2, <2>4, <2>5, <2>6 DEF Complete
<1>14. ASSUME NEW n \in Names, table[n] = 0, table'[n] # 0
       PROVE  /\ EntryOK(n)' /\ Fresh(table'[n])
              /\ n \in FileClasses => Fresh(heap'[table'[n]].members)
  <2>1. n = Top.name /\ table'[n] = p /\ p \in Allocated' /\ heap'[p].name = n
    BY <1>2, <1>4, <1>5, <1>7, <1>8, <1>14
  <2>2. EntryOK(n)'
    BY <1>5, <1>7, <1>13, <2>1 DEF EntryOK, FileClasses
  <2>3. n \in FileClasses => heap'[p].members = o
    BY <1>1, <1>5, <1>7, <2>1, TopBuild DEF BuildOK, FileClasses
  <2> QED BY <1>2, <1>4, <2>1, <2>2, <2>3 DEF Fresh
<1>15. Steady
  <2>1. \A r \in Allocated : ~Mine(r) => heap'[r] = heap[r]
    BY <1>2, <1>7
  <2>2. \A r \in Allocated' : Fresh(r) => r \in {o, p}
    BY <1>4 DEF Fresh, Mine
  <2> QED BY <1>9, <1>12, <1>14, <2>1, <2>2 DEF Steady
<1>16. p \in Allocated' /\ heap'[p].name = Top.name /\ IsPrepared(p)'
  BY <1>2, <1>4, <1>5, <1>7 DEF IsPrepared
<1> QED BY <1>3, <1>4, <1>8, <1>15, <1>16, AfterReturn

LEMMA LoaderSteps ==
  ASSUME IInv, TypeOK', LoaderStep, UNCHANGED disk
  PROVE  IInv'
<1>1. depth > 0 /\ UNCHANGED <<disk, mainVars>>
  BY DEF LoaderStep
<1>2. CASE Found
  BY <1>1, <1>2, FoundStep
<1>3. CASE LoadElement
  BY <1>1, <1>3, LoadElementStep
<1>4. CASE ElementLoaded \/ PrimitiveElement
  BY <1>1, <1>4, ArraySteps
<1>5. CASE MediaFails \/ PrepareFails
  BY <1>1, <1>5, RefusalSteps
<1>6. CASE MediaFinds
  BY <1>1, <1>6, MediaFindsStep
<1>7. CASE SuperLoaded
  BY <1>1, <1>7, SuperLoadedStep
<1>8. CASE LoadInterface
  BY <1>1, <1>8, LoadInterfaceStep
<1>9. CASE InterfaceLoaded
  BY <1>1, <1>9, InterfaceLoadedStep
<1>10. CASE SupersLoaded
  BY <1>1, <1>10, SupersLoadedStep
<1>11. CASE LinkInterface
  BY <1>1, <1>11, LinkInterfaceStep
<1>12. CASE LinkClass
  BY <1>1, <1>12, LinkClassStep
<1> QED BY <1>2, <1>3, <1>4, <1>5, <1>6, <1>7, <1>8, <1>9, <1>10, <1>11, <1>12
        DEF LoaderStep

-----------------------------------------------------------------------------
(* So does every step of main.                                              *)

(* A step that touches neither the loader's variables nor what main waits  *)
(* for.                                                                      *)
LEMMA IdleInv ==
  ASSUME IInv, TypeOK', UNCHANGED <<disk, loaderVars>>,
         asked' = asked \/ (asked' = NoName /\ depth = 0),
         phase' = phase \/ (phase' \notin {"preload", "prims"}),
         step' >= 1, IsPrepared(global'[ObjectName]) \/ global'[ObjectName] = 0
  PROVE  IInv'
<1>1. UNCHANGED <<heap, next, table, stack, depth, ret, exc>> /\ Allocated' = Allocated
  BY DEF loaderVars, Allocated
<1>2. \A r : (IsPrepared(r)' <=> IsPrepared(r)) /\ (FileOf(r)' = FileOf(r))
  BY <1>1 DEF IsPrepared, FileOf
<1>3. \A r : (SupersIn(r)' <=> SupersIn(r)) /\ (ObjectOK(r)' <=> ObjectOK(r))
  BY <1>1, <1>2 DEF SupersIn, IsInterface, IsFinal, ObjectOK
<1>4. \A r : Complete(r)' <=> Complete(r)
  BY <1>1, <1>2, <1>3 DEF Complete
<1>5. \A f : (FrameOK(f)' <=> FrameOK(f)) /\ (BuildOK(f)' <=> BuildOK(f))
             /\ Wanted(f)' = Wanted(f)
  BY <1>1, <1>2, <1>3 DEF FrameOK, BuildOK, Wanted
<1>6. FramesOK' /\ HeapOK' /\ BuildsOK' /\ OwnObject' /\ Unpublished'
  BY <1>1, <1>3, <1>5 DEF IInv, FramesOK, HeapOK, BuildsOK, OwnObject, Unpublished
<1>7. TableOK'
  BY <1>1, <1>4 DEF IInv, TableOK, EntryOK
<1>8. \A d : d # 0 \/ asked' = asked => Pending(d)' = Pending(d)
  BY <1>1, <1>5 DEF Pending
<1>9. CallsOK'
  <2>1. depth \in Nat
    BY BoundsAssumption DEF IInv, TypeOK
  <2>2. ASSUME NEW d \in 1..depth PROVE stack[d].name = Pending(d - 1)'
    <3>1. asked' = asked
      BY <2>1
    <3> QED BY <1>8, <3>1 DEF IInv, CallsOK
  <2> QED BY <1>1, <2>2 DEF IInv, CallsOK
<1>10. ResultOK'
  <2>1. CASE depth = 0 /\ asked' # asked
    BY <1>1, <2>1 DEF ResultOK, Resuming
  <2>2. CASE ~(depth = 0 /\ asked' # asked)
    <3>1. Pending(depth)' = Pending(depth) /\ (Resuming' <=> Resuming)
      <4>1. depth # 0 \/ asked' = asked
        BY <2>2
      <4> QED BY <1>1, <1>5, <2>2, <4>1 DEF Resuming, Top, Pending
    <3> QED BY <1>1, <1>2, <3>1 DEF IInv, ResultOK
  <2> QED BY <2>1, <2>2
<1>11. MainOK'
  <2>1. asked' # NoName => asked' \in ClassNames \union ArrayNames
    BY DEF IInv, MainOK
  <2>2. phase' = "prims" => depth' = 0
    BY <1>1 DEF IInv, MainOK
  <2>3. phase' = "preload" => \A d \in 1..depth' : stack'[d].name \in ClassNames
    BY <1>1 DEF IInv, MainOK
  <2>4. global'[ObjectName] # 0 => IsPrepared(global[ObjectName])'
    <3> PICK g : g = global'[ObjectName]
      OBVIOUS
    <3>1. g # 0 => IsPrepared(g)'
      BY <1>2
    <3> QED BY <3>1
  <2> QED BY <2>1, <2>2, <2>3, <2>4 DEF MainOK
<1> QED BY <1>6, <1>7, <1>9, <1>10, <1>11 DEF IInv

LEMMA AskStep ==
  ASSUME IInv, TypeOK', NEW n \in ClassNames \union ArrayNames, NEW x, Ask(n, x),
         phase = "preload" => n \in ClassNames,
         phase # "prims", UNCHANGED <<disk, phase, step, global>>
  PROVE  IInv'
<1> PICK g : g = FrameAt(n, "search", 0)
  OBVIOUS
<1>1. TypeOK /\ HeapOK /\ TableOK /\ FramesOK /\ Unpublished /\ MainOK
  BY DEF IInv
<1>2. /\ depth = 0 /\ depth' = 1 /\ stack'[1] = g /\ asked' = n
      /\ UNCHANGED <<heap, next, table, ret>>
  <2>1. /\ depth = 0 /\ Call(n, "none", 0) /\ asked' = n
        /\ UNCHANGED <<heap, next, table, ret>>
    BY DEF Ask
  <2>2. 1 \in 1..MaxDepth /\ depth' = 1
    BY <2>1, BoundsAssumption DEF Call
  <2> QED BY <2>1, <2>2 DEF Call
<1>3. g.name = n /\ g.pc = "search"
  BY DEF FrameAt
<1>4. Steady
  BY <1>1, <1>2, IdleSteady
<1>5. HeapOK' /\ TableOK'
  BY <1>1, <1>4, HeapKept, TableKept
<1>6. \A d \in 1..depth' : d = 1
  BY <1>2
<1>7. FramesOK' /\ BuildsOK' /\ OwnObject' /\ Unpublished'
  <2>1. FrameOK(g)' /\ g.pc \notin Building
    BY <1>3 DEF FrameOK, Building
  <2> QED BY <1>2, <1>6, <2>1 DEF FramesOK, BuildsOK, OwnObject, Unpublished
<1>8. CallsOK' /\ ResultOK'
  <2>1. \A d \in 1..depth' : stack'[d].name = Pending(d - 1)'
    BY <1>2, <1>3, <1>6 DEF Pending
  <2>2. depth' - 1 = 0 /\ depth' # 0
    BY <1>2
  <2>3. Top' = g
    BY <1>2 DEF Top
  <2>4. ~Resuming'
    BY <1>3, <2>2, <2>3 DEF Resuming, Waiting
  <2> QED BY <2>1, <2>2, <2>4 DEF CallsOK, ResultOK
<1>9. MainOK'
  <2>1. \A d \in 1..depth' : stack'[d].name = n
    BY <1>2, <1>3, <1>6
  <2>2. global[ObjectName] # 0 => IsPrepared(global[ObjectName])'
    <3> PICK o : o = global[ObjectName]
      OBVIOUS
    <3>1. IsPrepared(o) => IsPrepared(o)'
      BY <1>2 DEF IsPrepared, Allocated
    <3>2. global'[ObjectName] = o
      OBVIOUS
    <3> QED BY <1>1, <3>1, <3>2 DEF MainOK
  <2> QED BY <1>1, <1>2, <2>1, <2>2 DEF MainOK
<1> QED BY <1>5, <1>7, <1>8, <1>9 DEF IInv

(* No call is active: what main does to the heap and the table is enough.  *)
LEMMA AtRest ==
  ASSUME TypeOK', depth' = 0, asked' = NoName, HeapOK', TableOK', MainOK'
  PROVE  IInv'
<1>1. ~(\E d \in 1..depth' : TRUE) /\ ~(\E d \in 1..(depth' - 1) : TRUE) /\ ~Resuming'
  BY DEF Resuming
<1> QED BY <1>1 DEF IInv, FramesOK, BuildsOK, OwnObject, Unpublished, CallsOK, ResultOK

LEMMA ClassPreloadedStep ==
  ASSUME IInv, TypeOK', ClassPreloaded, UNCHANGED disk
  PROVE  IInv'
<1>1. /\ TypeOK /\ HeapOK /\ TableOK /\ MainOK /\ ResultOK
      /\ depth = 0 /\ depth' = 0 /\ asked = ClassName /\ asked' = NoName /\ asked # NoName
      /\ phase = "preload" /\ UNCHANGED <<next, table, step>>
  BY DEF IInv, ClassPreloaded, Answered
<1>2. Allocated' = Allocated
  BY <1>1 DEF Allocated
<1>3. CASE exc # "OK"
  <2>1. UNCHANGED <<heap, global>> /\ phase' = "run"
    BY <1>3 DEF ClassPreloaded
  <2>2. Steady
    BY <1>1, <2>1, IdleSteady
  <2>3. HeapOK' /\ TableOK'
    BY <1>1, <2>2, HeapKept, TableKept DEF IInv
  <2>4. MainOK'
    <3> PICK o : o = global[ObjectName]
      OBVIOUS
    <3>1. (IsPrepared(o) => IsPrepared(o)') /\ global'[ObjectName] = o
      BY <1>2, <2>1 DEF IsPrepared
    <3> QED BY <1>1, <2>1, <3>1 DEF MainOK
  <2> QED BY <1>1, <2>3, <2>4, AtRest
<1>4. CASE exc = "OK"
  <2> PICK k : k = ret
    OBVIOUS
  <2> PICK o : o = heap[k].super
    OBVIOUS
  <2>1. k \in Allocated /\ k \in Ref /\ Allocated \subseteq Ref
    BY <1>1, <1>4, AllocatedRefs DEF ResultOK, Resuming, Failing
  <2>2. ObjectOK(k) /\ (o # 0 => IsPrepared(o)) /\ (o = 0 \/ o \in Allocated)
    BY <1>1, <2>1 DEF HeapOK, ObjectOK, IsPrepared
  <2>3. /\ heap' = [heap EXCEPT ![k].mirror = k, ![o].mirror = o]
        /\ global' = [global EXCEPT ![ClassName] = k, ![ObjectName] = o]
        /\ phase' = "prims"
    BY <1>4 DEF ClassPreloaded
  <2>4. \A r \in Allocated :
          \/ heap'[r] = heap[r]
          \/ heap'[r] = [heap[r] EXCEPT !.mirror = r]
    <3>1. PICK h : h = [heap EXCEPT ![k].mirror = k]
      OBVIOUS
    <3>2. heap \in [Ref -> ClassObject]
      BY <1>1 DEF TypeOK
    <3>3. h[k] = [heap[k] EXCEPT !.mirror = k] /\ \A r \in Ref : r # k => h[r] = heap[r]
      BY <2>1, <3>1, <3>2
    <3>4. h \in [Ref -> ClassObject]
      <4>1. heap[k] \in ClassObject /\ k \in 0..MaxObjects
        BY <2>1, <3>2, BoundsAssumption DEF Ref
      <4>2. [heap[k] EXCEPT !.mirror = k] \in ClassObject
        BY <4>1, UpdateTypes
      <4> QED BY <3>1, <3>2, <4>2
    <3>5. heap' = [h EXCEPT ![o].mirror = o]
      BY <2>3, <3>1
    <3>6. [h[k] EXCEPT !.mirror = k] = h[k]
      BY <2>1, <3>2, <3>3 DEF ClassObject
    <3> SUFFICES ASSUME NEW r \in Allocated
                 PROVE  \/ heap'[r] = heap[r]
                        \/ heap'[r] = [heap[r] EXCEPT !.mirror = r]
      OBVIOUS
    <3>7. CASE r = o /\ r = k
      <4>1. heap'[r] = [h[k] EXCEPT !.mirror = k]
        BY <2>1, <3>4, <3>5, <3>7
      <4> QED BY <3>3, <3>6, <3>7, <4>1
    <3>8. CASE r = o /\ r # k
      BY <2>1, <3>3, <3>4, <3>5, <3>8
    <3>9. CASE r # o
      BY <2>1, <3>3, <3>4, <3>5, <3>9
    <3> QED BY <3>7, <3>8, <3>9
  <2>5. \A r \in Allocated :
          /\ heap'[r].name = heap[r].name /\ heap'[r].dir = heap[r].dir
          /\ heap'[r].super = heap[r].super /\ heap'[r].intfs = heap[r].intfs
          /\ heap'[r].state = heap[r].state /\ heap'[r].package = heap[r].package
          /\ heap'[r].freed = heap[r].freed /\ heap'[r].members = heap[r].members
          /\ heap'[r].owner = heap[r].owner
          /\ heap'[r].mirror = heap[r].mirror \/ heap'[r].mirror = r
    <3>1. \A r \in Allocated : heap[r] \in ClassObject
      BY <1>1, <2>1 DEF TypeOK
    <3> QED BY <2>4, <3>1 DEF ClassObject
  <2>6. \A r \in Allocated : FileOf(r)' = FileOf(r)
    BY <2>5 DEF FileOf
  <2>7. \A r : IsPrepared(r) => IsPrepared(r)'
    BY <1>2, <2>5 DEF IsPrepared
  <2>8. HeapOK'
    BY <1>1, <1>2, <2>5, <2>6, <2>7 DEF HeapOK, ObjectOK
  <2>9. NamesKept
    <3>1. next <= next'
      BY <1>1, AllocatedRefs
    <3> QED BY <1>1, <2>5, <3>1 DEF NamesKept
  <2>10. ASSUME NEW r \in Allocated, Complete(r), heap[r].name \in ClassNames
         PROVE  Complete(r)'
    <3>1. SupersIn(r)'
      BY <1>1, <2>5, <2>9, <2>10, SupersKept DEF Complete
    <3>2. heap[r].members \in Allocated /\ heap'[r].members = heap[r].members
      BY <2>5, <2>10 DEF Complete
    <3> PICK m : m = heap[r].members
      OBVIOUS
    <3>3. heap'[m].name = heap[m].name /\ heap'[m].owner = heap[m].owner
      BY <2>5, <3>2
    <3> QED BY <1>2, <2>5, <2>6, <2>10, <3>1, <3>2, <3>3 DEF Complete
  <2>11. TableOK'
    <3> SUFFICES ASSUME NEW n \in Names, table'[n] # 0 PROVE EntryOK(n)'
      BY DEF TableOK
    <3> PICK r : r = table[n]
      OBVIOUS
    <3>1. EntryOK(n) /\ table'[n] = r /\ r \in Allocated /\ heap[r].name = n
      BY <1>1 DEF TableOK, EntryOK
    <3>2. n \in FileClasses => Complete(r)'
      BY <2>10, <3>1 DEF EntryOK, FileClasses
    <3> QED BY <1>2, <2>5, <3>1, <3>2 DEF EntryOK
  <2>12. MainOK'
    <3>1. global'[ObjectName] = o
      BY <1>1, <2>3, NamesAssumption DEF TypeOK, Globals
    <3>2. o # 0 => IsPrepared(o)'
      BY <2>2, <2>7
    <3> QED BY <1>1, <2>3, <3>1, <3>2 DEF MainOK
  <2> QED BY <1>1, <2>8, <2>11, <2>12, AtRest
<1> QED BY <1>3, <1>4

LEMMA PreloadPrimitiveStep ==
  ASSUME IInv, TypeOK', PreloadPrimitive, UNCHANGED disk
  PROVE  IInv'
<1> PICK n : n = BootPrims[step].name
  OBVIOUS
<1> PICK o : o = next
  OBVIOUS
<1> PICK c : c = PrimitiveClass(n, next)
  OBVIOUS
<1>1. /\ TypeOK /\ HeapOK /\ TableOK /\ MainOK /\ FramesOK /\ Unpublished
      /\ depth = 0 /\ depth' = 0 /\ phase' = "prims" /\ step' = step + 1
  BY DEF IInv, PreloadPrimitive, MainOK
<1>2. n \in PrimNames /\ n \in Names /\ n \notin ArrayNames
  BY <1>1, BootNames, NamesAssumption DEF PreloadPrimitive, Names
<1>3. Alloc(c) /\ table' = Insert(table, o, n)
  BY DEF PreloadPrimitive
<1>4. /\ Allocated' = Allocated \union {o} /\ o \notin Allocated /\ o # 0
      /\ heap'[o] = c /\ next <= next' /\ \A r \in Allocated : heap'[r] = heap[r]
  BY <1>1, <1>3, AllocFacts
<1>5. c.name = n /\ c.super = global[ObjectName] /\ c.intfs = <<>> /\ c.state = {"Prepared"}
  BY DEF PrimitiveClass
<1>6. \A r : IsPrepared(r) => IsPrepared(r)'
  BY <1>4 DEF IsPrepared
<1>7. ObjectOK(o)'
  <2>1. c.super # 0 => IsPrepared(c.super)'
    <3> PICK s : s = c.super
      OBVIOUS
    <3>1. s # 0 => IsPrepared(s)'
      BY <1>1, <1>5, <1>6 DEF MainOK
    <3> QED BY <3>1
  <2> QED BY <1>2, <1>4, <1>5, <2>1 DEF ObjectOK, FileClasses
<1>8. /\ \A m \in Names : table[m] # 0 => table'[m] = table[m]
      /\ \A m \in Names : table[m] = 0 /\ table'[m] # 0 => m = n /\ table'[m] = o
  BY <1>1, <1>2, <1>3 DEF Insert, TypeOK
<1>9. ASSUME NEW m \in Names, table[m] = 0, table'[m] # 0
      PROVE  EntryOK(m)' /\ table'[m] = o /\ m \notin FileClasses
  BY <1>2, <1>4, <1>5, <1>8, <1>9 DEF EntryOK, FileClasses
<1>10. Steady
  BY <1>1, <1>3, <1>7, <1>8, <1>9, AllocSteady
<1>11. HeapOK' /\ TableOK'
  BY <1>1, <1>10, HeapKept, TableKept
<1>12. MainOK' /\ (asked' = NoName => IInv')
  <2>1. global[ObjectName] # 0 => IsPrepared(global[ObjectName])'
    <3> PICK s : s = global[ObjectName]
      OBVIOUS
    <3>1. s # 0 => IsPrepared(s)'
      BY <1>1, <1>6 DEF MainOK
    <3>2. global' = global
      BY DEF PreloadPrimitive
    <3> QED BY <3>1, <3>2
  <2>2. step' >= 1 /\ asked' = asked
    BY <1>1 DEF MainOK, TypeOK, PreloadPrimitive
  <2>3. \A d \in 1..depth' : FALSE
    BY <1>1
  <2>4. global' = global
    BY DEF PreloadPrimitive
  <2>5. MainOK'
    BY <1>1, <2>1, <2>2, <2>3, <2>4 DEF MainOK
  <2> QED BY <1>1, <1>11, <2>5, AtRest
<1>13. ASSUME asked' # NoName PROVE IInv'
  <2>1. asked' = asked /\ ret' = ret /\ Pending(depth)' = asked /\ Pending(depth) = asked
    BY <1>1 DEF PreloadPrimitive, Pending
  <2>2. ResultOK
    BY DEF IInv
  <2>3. ResultOK'
    <3> PICK r : r = ret
      OBVIOUS
    <3>1. r # 0 => /\ r \in Allocated /\ heap[r].name = asked /\ table[asked] # 0
                   /\ asked \notin ArrayNames => IsPrepared(r)
      BY <1>1, <1>13, <2>1, <2>2 DEF ResultOK, Resuming
    <3>2. r # 0 => /\ r \in Allocated' /\ heap'[r].name = asked /\ table'[asked] # 0
                   /\ asked \notin ArrayNames => IsPrepared(r)'
      <4>1. asked \in Names
        BY <1>1, <1>13, <2>1 DEF TypeOK
      <4> QED BY <1>4, <1>6, <1>8, <3>1, <4>1
    <3> QED BY <1>1, <2>1, <3>2 DEF ResultOK
  <2>4. ~(\E d \in 1..depth' : TRUE) /\ ~(\E d \in 1..(depth' - 1) : TRUE)
    BY <1>1
  <2> QED BY <1>11, <1>12, <2>3, <2>4
          DEF IInv, FramesOK, BuildsOK, OwnObject, Unpublished, CallsOK
<1> QED BY <1>12, <1>13

LEMMA BootSteps ==
  ASSUME IInv, TypeOK', BootStep, UNCHANGED disk
  PROVE  IInv'
<1>1. TypeOK /\ MainOK /\ step \in Nat /\ step >= 1
  BY DEF IInv, TypeOK, MainOK
<1>2. IsPrepared(global[ObjectName]) \/ global[ObjectName] = 0
  BY <1>1 DEF MainOK
<1>3. CASE PreloadClass
  <2>1. Ask(ClassName, "OK") /\ phase = "preload" /\ UNCHANGED <<phase, step, global>>
    BY <1>3 DEF PreloadClass
  <2> QED BY <2>1, AskStep, NamesAssumption
<1>4. CASE ClassPreloaded
  BY <1>4, ClassPreloadedStep
<1>5. CASE PreloadPrimitive
  BY <1>5, PreloadPrimitiveStep
<1>6. CASE PrimitivesDone
  <2>1. /\ UNCHANGED <<loaderVars, asked, global>> /\ phase' = "globals" /\ step' = 1
    BY <1>6 DEF PrimitivesDone
  <2> QED BY <1>2, <2>1, IdleInv
<1>7. CASE LoadGlobal
  <2>1. PICK e :
           /\ Ask(BootLoads[step], e) /\ phase = "globals" /\ UNCHANGED <<phase, step, global>>
           /\ step <= Len(BootLoads)
    BY <1>7 DEF LoadGlobal
  <2>2. BootLoads[step] \in ClassNames \union ArrayNames
    BY <1>1, <2>1, BootNames
  <2> QED BY <2>1, <2>2, AskStep
<1>8. CASE GlobalLoaded
  <2> PICK n : n = BootLoads[step]
    OBVIOUS
  <2>1. /\ UNCHANGED <<loaderVars, phase>> /\ depth = 0 /\ asked = n /\ n # NoName
        /\ asked' = NoName /\ step' = step + 1
        /\ global' = [global EXCEPT ![n] = ret]
    BY <1>8 DEF GlobalLoaded, Answered
  <2>2. IsPrepared(global'[ObjectName]) \/ global'[ObjectName] = 0
    <3>1. CASE n = ObjectName
      <4>1. ret # 0 => IsPrepared(ret)
        BY <2>1, <3>1, NamesAssumption DEF IInv, ResultOK, Resuming, Pending
      <4>2. global'[ObjectName] = ret
        BY <1>1, <2>1, <3>1 DEF TypeOK, Globals
      <4> QED BY <4>1, <4>2
    <3>2. CASE n # ObjectName
      BY <1>1, <1>2, <2>1, <3>2 DEF TypeOK, Globals
    <3> QED BY <3>1, <3>2
  <2>3. step' >= 1
    BY <1>1, <2>1
  <2> QED BY <2>1, <2>2, <2>3, IdleInv
<1>9. CASE BootDone
  <2>1. /\ UNCHANGED <<loaderVars, asked, step, global>> /\ phase' \in {"crashed", "run"}
    BY <1>9 DEF BootDone
  <2> QED BY <1>1, <1>2, <2>1, IdleInv
<1> QED BY <1>3, <1>4, <1>5, <1>6, <1>7, <1>8, <1>9 DEF BootStep

LEMMA RunSteps ==
  ASSUME IInv, TypeOK', RunStep, UNCHANGED disk
  PROVE  IInv'
<1>1. TypeOK /\ MainOK /\ step >= 1
  BY DEF IInv, MainOK
<1>2. ASSUME NEW n \in ClassNames \union ArrayNames, Request(n) PROVE IInv'
  <2>1. PICK e : Ask(n, e) /\ phase = "run" /\ UNCHANGED <<phase, step, global>>
    BY <1>2 DEF Request
  <2> QED BY <2>1, AskStep
<1>3. CASE RequestDone
  <2>1. UNCHANGED <<loaderVars, phase, step, global>> /\ asked' = NoName /\ depth = 0
    BY <1>3 DEF RequestDone, Answered
  <2>2. IsPrepared(global[ObjectName]) \/ global[ObjectName] = 0
    BY <1>1 DEF MainOK
  <2> QED BY <1>1, <2>1, <2>2, IdleInv
<1> QED BY <1>2, <1>3 DEF RunStep

LEMMA CrashSteps ==
  ASSUME IInv, TypeOK', LoaderCrash, UNCHANGED disk
  PROVE  IInv'
<1>1. UNCHANGED <<loaderVars, asked, step, global>> /\ phase' = "crashed"
  BY DEF LoaderCrash, LinkWithoutClassClass, ShortElement, StackOverflow, Crash
<1>2. step >= 1 /\ (IsPrepared(global[ObjectName]) \/ global[ObjectName] = 0)
  BY DEF IInv, MainOK
<1> QED BY <1>1, <1>2, IdleInv

-----------------------------------------------------------------------------
(* The invariant holds of every reachable state.                            *)

LEMMA InitInv ==
  ASSUME Init
  PROVE  IInv
<1>1. TypeOK
  BY InitTypeOK
<1>2. /\ next = 1 /\ depth = 0 /\ asked = NoName /\ step = 1 /\ phase = "preload"
      /\ \A n \in Names : table[n] = 0
      /\ global = [n \in Globals |-> 0]
  BY DEF Init
<1>3. Allocated = {} /\ 1..depth = {} /\ 1..(depth - 1) = {} /\ ~Resuming
  BY <1>2 DEF Allocated, Resuming
<1>4. FramesOK /\ BuildsOK /\ OwnObject /\ Unpublished /\ CallsOK
  BY <1>3 DEF FramesOK, BuildsOK, OwnObject, Unpublished, CallsOK
<1>5. HeapOK /\ TableOK /\ ResultOK
  BY <1>2, <1>3 DEF HeapOK, TableOK, ResultOK
<1>6. MainOK
  BY <1>2, <1>3 DEF MainOK, Globals
<1> QED BY <1>1, <1>4, <1>5, <1>6 DEF IInv

LEMMA StepInv ==
  ASSUME IInv, [Next]_vars
  PROVE  IInv'
<1>1. TypeOK'
  BY StepType
<1>2. CASE UNCHANGED vars
  <2>1. UNCHANGED <<disk, loaderVars, asked, phase, step, global>>
    BY <1>2 DEF vars, mainVars
  <2>2. step >= 1 /\ (IsPrepared(global[ObjectName]) \/ global[ObjectName] = 0)
    BY DEF IInv, MainOK
  <2> QED BY <1>1, <2>1, <2>2, IdleInv
<1>3. CASE Next
  BY <1>1, <1>3, LoaderSteps, CrashSteps, BootSteps, RunSteps DEF Next
<1> QED BY <1>2, <1>3

THEOREM Invariance == Spec => []IInv
<1>1. Init => IInv
  BY InitInv
<1>2. IInv /\ [Next]_vars => IInv'
  BY StepInv
<1> QED BY <1>1, <1>2, PTL DEF Spec

(* The native stack never underflows and its depth never exceeds what the  *)
(* host allows, *exc holds an error load_class can report, and every       *)
(* pointer to a korp_class is NULL or one the heap has handed out.          *)
THEOREM TypeCorrectness == Spec => []TypeOK
<1>1. IInv => TypeOK
  BY DEF IInv
<1> QED BY <1>1, Invariance, PTL

-----------------------------------------------------------------------------
(* Properties of the classes in the table.                                  *)

(* Packing a class with its vtable leaves no pointer to the original in a  *)
(* class that is in the table: neither from a field or method (owner_class)*)
(* nor from its java.lang.Class object (collocate_class_vtable).            *)
THEOREM NoPointerToOriginal == Spec => []NothingPointsToOriginal
<1>1. ASSUME IInv
      PROVE  NothingPointsToOriginal
  <2> SUFFICES ASSUME NEW n \in FileClasses, table[n] # 0
               PROVE  /\ heap[heap[table[n]].members].owner = table[n]
                      /\ NeedsMirror(n) => heap[table[n]].mirror = table[n]
    BY DEF NothingPointsToOriginal
  <2>1. EntryOK(n)
    BY <1>1 DEF IInv, TableOK, FileClasses, Names
  <2> QED BY <2>1 DEF EntryOK, Complete
<1> QED BY <1>1, Invariance, PTL

(* When class_prepare computes the layout and the vtable of a class, its   *)
(* superclass and superinterfaces have been through class_prepare.          *)
THEOREM SupersArePreparedFirst == Spec => []SupersPreparedFirst
<1>1. ASSUME IInv
      PROVE  SupersPreparedFirst
  <2> SUFFICES ASSUME depth > 0, Top.pc = "link"
               PROVE  LET c == heap[Top.obj]
                      IN /\ c.super # 0 => "Prepared" \in heap[c.super].state
                         /\ \A i \in 1..Len(c.intfs) :
                              "Prepared" \in heap[c.intfs[i]].state
    BY DEF SupersPreparedFirst
  <2>1. FrameOK(Top) /\ Top.obj \in Allocated
    <3>1. depth \in 1..depth
      BY <1>1, BoundsAssumption DEF IInv, TypeOK
    <3> QED BY <1>1, <3>1 DEF IInv, FramesOK, FrameOK, Building, Top
  <2>2. ObjectOK(Top.obj)
    BY <1>1, <2>1 DEF IInv, HeapOK
  <2> QED BY <2>2 DEF ObjectOK, IsPrepared
<1> QED BY <1>1, Invariance, PTL

(* How a step may change the class table: it inserts one class, and the    *)
(* class of a file only when that class is linked.                          *)
LEMMA TableSteps ==
  ASSUME IInv, [Next]_vars
  PROVE  \/ table' = table
         \/ \E r, m : table' = Insert(table, r, m) /\ m \in ArrayNames \union PrimNames
         \/ \E r : table' = Insert(table, r, Top.name) /\ depth > 0 /\ CanLink
<1>1. TypeOK /\ MainOK
  BY DEF IInv
<1>2. CASE UNCHANGED vars
  BY <1>2 DEF vars, loaderVars
<1>3. CASE LoaderStep
  <2>1. CASE ElementLoaded \/ PrimitiveElement
    <3>1. Top.name \in ArrayNames
      <4>1. depth \in 1..depth /\ Top = stack[depth]
        BY <1>1, <1>3, BoundsAssumption DEF LoaderStep, TypeOK, Top
      <4> QED BY <2>1, <4>1 DEF IInv, FramesOK, FrameOK, ElementLoaded, PrimitiveElement
    <3> QED BY <2>1, <3>1 DEF ElementLoaded, PrimitiveElement, CreateArray
  <2>2. CASE LinkInterface \/ LinkClass
    BY <1>3, <2>2 DEF LinkInterface, LinkClass, LoaderStep
  <2>3. CASE ~(ElementLoaded \/ PrimitiveElement \/ LinkInterface \/ LinkClass)
    BY <1>3, <2>3 DEF LoaderStep, Found, LoadElement, MediaFails, MediaFinds,
                      SuperLoaded, LoadInterface, InterfaceLoaded, SupersLoaded,
                      PrepareFails
  <2> QED BY <2>1, <2>2, <2>3
<1>4. CASE LoaderCrash
  BY <1>4 DEF LoaderCrash, LinkWithoutClassClass, ShortElement, StackOverflow, Crash, loaderVars
<1>5. CASE BootStep
  <2>1. CASE PreloadPrimitive
    <3>1. BootPrims[step].name \in PrimNames
      BY <1>1, <2>1, BootNames DEF PreloadPrimitive
    <3> QED BY <2>1, <3>1 DEF PreloadPrimitive
  <2>2. CASE ~PreloadPrimitive
    BY <1>5, <2>2 DEF BootStep, PreloadClass, Ask, ClassPreloaded, PrimitivesDone,
                      LoadGlobal, GlobalLoaded, BootDone, loaderVars
  <2> QED BY <2>1, <2>2
<1>6. CASE RunStep
  BY <1>6 DEF RunStep, Request, Ask, RequestDone, loaderVars
<1> QED BY <1>2, <1>3, <1>4, <1>5, <1>6 DEF Next

LEMMA EntriesStay ==
  ASSUME IInv, [Next]_vars
  PROVE  \A n \in Names : table[n] # 0 => table'[n] = table[n]
<1>1. table \in [Names -> 0..MaxObjects]
  BY DEF IInv, TypeOK
<1>2. \A r, m : \A n \in Names : table[n] # 0 => Insert(table, r, m)[n] = table[n]
  BY <1>1 DEF Insert
<1> QED BY <1>2, TableSteps

(* No step of the loader, of start-up or of a request replaces or removes  *)
(* an entry of the class table.                                             *)
THEOREM BindingsAreStable == Spec => BindingsStable
<1>1. IInv /\ [Next]_vars =>
        [\A n \in Names : table[n] # 0 => table'[n] = table[n]]_vars
  BY EntriesStay
<1> QED BY <1>1, Invariance, PTL DEF Spec, BindingsStable

-----------------------------------------------------------------------------
(* Classes that cannot be loaded.                                           *)

NoneIn(bad) == \A n \in bad : table[n] = 0

(* A class that is about to be linked is not bad.                          *)
LEMMA LinkedIsGood ==
  ASSUME IInv, depth > 0, CanLink, NEW bad \in SUBSET FileClasses,
         AllBad(bad), NoneIn(bad)
  PROVE  Top.name \notin bad
<1> SUFFICES ASSUME Top.name \in bad
             PROVE  FALSE
  OBVIOUS
<1> DEFINE r == Top.obj  c == heap[r]  d == c.dir  file == FileOf(r)
<1>1. Top.name \in ClassNames /\ Top.pc = "link" /\ depth \in 1..depth
  BY BoundsAssumption DEF FileClasses, CanLink, IInv, TypeOK
<1>2. FrameOK(Top) /\ BuildOK(Top) /\ r \in Allocated /\ c.name = Top.name
  BY <1>1 DEF IInv, FramesOK, BuildsOK, Top, Building, FrameOK
<1>3. /\ d \in Dirs /\ file.kind = "class" /\ file.typesOk
      /\ SupersIn(r) /\ Len(c.intfs) = Len(file.intfs)
      /\ file = disk[d][Top.name]
  BY <1>1, <1>2 DEF BuildOK, CanLink, FileOf
<1>4. BadFile(file, Top.name, bad)
  BY <1>3 DEF AllBad
<1>5. ~(file.super = NoName /\ Top.name # ObjectName)
  BY <1>2, <1>3 DEF SupersIn
<1>6. file.super \notin bad
  <2>1. NoName \notin bad
    BY NamesAssumption DEF FileClasses, Names
  <2> QED BY <1>3, <2>1 DEF SupersIn, NoneIn
<1>7. \A i \in 1..Len(file.intfs) : file.intfs[i] \notin bad
  BY <1>3 DEF SupersIn, NoneIn
<1>8. ASSUME file.super \in FileClasses
      PROVE  \E e \in Dirs : LET super == disk[e][file.super]
                             IN super.kind = "class" /\ ~super.isFinal /\ ~super.isInterface
  <2> PICK s : s = c.super
    OBVIOUS
  <2>1. /\ s \in Allocated /\ heap[s].name = file.super
        /\ ~IsInterface(s) /\ ~IsFinal(s)
    BY <1>3, <1>8, NamesAssumption DEF SupersIn, FileClasses, Names
  <2>2. heap[s].dir \in Dirs /\ FileOf(s).kind = "class"
    BY <1>8, <2>1 DEF IInv, HeapOK, ObjectOK
  <2>3. heap[s].dir # 0
    BY <2>2, BoundsAssumption DEF Dirs
  <2> QED BY <2>1, <2>2, <2>3 DEF IsInterface, IsFinal, FileOf
<1>9. Top.name # EmptyName
  BY <1>2 DEF BuildOK
<1> QED BY <1>3, <1>4, <1>5, <1>6, <1>7, <1>8, <1>9 DEF BadFile

LEMMA StaysOut ==
  ASSUME IInv, [Next]_vars, NEW bad \in SUBSET FileClasses, AllBad(bad), NoneIn(bad)
  PROVE  NoneIn(bad)' /\ AllBad(bad)'
<1>1. UNCHANGED disk
  BY DEF Next, vars
<1>2. table \in [Names -> 0..MaxObjects] /\ bad \subseteq Names
  BY DEF IInv, TypeOK, FileClasses, Names
<1>3. \A r, m : m \notin bad => \A n \in bad : Insert(table, r, m)[n] = table[n]
  BY <1>2 DEF Insert
<1>4. \A m \in ArrayNames \union PrimNames : m \notin bad
  BY NamesAssumption DEF FileClasses
<1>5. NoneIn(bad)'
  BY <1>3, <1>4, TableSteps, LinkedIsGood DEF NoneIn
<1> QED BY <1>1, <1>5 DEF AllBad, BadFile

(* A class that cannot be loaded because of its own file, or of one above  *)
(* it, or because its supers never end, is never in the table: a refusal   *)
(* by load_class, load_class_supers or class_prepare is final.              *)
THEOREM RejectedStayOut == Spec => []RejectedNeverPublished
<1> DEFINE Inv == \A bad \in SUBSET FileClasses : AllBad(bad) => NoneIn(bad)
<1>1. Init => Inv
  BY DEF Init, NoneIn, FileClasses, Names
<1>2. IInv /\ Inv /\ [Next]_vars => Inv'
  <2> SUFFICES ASSUME IInv, Inv, [Next]_vars,
                      NEW bad \in SUBSET FileClasses, AllBad(bad)'
               PROVE  NoneIn(bad)'
    OBVIOUS
  <2>1. UNCHANGED disk
    BY DEF Next, vars
  <2>2. AllBad(bad)
    BY <2>1 DEF AllBad, BadFile
  <2> QED BY <2>2, StaysOut
<1>3. Inv => RejectedNeverPublished
  BY DEF RejectedNeverPublished, Rejected, NoneIn
<1> QED BY <1>1, <1>2, <1>3, Invariance, PTL DEF Spec

-----------------------------------------------------------------------------
(* What the steps do to the stack and to the heap.                         *)

LEMMA DepthFacts ==
  ASSUME TypeOK
  PROVE  depth \in Nat /\ MaxDepth \in Nat /\ depth <= MaxDepth
  BY BoundsAssumption DEF TypeOK

LEMMA AfterReturning ==
  ASSUME TypeOK, depth > 0, NEW r, NEW e, Return(r, e)
  PROVE  /\ depth' = depth - 1 /\ ret' = r /\ exc' = e
         /\ \A d \in 1..depth' : d \in 1..depth /\ d # depth /\ stack'[d] = stack[d]
<1>1. depth \in 1..MaxDepth /\ depth' = depth - 1 /\ ret' = r /\ exc' = e
  BY DepthFacts DEF Return
<1>2. \A d \in 1..(depth - 1) : d \in 1..depth /\ d # depth /\ d \in 1..MaxDepth
  BY <1>1, DepthFacts
<1>3. \A d \in 1..MaxDepth : d # depth => stack'[d] = stack[d]
  BY DEF Return, TypeOK
<1> QED BY <1>1, <1>2, <1>3

LEMMA AfterMoving ==
  ASSUME TypeOK, depth > 0, NEW pc, NEW obj, Goto(pc, obj)
  PROVE  /\ depth' = depth /\ ret' = ret
         /\ stack'[depth] = FrameAt(Top.name, pc, obj)
         /\ \A d \in 1..depth : d # depth => stack'[d] = stack[d]
<1>1. depth \in 1..MaxDepth /\ 1..depth \subseteq 1..MaxDepth
  BY DepthFacts
<1> QED BY <1>1 DEF Goto, TypeOK

LEMMA AfterCalling ==
  ASSUME TypeOK, depth > 0, NEW n, NEW pc, NEW obj, Call(n, pc, obj)
  PROVE  /\ depth' = depth + 1
         /\ stack'[depth + 1] = FrameAt(n, "search", 0)
         /\ stack'[depth] = FrameAt(Top.name, pc, obj)
         /\ \A d \in 1..depth : d # depth => stack'[d] = stack[d]
<1>1. /\ depth \in 1..MaxDepth /\ 1..depth \subseteq 1..MaxDepth
      /\ depth + 1 \in 1..MaxDepth /\ depth + 1 \notin 1..depth /\ depth + 1 # depth
  BY DepthFacts DEF Call
<1> QED BY <1>1 DEF Call

LEMMA AfterAsking ==
  ASSUME TypeOK, NEW n, NEW x, Ask(n, x)
  PROVE  depth' = 1 /\ stack'[1] = FrameAt(n, "search", 0)
<1>1. depth = 0 /\ depth' = 1 /\ 1 \in 1..MaxDepth
  BY DepthFacts DEF Ask, Call
<1> QED BY <1>1 DEF Ask, Call

(* A class keeps its name and its file, and but for the class the innermost *)
(* frame is building, its supers; it never starts to load supers.          *)
Grown(r) ==
    /\ heap'[r].name = heap[r].name /\ heap'[r].dir = heap[r].dir
    /\ "Loaded" \in heap[r].state => "Loaded" \in heap'[r].state
    /\ "LoadingSupers" \notin heap[r].state => "LoadingSupers" \notin heap'[r].state
    /\ heap'[r].mirror = heap[r].mirror \/ heap'[r].mirror = r
    /\ Mine(r) \/ (heap'[r].super = heap[r].super /\ heap'[r].intfs = heap[r].intfs)

LEMMA SameGrown ==
  ASSUME NEW r, heap'[r] = heap[r]
  PROVE  Grown(r)
  BY DEF Grown

LEMMA AllocGrows ==
  ASSUME TypeOK, NEW c, Alloc(c)
  PROVE  next <= next' /\ \A r \in Allocated : heap'[r] = heap[r]
<1>1. next \in Ref /\ next \notin Allocated /\ Allocated \subseteq Ref
  BY AllocatedRefs DEF Alloc, Allocated
<1> QED BY <1>1, AllocatedRefs DEF Alloc, TypeOK

(* A step that only writes to the class the innermost frame is building.   *)
LEMMA WriteGrows ==
  ASSUME TypeOK, FramesOK, depth > 0, Top.pc \in Building, NEW c,
         \A r \in Allocated : heap'[r] = IF r = Top.obj THEN c ELSE heap[r],
         c.name = heap[Top.obj].name, c.dir = heap[Top.obj].dir,
         "Loaded" \in heap[Top.obj].state => "Loaded" \in c.state,
         "LoadingSupers" \notin heap[Top.obj].state => "LoadingSupers" \notin c.state,
         c.mirror = heap[Top.obj].mirror \/ c.mirror = Top.obj
  PROVE  \A r \in Allocated : Grown(r)
  BY DEF Grown, Mine

(* What a link makes of the class at r and of its copy.                    *)
LEMMA LinkedClass ==
  ASSUME NEW c \in ClassObject, NEW r
  PROVE  LET f == Finished(c, r)  o == Discarded(c, r)
         IN /\ f.name = c.name /\ f.dir = c.dir /\ f.super = c.super /\ f.intfs = c.intfs
            /\ f.state = c.state \union {"Prepared", "Loaded"}
            /\ f.mirror = IF NeedsMirror(c.name) THEN r ELSE c.mirror
            /\ o.name = c.name /\ o.dir = c.dir /\ o.super = c.super /\ o.intfs = c.intfs
            /\ o.state = c.state \union {"Prepared"} /\ o.mirror = c.mirror
  BY DEF Finished, Discarded, ClassObject

(* The steps of load_class that write to a class. *)
LEMMA BuildingGrows ==
  ASSUME IInv, depth > 0,
         SuperLoaded \/ InterfaceLoaded \/ SupersLoaded \/ LinkInterface \/ LinkClass
  PROVE  next <= next' /\ \A r \in Allocated : Grown(r)
<1> DEFINE c == heap[Top.obj]
<1>1. /\ TypeOK /\ FramesOK /\ Allocated \subseteq Ref /\ next \in Nat
      /\ heap \in [Ref -> ClassObject]
  BY AllocatedRefs DEF IInv, TypeOK
<1>2. Top.pc \in Building /\ Top.obj \in Ref /\ c \in ClassObject
  <2>1. Top.pc \in Building
    BY DEF SuperLoaded, InterfaceLoaded, SupersLoaded, LinkInterface, LinkClass,
           CanLink, Building
  <2> QED BY <1>1, <2>1, TopFacts
<1>3. CASE heap' = heap /\ next' = next
  BY <1>1, <1>3, SameGrown
<1>4. CASE SuperLoaded /\ ~(heap' = heap)
  <2>1. heap' = [heap EXCEPT ![Top.obj].super = ret] /\ next' = next
    BY <1>4 DEF SuperLoaded
  <2> DEFINE w == [c EXCEPT !.super = ret]
  <2>2. \A r \in Allocated : heap'[r] = IF r = Top.obj THEN w ELSE heap[r]
    BY <1>1, <1>2, <2>1
  <2>3. w.name = c.name /\ w.dir = c.dir /\ w.state = c.state /\ w.mirror = c.mirror
    BY <1>2 DEF ClassObject
  <2> HIDE DEF w
  <2> QED BY <1>1, <1>2, <2>1, <2>2, <2>3, WriteGrows
<1>5. CASE InterfaceLoaded /\ ~(heap' = heap)
  <2>1. heap' = [heap EXCEPT ![Top.obj].intfs = Append(@, ret)] /\ next' = next
    BY <1>5 DEF InterfaceLoaded
  <2> DEFINE w == [c EXCEPT !.intfs = Append(@, ret)]
  <2>2. \A r \in Allocated : heap'[r] = IF r = Top.obj THEN w ELSE heap[r]
    BY <1>1, <1>2, <2>1
  <2>3. w.name = c.name /\ w.dir = c.dir /\ w.state = c.state /\ w.mirror = c.mirror
    BY <1>2 DEF ClassObject
  <2> HIDE DEF w
  <2>4. \A r \in Allocated : Grown(r)
    BY <1>1, <1>2, <2>2, <2>3, WriteGrows
  <2> QED BY <1>1, <2>1, <2>4
<1>6. CASE SupersLoaded
  <2>1. heap' = [heap EXCEPT ![Top.obj].state = @ \ {"LoadingSupers"}] /\ next' = next
    BY <1>6 DEF SupersLoaded
  <2> DEFINE w == [c EXCEPT !.state = @ \ {"LoadingSupers"}]
  <2>2. \A r \in Allocated : heap'[r] = IF r = Top.obj THEN w ELSE heap[r]
    BY <1>1, <1>2, <2>1
  <2>3. /\ w.name = c.name /\ w.dir = c.dir /\ w.mirror = c.mirror
        /\ w.state = c.state \ {"LoadingSupers"}
    BY <1>2 DEF ClassObject
  <2> HIDE DEF w
  <2>4. \A r \in Allocated : Grown(r)
    BY <1>1, <1>2, <2>2, <2>3, WriteGrows
  <2> QED BY <1>1, <2>1, <2>4
<1>7. CASE LinkInterface
  <2>1. heap' = [heap EXCEPT ![Top.obj] = Finished(@, Top.obj)] /\ next' = next
    BY <1>7 DEF LinkInterface
  <2> DEFINE w == Finished(c, Top.obj)
  <2>2. \A r \in Allocated : heap'[r] = IF r = Top.obj THEN w ELSE heap[r]
    BY <1>1, <1>2, <2>1
  <2>3. /\ w.name = c.name /\ w.dir = c.dir
        /\ w.mirror = c.mirror \/ w.mirror = Top.obj
        /\ w.state = c.state \union {"Prepared", "Loaded"}
    BY <1>2, LinkedClass
  <2> HIDE DEF w
  <2> QED BY <1>1, <1>2, <2>1, <2>2, <2>3, WriteGrows
<1>8. CASE LinkClass
  <2>1. /\ heap' = [heap EXCEPT ![Top.obj] = Discarded(@, next),
                                ![next] = Finished(heap[Top.obj], next)]
        /\ next' = next + 1 /\ next \notin Allocated
    BY <1>8 DEF LinkClass, Allocated
  <2> DEFINE w == Discarded(c, next)
  <2>2. \A r \in Allocated : heap'[r] = IF r = Top.obj THEN w ELSE heap[r]
    <3>1. \A r \in Allocated : r # next /\ r \in Ref
      BY <1>1, <2>1
    <3> QED BY <1>1, <1>2, <2>1, <3>1
  <2>3. /\ w.name = c.name /\ w.dir = c.dir /\ w.mirror = c.mirror
        /\ w.state = c.state \union {"Prepared"}
    BY <1>2, LinkedClass
  <2> HIDE DEF w
  <2> QED BY <1>1, <1>2, <2>1, <2>2, <2>3, WriteGrows
<1>9. SuperLoaded \/ InterfaceLoaded => next' = next
  BY DEF SuperLoaded, InterfaceLoaded
<1> QED BY <1>3, <1>4, <1>5, <1>6, <1>7, <1>8, <1>9

LEMMA HeapGrows ==
  ASSUME IInv, [Next]_vars
  PROVE  next <= next' /\ \A r \in Allocated : Grown(r)
<1>1. TypeOK /\ next \in Nat /\ Allocated \subseteq Ref
  BY AllocatedRefs DEF IInv
<1>2. CASE UNCHANGED <<heap, next>>
  BY <1>1, <1>2, SameGrown
<1>3. CASE \E c : Alloc(c)
  BY <1>1, <1>3, AllocGrows, SameGrown
<1>4. CASE LoaderStep
  <2>1. depth > 0
    BY <1>4 DEF LoaderStep
  <2>2. CASE ElementLoaded \/ PrimitiveElement \/ MediaFinds
    BY <1>2, <1>3, <2>2 DEF ElementLoaded, PrimitiveElement, CreateArray, MediaFinds
  <2>3. CASE Found \/ LoadElement \/ MediaFails \/ LoadInterface \/ PrepareFails
    BY <1>2, <2>3 DEF Found, LoadElement, MediaFails, LoadInterface, PrepareFails
  <2> QED BY <1>4, <2>1, <2>2, <2>3, BuildingGrows DEF LoaderStep
<1>5. CASE BootStep
  <2>1. CASE ClassPreloaded /\ ~(UNCHANGED heap)
    <3>1. PICK r, object : /\ heap' = [heap EXCEPT ![r].mirror = r, ![object].mirror = object]
                           /\ next' = next
      BY <2>1 DEF ClassPreloaded
    <3>2. \A q \in Allocated : heap'[q] = heap[q] \/ heap'[q] = [heap[q] EXCEPT !.mirror = q]
      <4>1. heap \in [Ref -> ClassObject]
        BY <1>1 DEF TypeOK
      <4> QED BY <1>1, <3>1, <4>1 DEF ClassObject
    <3>3. ASSUME NEW q \in Allocated, heap'[q] = [heap[q] EXCEPT !.mirror = q]
          PROVE  Grown(q)
      <4>1. heap[q] \in ClassObject
        BY <1>1 DEF TypeOK
      <4> QED BY <3>3, <4>1 DEF Grown, ClassObject
    <3>4. \A q \in Allocated : Grown(q)
      BY <3>2, <3>3, SameGrown
    <3>5. next <= next'
      BY <1>1, <3>1
    <3> QED BY <3>4, <3>5
  <2>2. CASE PreloadPrimitive
    BY <1>3, <2>2 DEF PreloadPrimitive
  <2>3. CASE ClassPreloaded /\ UNCHANGED heap
    BY <1>2, <2>3 DEF ClassPreloaded
  <2>4. CASE PreloadClass \/ PrimitivesDone \/ LoadGlobal \/ GlobalLoaded \/ BootDone
    BY <1>2, <2>4 DEF PreloadClass, Ask, PrimitivesDone, LoadGlobal, GlobalLoaded,
                      BootDone, loaderVars
  <2> QED BY <1>5, <2>1, <2>2, <2>3, <2>4 DEF BootStep
<1>6. CASE RunStep
  BY <1>2, <1>6 DEF RunStep, Request, Ask, RequestDone, loaderVars
<1>7. CASE LoaderCrash
  BY <1>2, <1>7 DEF LoaderCrash, LinkWithoutClassClass, ShortElement, StackOverflow, Crash, loaderVars
<1>8. CASE UNCHANGED vars
  BY <1>2, <1>8 DEF vars, loaderVars
<1> QED BY <1>4, <1>5, <1>6, <1>7, <1>8 DEF Next

(* The steps that are none of load_class leave its stack as it is, or start *)
(* a call.                                                                   *)
LEMMA OutsideSteps ==
  ASSUME IInv, [Next]_vars, ~LoaderStep
  PROVE  /\ \/ UNCHANGED <<stack, depth, ret, exc>>
            \/ /\ depth = 0 /\ UNCHANGED <<heap, next, table, ret, phase>>
               /\ exc' \in {"OK", "unset", exc} /\ (phase = "preload" => exc' = "OK")
               /\ \E n, x : Ask(n, x)
         /\ depth > 0 => UNCHANGED <<heap, next, table>>
<1>1. CASE LoaderCrash
  BY <1>1 DEF LoaderCrash, LinkWithoutClassClass, ShortElement, StackOverflow, Crash, loaderVars
<1>2. CASE BootStep
  <2>1. PreloadPrimitive => depth = 0
    BY DEF PreloadPrimitive, IInv, MainOK
  <2>2. CASE PreloadPrimitive
    BY <2>1, <2>2 DEF PreloadPrimitive
  <2>3. CASE PreloadClass \/ ClassPreloaded \/ PrimitivesDone \/ LoadGlobal \/ GlobalLoaded
             \/ BootDone
    <3>1. CASE PreloadClass \/ LoadGlobal
      <4>1. PICK n, x : /\ Ask(n, x) /\ phase' = phase
                        /\ x \in {"OK", "unset", exc} /\ (phase = "preload" => x = "OK")
        BY <3>1 DEF PreloadClass, LoadGlobal
      <4> QED BY <4>1 DEF Ask
    <3>2. CASE ClassPreloaded \/ PrimitivesDone \/ GlobalLoaded \/ BootDone
      BY <3>2 DEF ClassPreloaded, PrimitivesDone, GlobalLoaded, BootDone, loaderVars, Answered
    <3> QED BY <2>3, <3>1, <3>2
  <2> QED BY <1>2, <2>2, <2>3, DepthFacts DEF BootStep, IInv
<1>3. CASE RunStep
  <2>1. CASE RequestDone
    BY <2>1 DEF RequestDone, loaderVars
  <2>2. CASE \E n : Request(n)
    <3>1. PICK n, x : /\ Ask(n, x) /\ phase' = phase /\ phase # "preload"
                      /\ x \in {"OK", "unset", exc}
      BY <2>2 DEF Request
    <3> QED BY <3>1 DEF Ask
  <2> QED BY <1>3, <2>1, <2>2 DEF RunStep
<1>4. CASE UNCHANGED vars
  BY <1>4 DEF vars, loaderVars
<1> QED BY <1>1, <1>2, <1>3, <1>4 DEF Next

(* Every step of load_class returns, calls or goes on.                      *)
LEMMA StackMoves ==
  ASSUME LoaderStep
  PROVE  \/ \E r, e : Return(r, e)
         \/ \E pc, obj : Goto(pc, obj)
         \/ \E n, pc, obj : Call(n, pc, obj)
<1>1. CASE Found \/ ElementLoaded \/ PrimitiveElement \/ MediaFails
  BY <1>1 DEF Found, ElementLoaded, CreateArray, PrimitiveElement, MediaFails
<1>2. CASE LoadElement \/ LoadInterface \/ SupersLoaded \/ PrepareFails
  BY <1>2 DEF LoadElement, LoadInterface, SupersLoaded, PrepareFails
<1>3. CASE SuperLoaded \/ InterfaceLoaded \/ LinkInterface \/ LinkClass
  BY <1>3 DEF SuperLoaded, InterfaceLoaded, LinkInterface, LinkClass
<1>4. CASE MediaFinds
  BY <1>4 DEF MediaFinds
<1> QED BY <1>1, <1>2, <1>3, <1>4 DEF LoaderStep

(* The names that the load of a name asks for. *)
AsksFor(m, n) ==
    \/ m \in ArrayNames /\ n = ElemName[m]
    \/ /\ m \in ClassNames
       /\ \E d \in Dirs :
            LET file == disk[d][m]
            IN /\ file.kind = "class"
               /\ \/ n = file.super /\ n # NoName
                  \/ \E i \in 1..Len(file.intfs) : n = file.intfs[i]

LEMMA CallAsks ==
  ASSUME IInv, LoaderStep, NEW n, NEW pc, NEW obj, Call(n, pc, obj)
  PROVE  AsksFor(Top.name, n)
<1>1. TypeOK /\ FramesOK /\ depth > 0 /\ depth' = depth + 1 /\ depth \in Nat
      /\ stack'[depth + 1] = FrameAt(n, "search", 0)
  BY AfterCalling, DepthFacts DEF IInv, LoaderStep
<1>2. \A m : FrameAt(m, "search", 0).name = m
  BY DEF FrameAt
<1>3. \A m, q, o : Call(m, q, o) => m = n
  <2> SUFFICES ASSUME NEW m, NEW q, NEW o, Call(m, q, o) PROVE m = n
    OBVIOUS
  <2>1. stack'[depth + 1] = FrameAt(m, "search", 0)
    BY <1>1, AfterCalling
  <2> QED BY <1>1, <1>2, <2>1
<1>4. \A r, e : ~Return(r, e)
  BY <1>1, DepthFacts DEF Return
<1>5. \A q, o : ~Goto(q, o)
  BY <1>1, DepthFacts DEF Goto
<1>6. CASE LoadElement
  BY <1>3, <1>6 DEF LoadElement, AsksFor
<1>7. CASE LoadInterface
  <2>1. depth \in 1..depth /\ Top = stack[depth] /\ Top.pc = "nextIntf"
    BY <1>1, <1>7 DEF Top, LoadInterface
  <2>2. FrameOK(Top)
    BY <1>1, TopFacts
  <2>3. Top.name \in ClassNames /\ BuildOK(Top) /\ heap[Top.obj].name = Top.name
    BY <2>1, <2>2 DEF IInv, BuildsOK, FrameOK, Building
  <2>4. /\ heap[Top.obj].dir \in Dirs /\ FileOf(Top.obj).kind = "class"
        /\ FileOf(Top.obj) = disk[heap[Top.obj].dir][Top.name]
    BY <2>3 DEF BuildOK, FileOf
  <2>5. PICK i : /\ i = Len(heap[Top.obj].intfs) + 1 /\ i <= Len(FileOf(Top.obj).intfs)
                 /\ Call(FileOf(Top.obj).intfs[i], "intf", Top.obj)
    BY <1>7 DEF LoadInterface
  <2>6. i \in 1..Len(FileOf(Top.obj).intfs)
    <3>1. heap[Top.obj].intfs \in Seq(0..MaxObjects)
      BY <1>1, <2>1, TopFacts DEF Building, ClassObject
    <3>2. FileOf(Top.obj) \in ClassFile
      BY <1>1, <2>1, <2>3, <2>4, TopFacts, FileType DEF Building
    <3> QED BY <2>5, <3>1, <3>2 DEF ClassFile
  <2>7. n = FileOf(Top.obj).intfs[i]
    BY <1>3, <2>5
  <2> PICK file : file = FileOf(Top.obj)
    OBVIOUS
  <2>8. \E j \in 1..Len(file.intfs) : n = file.intfs[j]
    BY <2>6, <2>7
  <2>9. \E d \in Dirs : disk[d][Top.name] = file
    BY <2>4
  <2> QED BY <2>3, <2>4, <2>8, <2>9 DEF AsksFor
<1>8. CASE MediaFinds
  <2>1. PICK broken \in SUBSET Faulty : \E dir \in Readable(Dirs \ broken, Top.name) :
          /\ disk[dir][Top.name].super # NoName
          /\ Call(disk[dir][Top.name].super, "super", next)
    BY <1>4, <1>5, <1>8 DEF MediaFinds
  <2> PICK dir \in Readable(Dirs \ broken, Top.name) :
          /\ disk[dir][Top.name].super # NoName
          /\ Call(disk[dir][Top.name].super, "super", next)
    BY <2>1
  <2>2. dir \in Dirs /\ disk[dir][Top.name].kind = "class" /\ Top.name \in ClassNames
    BY <1>8 DEF Readable, MediaFinds
  <2> QED BY <1>3, <2>2 DEF AsksFor
<1>9. LoadElement \/ LoadInterface \/ MediaFinds
  BY <1>4, <1>5 DEF LoaderStep, Found, ElementLoaded, CreateArray, PrimitiveElement,
     MediaFails, SuperLoaded, InterfaceLoaded, SupersLoaded, PrepareFails,
     LinkInterface, LinkClass
<1> QED BY <1>6, <1>7, <1>8, <1>9

(* The names on the stack keep their places. *)
LEMMA StackNames ==
  ASSUME IInv, [Next]_vars
  PROVE  \/ depth' <= depth /\ \A d \in 1..depth' : stack'[d].name = stack[d].name
         \/ depth = 0 /\ depth' = 1
         \/ /\ depth > 0 /\ depth' = depth + 1
            /\ \A d \in 1..depth : stack'[d].name = stack[d].name
            /\ AsksFor(Top.name, stack'[depth + 1].name)
<1>1. TypeOK /\ depth \in Nat /\ \A m, pc, o : FrameAt(m, pc, o).name = m
  BY DepthFacts DEF IInv, FrameAt
<1>2. CASE ~LoaderStep
  <2>1. CASE UNCHANGED <<stack, depth>>
    BY <1>1, <2>1
  <2> QED BY <1>1, <1>2, <2>1, OutsideSteps, AfterAsking
<1>3. CASE LoaderStep
  <2>1. depth > 0 /\ Top = stack[depth]
    BY <1>3 DEF LoaderStep, Top
  <2>2. ASSUME NEW r, NEW e, Return(r, e)
        PROVE  depth' <= depth /\ \A d \in 1..depth' : stack'[d].name = stack[d].name
    BY <1>1, <2>1, <2>2, AfterReturning
  <2>3. ASSUME NEW pc, NEW obj, Goto(pc, obj)
        PROVE  depth' <= depth /\ \A d \in 1..depth' : stack'[d].name = stack[d].name
    BY <1>1, <2>1, <2>3, AfterMoving
  <2>4. ASSUME NEW n, NEW pc, NEW obj, Call(n, pc, obj)
        PROVE  /\ depth' = depth + 1
               /\ \A d \in 1..depth : stack'[d].name = stack[d].name
               /\ AsksFor(Top.name, stack'[depth + 1].name)
    BY <1>1, <1>3, <2>1, <2>4, AfterCalling, CallAsks
  <2> QED BY <1>3, <2>1, <2>2, <2>3, <2>4, StackMoves
<1> QED BY <1>2, <1>3

LEMMA DescentKept ==
  ASSUME IInv, IInv', StackDescends, [Next]_vars
  PROVE  StackDescends'
<1>1. disk' = disk
  BY DEF Next, vars
<1> SUFFICES ASSUME NEW rank \in [Names -> Nat], Descends(disk, rank),
                    NEW d \in 1..depth', NEW e \in 1..depth', d < e
             PROVE  rank[stack'[e].name] < rank[stack'[d].name]
  BY <1>1 DEF StackDescends, Descends
<1>2. depth \in Nat /\ depth' \in Nat
  BY DepthFacts DEF IInv, TypeOK
<1>3. \A i, j \in 1..depth : i < j => rank[stack[j].name] < rank[stack[i].name]
  BY DEF StackDescends
<1>4. /\ \A i \in 1..depth : stack[i].name \in Names
      /\ \A i \in 1..depth' : stack'[i].name \in Names
  BY DEF IInv, FramesOK, FrameOK, Names
<1>5. CASE depth' <= depth /\ \A i \in 1..depth' : stack'[i].name = stack[i].name
  BY <1>2, <1>3, <1>5
<1>6. CASE depth' = 1
  BY <1>6
<1>7. CASE /\ depth > 0 /\ depth' = depth + 1
           /\ \A i \in 1..depth : stack'[i].name = stack[i].name
           /\ AsksFor(Top.name, stack'[depth + 1].name)
  <2>1. rank[stack'[depth + 1].name] < rank[stack[depth].name]
    BY <1>7 DEF AsksFor, Descends, Top
  <2>2. d \in 1..depth
    BY <1>2, <1>7
  <2>3. CASE e # depth + 1
    BY <1>2, <1>3, <1>7, <2>2, <2>3
  <2>4. CASE e = depth + 1
    <3>1. CASE d = depth
      BY <1>7, <2>1, <2>2, <2>4, <3>1
    <3>2. CASE d # depth
      <4>1. depth \in 1..depth /\ d < depth /\ depth + 1 \in 1..depth'
        BY <1>2, <1>7, <2>2, <3>2
      <4>2. rank[stack[depth].name] < rank[stack[d].name]
        BY <1>3, <2>2, <4>1
      <4>3. /\ rank[stack[d].name] \in Nat /\ rank[stack[depth].name] \in Nat
            /\ rank[stack'[depth + 1].name] \in Nat
        BY <1>4, <2>2, <4>1
      <4> QED BY <1>7, <2>1, <2>2, <2>4, <4>2, <4>3
    <3> QED BY <3>1, <3>2
  <2> QED BY <2>3, <2>4
<1> QED BY <1>5, <1>6, <1>7, StackNames

-----------------------------------------------------------------------------
(* One name, one class.                                                     *)

LEMMA FirstFile ==
  ASSUME OneSource(disk), NEW n \in ClassNames, NEW d \in Dirs, NEW e \in Dirs,
         disk[d][n].kind = "class", disk[e][n].kind = "class",
         \A x \in Dirs : x < d /\ disk[x][n].kind = "class" => x \in Faulty,
         \A x \in Dirs : x < e /\ disk[x][n].kind = "class" => x \in Faulty
  PROVE  d = e
<1>1. d \in Nat /\ e \in Nat
  BY BoundsAssumption DEF Dirs
<1>2. ~(d < e) /\ ~(e < d)
  BY DEF OneSource
<1> QED BY <1>1, <1>2

LEMMA NextIndex ==
  ASSUME NEW S, NEW s \in Seq(S), NEW t \in Seq(S), Len(s) < Len(t)
  PROVE  Len(s) + 1 \in 1..Len(t)
  OBVIOUS

(* What a frame below the top one waits for is not in the table.           *)
LEMMA AwaitedUnbound ==
  ASSUME IInv, NamesUnbound, NEW d \in 1..depth, d < depth,
         Top.pc \in Building \union Waiting, Top.name \in ArrayNames => Top.pc = "elem"
  PROVE  table[Wanted(stack[d])] = 0
<1>1. depth \in Nat /\ d + 1 \in 1..depth /\ (d + 1 < depth => d + 1 \in 1..(depth - 1))
  BY DepthFacts DEF IInv, TypeOK
<1>2. stack[d + 1].name = Wanted(stack[d])
  <2>1. \A x \in 1..depth : stack[x].name = Pending(x - 1)
    BY DEF IInv, CallsOK
  <2>2. Pending(d) = Wanted(stack[d]) /\ d + 1 - 1 = d
    BY <1>1 DEF Pending
  <2> QED BY <1>1, <2>1, <2>2
<1>3. FrameOK(stack[d + 1])
  BY <1>1 DEF IInv, FramesOK
<1>4. Incomplete(stack[d + 1])
  <2>1. CASE d + 1 < depth
    <3>1. stack[d + 1].pc \in Waiting
      BY <1>1, <2>1 DEF IInv, CallsOK
    <3> QED BY <1>3, <3>1 DEF Waiting, Building, FrameOK, Incomplete
  <2>2. CASE d + 1 = depth
    BY <1>3, <2>2 DEF Top, Waiting, Building, FrameOK, Incomplete
  <2> QED BY <1>1, <2>1, <2>2
<1> QED BY <1>1, <1>2, <1>4 DEF NamesUnbound

(* The class that is about to be linked is being loaded by no other frame. *)
LEMMA LinkedOnce ==
  ASSUME IInv, StackDescends, FirstReadable, NamesUnbound, Determined(disk), depth > 0,
         Top.pc = "link", Top.name \in ClassNames,
         NEW d \in 1..depth, d < depth, stack[d].name = Top.name
  PROVE  FALSE
<1>1. depth \in Nat /\ depth \in 1..depth /\ Top = stack[depth] /\ d \in 1..(depth - 1)
  BY DepthFacts DEF IInv, TypeOK, Top
<1>2. CASE Acyclic(disk)
  <2>1. PICK rank \in [Names -> Nat] : Descends(disk, rank)
    BY <1>2 DEF Acyclic
  <2>2. rank[Top.name] < rank[Top.name]
    BY <1>1, <2>1 DEF StackDescends
  <2>3. Top.name \in Names
    BY DEF Names
  <2> QED BY <2>2, <2>3
<1>3. CASE OneSource(disk)
  <2> PICK f : f = stack[d]
    OBVIOUS
  <2>1. f.pc \in Waiting /\ FrameOK(f) /\ FrameOK(Top)
    BY <1>1 DEF IInv, CallsOK, FramesOK
  <2>2. f.pc \in {"super", "intf"} /\ f.pc \in Building
    BY <2>1, NamesAssumption DEF FrameOK, Waiting, Building
  <2>3. BuildOK(f) /\ BuildOK(Top)
    BY <1>1, <2>2 DEF IInv, BuildsOK, Building
  <2>4. heap[f.obj].name = Top.name /\ heap[Top.obj].name = Top.name
    BY <2>1, <2>2 DEF FrameOK, Building
  <2>5. heap[f.obj].dir = heap[Top.obj].dir
    <3>1. /\ heap[f.obj].dir \in Dirs /\ disk[heap[f.obj].dir][Top.name].kind = "class"
          /\ heap[Top.obj].dir \in Dirs /\ disk[heap[Top.obj].dir][Top.name].kind = "class"
      BY <2>3, <2>4 DEF BuildOK, FileOf
    <3>2. \A x \in Dirs : x < heap[f.obj].dir /\ disk[x][Top.name].kind = "class"
            => x \in Faulty
      BY <2>2 DEF FirstReadable
    <3>3. \A x \in Dirs : x < heap[Top.obj].dir /\ disk[x][Top.name].kind = "class"
            => x \in Faulty
      BY <1>1 DEF FirstReadable, Building
    <3> QED BY <1>3, <3>1, <3>2, <3>3, FirstFile
  <2>6. FileOf(f.obj) = FileOf(Top.obj)
    BY <2>4, <2>5 DEF FileOf
  <2> PICK file : file = FileOf(Top.obj)
    OBVIOUS
  <2>7. SupersIn(Top.obj) /\ Len(heap[Top.obj].intfs) = Len(file.intfs)
    BY <2>3 DEF BuildOK
  <2>8. CASE f.pc = "super"
    <3>1. file.super # NoName /\ Wanted(f) = file.super
      BY <2>3, <2>6, <2>8 DEF BuildOK, Wanted
    <3>2. table[file.super] # 0
      BY <2>7, <3>1 DEF SupersIn
    <3> QED BY <3>1, <3>2, AwaitedUnbound, NamesAssumption DEF Building
  <2>9. CASE f.pc = "intf"
    <3> PICK i : i = Len(heap[f.obj].intfs) + 1
      OBVIOUS
    <3>1. Wanted(f) = file.intfs[i] /\ Len(heap[f.obj].intfs) < Len(file.intfs)
      BY <2>3, <2>6, <2>9 DEF BuildOK, Wanted
    <3>2. i \in 1..Len(heap[Top.obj].intfs)
      <4>1. f.obj \in Ref /\ Top.obj \in Ref
        BY <2>1, <2>2, AllocatedRefs DEF IInv, FrameOK, Building
      <4>2. heap[f.obj].intfs \in Seq(0..MaxObjects)
        BY <4>1 DEF IInv, TypeOK, ClassObject
      <4>3. heap[Top.obj].intfs \in Seq(0..MaxObjects)
        BY <4>1 DEF IInv, TypeOK, ClassObject
      <4> QED BY <2>7, <3>1, <4>2, <4>3, NextIndex
    <3>3. table[file.intfs[i]] # 0
      BY <2>7, <3>2 DEF SupersIn
    <3> QED BY <3>1, <3>3, AwaitedUnbound, NamesAssumption DEF Building
  <2> QED BY <2>2, <2>8, <2>9
<1> QED BY <1>2, <1>3 DEF Determined

(* Nor is the array class that is about to be created.                     *)
LEMMA CreatedOnce ==
  ASSUME IInv, NamesUnbound, depth > 0, Top.name \in ArrayNames,
         \/ Top.pc = "elem" /\ ret # 0
         \/ Top.pc = "search" /\ ElemName[Top.name] \in PrimNames,
         NEW d \in 1..depth, d < depth, stack[d].name = Top.name
  PROVE  FALSE
<1>1. depth \in Nat /\ depth \in 1..depth /\ Top = stack[depth] /\ d \in 1..(depth - 1)
  BY DepthFacts DEF IInv, TypeOK, Top
<1> PICK f : f = stack[d]
  OBVIOUS
<1>2. f.pc \in Waiting /\ FrameOK(f)
  BY <1>1 DEF IInv, CallsOK, FramesOK
<1>3. f.pc = "elem"
  BY <1>2, NamesAssumption DEF FrameOK, Waiting
<1>4. ElemName[Top.name] \notin PrimNames /\ Wanted(f) = ElemName[Top.name]
  BY <1>3 DEF NamesUnbound, Wanted
<1>5. Top.pc = "elem" /\ ret # 0
  BY <1>4
<1>6. table[ElemName[Top.name]] # 0
  BY <1>1, <1>5 DEF IInv, ResultOK, Resuming, Waiting, Pending, Wanted
<1>7. table[Wanted(stack[d])] = 0
  BY <1>5, AwaitedUnbound DEF Waiting
<1> QED BY <1>4, <1>6, <1>7

(* What a step of load_class makes of the frame on top: it goes on with its *)
(* class, it has made a class, or it waits for an element class.           *)
GoesOn(f) ==
    /\ Top.pc \in {"super", "nextIntf", "intf"} /\ Top.name \in ClassNames
    /\ f.pc \in {"nextIntf", "intf", "link"} /\ f.obj = Top.obj
Starts(f) ==
    MediaFinds /\ f.pc \in {"super", "nextIntf"} /\ f.obj = next
Creates ==
    /\ Top.name \in ArrayNames
    /\ \/ Top.pc = "elem" /\ ret # 0
       \/ Top.pc = "search" /\ ElemName[Top.name] \in PrimNames
    /\ \E elem : CreateArray(elem)

LEMMA TopOrigins ==
  ASSUME IInv, LoaderStep, depth' >= depth
  PROVE  \E f : /\ stack'[depth] = f /\ f.name = Top.name
                /\ \/ GoesOn(f) \/ Starts(f)
                   \/ LoadElement /\ f.pc = "elem"
                   \/ Creates /\ f.pc = "link"
<1> DEFINE Goal(f) == /\ f.name = Top.name
                      /\ \/ GoesOn(f) \/ Starts(f)
                         \/ LoadElement /\ f.pc = "elem"
                         \/ Creates /\ f.pc = "link"
<1>1. TypeOK /\ FramesOK /\ depth > 0 /\ depth \in Nat
  BY DepthFacts DEF IInv, LoaderStep
<1>2. \A r, e : ~Return(r, e)
  BY <1>1, DepthFacts DEF Return
<1>3. \A n, pc, obj : /\ FrameAt(n, pc, obj).name = n /\ FrameAt(n, pc, obj).pc = pc
                      /\ FrameAt(n, pc, obj).obj = obj
  BY DEF FrameAt
<1>4. ASSUME NEW pc, NEW obj, Goto(pc, obj) \/ \E n : Call(n, pc, obj),
             Goal(FrameAt(Top.name, pc, obj))
      PROVE  \E f : stack'[depth] = f /\ Goal(f)
  <2>1. stack'[depth] = FrameAt(Top.name, pc, obj)
    BY <1>1, <1>4, AfterMoving, AfterCalling
  <2> QED BY <1>4, <2>1
<1>5. FrameOK(Top)
  BY <1>1, TopFacts
<1>6. CASE SuperLoaded \/ InterfaceLoaded \/ SupersLoaded
  <2>1. Top.pc \in {"super", "nextIntf", "intf"} /\ Top.name \in ClassNames
    BY <1>5, <1>6 DEF FrameOK, SuperLoaded, InterfaceLoaded, SupersLoaded
  <2>2. Goto("nextIntf", Top.obj) \/ Goto("link", Top.obj)
    BY <1>2, <1>6 DEF SuperLoaded, InterfaceLoaded, SupersLoaded
  <2>3. GoesOn(FrameAt(Top.name, "nextIntf", Top.obj)) /\ GoesOn(FrameAt(Top.name, "link", Top.obj))
    BY <1>3, <2>1 DEF GoesOn
  <2> QED BY <1>3, <1>4, <2>2, <2>3
<1>7. CASE LoadInterface
  <2>1. \E n : Call(n, "intf", Top.obj)
    BY <1>7 DEF LoadInterface
  <2>2. GoesOn(FrameAt(Top.name, "intf", Top.obj))
    BY <1>3, <1>5, <1>7 DEF GoesOn, FrameOK, LoadInterface
  <2> QED BY <1>3, <1>4, <2>1, <2>2
<1>8. CASE MediaFinds
  <2>1. Goto("nextIntf", next) \/ \E n : Call(n, "super", next)
    BY <1>2, <1>8 DEF MediaFinds
  <2>2. Starts(FrameAt(Top.name, "nextIntf", next)) /\ Starts(FrameAt(Top.name, "super", next))
    BY <1>3, <1>8 DEF Starts
  <2> QED BY <1>3, <1>4, <2>1, <2>2
<1>9. CASE LoadElement
  <2>1. \E n : Call(n, "elem", Top.obj)
    BY <1>9 DEF LoadElement
  <2> QED BY <1>3, <1>4, <1>9, <2>1
<1>10. CASE ElementLoaded \/ PrimitiveElement
  <2>1. Creates
    BY <1>2, <1>5, <1>10 DEF Creates, ElementLoaded, PrimitiveElement, FrameOK
  <2>2. Goto("link", next)
    BY <2>1 DEF Creates, CreateArray
  <2> QED BY <1>3, <1>4, <2>1, <2>2
<1>11. \/ SuperLoaded \/ InterfaceLoaded \/ SupersLoaded \/ LoadInterface \/ MediaFinds
       \/ LoadElement \/ ElementLoaded \/ PrimitiveElement
  BY <1>2 DEF LoaderStep, Found, MediaFails, PrepareFails, LinkInterface, LinkClass
<1> QED BY <1>6, <1>7, <1>8, <1>9, <1>10, <1>11

(* The frames below are as they were, and a frame above is a new search.   *)
LEMMA FrameOrigins ==
  ASSUME IInv, LoaderStep, NEW d \in 1..depth', d # depth
  PROVE  \/ d \in 1..depth /\ stack'[d] = stack[d]
         \/ stack'[d].pc = "search"
<1>1. TypeOK /\ depth > 0 /\ depth \in Nat /\ \A n : FrameAt(n, "search", 0).pc = "search"
  BY DepthFacts DEF IInv, LoaderStep, FrameAt
<1>2. ASSUME NEW r, NEW e, Return(r, e)
      PROVE  d \in 1..depth /\ stack'[d] = stack[d]
  BY <1>1, <1>2, AfterReturning
<1>3. ASSUME NEW pc, NEW obj, Goto(pc, obj)
      PROVE  d \in 1..depth /\ stack'[d] = stack[d]
  BY <1>1, <1>3, AfterMoving
<1>4. ASSUME NEW n, NEW pc, NEW obj, Call(n, pc, obj)
      PROVE  (d \in 1..depth /\ stack'[d] = stack[d]) \/ stack'[d].pc = "search"
  <2>1. d \in 1..depth \/ d = depth + 1
    BY <1>1, <1>4, AfterCalling
  <2> QED BY <1>1, <1>4, <2>1, AfterCalling
<1> QED BY <1>2, <1>3, <1>4, StackMoves

(* Which names a step of load_class binds, and that no other frame is       *)
(* loading them.                                                            *)
LEMMA Binds ==
  ASSUME IInv, StackDescends, FirstReadable, NamesUnbound, Determined(disk), LoaderStep,
         NEW n \in Names, table[n] = 0, table'[n] # 0
  PROVE  /\ n = Top.name /\ (Creates \/ (Top.pc = "link" /\ n \in ClassNames))
         /\ \A d \in 1..depth : d < depth => stack[d].name # n
<1>1. TypeOK /\ FramesOK /\ depth > 0 /\ FrameOK(Top)
  BY TopFacts DEF IInv, LoaderStep
<1>2. table \in [Names -> 0..MaxObjects]
  BY <1>1 DEF TypeOK
<1>3. \A r, m : table' = Insert(table, r, m) => n = m
  BY <1>2 DEF Insert
<1>4. CASE ElementLoaded \/ PrimitiveElement
  <2>1. Creates
    BY <1>1, <1>4 DEF Creates, ElementLoaded, PrimitiveElement, FrameOK
  <2>2. n = Top.name
    BY <1>3, <2>1 DEF Creates, CreateArray
  <2>3. \A d \in 1..depth : d < depth => stack[d].name # n
    BY <1>1, <2>1, <2>2, CreatedOnce DEF Creates
  <2> QED BY <2>1, <2>2, <2>3
<1>5. CASE LinkInterface \/ LinkClass
  <2>1. Top.pc = "link" /\ n = Top.name
    BY <1>3, <1>5 DEF LinkInterface, LinkClass, CanLink
  <2>2. n \in ClassNames
    <3>1. depth \in 1..depth /\ Top = stack[depth]
      BY <1>1, DepthFacts DEF Top
    <3> QED BY <1>1, <2>1, <3>1 DEF NamesUnbound, FrameOK
  <2>3. \A d \in 1..depth : d < depth => stack[d].name # n
    BY <1>1, <2>1, <2>2, LinkedOnce
  <2> QED BY <2>1, <2>2, <2>3
<1>6. ~(ElementLoaded \/ PrimitiveElement \/ LinkInterface \/ LinkClass) => table' = table
  BY DEF LoaderStep, Found, LoadElement, MediaFails, MediaFinds, SuperLoaded,
         LoadInterface, InterfaceLoaded, SupersLoaded, PrepareFails
<1> QED BY <1>4, <1>5, <1>6

LEMMA NamesUnboundKept ==
  ASSUME IInv, IInv', StackDescends, FirstReadable, NamesUnbound, Determined(disk),
         [Next]_vars
  PROVE  NamesUnbound'
<1> SUFFICES ASSUME NEW d \in 1..depth'
             PROVE  /\ Incomplete(stack'[d]) => table'[stack'[d].name] = 0
                    /\ stack'[d].pc = "elem" => ElemName[stack'[d].name] \notin PrimNames
                    /\ stack'[d].pc = "link" /\ stack'[d].name \in ArrayNames =>
                         table'[stack'[d].name] # 0
  BY DEF NamesUnbound, Incomplete
<1>1. TypeOK /\ depth \in Nat /\ depth' \in Nat /\ table' \in [Names -> 0..MaxObjects]
  BY DepthFacts, BoundsAssumption DEF IInv, TypeOK
<1>2. \A i \in 1..depth : stack[i].name \in Names
  BY NamesAssumption DEF IInv, FramesOK, FrameOK, Names
<1>3. CASE stack'[d].pc = "search"
  BY <1>3 DEF Incomplete, Building
<1>4. ASSUME d \in 1..depth, stack'[d] = stack[d],
             table[stack[d].name] = 0 /\ Incomplete(stack[d]) => table'[stack[d].name] = 0
      PROVE  /\ Incomplete(stack'[d]) => table'[stack'[d].name] = 0
             /\ stack'[d].pc = "elem" => ElemName[stack'[d].name] \notin PrimNames
             /\ stack'[d].pc = "link" /\ stack'[d].name \in ArrayNames =>
                  table'[stack'[d].name] # 0
  BY <1>2, <1>4, EntriesStay DEF NamesUnbound
<1>5. CASE ~LoaderStep
  <2>1. CASE UNCHANGED <<stack, depth>>
    <3>1. depth > 0 /\ table' = table
      BY <1>1, <1>5, <2>1, OutsideSteps
    <3> QED BY <1>4, <2>1, <3>1
  <2>2. CASE \E n, x : Ask(n, x)
    <3>1. \A n : FrameAt(n, "search", 0).pc = "search"
      BY DEF FrameAt
    <3>2. d = 1 /\ stack'[d].pc = "search"
      BY <1>1, <2>2, <3>1, AfterAsking
    <3> QED BY <1>3, <3>2
  <2> QED BY <1>5, <2>1, <2>2, OutsideSteps
<1>6. CASE LoaderStep /\ d # depth
  <2>1. CASE d \in 1..depth /\ stack'[d] = stack[d]
    <3>1. d < depth
      BY <1>1, <1>6, <2>1
    <3>2. table[stack[d].name] = 0 => table'[stack[d].name] = 0
      BY <1>2, <1>6, <2>1, <3>1, Binds
    <3> QED BY <1>4, <2>1, <3>2
  <2> QED BY <1>3, <1>6, <2>1, FrameOrigins
<1>7. CASE LoaderStep /\ d = depth
  <2> PICK f : /\ stack'[depth] = f /\ f.name = Top.name
               /\ \/ GoesOn(f) \/ Starts(f)
                  \/ LoadElement /\ f.pc = "elem"
                  \/ Creates /\ f.pc = "link"
    BY <1>1, <1>7, TopOrigins
  <2>1. depth \in 1..depth /\ Top = stack[depth] /\ Top.name \in Names
    BY <1>1, <1>2, <1>7 DEF Top, LoaderStep
  <2>2. CASE GoesOn(f)
    <3>1. Incomplete(Top) /\ Top.name \in ClassNames /\ Top.pc \notin {"link", "elem", "search"}
      BY <2>2 DEF GoesOn, Incomplete, Building
    <3>2. table[Top.name] = 0 /\ f.pc # "elem" /\ Top.name \notin ArrayNames
      BY <2>1, <2>2, <3>1, NamesAssumption DEF NamesUnbound, GoesOn
    <3>3. table'[Top.name] = 0
      BY <1>7, <2>1, <3>1, <3>2, Binds DEF Creates
    <3> QED BY <1>7, <3>2, <3>3
  <2>3. CASE Starts(f)
    BY <1>7, <2>3, NamesAssumption DEF Starts, MediaFinds
  <2>4. CASE LoadElement /\ f.pc = "elem"
    BY <1>7, <2>4 DEF LoadElement
  <2>5. CASE Creates /\ f.pc = "link"
    <3>1. table'[Top.name] # 0
      <4>1. table' = Insert(table, next, Top.name) /\ next # 0
        BY <2>5, AllocatedRefs DEF Creates, CreateArray, Alloc, Ref
      <4> QED BY <1>1, <2>1, <4>1 DEF Insert, TypeOK
    <3>2. ~Incomplete(f)
      BY <2>5, NamesAssumption DEF Creates, Incomplete
    <3> QED BY <1>7, <2>5, <3>1, <3>2
  <2> QED BY <2>2, <2>3, <2>4, <2>5
<1> QED BY <1>5, <1>6, <1>7

LEMMA FirstReadableKept ==
  ASSUME IInv, IInv', FirstReadable, [Next]_vars
  PROVE  FirstReadable'
<1> DEFINE Passed(dir, n) == \A e \in Dirs : e < dir /\ disk[e][n].kind = "class" => e \in Faulty
<1>1. disk' = disk
  BY DEF Next, vars
<1> SUFFICES ASSUME NEW d \in 1..depth', stack'[d].pc \in Building,
                    stack'[d].name \in ClassNames
             PROVE  Passed(heap'[stack'[d].obj].dir, stack'[d].name)
  BY <1>1 DEF FirstReadable
<1>2. TypeOK /\ depth \in Nat /\ depth' \in Nat /\ next \in Nat
      /\ \A r \in Allocated : heap'[r].dir = heap[r].dir
  BY DepthFacts, AllocatedRefs, HeapGrows, BoundsAssumption DEF IInv, TypeOK, Grown
<1>3. \A i \in 1..depth : stack[i].pc \in Building => stack[i].obj \in Allocated
  BY DEF IInv, FramesOK, FrameOK
<1>4. \A i \in 1..depth : stack[i].pc \in Building /\ stack[i].name \in ClassNames =>
        Passed(heap'[stack[i].obj].dir, stack[i].name)
  BY <1>2, <1>3 DEF FirstReadable
<1> HIDE DEF Passed
<1>5. CASE d \in 1..depth /\ stack'[d] = stack[d]
  BY <1>4, <1>5
<1>6. stack'[d].pc # "search"
  BY DEF Building
<1>7. CASE ~LoaderStep
  <2>1. CASE \E n, x : Ask(n, x)
    <3>1. \A n : FrameAt(n, "search", 0).pc = "search"
      BY DEF FrameAt
    <3>2. d = 1 /\ stack'[d].pc = "search"
      BY <1>2, <2>1, <3>1, AfterAsking
    <3> QED BY <1>6, <3>2
  <2> QED BY <1>5, <1>7, <2>1, OutsideSteps
<1>8. CASE LoaderStep /\ d # depth
  BY <1>5, <1>6, <1>8, FrameOrigins
<1>9. CASE LoaderStep /\ d = depth
  <2> PICK f : /\ stack'[depth] = f /\ f.name = Top.name
               /\ \/ GoesOn(f) \/ Starts(f)
                  \/ LoadElement /\ f.pc = "elem"
                  \/ Creates /\ f.pc = "link"
    BY <1>2, <1>9, TopOrigins
  <2>1. depth \in 1..depth /\ Top = stack[depth]
    BY <1>2, <1>9 DEF Top, LoaderStep
  <2>2. CASE GoesOn(f)
    BY <1>4, <1>9, <2>1, <2>2 DEF GoesOn, Building
  <2>3. CASE Starts(f)
    <3>1. PICK broken \in SUBSET Faulty : \E dir \in Readable(Dirs \ broken, Top.name) :
            /\ \A e \in Readable(Dirs \ broken, Top.name) : dir <= e
            /\ Alloc(ParsedClass(Top.name, dir, next))
      BY <2>3 DEF Starts, MediaFinds
    <3> PICK dir \in Readable(Dirs \ broken, Top.name) :
            /\ \A e \in Readable(Dirs \ broken, Top.name) : dir <= e
            /\ Alloc(ParsedClass(Top.name, dir, next))
      BY <3>1
    <3>2. heap'[next].dir = dir
      BY <1>2 DEF Alloc, ParsedClass, TypeOK
    <3>3. Passed(dir, Top.name)
      <4>1. Dirs \subseteq Nat
        BY BoundsAssumption DEF Dirs
      <4> QED BY <4>1 DEF Passed, Readable
    <3> QED BY <1>9, <2>3, <3>2, <3>3 DEF Starts
  <2>4. CASE LoadElement /\ f.pc = "elem"
    BY <1>9, <2>4 DEF Building
  <2>5. CASE Creates /\ f.pc = "link"
    BY <1>9, <2>5, NamesAssumption DEF Creates
  <2> QED BY <2>2, <2>3, <2>4, <2>5
<1> QED BY <1>7, <1>8, <1>9

-----------------------------------------------------------------------------
(* The supers stored in a class, and what is returned, are the classes the *)
(* table binds the names to.                                                *)

(* A class enters the heap as one of the functions that make a class makes *)
(* it.                                                                      *)
LEMMA NewClass ==
  ASSUME IInv, [Next]_vars, NEW r \in Allocated', r \notin Allocated
  PROVE  \/ \E n, d : heap'[r] = ParsedClass(n, d, r)
         \/ \E n : heap'[r] = PrimitiveClass(n, r)
         \/ \E n, elem, base : heap'[r] = ArrayClass(n, elem, base, r)
         \/ /\ LoaderStep /\ LinkClass /\ Top.obj \in Allocated /\ Top.pc \in Building
            /\ heap'[r] = Finished(heap[Top.obj], r)
<1>1. TypeOK /\ next \in Nat /\ Allocated \subseteq Ref /\ heap \in [Ref -> ClassObject]
  BY AllocatedRefs DEF IInv, TypeOK
<1>2. next' # next
  BY DEF Allocated
<1>3. ASSUME next' = next + 1
      PROVE  r = next
  BY <1>1, <1>3 DEF Allocated
<1>4. ASSUME NEW c, Alloc(c)
      PROVE  r = next /\ heap'[r] = c
  BY <1>1, <1>3, <1>4 DEF Alloc
<1>5. CASE LoaderStep
  <2>1. CASE LinkClass
    <3>1. Top.obj \in Allocated /\ Top.pc \in Building
      BY <1>5, <2>1, TopFacts DEF IInv, LoaderStep, LinkClass, CanLink, FrameOK, Building
    <3>2. r = next /\ heap'[r] = Finished(heap[Top.obj], r)
      BY <1>1, <1>3, <2>1, <3>1 DEF LinkClass
    <3> QED BY <1>5, <2>1, <3>1, <3>2
  <2>2. CASE MediaFinds
    BY <1>4, <2>2 DEF MediaFinds
  <2>3. CASE ElementLoaded \/ PrimitiveElement
    BY <1>2, <1>4, <2>3 DEF ElementLoaded, PrimitiveElement, CreateArray
  <2>4. LinkClass \/ MediaFinds \/ ElementLoaded \/ PrimitiveElement
    BY <1>2, <1>5 DEF LoaderStep, Found, LoadElement, MediaFails, SuperLoaded,
       LoadInterface, InterfaceLoaded, SupersLoaded, PrepareFails, LinkInterface
  <2> QED BY <2>1, <2>2, <2>3, <2>4
<1>6. CASE BootStep
  <2>1. PreloadPrimitive
    BY <1>2, <1>6 DEF BootStep, PreloadClass, Ask, ClassPreloaded, PrimitivesDone,
       LoadGlobal, GlobalLoaded, BootDone, loaderVars
  <2> QED BY <1>4, <2>1 DEF PreloadPrimitive
<1>7. LoaderStep \/ BootStep
  BY <1>2 DEF Next, LoaderCrash, LinkWithoutClassClass, ShortElement, StackOverflow, Crash, RunStep,
     Request, Ask, RequestDone, loaderVars, vars
<1> QED BY <1>5, <1>6, <1>7

(* The supers of a class change only when the innermost frame stores what  *)
(* the call it has waited for has returned.                                 *)
LEMMA SupersStored ==
  ASSUME IInv, [Next]_vars, NEW r \in Allocated
  PROVE  \/ heap'[r].super = heap[r].super /\ heap'[r].intfs = heap[r].intfs
         \/ /\ depth > 0 /\ Top.pc = "super" /\ r = Top.obj /\ ret # 0
            /\ heap'[r].super = ret /\ heap'[r].intfs = heap[r].intfs
         \/ /\ depth > 0 /\ Top.pc = "intf" /\ r = Top.obj /\ ret # 0
            /\ heap'[r].super = heap[r].super /\ heap'[r].intfs = Append(heap[r].intfs, ret)
<1>1. Grown(r) /\ Allocated \subseteq Ref /\ heap \in [Ref -> ClassObject]
  BY HeapGrows, AllocatedRefs DEF IInv, TypeOK
<1> SUFFICES ASSUME Mine(r), ~(UNCHANGED heap)
             PROVE  \/ heap'[r].super = heap[r].super /\ heap'[r].intfs = heap[r].intfs
                    \/ /\ Top.pc = "super" /\ ret # 0
                       /\ heap'[r].super = ret /\ heap'[r].intfs = heap[r].intfs
                    \/ /\ Top.pc = "intf" /\ ret # 0
                       /\ heap'[r].super = heap[r].super
                       /\ heap'[r].intfs = Append(heap[r].intfs, ret)
  BY <1>1 DEF Grown, Mine
<1>2. r = Top.obj /\ depth > 0 /\ r \in Ref /\ heap[r] \in ClassObject /\ Top.pc # "search"
  BY <1>1 DEF Mine, Building
<1>3. LoaderStep
  BY <1>2 DEF Next, LoaderCrash, LinkWithoutClassClass, ShortElement, StackOverflow, Crash, RunStep,
     Request, Ask, RequestDone, loaderVars, vars, BootStep, PreloadClass,
     ClassPreloaded, Answered, PreloadPrimitive, PrimitivesDone, LoadGlobal,
     GlobalLoaded, BootDone, IInv, MainOK
<1>4. CASE SuperLoaded
  <2>1. ret # 0 /\ Top.pc = "super" /\ heap' = [heap EXCEPT ![Top.obj].super = ret]
    BY <1>4 DEF SuperLoaded
  <2>2. heap'[r] = [heap[r] EXCEPT !.super = ret]
    BY <1>1, <1>2, <2>1
  <2> QED BY <1>2, <2>1, <2>2 DEF ClassObject
<1>5. CASE InterfaceLoaded
  <2>1. /\ ret # 0 /\ Top.pc = "intf"
        /\ heap' = [heap EXCEPT ![Top.obj].intfs = Append(@, ret)]
    BY <1>5 DEF InterfaceLoaded
  <2>2. heap'[r] = [heap[r] EXCEPT !.intfs = Append(heap[r].intfs, ret)]
    BY <1>1, <1>2, <2>1
  <2> QED BY <1>2, <2>1, <2>2 DEF ClassObject
<1>6. CASE SupersLoaded
  BY <1>2, <1>6 DEF SupersLoaded, ClassObject
<1>7. CASE LinkInterface
  BY <1>2, <1>7, LinkedClass DEF LinkInterface
<1>8. CASE LinkClass
  <2>1. r # next /\ next \in Ref
    BY <1>2, <1>8 DEF LinkClass, Allocated
  <2>2. heap'[r] = Discarded(heap[r], next)
    BY <1>1, <1>2, <1>8, <2>1 DEF LinkClass
  <2> QED BY <1>2, <2>2, LinkedClass
<1>9. ~Found /\ ~LoadElement /\ ~PrimitiveElement /\ ~MediaFails /\ ~MediaFinds
      /\ ~LoadInterface /\ ~PrepareFails /\ ~ElementLoaded
  BY <1>2 DEF Found, LoadElement, PrimitiveElement, MediaFails, MediaFinds, LoadInterface,
              PrepareFails, ElementLoaded, Mine, Building
<1> QED BY <1>3, <1>4, <1>5, <1>6, <1>7, <1>8, <1>9 DEF LoaderStep

LEMMA AllocatedRefsNext ==
  ASSUME TypeOK'
  PROVE  Allocated' \subseteq Ref
<1>1. next' \in 1..(MaxObjects + 1)
  BY DEF TypeOK
<1>2. MaxObjects \in Nat
  BY BoundsAssumption
<1> PICK m \in Nat : m = MaxObjects + 1
  BY <1>2
<1>3. next' \in Nat /\ next' <= m /\ m - 1 = MaxObjects
  BY <1>1, <1>2
<1>4. 1..(next' - 1) \subseteq 1..(m - 1)
  BY <1>3, Intervals
<1> QED BY <1>3, <1>4 DEF Allocated, Ref

LEMMA StoredBoundKept ==
  ASSUME IInv, IInv', StoredBound, ReturnsBound, [Next]_vars
  PROVE  StoredBound'
<1> SUFFICES ASSUME NEW r \in Allocated', heap'[r].name \in ClassNames, heap'[r].dir # 0
             PROVE  SupersBound(r)'
  BY DEF StoredBound
<1>1. /\ TypeOK /\ disk' = disk /\ Allocated \subseteq Ref /\ depth \in Nat
      /\ heap \in [Ref -> ClassObject]
  BY AllocatedRefs, DepthFacts DEF IInv, TypeOK, Next, vars
<1>2. \A n \in Names : table[n] # 0 => table'[n] = table[n]
  BY EntriesStay
<1>3. ASSUME NEW o \in Allocated, heap[o].name \in ClassNames, heap[o].dir # 0
      PROVE  /\ SupersBound(o) /\ FileOf(o) \in ClassFile
             /\ heap[o].intfs \in Seq(0..MaxObjects)
             /\ \A i \in 1..Len(heap[o].intfs) : heap[o].intfs[i] # 0
  <2>1. SupersBound(o) /\ heap[o] \in ClassObject /\ ObjectOK(o)
    BY <1>1, <1>3 DEF StoredBound, IInv, HeapOK
  <2>2. heap[o].dir \in Dirs
    BY <1>3, <2>1, BoundsAssumption DEF ClassObject, Dirs
  <2>3. FileOf(o) \in ClassFile
    BY <1>1, <1>3, <2>2, FileType
  <2>4. \A i \in 1..Len(heap[o].intfs) : heap[o].intfs[i] # 0
    BY <2>1, AllocatedRefs, <1>1 DEF ObjectOK, IsPrepared
  <2> QED BY <2>1, <2>3, <2>4 DEF ClassObject
(* What is bound stays bound.                                               *)
<1>4. ASSUME NEW file \in ClassFile, NEW super, NEW intfs \in Seq(0..MaxObjects),
             super # 0 => file.super # NoName /\ super = table[file.super],
             Len(intfs) <= Len(file.intfs),
             \A i \in 1..Len(intfs) : intfs[i] # 0 /\ intfs[i] = table[file.intfs[i]]
      PROVE  /\ super # 0 => super = table'[file.super]
             /\ \A i \in 1..Len(intfs) : intfs[i] = table'[file.intfs[i]]
  <2>1. file.super # NoName => file.super \in Names
    BY DEF ClassFile, Names
  <2>2. file.intfs \in Seq(Names)
    <3>1. file.intfs \in Seq(ClassNames)
      BY DEF ClassFile
    <3> QED BY <3>1 DEF Names
  <2>3. \A i \in 1..Len(intfs) : file.intfs[i] \in Names
    BY <1>4, <2>2
  <2> QED BY <1>2, <1>4, <2>1, <2>3
<1>5. ASSUME NEW o \in Allocated, heap[o].name \in ClassNames, heap[o].dir # 0
      PROVE  /\ heap[o].super # 0 => /\ FileOf(o).super # NoName
                                     /\ heap[o].super = table'[FileOf(o).super]
             /\ \A i \in 1..Len(heap[o].intfs) : heap[o].intfs[i] = table'[FileOf(o).intfs[i]]
             /\ Len(heap[o].intfs) <= Len(FileOf(o).intfs)
  <2> DEFINE super == heap[o].super  intfs == heap[o].intfs  file == FileOf(o)
  <2>1. /\ super # 0 => file.super # NoName /\ super = table[file.super]
        /\ Len(intfs) <= Len(file.intfs)
        /\ \A i \in 1..Len(intfs) : intfs[i] # 0 /\ intfs[i] = table[file.intfs[i]]
    BY <1>3, <1>5 DEF SupersBound
  <2>2. intfs \in Seq(0..MaxObjects) /\ file \in ClassFile
    BY <1>3, <1>5
  <2> HIDE DEF super, intfs, file
  <2>3. /\ super # 0 => super = table'[file.super]
        /\ \A i \in 1..Len(intfs) : intfs[i] = table'[file.intfs[i]]
    BY <1>4, <2>1, <2>2
  <2> QED BY <2>1, <2>3 DEF super, intfs, file
<1>6. CASE r \in Allocated
  <2>1. Grown(r)
    BY <1>6, HeapGrows
  <2> PICK file : file = FileOf(r)
    OBVIOUS
  <2>2. /\ heap[r].name \in ClassNames /\ heap[r].dir # 0 /\ FileOf(r)' = file
        /\ file \in ClassFile /\ heap[r].intfs \in Seq(0..MaxObjects)
    BY <1>1, <1>3, <1>6, <2>1 DEF Grown, FileOf
  <2>3. /\ heap[r].super # 0 => file.super # NoName /\ heap[r].super = table'[file.super]
        /\ \A i \in 1..Len(heap[r].intfs) : heap[r].intfs[i] = table'[file.intfs[i]]
        /\ Len(heap[r].intfs) <= Len(file.intfs)
    BY <1>5, <1>6, <2>2
  <2>4. CASE heap'[r].super = heap[r].super /\ heap'[r].intfs = heap[r].intfs
    BY <2>2, <2>3, <2>4 DEF SupersBound
  <2> PICK w : w = Wanted(Top)
    OBVIOUS
  <2>5. ASSUME depth > 0, Top.pc \in {"super", "intf"}, r = Top.obj, ret # 0, w \in ClassNames
        PROVE  ret = table'[w]
    <3>1. Resuming /\ Pending(depth) = w
      BY <1>1, <2>5 DEF Resuming, Pending, Top, Waiting
    <3>2. ret = table[w] /\ w \in Names
      BY <2>5, <3>1 DEF ReturnsBound, Names
    <3> QED BY <1>2, <2>5, <3>2
  <2>6. depth > 0 /\ Top.pc \in {"super", "intf"} /\ r = Top.obj => BuildOK(Top)
    <3>1. depth > 0 => depth \in 1..depth /\ Top = stack[depth] /\ FrameOK(Top)
      BY <1>1, TopFacts DEF Top, IInv
    <3> QED BY <3>1 DEF IInv, BuildsOK, FrameOK, Building
  <2>7. CASE /\ depth > 0 /\ Top.pc = "super" /\ r = Top.obj /\ ret # 0
             /\ heap'[r].super = ret /\ heap'[r].intfs = heap[r].intfs
    <3>1. file.super # NoName /\ w = file.super /\ w \in ClassNames
      BY <2>2, <2>6, <2>7 DEF BuildOK, Wanted, ClassFile
    <3> QED BY <2>2, <2>3, <2>5, <2>7, <3>1 DEF SupersBound
  <2>8. CASE /\ depth > 0 /\ Top.pc = "intf" /\ r = Top.obj /\ ret # 0
             /\ heap'[r].super = heap[r].super /\ heap'[r].intfs = Append(heap[r].intfs, ret)
    <3> PICK intfs \in Seq(0..MaxObjects) : intfs = heap[r].intfs
      BY <2>2
    <3>1. Len(intfs) < Len(file.intfs) /\ w = file.intfs[Len(intfs) + 1]
      BY <2>2, <2>6, <2>8 DEF BuildOK, Wanted
    <3>2. file.intfs \in Seq(ClassNames) /\ w \in ClassNames
      BY <2>2, <3>1 DEF ClassFile
    <3>3. ret = table'[w]
      BY <2>5, <2>8, <3>2
    <3>4. \A i \in 1..Len(Append(intfs, ret)) : Append(intfs, ret)[i] = table'[file.intfs[i]]
      BY <2>3, <3>1, <3>3
    <3>5. Len(Append(intfs, ret)) <= Len(file.intfs)
      BY <3>1, <3>2
    <3> QED BY <2>2, <2>3, <2>8, <3>4, <3>5 DEF SupersBound
  <2> QED BY <1>6, <2>4, <2>7, <2>8, SupersStored
<1>7. CASE r \notin Allocated
  <2>1. FileOf(r)' \in ClassFile
    <3>1. heap'[r] \in ClassObject /\ r \in Ref /\ disk' \in Disks
      <4>1. TypeOK'
        BY DEF IInv
      <4>2. Allocated' \subseteq Ref
        BY <4>1, AllocatedRefsNext
      <4> QED BY <4>1, <4>2 DEF TypeOK
    <3>2. heap'[r].dir \in Dirs
      BY <3>1, BoundsAssumption DEF ClassObject, Dirs
    <3> QED BY <3>1, <3>2, DisksAssumption DEF FileOf
  <2>2. ASSUME NEW n, NEW d, heap'[r] = ParsedClass(n, d, r)
        PROVE  SupersBound(r)'
    <3>1. heap'[r].super = 0 /\ heap'[r].intfs = <<>>
      BY <2>2 DEF ParsedClass
    <3> QED BY <2>1, <3>1 DEF SupersBound, ClassFile
  <2>3. \A n, elem, base : heap'[r] # PrimitiveClass(n, r) /\ heap'[r] # ArrayClass(n, elem, base, r)
    BY DEF PrimitiveClass, ArrayClass
  <2>4. CASE /\ LoaderStep /\ LinkClass /\ Top.obj \in Allocated
             /\ heap'[r] = Finished(heap[Top.obj], r)
    <3> PICK o \in Allocated : o = Top.obj
      BY <2>4
    <3>1. /\ heap'[r].name = heap[o].name /\ heap'[r].dir = heap[o].dir
          /\ heap'[r].super = heap[o].super /\ heap'[r].intfs = heap[o].intfs
      BY <1>1, <2>4, LinkedClass
    <3>2. FileOf(r)' = FileOf(o)
      BY <1>1, <3>1 DEF FileOf
    <3> QED BY <1>5, <3>1, <3>2 DEF SupersBound
  <2> QED BY <1>7, <2>2, <2>3, <2>4, NewClass
<1> QED BY <1>6, <1>7

(* When a call returns, the frame below, or main, goes on with the name it *)
(* has asked for.                                                           *)
LEMMA ReturnAnswers ==
  ASSUME IInv, IInv', [Next]_vars, LoaderStep, NEW r, NEW e, Return(r, e)
  PROVE  Resuming' /\ Pending(depth)' = Top.name /\ ret' = r /\ exc' = e
<1> PICK k \in Nat : k = depth - 1
  BY DepthFacts DEF IInv, TypeOK, LoaderStep
<1>1. /\ TypeOK /\ depth > 0 /\ depth \in Nat /\ k \in Nat /\ k = depth - 1
      /\ depth' = k /\ ret' = r /\ exc' = e
      /\ \A d \in 1..k : d \in 1..depth /\ d # depth /\ stack'[d] = stack[d]
  BY DepthFacts, AfterReturning DEF IInv, LoaderStep
<1>2. Top = stack[depth] /\ depth \in 1..depth /\ FrameOK(Top)
  BY <1>1, TopFacts DEF Top, IInv
<1>3. Top.name = Pending(k)
  <2>1. \A d \in 1..depth : stack[d].name = Pending(d - 1)
    BY DEF IInv, CallsOK
  <2> QED BY <1>1, <1>2, <2>1
<1>4. disk' = disk /\ asked' = asked
  BY DEF LoaderStep, mainVars, Next, vars
<1>5. CASE k = 0
  <2>1. Pending(depth)' = asked /\ Top.name = asked
    BY <1>1, <1>3, <1>4, <1>5 DEF Pending
  <2>2. asked # NoName
    BY <1>2, <2>1, NamesAssumption DEF FrameOK, Names
  <2> QED BY <1>1, <1>4, <1>5, <2>1, <2>2 DEF Resuming
<1>6. CASE k # 0
  <2> PICK f : f = stack[k]
    OBVIOUS
  <2>1. k \in 1..(depth - 1) /\ k \in 1..depth /\ k # depth /\ stack'[k] = f
    BY <1>1, <1>6
  <2>2. f.pc \in Waiting /\ FrameOK(f)
    BY <2>1 DEF IInv, CallsOK, FramesOK
  <2>3. Wanted(f)' = Wanted(f)
    <3>1. CASE f.pc = "elem"
      BY <3>1 DEF Wanted
    <3>2. CASE f.pc # "elem"
      <4>1. f.obj \in Allocated /\ f.pc \in Building
        BY <2>2, <3>2 DEF Waiting, Building, FrameOK
      <4>2. ~Mine(f.obj)
        BY <1>1, <1>2, <2>1, <4>1 DEF Mine, IInv, OwnObject
      <4>3. Grown(f.obj)
        BY <4>1, HeapGrows
      <4>4. FileOf(f.obj)' = FileOf(f.obj) /\ heap'[f.obj].intfs = heap[f.obj].intfs
        BY <1>4, <4>2, <4>3 DEF Grown, FileOf
      <4> QED BY <3>2, <4>4 DEF Wanted
    <3> QED BY <3>1, <3>2
  <2>4. Pending(depth)' = Wanted(f)'
    BY <1>1, <1>6, <2>1 DEF Pending, Wanted
  <2> QED BY <1>1, <1>3, <1>6, <2>1, <2>2, <2>3, <2>4 DEF Pending, Resuming, Top
<1> QED BY <1>5, <1>6

(* How a call of load_class may return. *)
ReturnsFound ==
    /\ Top.pc = "search" /\ table' = table /\ table[Top.name] # 0
    /\ IF "LoadingSupers" \in heap[table[Top.name]].state
       THEN ret' = 0 /\ exc' = "ClassCircularity"
       ELSE ret' = table[Top.name] /\ exc' = exc
ReturnsNull ==
    /\ ret' = 0 /\ table' = table
    /\ table[Top.name] = 0 \/ Incomplete(Top)
    /\ \/ exc' \in {"NoClassDefFound", "ClassFormat", "IncompatibleClassChange"}
       \/ exc' = "ClassCircularity" /\ MediaFails /\ Top.name = EmptyName
       \/ exc' = exc /\ Top.pc \in Waiting /\ ret = 0
       \/ exc' = exc /\ PrimitiveElement /\ primSlot[ElemName[Top.name]] = 0
ReturnsLinked ==
    /\ LinkInterface \/ LinkClass
    /\ Top.pc = "link" /\ ret' # 0 /\ exc' = exc
    /\ table' = Insert(table, ret', Top.name)

LEMMA Returns ==
  ASSUME IInv, LoaderStep, depth' < depth
  PROVE  /\ ReturnsFound \/ ReturnsNull \/ ReturnsLinked
         /\ \E r, e : Return(r, e)
<1>1. TypeOK /\ FramesOK /\ depth > 0 /\ depth \in Nat /\ FrameOK(Top)
  BY DepthFacts, TopFacts DEF IInv, LoaderStep
<1>2. /\ \A pc, obj : ~Goto(pc, obj)
      /\ \A n, pc, obj : ~Call(n, pc, obj)
  BY <1>1 DEF Goto, Call
<1>3. \A r, e : Return(r, e) => ret' = r /\ exc' = e
  BY DEF Return
<1>4. CASE Found
  BY <1>3, <1>4 DEF Found, ReturnsFound
<1>5. CASE ElementLoaded \/ PrimitiveElement
  <2>1. \/ Top.pc \in Waiting /\ ret = 0
        \/ PrimitiveElement /\ primSlot[ElemName[Top.name]] = 0
    <3>0. \A elem : ~CreateArray(elem)
      BY <1>2 DEF CreateArray
    <3>1. CASE ElementLoaded
      <4>1. ret = 0 /\ Top.pc = "elem"
        BY <3>0, <3>1 DEF ElementLoaded
      <4> QED BY <4>1 DEF Waiting
    <3>2. CASE PrimitiveElement
      <4>1. primSlot[ElemName[Top.name]] = 0
        BY <3>0, <3>2 DEF PrimitiveElement
      <4> QED BY <3>2, <4>1
    <3> QED BY <1>5, <3>1, <3>2
  <2>2. Return(0, exc) /\ table' = table /\ (table[Top.name] = 0 \/ Incomplete(Top))
    BY <1>2, <1>5 DEF ElementLoaded, PrimitiveElement, CreateArray, Incomplete
  <2> QED BY <1>3, <2>1, <2>2 DEF ReturnsNull
<1>6. CASE MediaFails \/ MediaFinds
  <2>1. \/ Return(0, "NoClassDefFound") \/ Return(0, "ClassFormat")
        \/ Return(0, "ClassCircularity") /\ MediaFails /\ Top.name = EmptyName
    BY <1>2, <1>6 DEF MediaFails, MediaFinds
  <2>2. table' = table /\ table[Top.name] = 0
    BY <1>6 DEF MediaFails, MediaFinds
  <2> QED BY <1>3, <2>1, <2>2 DEF ReturnsNull
<1>7. CASE SuperLoaded \/ InterfaceLoaded
  <2>1. Return(0, "IncompatibleClassChange") \/ (Return(0, exc) /\ ret = 0)
    BY <1>2, <1>7 DEF SuperLoaded, InterfaceLoaded
  <2>2. table' = table /\ Top.pc \in Waiting /\ Incomplete(Top)
    BY <1>1, <1>7 DEF SuperLoaded, InterfaceLoaded, Waiting, Building, Incomplete, FrameOK
  <2> QED BY <1>3, <2>1, <2>2 DEF ReturnsNull
<1>8. CASE PrepareFails
  <2>1. Return(0, "IncompatibleClassChange") /\ table' = table /\ Incomplete(Top)
    BY <1>8 DEF PrepareFails, Incomplete, Building
  <2> QED BY <1>3, <2>1 DEF ReturnsNull
<1>9. CASE LinkInterface \/ LinkClass
  <2>1. Top.obj # 0 /\ next # 0
    <3>1. Top.obj \in Ref
      BY <1>1, <1>9, TopFacts DEF LinkInterface, LinkClass, CanLink, Building
    <3> QED BY <1>1, <3>1, BoundsAssumption DEF Ref, TypeOK
  <2> QED BY <1>3, <1>9, <2>1 DEF LinkInterface, LinkClass, CanLink, ReturnsLinked
<1>10. ~LoadElement /\ ~LoadInterface /\ ~SupersLoaded
  BY <1>2 DEF LoadElement, LoadInterface, SupersLoaded
<1> QED BY <1>4, <1>5, <1>6, <1>7, <1>8, <1>9, <1>10 DEF LoaderStep

(* A step of load_class that does not return has no NULL to pass on, and   *)
(* the frame it leaves on top has not been answered yet.                    *)
LEMMA GoingOn ==
  ASSUME IInv, LoaderStep, depth' >= depth
  PROVE  /\ exc' = exc \/ exc' = "OK"
         /\ ~(Resuming /\ ret = 0) /\ ~Resuming'
         /\ Top'.pc = "link" =>
              /\ depth' = depth /\ Top'.obj \in Allocated'
              /\ "LoadingSupers" \notin heap'[Top'.obj].state
<1>1. TypeOK /\ FramesOK /\ depth > 0 /\ depth \in Nat
  BY DepthFacts DEF IInv, LoaderStep
<1>2. \A r, e : ~Return(r, e)
  BY <1>1 DEF Return
<1>3. ASSUME NEW n, NEW pc, NEW obj, Call(n, pc, obj)
      PROVE  Top'.pc = "search" /\ ~Resuming'
  <2>1. depth' = depth + 1 /\ depth' # 0 /\ Top' = FrameAt(n, "search", 0)
    BY <1>1, <1>3, AfterCalling DEF Top
  <2>2. Top'.pc = "search"
    BY <2>1 DEF FrameAt
  <2> QED BY <2>1, <2>2 DEF Resuming, Waiting
<1>4. ASSUME NEW pc, NEW obj, Goto(pc, obj), pc \notin Waiting
      PROVE  Top' = FrameAt(Top.name, pc, obj) /\ ~Resuming' /\ depth' = depth
  <2>1. depth' = depth /\ Top' = FrameAt(Top.name, pc, obj)
    BY <1>1, <1>4, AfterMoving DEF Top
  <2> QED BY <1>1, <1>4, <2>1 DEF Resuming, FrameAt
<1>5. Top.pc \notin Waiting => ~Resuming
  BY <1>1 DEF Resuming
<1>6. CASE LoadElement \/ LoadInterface
  BY <1>3, <1>5, <1>6 DEF LoadElement, LoadInterface, Waiting
<1>7. CASE MediaFinds
  <2>1. exc' = "OK" /\ Top.pc \notin Waiting
    BY <1>2, <1>7 DEF MediaFinds, Waiting
  <2>2. Goto("nextIntf", next) \/ \E n : Call(n, "super", next)
    BY <1>2, <1>7 DEF MediaFinds
  <2> QED BY <1>3, <1>4, <1>5, <2>1, <2>2 DEF FrameAt, Waiting
<1>8. CASE SuperLoaded \/ InterfaceLoaded
  <2>1. ret # 0 /\ Goto("nextIntf", Top.obj) /\ exc' = exc
    BY <1>2, <1>8 DEF SuperLoaded, InterfaceLoaded
  <2> QED BY <1>4, <2>1 DEF FrameAt, Waiting
<1>9. CASE SupersLoaded
  <2>1. /\ heap' = [heap EXCEPT ![Top.obj].state = @ \ {"LoadingSupers"}]
        /\ Goto("link", Top.obj) /\ Top.pc \notin Waiting /\ exc' = exc /\ next' = next
    BY <1>9 DEF SupersLoaded, Waiting
  <2>2. Top.obj \in Allocated /\ Top.obj \in Ref /\ heap[Top.obj] \in ClassObject
    BY <1>1, <1>9, TopFacts DEF SupersLoaded, FrameOK, Building
  <2>3. "LoadingSupers" \notin heap'[Top.obj].state /\ Top.obj \in Allocated'
    BY <1>1, <2>1, <2>2 DEF TypeOK, ClassObject, Allocated
  <2> QED BY <1>4, <1>5, <2>1, <2>3 DEF FrameAt, Waiting
<1>10. CASE ElementLoaded \/ PrimitiveElement
  <2>1. PICK elem : CreateArray(elem)
    BY <1>2, <1>10 DEF ElementLoaded, PrimitiveElement
  <2>2. ret # 0 \/ Top.pc \notin Waiting
    BY <1>2, <1>10 DEF ElementLoaded, PrimitiveElement, Waiting
  <2>3. PICK base : /\ Alloc(ArrayClass(Top.name, elem, base, next))
                    /\ Goto("link", next) /\ exc' = exc
    BY <2>1 DEF CreateArray
  <2>4. heap'[next].state = {} /\ next \in Allocated'
    BY <1>1, <2>3, AllocatedRefs DEF Alloc, ArrayClass, TypeOK, Allocated, Ref
  <2> QED BY <1>4, <1>5, <2>2, <2>3, <2>4 DEF FrameAt, Waiting
<1> QED BY <1>2, <1>6, <1>7, <1>8, <1>9, <1>10
        DEF LoaderStep, Found, MediaFails, PrepareFails, LinkInterface, LinkClass

-----------------------------------------------------------------------------
(* How failure is reported.                                                 *)

(* What a name is bound to when it is bound.                                *)
LEMMA NewEntry ==
  ASSUME IInv, [Next]_vars, NEW n \in Names, table[n] = 0, table'[n] # 0
  PROVE  \/ \E elem, base : heap'[table'[n]] = ArrayClass(n, elem, base, next)
         \/ \E m : heap'[table'[n]] = PrimitiveClass(m, next)
         \/ /\ LoaderStep /\ LinkInterface /\ Top.pc = "link" /\ table'[n] = Top.obj
            /\ heap'[Top.obj] = Finished(heap[Top.obj], Top.obj)
         \/ /\ LoaderStep /\ LinkClass /\ Top.pc = "link" /\ table'[n] = next
            /\ heap'[next] = Finished(heap[Top.obj], next)
<1>1. /\ TypeOK /\ Allocated \subseteq Ref /\ heap \in [Ref -> ClassObject]
      /\ table \in [Names -> 0..MaxObjects]
  BY AllocatedRefs DEF IInv, TypeOK
<1>2. \A r, m : table' = Insert(table, r, m) => n = m /\ table'[n] = r
  BY <1>1 DEF Insert
<1>3. \A c : Alloc(c) => heap'[next] = c
  BY <1>1 DEF Alloc
<1>4. ASSUME NEW elem, CreateArray(elem)
      PROVE  \E base : heap'[table'[n]] = ArrayClass(n, elem, base, next)
  <2>1. \E base : Alloc(ArrayClass(Top.name, elem, base, next))
    BY <1>4 DEF CreateArray
  <2>2. table' = Insert(table, next, Top.name)
    BY <1>4 DEF CreateArray
  <2> QED BY <1>2, <1>3, <2>1, <2>2
<1>5. CASE PreloadPrimitive
  <2>1. \E m : Alloc(PrimitiveClass(m, next)) /\ table' = Insert(table, next, m)
    BY <1>5 DEF PreloadPrimitive
  <2> QED BY <1>2, <1>3, <2>1
<1>6. CASE LoaderStep
  <2>1. CASE LinkInterface
    <3>1. Top.obj \in Ref
      BY <1>1, <1>6, <2>1, TopFacts DEF IInv, LoaderStep, LinkInterface, CanLink, Building
    <3>2. heap'[Top.obj] = Finished(heap[Top.obj], Top.obj)
      BY <1>1, <2>1, <3>1 DEF LinkInterface
    <3> QED BY <1>2, <1>6, <2>1, <3>2 DEF LinkInterface, CanLink
  <2>2. CASE LinkClass
    <3>1. heap'[next] = Finished(heap[Top.obj], next)
      BY <1>1, <2>2 DEF LinkClass
    <3> QED BY <1>2, <1>6, <2>2, <3>1 DEF LinkClass, CanLink
  <2>3. CASE \E elem : CreateArray(elem)
    BY <1>4, <2>3
  <2>4. LinkInterface \/ LinkClass \/ \E elem : CreateArray(elem)
    BY <1>6 DEF LoaderStep, Found, LoadElement, ElementLoaded, PrimitiveElement, MediaFails,
       MediaFinds, SuperLoaded, LoadInterface, InterfaceLoaded, SupersLoaded, PrepareFails
  <2> QED BY <2>1, <2>2, <2>3, <2>4
<1>7. PreloadPrimitive \/ LoaderStep
  BY DEF Next, LoaderCrash, LinkWithoutClassClass, ShortElement, StackOverflow, Crash, RunStep,
     Request, Ask, RequestDone, loaderVars, vars, BootStep, PreloadClass, ClassPreloaded,
     PrimitivesDone, LoadGlobal, GlobalLoaded, BootDone
<1> QED BY <1>5, <1>6, <1>7

(* No class in the table is still loading its supers.                       *)
LEMMA EntriesHaveSupers ==
  ASSUME IInv, IInv', NoneLoading, [Next]_vars, NEW n \in Names, table'[n] # 0
  PROVE  "LoadingSupers" \notin heap'[table'[n]].state
<1>1. CASE table[n] # 0
  <2>1. table'[n] = table[n] /\ table[n] \in Allocated
    BY <1>1, EntriesStay DEF IInv, TableOK, EntryOK
  <2>2. Grown(table[n])
    BY <2>1, HeapGrows
  <2> QED BY <1>1, <2>1, <2>2 DEF NoneLoading, Grown
<1>2. CASE table[n] = 0
  <2>1. ASSUME NEW r, LoaderStep, Top.pc = "link", heap'[table'[n]] = Finished(heap[Top.obj], r)
        PROVE  "LoadingSupers" \notin heap'[table'[n]].state
    <3>1. heap[Top.obj] \in ClassObject /\ depth > 0
      BY <2>1, TopFacts DEF IInv, LoaderStep, Building
    <3>2. "LoadingSupers" \notin heap[Top.obj].state
      BY <2>1, <3>1 DEF NoneLoading
    <3>3. Finished(heap[Top.obj], r).state = heap[Top.obj].state \union {"Prepared", "Loaded"}
      BY <3>1, LinkedClass
    <3> QED BY <2>1, <3>2, <3>3
  <2>2. \A m, elem, base, r : /\ "LoadingSupers" \notin ArrayClass(m, elem, base, r).state
                              /\ "LoadingSupers" \notin PrimitiveClass(m, r).state
    BY DEF ArrayClass, PrimitiveClass
  <2> QED BY <1>2, <2>1, <2>2, NewEntry
<1> QED BY <1>1, <1>2

LEMMA NoneLoadingKept ==
  ASSUME IInv, IInv', NoneLoading, [Next]_vars
  PROVE  NoneLoading'
<1>1. depth \in Nat /\ depth' \in Nat
  BY DepthFacts DEF IInv, TypeOK
<1>2. \A n \in Names : table'[n] # 0 => "LoadingSupers" \notin heap'[table'[n]].state
  BY EntriesHaveSupers
<1>3. ASSUME depth' > 0, Top'.pc = "link"
      PROVE  "LoadingSupers" \notin heap'[Top'.obj].state
  <2>1. CASE LoaderStep /\ depth' >= depth
    BY <1>3, <2>1, GoingOn
  <2>2. CASE LoaderStep /\ depth' < depth
    <3>1. Resuming'
      BY <2>2, Returns, ReturnAnswers
    <3> QED BY <1>3, <3>1 DEF Resuming, Waiting
  <2>3. CASE ~LoaderStep /\ UNCHANGED <<stack, depth, ret, exc>>
    <3>1. Top' = Top /\ heap' = heap /\ depth > 0
      BY <1>1, <1>3, <2>3, OutsideSteps DEF Top
    <3> QED BY <1>3, <3>1 DEF NoneLoading
  <2>4. CASE \E n, x : Ask(n, x)
    <3>1. depth' = 1 /\ \E n : Top' = FrameAt(n, "search", 0)
      BY <1>1, <2>4, AfterAsking DEF Top, IInv
    <3> QED BY <1>3, <3>1 DEF FrameAt
  <2> QED BY <1>1, <2>1, <2>2, <2>3, <2>4, OutsideSteps
<1> QED BY <1>2, <1>3 DEF NoneLoading

LEMMA NeverLoading == Spec => []NoneLoading
<1>1. Init => NoneLoading
  BY DEF Init, NoneLoading
<1>2. IInv /\ IInv' /\ NoneLoading /\ [Next]_vars => NoneLoading'
  BY NoneLoadingKept
<1> QED BY <1>1, <1>2, Invariance, PTL DEF Spec

(* load_class reports a circularity only of a class without a name: the    *)
(* check it makes for a class whose supers are being loaded never finds    *)
(* one, because a class is in the table only when they have been.           *)
THEOREM CircularityOnlyOfNoName ==
  Spec => [][exc' = "ClassCircularity" /\ exc' # exc => MediaFails /\ Top.name = EmptyName]_vars
<1>1. ASSUME IInv, IInv', NoneLoading, [Next]_vars, exc' = "ClassCircularity", exc' # exc
      PROVE  MediaFails /\ Top.name = EmptyName
  <2>1. depth \in Nat /\ depth' \in Nat
    BY <1>1, DepthFacts DEF IInv, TypeOK
  <2>2. LoaderStep
    BY <1>1, OutsideSteps
  <2>3. depth' < depth
    BY <1>1, <2>1, <2>2, GoingOn
  <2>4. ~ReturnsFound
    <3>1. Top.name \in Names
      BY <1>1, <2>2, TopFacts DEF IInv, LoaderStep
    <3> QED BY <1>1, <3>1 DEF ReturnsFound, NoneLoading
  <2>5. ReturnsNull
    BY <1>1, <2>2, <2>3, <2>4, Returns DEF ReturnsLinked
  <2> QED BY <1>1, <2>5 DEF ReturnsNull
<1>2. IInv /\ IInv' /\ NoneLoading /\ [Next]_vars =>
        [exc' = "ClassCircularity" /\ exc' # exc => MediaFails /\ Top.name = EmptyName]_vars
  BY <1>1
<1> QED BY <1>2, Invariance, NeverLoading, PTL DEF Spec

LEMMA PreloadComesFirst ==
  ASSUME [Next]_vars, phase' = "preload"
  PROVE  phase = "preload"
  BY DEF Next, vars, mainVars, LoaderStep, LoaderCrash, LinkWithoutClassClass, ShortElement,
     StackOverflow, Crash, RunStep, Request, RequestDone, BootStep, PreloadClass,
     ClassPreloaded, PreloadPrimitive, PrimitivesDone, LoadGlobal, GlobalLoaded, BootDone

LEMMA ErrorsKept ==
  ASSUME IInv, IInv', NoneLoading, ErrorsOK, [Next]_vars
  PROVE  ErrorsOK'
<1> SUFFICES ASSUME phase' = "preload"
             PROVE  /\ exc' # "unset"
                    /\ exc' # "OK" => (depth' = 0 \/ Resuming') /\ ret' = 0
  BY DEF ErrorsOK
<1>1. /\ depth \in Nat /\ depth' \in Nat /\ exc # "unset"
      /\ exc # "OK" => (depth = 0 \/ Resuming) /\ ret = 0
  BY PreloadComesFirst, DepthFacts DEF IInv, TypeOK, ErrorsOK
<1>2. CASE LoaderStep /\ depth' >= depth
  <2>1. exc' = "OK"
    BY <1>1, <1>2, GoingOn DEF LoaderStep
  <2> QED BY <2>1
<1>3. CASE LoaderStep /\ depth' < depth
  <2>1. depth > 0 /\ Resuming'
    BY <1>3, Returns, ReturnAnswers DEF LoaderStep
  <2>2. CASE ReturnsFound
    <3>1. Top.name \in Names /\ "LoadingSupers" \notin heap[table[Top.name]].state
      BY <2>1, <2>2, TopFacts DEF ReturnsFound, NoneLoading, IInv
    <3>2. exc' = exc /\ ~Resuming
      BY <2>1, <2>2, <3>1 DEF ReturnsFound, Resuming, Waiting
    <3> QED BY <1>1, <2>1, <3>2
  <2>3. CASE ReturnsNull
    BY <1>1, <2>1, <2>3 DEF ReturnsNull
  <2>4. CASE ReturnsLinked
    <3>1. exc' = exc /\ ~Resuming
      BY <2>1, <2>4 DEF ReturnsLinked, Resuming, Waiting
    <3> QED BY <1>1, <2>1, <3>1
  <2> QED BY <1>3, <2>2, <2>3, <2>4, Returns
<1>4. CASE ~LoaderStep /\ UNCHANGED <<stack, depth, ret, exc>>
  <2>1. depth > 0 => (Resuming' <=> Resuming)
    BY <1>4 DEF Resuming, Top
  <2> QED BY <1>1, <1>4, <2>1
<1>5. CASE phase' = phase /\ (phase = "preload" => exc' = "OK")
  BY <1>5
<1> QED BY <1>1, <1>2, <1>3, <1>4, <1>5, OutsideSteps

LEMMA ErrorsReported == Spec => []ErrorsOK
<1>1. Init => ErrorsOK
  BY DEF Init, ErrorsOK
<1>2. IInv /\ IInv' /\ NoneLoading /\ ErrorsOK /\ [Next]_vars => ErrorsOK'
  BY ErrorsKept
<1> QED BY <1>1, <1>2, Invariance, NeverLoading, PTL DEF Spec

-----------------------------------------------------------------------------
(* Start-up.                                                                *)

LEMMA PrimitiveSlots ==
  ASSUME IInv, StartOK, PreloadPrimitive
  PROVE  \A i \in 1..Len(BootPrims) : i < step' => primSlot'[BootPrims[i].slot] # 0
<1>1. /\ step \in Nat /\ primSlot \in [PrimNames -> 0..MaxObjects] /\ step' = step + 1
      /\ next # 0 /\ primSlot' = [primSlot EXCEPT ![BootPrims[step].slot] = next]
      /\ \A i \in 1..Len(BootPrims) : i < step => primSlot[BootPrims[i].slot] # 0
  BY BoundsAssumption DEF IInv, TypeOK, StartOK, PreloadPrimitive, Alloc, Ref
<1> SUFFICES ASSUME NEW i \in 1..Len(BootPrims), i < step'
             PROVE  primSlot'[BootPrims[i].slot] # 0
  OBVIOUS
<1>2. BootPrims[i].slot \in PrimNames
  <2>1. BootPrims \in Seq([name : PrimNames, slot : PrimNames])
    BY BootAssumption
  <2>2. i \in Nat /\ i >= 1 /\ i <= Len(BootPrims)
    BY <2>1
  <2>3. BootPrims[i] \in [name : PrimNames, slot : PrimNames]
    BY <2>1, <2>2, SeqItem
  <2> QED BY <2>3
<1>3. CASE BootPrims[i].slot = BootPrims[step].slot
  BY <1>1, <1>2, <1>3
<1>4. CASE BootPrims[i].slot # BootPrims[step].slot
  <2>1. i < step
    BY <1>1, <1>4
  <2> QED BY <1>1, <1>2, <1>4, <2>1
<1> QED BY <1>3, <1>4

LEMMA StartKept ==
  ASSUME IInv, StartOK, [Next]_vars
  PROVE  StartOK'
<1>0. phase # "crashed" \/ UNCHANGED vars
  BY DEF Next
<1>1. CASE /\ UNCHANGED <<phase, asked, step, primSlot, global>>
           /\ phase # "crashed" \/ UNCHANGED depth
  BY <1>1 DEF StartOK, SlotsFilled
<1>2. CASE phase' = "crashed" /\ depth' > 0
  BY <1>2 DEF StartOK
<1>3. CASE phase' = phase /\ phase = "run" /\ UNCHANGED <<primSlot, global>>
  BY <1>3 DEF StartOK, SlotsFilled
<1>4. CASE PreloadClass
  BY <1>4 DEF PreloadClass, StartOK
<1>5. CASE ClassPreloaded
  <2>1. /\ phase = "preload" /\ asked' = NoName /\ step' = step /\ primSlot' = primSlot
        /\ (phase' = "run" /\ global' = global) \/ phase' = "prims"
    BY <1>5 DEF ClassPreloaded
  <2>2. step = 1 /\ \A n \in Globals : global[n] = 0
    BY <2>1 DEF StartOK
  <2> QED BY <2>1, <2>2 DEF StartOK, Globals
<1>6. CASE PreloadPrimitive
  BY <1>6, PrimitiveSlots DEF PreloadPrimitive, StartOK
<1>7. CASE PrimitivesDone
  <2>1. /\ phase = "prims" /\ step = Len(BootPrims) + 1 /\ phase' = "globals"
        /\ primSlot' = primSlot /\ asked' = NoName
    BY <1>7 DEF PrimitivesDone, StartOK
  <2>2. Len(BootPrims) \in Nat
    BY BootAssumption
  <2>3. \A i \in 1..Len(BootPrims) : primSlot[BootPrims[i].slot] # 0
    BY <2>1, <2>2 DEF StartOK
  <2>4. BootCovers => SlotsFilled
    BY <2>3 DEF BootCovers, SlotsFilled
  <2> QED BY <2>1, <2>4 DEF StartOK, SlotsFilled
<1>8. CASE LoadGlobal \/ GlobalLoaded
  <2>1. Len(BootLoads) \in Nat /\ step \in Nat
    BY BootAssumption DEF IInv, TypeOK
  <2> QED BY <1>8, <2>1 DEF LoadGlobal, GlobalLoaded, StartOK, SlotsFilled
<1>9. CASE BootDone
  <2>1. step > Len(BootLoads)
    BY <1>9, BootAssumption DEF BootDone
  <2> QED BY <1>9, <2>1 DEF BootDone, StartOK, SlotsFilled
<1>10. CASE RunStep
  BY <1>3, <1>10 DEF RunStep, Request, RequestDone
<1>11. CASE LoaderStep
  BY <1>1, <1>11, <1>0 DEF LoaderStep, mainVars, vars, loaderVars
<1>12. CASE LoaderCrash
  BY <1>2, <1>12 DEF LoaderCrash, LinkWithoutClassClass, ShortElement, StackOverflow, Crash, loaderVars
<1>13. CASE UNCHANGED vars
  BY <1>1, <1>13 DEF vars, mainVars, loaderVars
<1> QED BY <1>0, <1>4, <1>5, <1>6, <1>7, <1>8, <1>9, <1>10, <1>11, <1>12, <1>13 DEF Next, BootStep

(* java/lang/Class is found once and for all.                              *)
LEMMA ClassClassStays ==
  ASSUME IInv, StartOK, [Next]_vars, global'[ClassName] = 0
  PROVE  global[ClassName] = 0
<1>1. global \in [Globals -> 0..MaxObjects] /\ ClassName \in Globals
  BY DEF IInv, TypeOK, Globals
<1>2. CASE GlobalLoaded
  <2>1. /\ step \in Nat /\ step >= 1 /\ step <= Len(BootLoads)
        /\ global' = [global EXCEPT ![BootLoads[step]] = ret]
    BY <1>2 DEF IInv, TypeOK, MainOK, GlobalLoaded
  <2>2. BootLoads[step] # ClassName
    <3>1. /\ BootLoads \in Seq((ClassNames \union ArrayNames) \ {ObjectName, ClassName})
          /\ step \in 1..Len(BootLoads)
      BY <2>1, BootAssumption
    <3>2. BootLoads[step] \in (ClassNames \union ArrayNames) \ {ObjectName, ClassName}
      BY <3>1, SeqItem
    <3> QED BY <3>2
  <2> QED BY <1>1, <2>1, <2>2
<1>3. CASE phase = "preload"
  BY <1>1, <1>3 DEF StartOK
<1>4. CASE ~GlobalLoaded /\ phase # "preload"
  <2>1. global' = global
    BY <1>4 DEF Next, LoaderStep, mainVars, vars, LoaderCrash, LinkWithoutClassClass,
       ShortElement, StackOverflow, Crash, RunStep, Request, RequestDone, BootStep, PreloadClass,
       ClassPreloaded, PreloadPrimitive, PrimitivesDone, LoadGlobal, BootDone
  <2> QED BY <2>1
<1> QED BY <1>2, <1>3, <1>4

LEMMA NothingBeforeKept ==
  ASSUME IInv, IInv', StartOK, NothingBeforeClassClass, [Next]_vars
  PROVE  NothingBeforeClassClass'
<1> SUFFICES ASSUME global'[ClassName] = 0, NEW n \in FileClasses, table'[n] # 0,
                    NeedsMirror(n)
             PROVE  FALSE
  BY DEF NothingBeforeClassClass, NeedsMirror
<1>1. global[ClassName] = 0
  BY ClassClassStays
<1>2. n \in Names /\ table[n] = 0
  BY <1>1 DEF NothingBeforeClassClass, FileClasses, Names
<1>3. heap'[table'[n]].state = {"Prepared", "Loaded"} /\ heap'[table'[n]].name = n
  BY <1>2 DEF IInv, TableOK, EntryOK, Complete
<1>4. /\ \A m, elem, base, r : ArrayClass(m, elem, base, r).state = {}
      /\ \A m, r : PrimitiveClass(m, r).state = {"Prepared"}
  BY DEF ArrayClass, PrimitiveClass
<1>5. ASSUME NEW r, LoaderStep, LinkInterface \/ LinkClass, Top.pc = "link",
             heap'[table'[n]] = Finished(heap[Top.obj], r)
      PROVE  FALSE
  <2>1. heap[Top.obj] \in ClassObject /\ FrameOK(Top)
    BY <1>5, TopFacts DEF IInv, LoaderStep, Building
  <2>2. heap[Top.obj].name = n
    BY <1>3, <1>5, <2>1, LinkedClass
  <2>3. Top.name = n
    BY <1>5, <2>1, <2>2 DEF FrameOK, Building
  <2> QED BY <1>1, <1>5, <2>3 DEF LinkInterface, LinkClass
<1> QED BY <1>2, <1>3, <1>4, <1>5, NewEntry

LEMMA RunsWithGlobalsKept ==
  ASSUME IInv, StartOK, RunsWithGlobals, [Next]_vars
  PROVE  RunsWithGlobals'
<1>1. CASE UNCHANGED <<phase, global>>
  BY <1>1 DEF RunsWithGlobals
<1>2. CASE phase' # "run"
  BY <1>2 DEF RunsWithGlobals
<1>3. CASE ClassPreloaded /\ phase' = "run"
  <2>1. global' = global /\ \A n \in Globals : global[n] = 0
    BY <1>3 DEF ClassPreloaded, StartOK
  <2> QED BY <2>1 DEF RunsWithGlobals
<1>4. CASE BootDone /\ phase' = "run"
  <2>1. global' = global /\ \A n \in Globals \intersect ClassNames : global[n] # 0
    BY <1>4 DEF BootDone
  <2> QED BY <2>1 DEF RunsWithGlobals
<1>5. CASE ~BootDone /\ ~ClassPreloaded
  <2>1. UNCHANGED <<phase, global>> \/ phase' # "run"
    BY <1>5 DEF Next, LoaderStep, mainVars, vars, LoaderCrash, LinkWithoutClassClass,
       ShortElement, StackOverflow, Crash, RunStep, Request, RequestDone, BootStep, PreloadClass,
       PreloadPrimitive, PrimitivesDone, LoadGlobal, GlobalLoaded
  <2> QED BY <1>1, <1>2, <2>1
<1> QED BY <1>2, <1>3, <1>4, <1>5

LEMMA StartInvariant == Spec => [](StartOK /\ NothingBeforeClassClass /\ RunsWithGlobals)
<1>1. Init => StartOK /\ NothingBeforeClassClass /\ RunsWithGlobals
  <2> SUFFICES ASSUME Init
               PROVE  StartOK /\ NothingBeforeClassClass /\ RunsWithGlobals
    OBVIOUS
  <2>1. StartOK /\ RunsWithGlobals
    BY DEF Init, StartOK, RunsWithGlobals
  <2>2. NothingBeforeClassClass
    BY DEF Init, NothingBeforeClassClass, FileClasses, Names
  <2> QED BY <2>1, <2>2
<1>2. /\ IInv /\ IInv' /\ StartOK /\ NothingBeforeClassClass /\ RunsWithGlobals
      /\ [Next]_vars
      => StartOK' /\ NothingBeforeClassClass' /\ RunsWithGlobals'
  BY StartKept, NothingBeforeKept, RunsWithGlobalsKept
<1> QED BY <1>1, <1>2, Invariance, PTL DEF Spec

-----------------------------------------------------------------------------
(* What a successful request returns.                                       *)

(* Main takes an answer, or leaves what it waits for as it is.              *)
LEMMA OutsidePending ==
  ASSUME IInv, [Next]_vars, ~LoaderStep, UNCHANGED <<stack, depth, ret, exc>>, Resuming'
  PROVE  Resuming /\ Pending(depth)' = Pending(depth)
<1>1. depth \in Nat /\ disk' = disk /\ (depth > 0 => heap' = heap)
  BY DepthFacts, OutsideSteps DEF IInv, Next, vars
<1>2. CASE depth > 0
  <2>1. Top' = Top /\ heap' = heap
    BY <1>1, <1>2 DEF Top
  <2>2. Resuming
    BY <1>2, <2>1 DEF Resuming
  <2> PICK f : f = stack[depth]
    OBVIOUS
  <2>3. Pending(depth) = Wanted(f) /\ Pending(depth)' = Wanted(f)'
    BY <1>2 DEF Pending, Wanted
  <2>4. Wanted(f)' = Wanted(f)
    BY <1>1, <2>1 DEF Wanted, FileOf
  <2> QED BY <2>2, <2>3, <2>4
<1>3. CASE depth = 0
  <2>1. asked' # NoName /\ Pending(depth)' = asked' /\ Pending(depth) = asked
    BY <1>3 DEF Resuming, Pending
  <2>2. asked' = asked \/ asked' = NoName
    <3>1. \A n, x : ~Ask(n, x)
      BY <1>3 DEF Ask, Call
    <3> QED BY <3>1 DEF Next, vars, mainVars, LoaderCrash, LinkWithoutClassClass,
       ShortElement, StackOverflow, Crash, RunStep, Request, RequestDone, BootStep, PreloadClass,
       ClassPreloaded, PreloadPrimitive, PrimitivesDone, LoadGlobal, GlobalLoaded, BootDone
  <2> QED BY <1>3, <2>1, <2>2 DEF Resuming
<1> QED BY <1>1, <1>2, <1>3

LEMMA AnswersRecorded ==
  ASSUME IInv, [Next]_vars, NEW a \in answers'
  PROVE  a \in answers \/ (depth = 0 /\ Resuming /\ a.name = asked /\ a.class = ret)
<1>1. ASSUME NEW n, Answered(n), Record(n)
      PROVE  a \in answers \/ (depth = 0 /\ Resuming /\ a.name = asked /\ a.class = ret)
  BY <1>1 DEF Answered, Record, Resuming
<1>2. answers' = answers \/ \E n : Answered(n) /\ Record(n)
  BY DEF Next, vars, mainVars, LoaderStep, LoaderCrash, LinkWithoutClassClass, ShortElement, StackOverflow,
     Crash, RunStep, Request, RequestDone, BootStep, PreloadClass, ClassPreloaded,
     PreloadPrimitive, PrimitivesDone, LoadGlobal, GlobalLoaded, BootDone
<1> QED BY <1>1, <1>2

LEMMA AnswersBoundKept ==
  ASSUME IInv, AnswersBound, [Next]_vars
  PROVE  AnswersBound'
<1> SUFFICES ASSUME NEW a \in answers', a.class # 0
             PROVE  a.name \in Names /\ table'[a.name] # 0
  BY DEF AnswersBound
<1>1. a.name \in Names /\ table[a.name] # 0
  <2>1. CASE a \in answers
    BY <2>1 DEF AnswersBound
  <2>2. CASE depth = 0 /\ Resuming /\ a.name = asked /\ a.class = ret
    <3>1. asked # NoName /\ Pending(depth) = asked
      BY <2>2 DEF Resuming, Pending
    <3>2. asked \in Names /\ table[asked] # 0
      BY <2>2, <3>1 DEF IInv, MainOK, ResultOK, Names
    <3> QED BY <2>2, <3>2
  <2> QED BY <2>1, <2>2, AnswersRecorded
<1> QED BY <1>1, EntriesStay

(* korp_init looks at no result of preload_class or prepare_globals, and   *)
(* goes on to run the application when preload_class has failed.  But once *)
(* Java code has got a class of the application, all the classes the VM    *)
(* depends on are there: every class loaded before java/lang/Class can be  *)
(* used ends in new_java_object.                                            *)
THEOREM StartsUp == Spec => []RunsSupported
<1>1. Init => AnswersBound
  BY DEF Init, AnswersBound
<1>2. IInv /\ AnswersBound /\ [Next]_vars => AnswersBound'
  BY AnswersBoundKept
<1>3. ASSUME NothingBeforeClassClass, RunsWithGlobals, AnswersBound
      PROVE  RunsSupported
  <2> SUFFICES ASSUME phase = "run", NEW a \in answers, a.class # 0, a.name \in Application
               PROVE  \A n \in Globals \intersect ClassNames : global[n] # 0
    BY DEF RunsSupported
  <2>1. a.name \in FileClasses /\ table[a.name] # 0 /\ NeedsMirror(a.name)
    BY <1>3 DEF AnswersBound, Application, NeedsMirror, Globals
  <2>2. ClassName \in Globals /\ global[ClassName] # 0
    BY <1>3, <2>1 DEF NothingBeforeClassClass, Globals
  <2> QED BY <1>3, <2>2 DEF RunsWithGlobals
<1> QED BY <1>1, <1>2, <1>3, Invariance, StartInvariant, PTL DEF Spec

LEMMA StaysMature ==
  ASSUME IInv, [Next]_vars, NEW r, Mature(r)
  PROVE  Mature(r)' /\ heap'[r].name = heap[r].name
<1>1. next \in Nat /\ r \in Allocated
  BY AllocatedRefs DEF IInv, Mature
<1>2. next' \in Nat
  <2>1. next' \in 1..(MaxObjects + 1)
    BY StepType DEF TypeOK
  <2> QED BY <2>1
<1>3. next <= next' /\ Grown(r)
  BY <1>1, HeapGrows
<1>4. r \in Allocated'
  <2> PICK m \in Nat : m = next'
    BY <1>2
  <2>1. r \in 1..(next - 1) /\ next <= m
    BY <1>1, <1>3 DEF Allocated
  <2>2. r \in 1..(m - 1)
    <3>1. 1..(next - 1) \subseteq 1..(m - 1)
      BY <1>1, <2>1, Intervals
    <3> QED BY <2>1, <3>1
  <2> QED BY <2>2 DEF Allocated
<1>5. /\ "Loaded" \in heap[r].state
      /\ NeedsMirror(heap[r].name) => heap[r].mirror = r
  BY DEF Mature
<1> QED BY <1>3, <1>4, <1>5 DEF Mature, Grown

LEMMA LinkedMature ==
  ASSUME IInv, IInv', [Next]_vars, LoaderStep, depth' < depth, ReturnsLinked
  PROVE  \A q : q = ret' => Mature(q)'
<1>1. /\ heap[Top.obj] \in ClassObject /\ Top.obj \in Ref /\ depth > 0
      /\ heap \in [Ref -> ClassObject] /\ Top.obj \in Allocated
  BY TopFacts DEF IInv, TypeOK, LoaderStep, ReturnsLinked, FrameOK, Building
<1> SUFFICES ASSUME NEW q, q = ret' PROVE Mature(q)'
  OBVIOUS
<1>2. heap'[q] = Finished(heap[Top.obj], q) /\ q \in Allocated'
  <2>1. CASE LinkInterface
    <3>1. q = Top.obj /\ next' = next
      BY <2>1 DEF LinkInterface, Return
    <3> QED BY <1>1, <2>1, <3>1 DEF LinkInterface, Allocated
  <2>2. CASE LinkClass
    <3>1. q = next /\ next' = next + 1 /\ next \in Ref
      BY <2>2 DEF LinkClass, Return
    <3>2. heap'[next] = Finished(heap[Top.obj], next)
      BY <1>1, <2>2 DEF LinkClass
    <3>3. next \in Allocated'
      BY <3>1, BoundsAssumption DEF Allocated, Ref
    <3> QED BY <3>1, <3>2, <3>3
  <2> QED BY <2>1, <2>2 DEF ReturnsLinked
<1>3. /\ heap'[q].name = heap[Top.obj].name /\ "Loaded" \in heap'[q].state
      /\ NeedsMirror(heap[Top.obj].name) => heap'[q].mirror = q
  BY <1>1, <1>2, LinkedClass
<1> QED BY <1>2, <1>3 DEF Mature, NeedsMirror

LEMMA ReturnsMatureKept ==
  ASSUME IInv, IInv', ReturnsMature, [Next]_vars
  PROVE  ReturnsMature'
<1>1. depth \in Nat /\ depth' \in Nat
  BY DepthFacts DEF IInv, TypeOK
<1>2. ASSUME Resuming', ret' # 0, Pending(depth)' \in FileClasses, NEW q, q = ret'
      PROVE  Mature(q)'
  <2>1. CASE LoaderStep /\ depth' >= depth
    BY <1>2, <2>1, GoingOn
  <2>2. CASE LoaderStep /\ depth' < depth
    <3>1. PICK r, e : Return(r, e)
      BY <2>2, Returns
    <3>2. Pending(depth)' = Top.name
      BY <2>2, <3>1, ReturnAnswers
    <3>3. CASE ReturnsFound
      <4>1. ret' = table'[Top.name] /\ Top.name \in FileClasses
        BY <1>2, <3>2, <3>3 DEF ReturnsFound
      <4> PICK n : n = Top.name
        OBVIOUS
      <4>2. EntryOK(n)' /\ q = table'[n] /\ n \in FileClasses
        BY <1>2, <4>1 DEF IInv, TableOK, FileClasses, Names
      <4>3. q \in Allocated' /\ heap'[q].name = n /\ Complete(q)'
        BY <4>2 DEF EntryOK
      <4> QED BY <4>3 DEF Complete, Mature
    <3>4. CASE ReturnsNull
      BY <1>2, <3>4 DEF ReturnsNull
    <3>5. CASE ReturnsLinked
      BY <1>2, <2>2, <3>5, LinkedMature
    <3> QED BY <2>2, <3>3, <3>4, <3>5, Returns
  <2>3. CASE ~LoaderStep /\ UNCHANGED <<stack, depth, ret, exc>>
    <3>1. Resuming /\ Pending(depth)' = Pending(depth)
      BY <1>2, <2>3, OutsidePending
    <3>2. Mature(ret)
      BY <1>2, <2>3, <3>1 DEF ReturnsMature
    <3>3. q = ret
      BY <1>2, <2>3
    <3>4. Mature(q)
      BY <3>2, <3>3
    <3> QED BY <3>4, StaysMature
  <2>4. CASE \E n, x : Ask(n, x)
    <3>1. depth' = 1 /\ \E n : Top' = FrameAt(n, "search", 0)
      BY <1>1, <2>4, AfterAsking DEF Top, IInv
    <3>2. Top'.pc = "search"
      BY <3>1 DEF FrameAt
    <3> QED BY <1>2, <3>1, <3>2 DEF Resuming, Waiting
  <2> QED BY <1>1, <2>1, <2>2, <2>3, <2>4, OutsideSteps
<1>3. ASSUME NEW a \in answers', a.class # 0, a.name \in FileClasses
      PROVE  Mature(a.class)' /\ heap'[a.class].name = a.name
  <2>1. Mature(a.class) /\ heap[a.class].name = a.name
    <3>1. CASE a \in answers
      BY <1>3, <3>1 DEF ReturnsMature
    <3>2. CASE depth = 0 /\ Resuming /\ a.name = asked /\ a.class = ret
      BY <1>3, <3>2 DEF ReturnsMature, Pending, IInv, ResultOK
    <3> QED BY <3>1, <3>2, AnswersRecorded
  <2> QED BY <2>1, StaysMature
<1>4. Resuming' /\ ret' # 0 /\ Pending(depth)' \in FileClasses => Mature(ret)'
  BY <1>2 DEF Mature
<1> QED BY <1>3, <1>4 DEF ReturnsMature

(* What load_class returns for the name of a class file is a class of that *)
(* name that is loaded and has a java.lang.Class object of its own, and it *)
(* stays so: nobody who keeps the pointer sees another class behind it.    *)
THEOREM AnswersAreLoaded == Spec => []AnswersLoaded
<1>1. Init => ReturnsMature
  BY DEF Init, ReturnsMature, Resuming
<1>2. IInv /\ IInv' /\ ReturnsMature /\ [Next]_vars => ReturnsMature'
  BY ReturnsMatureKept
<1>3. ReturnsMature => AnswersLoaded
  BY DEF ReturnsMature, AnswersLoaded, Mature
<1> QED BY <1>1, <1>2, <1>3, Invariance, PTL DEF Spec

-----------------------------------------------------------------------------
(* One class for each name, on class paths that give each name one file or *)
(* have no cycle.                                                            *)

LEMMA ReturnsBoundKept ==
  ASSUME IInv, IInv', NamesUnbound, NoneLoading, StartOK, ReturnsBound, [Next]_vars
  PROVE  ReturnsBound'
<1> SUFFICES ASSUME Resuming', NEW n, n = Pending(depth)'
             PROVE  /\ ret' = 0 => table'[n] = 0
                    /\ ret' # 0 /\ n \in ClassNames => ret' = table'[n]
  BY DEF ReturnsBound
<1>1. depth \in Nat /\ depth' \in Nat /\ TypeOK /\ table \in [Names -> 0..MaxObjects]
  BY DepthFacts, BoundsAssumption DEF IInv, TypeOK
<1>2. CASE LoaderStep /\ depth' >= depth
  BY <1>2, GoingOn
<1>3. CASE LoaderStep /\ depth' < depth
  <2>1. PICK r, e : Return(r, e)
    BY <1>3, Returns
  <2>2. n = Top.name
    BY <1>3, <2>1, ReturnAnswers
  <2>3. /\ depth > 0 /\ depth \in 1..depth /\ Top = stack[depth] /\ n \in Names
        /\ Incomplete(Top) => table[n] = 0
    <3>1. depth > 0 /\ depth \in 1..depth /\ Top = stack[depth]
      BY <1>1, <1>3 DEF LoaderStep, Top
    <3>2. Top.name \in Names
      BY <3>1, TopFacts DEF IInv
    <3> QED BY <2>2, <3>1, <3>2 DEF NamesUnbound
  <2>4. CASE ReturnsFound
    <3>1. "LoadingSupers" \notin heap[table[n]].state
      BY <2>2, <2>3, <2>4 DEF ReturnsFound, NoneLoading
    <3> QED BY <2>2, <2>4, <3>1 DEF ReturnsFound
  <2>5. CASE ReturnsNull
    BY <2>2, <2>3, <2>5 DEF ReturnsNull
  <2>6. CASE ReturnsLinked
    <3>1. n \in ClassNames => table[n] = 0
      BY <2>2, <2>3, <2>6 DEF ReturnsLinked, Incomplete, Building
    <3>2. ret' # 0 /\ table' = Insert(table, ret', n)
      BY <2>2, <2>6 DEF ReturnsLinked
    <3>3. n \in ClassNames => ret' = table'[n]
      BY <1>1, <2>3, <3>1, <3>2 DEF Insert
    <3> QED BY <3>2, <3>3
  <2> QED BY <1>3, <2>4, <2>5, <2>6, Returns
<1>4. CASE ~LoaderStep /\ UNCHANGED <<stack, depth, ret, exc>>
  <2>1. Resuming /\ n = Pending(depth)
    BY <1>4, OutsidePending
  <2>2. table' = table
    <3>1. CASE depth > 0
      BY <1>4, <3>1, OutsideSteps
    <3>2. CASE depth = 0 /\ ~PreloadPrimitive
      BY <1>4, <3>2 DEF Next, vars, loaderVars, LoaderCrash, RunStep, Request, RequestDone, Ask,
         BootStep, PreloadClass, ClassPreloaded, PrimitivesDone, LoadGlobal, GlobalLoaded,
         BootDone
    <3>3. CASE depth = 0 /\ PreloadPrimitive
      BY <2>1, <3>3 DEF PreloadPrimitive, StartOK, Resuming
    <3> QED BY <1>1, <3>1, <3>2, <3>3
  <2> QED BY <1>4, <2>1, <2>2 DEF ReturnsBound
<1>5. CASE \E m, x : Ask(m, x)
  <2>1. depth' = 1 /\ \E m : Top' = FrameAt(m, "search", 0)
    BY <1>1, <1>5, AfterAsking DEF Top
  <2>2. Top'.pc = "search"
    BY <2>1 DEF FrameAt
  <2> QED BY <2>1, <2>2 DEF Resuming, Waiting
<1> QED BY <1>1, <1>2, <1>3, <1>4, <1>5, OutsideSteps

LEMMA UniqueClasses ==
  ASSUME \A path \in Disks : Determined(path)
  PROVE  Spec => []OneClassPerName
<1>1. Init => OneClassPerName
  <2> SUFFICES ASSUME Init PROVE OneClassPerName
    OBVIOUS
  <2>1. depth = 0 /\ 1..depth = {} /\ next = 1 /\ asked = NoName
    BY DEF Init
  <2>2. Allocated = {} /\ ~Resuming
    BY <2>1 DEF Allocated, Resuming
  <2> QED BY <2>1, <2>2 DEF OneClassPerName, StackDescends, FirstReadable, NamesUnbound,
                           StoredBound, ReturnsBound
<1>2. IInv /\ IInv' /\ NoneLoading /\ StartOK /\ OneClassPerName /\ [Next]_vars => OneClassPerName'
  <2> SUFFICES ASSUME IInv, IInv', NoneLoading, StartOK, OneClassPerName, [Next]_vars
               PROVE  OneClassPerName'
    OBVIOUS
  <2>1. Determined(disk)
    BY DEF IInv, TypeOK
  <2>2. StackDescends' /\ FirstReadable' /\ StoredBound' /\ ReturnsBound'
    BY DescentKept, FirstReadableKept, StoredBoundKept, ReturnsBoundKept DEF OneClassPerName
  <2>3. NamesUnbound'
    BY <2>1, NamesUnboundKept DEF OneClassPerName
  <2> QED BY <2>2, <2>3 DEF OneClassPerName
<1> QED BY <1>1, <1>2, Invariance, NeverLoading, StartInvariant, PTL DEF Spec

(* On a class path that gives each name one file, or that has no cycle, a  *)
(* class from a class file is in the table only fully loaded, and its      *)
(* superclass and superinterfaces are the very classes the table binds the *)
(* names in its file to (load_class_supers, then class_table_insert).       *)
THEOREM PublishedAreLinked ==
  ASSUME \A path \in Disks : Determined(path)
  PROVE  Spec => []PublishedLinked
<1>1. ASSUME IInv, OneClassPerName
      PROVE  PublishedLinked
  <2> SUFFICES ASSUME NEW n \in FileClasses, table[n] # 0
               PROVE  LET r == table[n]  c == heap[r]  file == FileOf(r)
                      IN /\ c.name = n
                         /\ c.state = {"Prepared", "Loaded"} /\ c.package /\ ~c.freed
                         /\ c.super = IF file.super = NoName THEN 0 ELSE table[file.super]
                         /\ c.super = 0 => n = ObjectName
                         /\ Len(c.intfs) = Len(file.intfs)
                         /\ \A i \in 1..Len(file.intfs) :
                              c.intfs[i] = table[file.intfs[i]] /\ c.intfs[i] # 0
    BY DEF PublishedLinked
  <2> PICK r : r = table[n]
    OBVIOUS
  <2> PICK file : file = FileOf(r)
    OBVIOUS
  <2>1. n \in Names /\ n \in ClassNames
    BY DEF FileClasses, Names
  <2>2. EntryOK(n) /\ r \in Allocated /\ 0 \notin Allocated
    BY <1>1, <2>1, AllocatedRefs DEF IInv, TableOK, EntryOK
  <2>3. heap[r].name = n /\ Complete(r)
    BY <2>2 DEF EntryOK
  <2>4. SupersIn(r) /\ heap[r].dir # 0 /\ Len(heap[r].intfs) = Len(file.intfs)
    BY <2>3, BoundsAssumption DEF Complete, Dirs
  <2>5. SupersBound(r)
    BY <1>1, <2>1, <2>2, <2>3, <2>4 DEF OneClassPerName, StoredBound
  <2>6. /\ heap[r].super = IF file.super = NoName THEN 0 ELSE table[file.super]
        /\ heap[r].super = 0 => n = ObjectName
    BY <2>2, <2>3, <2>4, <2>5 DEF SupersIn, SupersBound
  <2>7. \A i \in 1..Len(file.intfs) : heap[r].intfs[i] = table[file.intfs[i]] /\ heap[r].intfs[i] # 0
    <3>1. ObjectOK(r)
      BY <1>1, <2>2 DEF IInv, HeapOK
    <3> QED BY <2>2, <2>4, <2>5, <3>1 DEF ObjectOK, IsPrepared, SupersBound
  <2> QED BY <2>3, <2>4, <2>6, <2>7 DEF Complete
<1> QED BY <1>1, Invariance, UniqueClasses, PTL

(* A NULL that comes without an error is that of an element type whose     *)
(* class was never made.                                                    *)
LEMMA NullsKept ==
  ASSUME IInv, IInv', NoneLoading, StartOK, NullsReported, [Next]_vars
  PROVE  NullsReported'
<1> DEFINE Started == phase = "preload" \/ SlotsFilled
<1> SUFFICES ASSUME Started', Resuming', ret' = 0
             PROVE  exc' \in Failing
  BY DEF NullsReported
<1>1. depth \in Nat /\ depth' \in Nat /\ TypeOK
  BY DepthFacts, BoundsAssumption DEF IInv, TypeOK
<1>2. CASE LoaderStep /\ depth' >= depth
  BY <1>2, GoingOn
<1>3. CASE LoaderStep /\ depth' < depth
  <2>1. Started /\ depth > 0 /\ depth \in 1..depth /\ Top = stack[depth]
    BY <1>1, <1>3 DEF LoaderStep, mainVars, SlotsFilled, Top
  <2>2. Top.name \in Names /\ FrameOK(Top)
    BY <2>1, TopFacts DEF IInv
  <2>3. CASE ReturnsFound
    BY <2>2, <2>3 DEF ReturnsFound, NoneLoading
  <2>4. CASE ReturnsNull
    <3>1. CASE Top.pc \in Waiting /\ ret = 0 /\ exc' = exc
      BY <2>1, <3>1 DEF NullsReported, Resuming
    <3>2. CASE PrimitiveElement /\ primSlot[ElemName[Top.name]] = 0
      <4>1. Top.name \in ArrayNames /\ ElemName[Top.name] \in PrimNames
        BY <3>2 DEF PrimitiveElement
      <4>2. ~SlotsFilled
        BY <3>2, <4>1 DEF SlotsFilled, SlotsNeeded
      <4>3. phase # "preload"
        BY <2>1, <4>1, NamesAssumption DEF IInv, MainOK
      <4> QED BY <2>1, <4>2, <4>3
    <3> QED BY <2>4, <3>1, <3>2 DEF ReturnsNull, Failing, Errors
  <2>5. CASE ReturnsLinked
    BY <2>5 DEF ReturnsLinked
  <2> QED BY <1>3, <2>3, <2>4, <2>5, Returns
<1>4. CASE ~LoaderStep /\ UNCHANGED <<stack, depth, ret, exc>>
  <2>1. Resuming
    BY <1>4, OutsidePending
  <2>2. ~PreloadPrimitive
    BY <2>1 DEF PreloadPrimitive, StartOK, Resuming, IInv, MainOK
  <2>3. primSlot' = primSlot /\ (phase' = "preload" => phase = "preload")
    BY <1>4, <2>2 DEF Next, vars, mainVars, LoaderCrash, LinkWithoutClassClass,
       ShortElement, StackOverflow, Crash, RunStep, Request, RequestDone, BootStep, PreloadClass,
       ClassPreloaded, PrimitivesDone, LoadGlobal, GlobalLoaded, BootDone
  <2>4. Started
    BY <2>3 DEF SlotsFilled
  <2> QED BY <1>4, <2>1, <2>4 DEF NullsReported
<1>5. CASE \E m, x : Ask(m, x)
  <2>1. depth' = 1 /\ \E m : Top' = FrameAt(m, "search", 0)
    BY <1>1, <1>5, AfterAsking DEF Top
  <2>2. Top'.pc = "search"
    BY <2>1 DEF FrameAt
  <2> QED BY <2>1, <2>2 DEF Resuming, Waiting
<1> QED BY <1>1, <1>2, <1>3, <1>4, <1>5, OutsideSteps

(* On such a class path, and when preload_primitive_class makes every      *)
(* element type, a request that returns NULL has an error in exc, although *)
(* load_class does not reset it and its callers leave it uninitialised, and *)
(* what failed is not in the table.  preload_class, which looks at exc     *)
(* alone, finds OK there exactly when it gets a class.  A VM that runs     *)
(* although preload_class has failed has no element types: there a request *)
(* for an array of a primitive type returns NULL with exc as it was, so    *)
(* that one case is excepted.                                               *)
THEOREM FailuresLeaveNoTrace ==
  ASSUME \A path \in Disks : Determined(path), BootCovers
  PROVE  Spec => []((phase = "run" => global[ClassName] # 0) => FailureLeavesNoTrace)
<1>1. Init => NullsReported
  BY DEF Init, NullsReported, Resuming
<1>2. IInv /\ IInv' /\ NoneLoading /\ StartOK /\ NullsReported /\ [Next]_vars => NullsReported'
  BY NullsKept
<1>3. ASSUME IInv, ErrorsOK, StartOK, NullsReported, OneClassPerName,
             phase = "run" => global[ClassName] # 0
      PROVE  FailureLeavesNoTrace
  <2> SUFFICES ASSUME depth = 0, asked # NoName
               PROVE  /\ ret = 0 => exc \in Failing /\ table[asked] = 0
                      /\ phase = "preload" => (exc = "OK" <=> ret # 0)
    BY DEF FailureLeavesNoTrace
  <2>1. Resuming /\ Pending(depth) = asked
    BY DEF Resuming, Pending
  <2>2. ret = 0 => table[asked] = 0
    BY <1>3, <2>1 DEF OneClassPerName, ReturnsBound
  <2>3. phase = "preload" /\ exc # "OK" => ret = 0
    BY <1>3 DEF ErrorsOK
  <2>4. phase \in {"preload", "globals", "run"}
    BY <1>3, DepthFacts DEF IInv, TypeOK, Phases, StartOK
  <2>5. phase = "preload" \/ SlotsFilled
    BY <1>3, <2>4 DEF StartOK
  <2>6. ret = 0 => exc \in Failing
    BY <1>3, <2>1, <2>5 DEF NullsReported
  <2> QED BY <2>2, <2>3, <2>6 DEF Failing
<1> QED BY <1>1, <1>2, <1>3, Invariance, UniqueClasses, ErrorsReported, NeverLoading,
           StartInvariant, PTL DEF Spec

(* Where the hierarchy of the class path has no cycle, no class is being   *)
(* built twice at the same time: load_class never calls itself, through    *)
(* any number of calls, for a name it is loading.  (With a cycle it does.) *)
THEOREM NoCycleNoReentrance ==
  ASSUME \A path \in Disks : Acyclic(path)
  PROVE  Spec => []NoReentrantLoad
<1>1. \A path \in Disks : Determined(path)
  BY DEF Determined
<1>2. ASSUME IInv, OneClassPerName
      PROVE  NoReentrantLoad
  <2>1. PICK rank \in [Names -> Nat] : Descends(disk, rank)
    BY <1>2 DEF IInv, TypeOK, Acyclic
  <2>2. \A d, e \in 1..depth : d < e => rank[stack[e].name] < rank[stack[d].name]
    BY <1>2, <2>1 DEF OneClassPerName, StackDescends
  <2>3. \A d \in 1..depth : rank[stack[d].name] \in Nat /\ d \in Nat
    BY <1>2, <2>1 DEF IInv, FramesOK, FrameOK, Names
  <2> QED BY <2>2, <2>3 DEF NoReentrantLoad
<1> QED BY <1>1, <1>2, Invariance, UniqueClasses, PTL

-----------------------------------------------------------------------------
(* Only classes that cannot be loaded are refused.                          *)

LEMMA BadFileGrows ==
  ASSUME NEW file, NEW n, NEW bad, NEW more, bad \subseteq more, BadFile(file, n, bad)
  PROVE  BadFile(file, n, more)
  BY DEF BadFile

(* The rejected classes are the largest set of classes that are bad.       *)
LEMMA RejectedIsLargest ==
  ASSUME NEW n \in FileClasses, \A d \in Dirs : BadFile(disk[d][n], n, Rejected)
  PROVE  n \in Rejected
<1> DEFINE more == Rejected \union {n}
<1>1. Rejected \subseteq FileClasses
  BY DEF Rejected
<1>2. ASSUME NEW m \in Rejected, NEW d \in Dirs
      PROVE  BadFile(disk[d][m], m, Rejected)
  <2>1. PICK bad \in SUBSET FileClasses : AllBad(bad) /\ m \in bad
    BY <1>2 DEF Rejected
  <2>2. bad \subseteq Rejected /\ BadFile(disk[d][m], m, bad)
    BY <2>1 DEF Rejected, AllBad
  <2> QED BY <2>2, BadFileGrows
<1>3. Rejected \subseteq more /\ more \in SUBSET FileClasses /\ n \in more
  BY <1>1
<1>4. AllBad(more)
  <2> SUFFICES ASSUME NEW m \in more, NEW d \in Dirs
               PROVE  BadFile(disk[d][m], m, more)
    BY DEF AllBad
  <2>1. BadFile(disk[d][m], m, Rejected)
    BY <1>2
  <2> QED BY <1>3, <2>1, BadFileGrows
<1> HIDE DEF more
<1> QED BY <1>3, <1>4 DEF Rejected

(* NULL for the class of a file says that the class is rejected.           *)
RefusedRejected ==
    Resuming /\ ret = 0 /\ Pending(depth) \in FileClasses => Pending(depth) \in Rejected

(* A class is refused for what its own file says, or for what became of a  *)
(* super.                                                                    *)
LEMMA RefusedIsBad ==
  ASSUME NDirs = 1, Faulty = {}, ClassNames \intersect PrimNames = {},
         IInv, NoneLoading, RefusedRejected, LoaderStep, depth' < depth, ret' = 0,
         Top.name \in FileClasses
  PROVE  BadFile(disk[1][Top.name], Top.name, Rejected)
<1> DEFINE n == Top.name  file == disk[1][n]
<1>1. /\ TypeOK /\ FramesOK /\ depth > 0 /\ depth \in Nat /\ FrameOK(Top)
      /\ depth \in 1..depth /\ Top = stack[depth]
  BY DepthFacts, TopFacts DEF IInv, LoaderStep, Top
<1>2. /\ \A pc, obj : ~Goto(pc, obj)
      /\ \A m, pc, obj : ~Call(m, pc, obj)
  BY <1>1 DEF Goto, Call
<1>3. /\ \A r, e : Return(r, e) => r = 0
      /\ 1 \in Dirs /\ \A d \in Dirs : d = 1
  BY DEF Return, Dirs
<1>4. FileClasses = ClassNames /\ n \in ClassNames /\ n \notin ArrayNames
  BY NamesAssumption DEF FileClasses
<1>5. ASSUME Top.pc \in Building
      PROVE  /\ BuildOK(Top) /\ FileOf(Top.obj) = file /\ file \in ClassFile
             /\ heap[Top.obj].intfs \in Seq(0..MaxObjects) /\ file.kind = "class"
  <2>1. BuildOK(Top) /\ heap[Top.obj].name = n /\ Top.obj \in Ref
    BY <1>1, <1>4, <1>5, TopFacts DEF IInv, BuildsOK, FrameOK
  <2>2. FileOf(Top.obj) \in ClassFile /\ heap[Top.obj].dir = 1
    BY <1>1, <1>3, <1>4, <2>1, FileType DEF BuildOK
  <2>3. heap[Top.obj] \in ClassObject
    BY <1>1, <2>1 DEF TypeOK
  <2>4. FileOf(Top.obj) = file
    BY <2>1, <2>2 DEF FileOf
  <2> QED BY <2>1, <2>2, <2>3, <2>4 DEF ClassObject, BuildOK
<1>6. CASE Found
  <2>1. "LoadingSupers" \notin heap[table[n]].state
    BY <1>1, <1>6, TopFacts DEF Found, NoneLoading
  <2> QED BY <1>3, <1>6, <2>1 DEF Found
<1>7. CASE MediaFails
  <2>1. n = EmptyName \/ Readable(Dirs, n) = {}
    BY <1>7 DEF MediaFails
  <2>2. n = EmptyName \/ file.kind # "class"
    BY <1>3, <2>1 DEF Readable
  <2> QED BY <2>2 DEF BadFile
<1>8. CASE MediaFinds
  <2>1. PICK dir \in Readable(Dirs, n) : disk[dir][n].super = NoName /\ n # ObjectName
    BY <1>2, <1>8 DEF MediaFinds
  <2>2. dir = 1
    BY <1>3 DEF Readable
  <2> QED BY <2>1, <2>2 DEF BadFile
<1>9. CASE SuperLoaded
  <2>1. /\ BuildOK(Top) /\ FileOf(Top.obj) = file /\ file \in ClassFile
        /\ Top.pc = "super" /\ file.super # NoName
    BY <1>5, <1>9 DEF SuperLoaded, Building, BuildOK
  <2>2. Resuming /\ Pending(depth) = file.super /\ file.super \in FileClasses
    BY <1>1, <1>4, <2>1 DEF Resuming, Waiting, Pending, Wanted, ClassFile
  <2>3. CASE ret = 0
    BY <2>2, <2>3 DEF RefusedRejected, BadFile
  <2>4. CASE ret # 0
    <3>1. IsInterface(ret) \/ IsFinal(ret)
      BY <1>2, <1>9, <2>4 DEF SuperLoaded
    <3>2. ret \in Allocated /\ heap[ret].name = file.super
      BY <2>2, <2>4 DEF IInv, ResultOK
    <3>3. heap[ret].dir = 1
      BY <1>3, <2>2, <3>2 DEF IInv, HeapOK, ObjectOK
    <3>4. disk[1][file.super].isInterface \/ disk[1][file.super].isFinal
      BY <3>1, <3>2, <3>3 DEF IsInterface, IsFinal, FileOf
    <3> QED BY <1>3, <2>2, <3>4 DEF BadFile
  <2> QED BY <2>3, <2>4
<1>10. CASE InterfaceLoaded
  <2>1. /\ FileOf(Top.obj) = file /\ Top.pc = "intf" /\ file.intfs \in Seq(ClassNames)
        /\ heap[Top.obj].intfs \in Seq(0..MaxObjects)
        /\ Len(heap[Top.obj].intfs) < Len(file.intfs) /\ ret = 0
    BY <1>2, <1>5, <1>10 DEF InterfaceLoaded, Building, BuildOK, ClassFile
  <2> PICK i : i = Len(heap[Top.obj].intfs) + 1
    OBVIOUS
  <2>2. i \in 1..Len(file.intfs) /\ file.intfs[i] \in ClassNames
    BY <2>1
  <2>3. Resuming /\ Pending(depth) = file.intfs[i]
    BY <1>1, <2>1 DEF Resuming, Waiting, Pending, Wanted
  <2>4. file.intfs[i] \in Rejected
    BY <1>4, <2>1, <2>2, <2>3 DEF RefusedRejected
  <2> QED BY <2>2, <2>4 DEF BadFile
<1>11. CASE PrepareFails
  <2>1. ~file.typesOk
    BY <1>5, <1>11 DEF PrepareFails, Building
  <2> QED BY <2>1 DEF BadFile
<1>12. ~LinkInterface /\ ~LinkClass
  <2>1. Top.pc = "link" => Top.obj # 0
    BY <1>1, TopFacts DEF Building, Ref
  <2>2. next \in Ref => next # 0
    BY BoundsAssumption DEF Ref
  <2> QED BY <1>3, <2>1, <2>2 DEF LinkInterface, LinkClass, CanLink
<1>13. ~LoadElement /\ ~ElementLoaded /\ ~PrimitiveElement /\ ~LoadInterface /\ ~SupersLoaded
  BY <1>1, <1>2, <1>4 DEF LoadElement, ElementLoaded, PrimitiveElement, LoadInterface,
     SupersLoaded, FrameOK
<1> QED BY <1>6, <1>7, <1>8, <1>9, <1>10, <1>11, <1>12, <1>13 DEF LoaderStep

LEMMA RefusedRejectedKept ==
  ASSUME NDirs = 1, Faulty = {}, ClassNames \intersect PrimNames = {},
         IInv, IInv', NoneLoading, RefusedRejected, [Next]_vars
  PROVE  RefusedRejected'
<1>1. depth \in Nat /\ depth' \in Nat /\ disk' = disk
  BY DepthFacts, BoundsAssumption DEF IInv, TypeOK, Next, vars
<1>2. Rejected' = Rejected
  BY <1>1 DEF Rejected, AllBad, BadFile
<1> SUFFICES ASSUME Resuming', ret' = 0, NEW n \in FileClasses, n = Pending(depth)'
             PROVE  n \in Rejected
  BY <1>2 DEF RefusedRejected
<1>3. CASE LoaderStep /\ depth' >= depth
  BY <1>3, GoingOn
<1>4. CASE LoaderStep /\ depth' < depth
  <2>1. n = Top.name
    BY <1>4, Returns, ReturnAnswers
  <2>2. BadFile(disk[1][n], n, Rejected)
    BY <1>4, <2>1, RefusedIsBad
  <2>3. \A d \in Dirs : d = 1
    BY DEF Dirs
  <2> QED BY <2>2, <2>3, RejectedIsLargest
<1>5. CASE ~LoaderStep /\ UNCHANGED <<stack, depth, ret, exc>>
  BY <1>5, OutsidePending DEF RefusedRejected
<1>6. CASE \E m, x : Ask(m, x)
  <2>1. depth' = 1 /\ \E m : Top' = FrameAt(m, "search", 0)
    BY <1>1, <1>6, AfterAsking DEF Top, IInv
  <2>2. Top'.pc = "search"
    BY <2>1 DEF FrameAt
  <2> QED BY <2>1, <2>2 DEF Resuming, Waiting
<1> QED BY <1>1, <1>3, <1>4, <1>5, <1>6, OutsideSteps

(* With one directory on the class path, and one that can always be read,  *)
(* load_class refuses a class only when its own file, or a file above it,  *)
(* makes it impossible to load: no order of requests, no earlier failure   *)
(* and no half-finished load makes it refuse another.  (With a second      *)
(* directory what is refused depends on which of them can be read.)        *)
THEOREM OnlyRejectedAreRefused ==
  ASSUME NDirs = 1, Faulty = {}, ClassNames \intersect PrimNames = {}
  PROVE  Spec => []OnlyRejectedRefused
<1>1. Init => RefusedRejected
  BY DEF Init, RefusedRejected, Resuming
<1>2. IInv /\ IInv' /\ NoneLoading /\ RefusedRejected /\ [Next]_vars => RefusedRejected'
  BY RefusedRejectedKept
<1>3. RefusedRejected => OnlyRejectedRefused
  <2>1. NoName \notin FileClasses
    BY NamesAssumption DEF FileClasses, Names
  <2> QED BY <2>1 DEF RefusedRejected, OnlyRejectedRefused, Resuming, Pending
<1> QED BY <1>1, <1>2, <1>3, Invariance, NeverLoading, PTL DEF Spec

-----------------------------------------------------------------------------
(* The loader implements the registry.                                      *)

(* The names of the direct supers of the class at r in the heap h, and the *)
(* supers that the table t gives the registry.                              *)
SupersOf(h, r) ==
    {h[s].name : s \in ({h[r].super} \union {h[r].intfs[i] : i \in 1..Len(h[r].intfs)}) \ {0}}

RegisteredSupers(h, t) ==
    [n \in FileClasses |-> IF t[n] = 0 THEN {} ELSE FileClasses \intersect SupersOf(h, t[n])]

LEMMA RegistrySupers ==
  /\ [n \in FileClasses |-> IF table[n] = 0 THEN {}
                            ELSE FileClasses \intersect DirectSupers(heap[table[n]])]
       = RegisteredSupers(heap, table)
  /\ [n \in FileClasses |-> IF table[n] = 0 THEN {}
                            ELSE FileClasses \intersect DirectSupers(heap[table[n]])]'
       = RegisteredSupers(heap', table')
  BY DEF RegisteredSupers, SupersOf, DirectSupers

(* A published class keeps the supers it has, and they keep their names.   *)
LEMMA PublishedSupersStay ==
  ASSUME IInv, [Next]_vars, NEW n \in FileClasses, table[n] # 0
  PROVE  SupersOf(heap', table[n]) = SupersOf(heap, table[n])
<1> PICK r : r = table[n]
  OBVIOUS
<1>1. r \in Allocated /\ heap[r].name = n /\ ObjectOK(r)
  BY DEF IInv, TableOK, EntryOK, FileClasses, Names, HeapOK
<1>2. ~Mine(r)
  <2> SUFFICES ASSUME Mine(r) PROVE FALSE
    OBVIOUS
  <2>1. depth > 0 /\ Top.pc \in Building /\ r = Top.obj
    BY DEF Mine
  <2>2. depth \in 1..depth /\ Top = stack[depth] /\ FrameOK(Top)
    BY <2>1, TopFacts, DepthFacts DEF IInv, Top
  <2>3. Top.name = n /\ n \in ClassNames /\ n \in Names
    BY <1>1, <2>1, <2>2 DEF FrameOK, FileClasses, Names
  <2> QED BY <2>1, <2>2, <2>3 DEF IInv, Unpublished
<1>3. heap'[r].super = heap[r].super /\ heap'[r].intfs = heap[r].intfs
  BY <1>1, <1>2, HeapGrows DEF Grown
<1>4. \A s \in ({heap[r].super} \union {heap[r].intfs[i] : i \in 1..Len(heap[r].intfs)}) \ {0} :
        heap'[s].name = heap[s].name
  <2>1. \A s \in Allocated : heap'[s].name = heap[s].name
    BY HeapGrows DEF Grown
  <2> QED BY <1>1, <2>1 DEF ObjectOK, IsPrepared
<1>5. SupersOf(heap', r) = SupersOf(heap, r)
  BY <1>3, <1>4 DEF SupersOf
<1> QED BY <1>5

(* The class of a file is bound by a link, which binds no other name.      *)
LEMMA LinkBinds ==
  ASSUME IInv, IInv', [Next]_vars, NEW n \in FileClasses, table[n] = 0, table'[n] # 0
  PROVE  /\ LoaderStep /\ Top.name = n /\ Top.pc = "link"
         /\ heap'[table'[n]].super = heap[Top.obj].super
         /\ heap'[table'[n]].intfs = heap[Top.obj].intfs
         /\ \A m \in Names : m # n => table'[m] = table[m]
<1>1. n \in Names /\ table \in [Names -> 0..MaxObjects]
  BY DEF FileClasses, Names, IInv, TypeOK
<1>2. heap'[table'[n]].state = {"Prepared", "Loaded"} /\ heap'[table'[n]].name = n
  BY <1>1 DEF IInv, TableOK, EntryOK, Complete
<1>3. /\ \A m, elem, base, r : ArrayClass(m, elem, base, r).state = {}
      /\ \A m, r : PrimitiveClass(m, r).state = {"Prepared"}
  BY DEF ArrayClass, PrimitiveClass
<1>4. LoaderStep /\ Top.pc = "link" /\ \E r : heap'[table'[n]] = Finished(heap[Top.obj], r)
  BY <1>1, <1>2, <1>3, NewEntry
<1>5. heap[Top.obj] \in ClassObject /\ FrameOK(Top)
  BY <1>4, TopFacts DEF IInv, LoaderStep, Building
<1>6. /\ heap[Top.obj].name = n /\ heap'[table'[n]].super = heap[Top.obj].super
      /\ heap'[table'[n]].intfs = heap[Top.obj].intfs
  BY <1>2, <1>4, <1>5, LinkedClass
<1>7. Top.name = n
  BY <1>4, <1>5, <1>6 DEF FrameOK, Building
<1>8. \A m \in Names : m # n => table'[m] = table[m]
  BY <1>1, TableSteps DEF Insert
<1> QED BY <1>4, <1>6, <1>7, <1>8

(* The supers of a class that is linked are bound already.                 *)
LEMMA LinkedSupers ==
  ASSUME IInv, StoredBound, LoaderStep, Top.pc = "link", Top.name \in FileClasses,
         NEW s \in ({heap[Top.obj].super}
                      \union {heap[Top.obj].intfs[i] : i \in 1..Len(heap[Top.obj].intfs)}) \ {0}
  PROVE  s \in Allocated /\ table[heap[s].name] # 0
<1> PICK c, file : c = heap[Top.obj] /\ file = FileOf(Top.obj)
  OBVIOUS
<1>1. /\ depth \in 1..depth /\ Top = stack[depth] /\ FrameOK(Top) /\ Top.pc \in Building
      /\ Top.name \in ClassNames
  BY TopFacts, DepthFacts DEF IInv, LoaderStep, Top, Building, FileClasses
<1>2. BuildOK(Top) /\ Top.obj \in Allocated /\ c.name = Top.name
  BY <1>1 DEF IInv, BuildsOK, FrameOK
<1>3. SupersIn(Top.obj) /\ c.dir # 0 /\ ObjectOK(Top.obj)
  BY <1>2, BoundsAssumption DEF BuildOK, Dirs, IInv, HeapOK
<1>4. SupersBound(Top.obj)
  BY <1>1, <1>2, <1>3 DEF StoredBound
<1>5. CASE s = c.super
  <2>1. file.super # NoName
    BY <1>3, <1>5 DEF SupersIn
  <2> QED BY <1>3, <1>5, <2>1 DEF SupersIn
<1>6. ASSUME NEW i \in 1..Len(c.intfs), s = c.intfs[i]
      PROVE  s \in Allocated /\ table[heap[s].name] # 0
  <2>1. s \in Allocated /\ s = table[file.intfs[i]] /\ s # 0
    BY <1>3, <1>4, <1>6 DEF ObjectOK, IsPrepared, SupersBound
  <2>2. file.intfs[i] \in Names
    <3>1. FileOf(Top.obj) \in ClassFile
      BY <1>1, <1>2, FileType, TopFacts DEF IInv, BuildOK, LoaderStep
    <3>2. file.intfs \in Seq(ClassNames) /\ Len(c.intfs) = Len(file.intfs)
      BY <1>1, <1>2, <3>1 DEF ClassFile, BuildOK
    <3> QED BY <1>6, <3>2 DEF Names
  <2>3. heap[s].name = file.intfs[i]
    BY <2>1, <2>2 DEF IInv, TableOK, EntryOK
  <2> QED BY <2>1, <2>3
<1> QED BY <1>5, <1>6

LEMMA BindStep ==
  ASSUME IInv, IInv', StoredBound, [Next]_vars,
         NEW n \in FileClasses, table[n] = 0, table'[n] # 0
  PROVE  Registry!RegistryNext
<1> PICK id : id = table'[n]
  OBVIOUS
<1> PICK direct : direct = FileClasses \intersect SupersOf(heap', id)
  OBVIOUS
<1>1. /\ LoaderStep /\ Top.name = n /\ Top.pc = "link"
      /\ heap'[id].super = heap[Top.obj].super /\ heap'[id].intfs = heap[Top.obj].intfs
      /\ \A m \in Names : m # n => table'[m] = table[m]
  BY LinkBinds
<1>2. FileClasses \subseteq Names /\ table' \in [Names -> 0..MaxObjects] /\ MaxObjects \in Nat
  BY BoundsAssumption DEF FileClasses, Names, IInv, TypeOK
<1>3. id \in Ref \ {0}
  BY <1>2 DEF Ref
<1>4. \A m \in FileClasses : table[m] # id
  <2> SUFFICES ASSUME NEW m \in FileClasses, table[m] = id PROVE FALSE
    OBVIOUS
  <2>1. table[m] # 0 /\ table'[m] = id /\ m \in Names /\ n \in Names
    BY <1>1, <1>2
  <2>2. heap'[id].name = m /\ heap'[id].name = n
    BY <2>1 DEF IInv, TableOK, EntryOK
  <2> QED BY <2>1, <2>2
<1>5. \A m \in direct : table[m] # 0
  <2> SUFFICES ASSUME NEW s \in ({heap[Top.obj].super}
                         \union {heap[Top.obj].intfs[i] : i \in 1..Len(heap[Top.obj].intfs)}) \ {0}
               PROVE  table[heap'[s].name] # 0
    BY <1>1 DEF SupersOf
  <2>1. s \in Allocated /\ table[heap[s].name] # 0
    BY <1>1, LinkedSupers
  <2>2. heap'[s].name = heap[s].name
    BY <2>1, HeapGrows DEF Grown
  <2> QED BY <2>1, <2>2
<1>6. RegisteredSupers(heap', table') = [RegisteredSupers(heap, table) EXCEPT ![n] = direct]
  <2>1. \A m \in FileClasses : m # n /\ table[m] # 0 =>
          SupersOf(heap', table'[m]) = SupersOf(heap, table[m])
    BY <1>1, <1>2, PublishedSupersStay
  <2> QED BY <1>1, <1>2, <2>1 DEF RegisteredSupers
<1>7. answers' = answers
  BY <1>1 DEF LoaderStep, mainVars
<1>8. Registry!Bind(n, id, direct)
  <2>1. [m \in FileClasses |-> table'[m]] = [[m \in FileClasses |-> table[m]] EXCEPT ![n] = id]
    BY <1>1, <1>2
  <2> QED BY <1>4, <1>5, <1>6, <1>7, <2>1, RegistrySupers DEF Registry!Bind
<1>9. direct \in SUBSET FileClasses
  OBVIOUS
<1> QED BY <1>3, <1>8, <1>9 DEF Registry!RegistryNext

LEMMA AnswerStep ==
  ASSUME IInv, IInv', ReturnsBound, [Next]_vars,
         \A n \in FileClasses : table'[n] = table[n]
  PROVE  [Registry!RegistryNext]_(Registry!registryVars)
<1>1. \A n \in FileClasses : table[n] # 0 =>
        SupersOf(heap', table'[n]) = SupersOf(heap, table[n])
  BY PublishedSupersStay
<1>2. /\ UNCHANGED [n \in FileClasses |-> table[n]]
      /\ UNCHANGED [n \in FileClasses |->
                      IF table[n] = 0 THEN {}
                      ELSE FileClasses \intersect DirectSupers(heap[table[n]])]
  <2>1. RegisteredSupers(heap', table') = RegisteredSupers(heap, table)
    BY <1>1 DEF RegisteredSupers
  <2> QED BY <2>1, RegistrySupers
<1>3. CASE answers' = answers
  BY <1>2, <1>3 DEF Registry!registryVars
<1>4. ASSUME NEW n, Answered(n), Record(n), n \notin FileClasses
      PROVE  UNCHANGED {[name |-> a.name, class |-> a.class] :
                          a \in {b \in answers : b.name \in FileClasses}}
  <2>1. {b \in answers' : b.name \in FileClasses} = {b \in answers : b.name \in FileClasses}
    BY <1>4 DEF Record
  <2> QED BY <2>1
<1>5. ASSUME NEW n \in FileClasses, Answered(n), Record(n)
      PROVE  Registry!Answer(n)
  <2>1. Resuming /\ Pending(depth) = n
    BY <1>5 DEF Answered, Resuming, Pending
  <2>2. ret = table[n]
    BY <2>1 DEF ReturnsBound, FileClasses
  <2>3. {b \in answers' : b.name \in FileClasses} =
          {b \in answers : b.name \in FileClasses}
            \union {[name |-> n, class |-> ret, exc |-> exc]}
    BY <1>5 DEF Record
  <2> PICK some : some = {b \in answers : b.name \in FileClasses}
    OBVIOUS
  <2>5. {[name |-> a.name, class |-> a.class] :
           a \in some \union {[name |-> n, class |-> ret, exc |-> exc]}} =
        {[name |-> a.name, class |-> a.class] : a \in some}
            \union {[name |-> n, class |-> ret]}
    <3> PICK x : x = [name |-> n, class |-> ret, exc |-> exc]
      OBVIOUS
    <3>1. [name |-> x.name, class |-> x.class] = [name |-> n, class |-> ret]
      OBVIOUS
    <3>2. {[name |-> a.name, class |-> a.class] : a \in some \union {x}} =
          {[name |-> a.name, class |-> a.class] : a \in some}
              \union {[name |-> x.name, class |-> x.class]}
      BY Zenon
    <3> QED BY <3>1, <3>2
  <2>4. {[name |-> a.name, class |-> a.class] : a \in {b \in answers' : b.name \in FileClasses}} =
          {[name |-> a.name, class |-> a.class] : a \in {b \in answers : b.name \in FileClasses}}
            \union {[name |-> n, class |-> table[n]]}
    BY <2>2, <2>3, <2>5
  <2> QED BY <1>2, <2>4 DEF Registry!Answer
<1>6. answers' = answers \/ \E n : Answered(n) /\ Record(n)
  BY DEF Next, vars, mainVars, LoaderStep, LoaderCrash, LinkWithoutClassClass, ShortElement, StackOverflow,
     Crash, RunStep, Request, RequestDone, BootStep, PreloadClass, ClassPreloaded,
     PreloadPrimitive, PrimitivesDone, LoadGlobal, GlobalLoaded, BootDone
<1> QED BY <1>2, <1>3, <1>4, <1>5, <1>6 DEF Registry!RegistryNext, Registry!registryVars

(* The loader refines the registry: each of its steps binds one name to a  *)
(* fresh class whose supers are bound, answers a request with what the     *)
(* table holds, or is a step the registry does not see.  With the theorems *)
(* about the registry: a name is never answered with two classes, and      *)
(* every climb from a published class to its supers ends.                   *)
THEOREM LoaderImplementsRegistry ==
  ASSUME \A path \in Disks : Determined(path)
  PROVE  Spec => ImplementsRegistry
<1>1. Init => Registry!RegistryInit
  <2> SUFFICES ASSUME Init PROVE Registry!RegistryInit
    OBVIOUS
  <2>1. answers = {} /\ \A n \in FileClasses : table[n] = 0
    BY DEF Init, FileClasses, Names
  <2> QED BY <2>1 DEF Registry!RegistryInit
<1>2. IInv /\ IInv' /\ OneClassPerName /\ [Next]_vars
        => [Registry!RegistryNext]_(Registry!registryVars)
  <2> SUFFICES ASSUME IInv, IInv', OneClassPerName, [Next]_vars
               PROVE  [Registry!RegistryNext]_(Registry!registryVars)
    OBVIOUS
  <2>1. CASE \E n \in FileClasses : table[n] = 0 /\ table'[n] # 0
    BY <2>1, BindStep DEF OneClassPerName
  <2>2. CASE ~\E n \in FileClasses : table[n] = 0 /\ table'[n] # 0
    <3>1. \A n \in FileClasses : table'[n] = table[n]
      BY <2>2, EntriesStay DEF FileClasses, Names
    <3> QED BY <3>1, AnswerStep DEF OneClassPerName
  <2> QED BY <2>1, <2>2
<1> QED BY <1>1, <1>2, Invariance, UniqueClasses, PTL
        DEF Spec, ImplementsRegistry, Registry!RegistrySpec

=============================================================================
