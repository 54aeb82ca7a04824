---------------------------- MODULE ClassPrepare ----------------------------
(***************************************************************************)
(* class_prepare: where the fields of a class lie in its objects and in    *)
(* its static data, which slot of the vtable a method has, and which slot  *)
(* a call through an interface finds.  The JIT compiles these numbers into *)
(* the code of every class, so those of a class must agree with those of   *)
(* its supers, which were fixed before.                                     *)
(***************************************************************************)
EXTENDS Naturals, SequencesExt

CONSTANTS
    Classes,        \* classes and interfaces
    NoClass,        \* the super_class of java/lang/Object
    NoMethod,       \* a pointer to a method that was never assigned
    Hierarchies,    \* the declarations of the classes there may be
    KlassSize       \* sizeof(korp_class), to which the vtable is collocated

(* A signature stands for a name and a descriptor; "<clinit>" is one.  A   *)
(* field size of 0 is a descriptor that typesize_string does not know.     *)
FieldDecl  == [static : BOOLEAN, ref : {FALSE}, size : {0, 1, 2, 4, 8}]
                \union [static : BOOLEAN, ref : {TRUE}, size : {4}]
MethodDecl == [sig : STRING, static : BOOLEAN, default : BOOLEAN]
ClassDecl  == [super : Classes \union {NoClass}, intfs : Seq(Classes),
               interface : BOOLEAN, abstract : BOOLEAN,
               fields : Seq(FieldDecl), methods : Seq(MethodDecl)]

(* load_class has linked no class to an interface as its superclass.       *)
ASSUME HierarchiesAssumption ==
    /\ NoClass \notin Classes
    /\ IsFiniteSet(Classes)
    /\ Hierarchies \subseteq [Classes -> ClassDecl]
    /\ \A h \in Hierarchies, c \in Classes :
          h[c].super # NoClass => ~h[h[c].super].interface

ASSUME KlassSizeAssumption == KlassSize \in Nat

ObjOverhead   == 4      \* VM_OBJ_OVERHEAD, the header
ArrayOverhead == 8      \* VM_ARRAY_OVERHEAD
RefSize       == 4      \* BYTES_OF_REF

VARIABLES
    decl,           \* what class_parse read, fixed
    prepared,       \* the classes with CS_Prepared
    failed,         \* those class_prepare answered false for
    layout,         \* what class_prepare computed for each prepared class
    crashed         \* an assertion failed, or an array was overrun

vars == <<decl, prepared, failed, layout, crashed>>

(* A class nothing was computed for. *)
Unprepared == [staticSize |-> 0, size |-> 0, refs |-> 0, field |-> <<>>,
               offset |-> <<>>, vtable |-> <<>>, intfs |-> <<>>, table |-> <<>>]

Supers(c) == {decl[c].super} \ {NoClass}
Above(c)  == IF decl[c].super = NoClass THEN Unprepared ELSE layout[decl[c].super]
Sig(m)    == decl[m.class].methods[m.index].sig

-----------------------------------------------------------------------------
(* Fields                                                                   *)

(* Mutation: the instance fields start where those of java/lang/Object do. *)
ObjectBase(c) == ObjOverhead

(* The instance fields go behind those of the superclass. *)
InstanceBase(c) == IF decl[c].super = NoClass THEN ObjOverhead ELSE Above(c).size

(* The fields that get their place before field i: the refs first. *)
PlacedBefore(fs, i) ==
    {j \in DOMAIN fs :
        /\ fs[j].static = fs[i].static
        /\ \/ fs[j].ref /\ ~fs[i].ref
           \/ fs[j].ref = fs[i].ref /\ j < i}

(* The sum of the sizes of some of the fields: the number of their bytes. *)
Bytes(fs, some)  == UNION {{j} \X (1..fs[j].size) : j \in some}
SizeOf(fs, some) == Cardinality(Bytes(fs, some))
Own(fs, static)  == {i \in DOMAIN fs : fs[i].static = static}

(* The sizes are 16-bit, the number of refs 8-bit. *)
FieldOffset(c, i) ==
    LET fs == decl[c].fields IN
    ((IF fs[i].static THEN 0 ELSE InstanceBase(c)) + SizeOf(fs, PlacedBefore(fs, i))) % 2^16

StaticSize(c) == SizeOf(decl[c].fields, Own(decl[c].fields, TRUE)) % 2^16

InstanceSize(c) ==
    IF decl[c].interface THEN 0
    ELSE (InstanceBase(c) + SizeOf(decl[c].fields, Own(decl[c].fields, FALSE))) % 2^16

InstanceRefs(c) ==
    IF decl[c].interface THEN 0
    ELSE (Above(c).refs + Cardinality({i \in Own(decl[c].fields, FALSE) : decl[c].fields[i].ref}))
           % 2^8

(* The instance fields of an interface are not looked at. *)
UnknownType(c) ==
    \E i \in DOMAIN decl[c].fields :
        decl[c].fields[i].size = 0 /\ (decl[c].fields[i].static \/ ~decl[c].interface)

-----------------------------------------------------------------------------
(* Methods                                                                  *)

InstanceMethods(c) == {i \in DOMAIN decl[c].methods : ~decl[c].methods[i].static}

(* The slots of the superclass's vtable with this signature. *)
SameSignature(c, i) ==
    {k \in DOMAIN Above(c).vtable : Sig(Above(c).vtable[k]) = decl[c].methods[i].sig}

IsDefault(m) == decl[m.class].methods[m.index].default

(* The slot of the method it overrides, or 0.  Only the first method with  *)
(* the signature is considered; if it is package-private it is not         *)
(* overridden, for the package of the class is still NULL and differs from *)
(* that of the superclass.                                                  *)
Overridden(c, i) ==
    LET ks == SameSignature(c, i)
    IN  IF ks = {} \/ IsDefault(Above(c).vtable[Min(ks)]) THEN 0 ELSE Min(ks)

(* Mutation: no method takes the slot of the one it overrides. *)
EveryMethod(c) == InstanceMethods(c)

NewMethods(c) == {i \in InstanceMethods(c) : decl[c].interface \/ Overridden(c, i) = 0}

SlotOffset(k) == KlassSize + ArrayOverhead + RefSize * (k - 1)

(* Mutation: the slots of an interface start behind the class, too. *)
SlotsBehindTheClass(c) == SlotOffset(Len(Above(c).vtable) + 1)

NewSlots(c) ==
    IF decl[c].interface THEN ArrayOverhead ELSE SlotOffset(Len(Above(c).vtable) + 1)

MethodOffset(c, i) ==
    IF decl[c].methods[i].static THEN 0
    ELSE IF i \in NewMethods(c)
    THEN NewSlots(c) + RefSize * Cardinality({j \in NewMethods(c) : j < i})
    ELSE SlotOffset(Overridden(c, i))

(* prepare_instance_vtable. *)
Vtable(c) ==
    IF decl[c].interface THEN <<>>
    ELSE [k \in 1..(Len(Above(c).vtable) + Cardinality(NewMethods(c))) |->
            LET own == {i \in InstanceMethods(c) : MethodOffset(c, i) = SlotOffset(k)}
            IN  IF own = {} THEN Above(c).vtable[k]
                ELSE [class |-> c, index |-> Max(own)]]

-----------------------------------------------------------------------------
(* Interfaces                                                               *)

(* Mutation: only the direct interfaces are collected, not those they extend. *)
DirectOnly(c) ==
    Above(c).intfs \o decl[c].intfs \o (IF decl[c].interface THEN <<c>> ELSE <<>>)
(* Those of the superclass, those of each direct interface, and itself. *)
Collected(c) ==
    Above(c).intfs
      \o FlattenSeq([i \in DOMAIN decl[c].intfs |-> layout[decl[c].intfs[i]].intfs])
      \o (IF decl[c].interface THEN <<c>> ELSE <<>>)

(* while( table[j] == table[--last] ): the entries that end the search,    *)
(* which may lie below j.                                                   *)
Differing(t, j, last) == {l \in 1..last : t[l] # t[j]}

(* One step of the two nested loops over a table of which last entries     *)
(* count: entry j is replaced if it repeats entry i, and the table ends    *)
(* before the entry it is replaced with.  When no entry differs the loop   *)
(* runs out of the array.                                                   *)
Eliminate(acc, pair) ==
    LET t == acc.table
        i == pair[1]
        j == pair[2]
    IN  IF acc.overrun \/ j > acc.last \/ i > acc.last \/ t[i] # t[j] THEN acc
        ELSE IF Differing(t, j, acc.last) = {} THEN [acc EXCEPT !.overrun = TRUE]
        ELSE LET last == Max(Differing(t, j, acc.last))
             IN  [table |-> [t EXCEPT ![j] = t[last]], last |-> last - 1, overrun |-> FALSE]

(* The loops' (i, j) in their order. *)
Pairs(n) == FlattenSeq([i \in 1..n |-> [k \in 1..(n - i) |-> <<i, i + k>>]])

Eliminated(t) ==
    FoldLeft(Eliminate, [table |-> t, last |-> Len(t), overrun |-> FALSE], Pairs(Len(t)))

InterfaceInfo(c) == LET e == Eliminated(Collected(c)) IN SubSeq(e.table, 1, e.last)

(* The first method of the vtable with the signature, or what the loop     *)
(* variable was left with.                                                  *)
FindMethod(c, v, m) ==
    LET ks == {k \in DOMAIN v : Sig(v[k]) = m.sig}
    IN  IF ks # {} THEN v[Min(ks)] ELSE IF v = <<>> THEN NoMethod ELSE v[Len(v)]

(* The entry of <clinit> is skipped. *)
InterfaceTable(c) ==
    IF decl[c].interface THEN <<>>
    ELSE LET v == Vtable(c) IN
         [i \in DOMAIN InterfaceInfo(c) |->
            LET ms == decl[InterfaceInfo(c)[i]].methods IN
            [j \in DOMAIN ms |-> IF ms[j].sig = "<clinit>" THEN NoMethod
                                 ELSE FindMethod(c, v, ms[j])]]

(* The two assertions of prepare_interface_table, and the overrun. *)
Asserts(c) ==
    /\ ~Eliminated(Collected(c)).overrun
    /\ decl[c].interface \/
       \A i \in DOMAIN InterfaceInfo(c) :
         LET k == InterfaceInfo(c)[i] IN
         \A j \in DOMAIN decl[k].methods :
           decl[k].methods[j].sig = "<clinit>" \/
             /\ \/ decl[c].abstract
                \/ \E s \in DOMAIN Vtable(c) : Sig(Vtable(c)[s]) = decl[k].methods[j].sig
             /\ j - 1 = (layout[k].offset[j] - ArrayOverhead) \div RefSize

-----------------------------------------------------------------------------
(* class_prepare                                                            *)

Layout(c) ==
    [staticSize |-> StaticSize(c),
     size   |-> InstanceSize(c),
     refs   |-> InstanceRefs(c),
     field  |-> [i \in DOMAIN decl[c].fields |->
                   IF decl[c].fields[i].static \/ ~decl[c].interface
                   THEN FieldOffset(c, i) ELSE 0],
     offset |-> [i \in DOMAIN decl[c].methods |-> MethodOffset(c, i)],
     vtable |-> Vtable(c),
     intfs  |-> InterfaceInfo(c),
     table  |-> InterfaceTable(c)]

(* load_class has prepared the superclass and the interfaces before, so    *)
(* the calls of prepare_supers return at once.                              *)
Ready(c) ==
    /\ ~crashed /\ c \notin prepared \union failed
    /\ Supers(c) \union ToSet(decl[c].intfs) \subseteq prepared

Prepare(c) ==
    /\ Ready(c) /\ ~UnknownType(c) /\ Asserts(c)
    /\ layout' = [layout EXCEPT ![c] = Layout(c)]
    /\ prepared' = prepared \union {c}
    /\ UNCHANGED <<decl, failed, crashed>>

PrepareFails(c) ==
    /\ Ready(c) /\ UnknownType(c)
    /\ failed' = failed \union {c}
    /\ UNCHANGED <<decl, prepared, layout, crashed>>

PrepareCrashes(c) ==
    /\ Ready(c) /\ ~UnknownType(c) /\ ~Asserts(c)
    /\ crashed' = TRUE
    /\ UNCHANGED <<decl, prepared, failed, layout>>

(* class_get_interface_method_offset: the offset at which a call of method *)
(* j of interface k enters the vtable of a receiver of class c.             *)
InterfaceMethodOffset(c, k, j) ==
    LET i == Min({n \in DOMAIN layout[c].intfs : layout[c].intfs[n] = k})
        m == layout[c].table[i][(layout[k].offset[j] - ArrayOverhead) \div RefSize + 1]
    IN  layout[m.class].offset[m.index]

Init ==
    /\ decl \in Hierarchies
    /\ prepared = {} /\ failed = {}
    /\ layout = [c \in Classes |-> Unprepared]
    /\ crashed = FALSE

Next == \E c \in Classes : Prepare(c) \/ PrepareFails(c) \/ PrepareCrashes(c)

Spec == Init /\ [][Next]_vars

-----------------------------------------------------------------------------
(* Properties                                                               *)

(* The superclasses of a class, itself included; its interfaces: what is    *)
(* reached from it, that is, lies in every set that leads nowhere else.     *)
ClosedUp(some) == \A d \in some : Supers(d) \subseteq some
Chain(c) ==
    {d \in Classes : \A some \in SUBSET Classes : c \in some /\ ClosedUp(some) => d \in some}

ClosedAbove(some) == \A d \in some : Supers(d) \union ToSet(decl[d].intfs) \subseteq some
AllAbove(c) ==
    {d \in Classes : \A some \in SUBSET Classes : c \in some /\ ClosedAbove(some) => d \in some}
AllInterfaces(c) == {k \in AllAbove(c) : decl[k].interface}

Method(c, i) == [class |-> c, index |-> i]
Concrete     == {c \in prepared : ~decl[c].interface /\ ~decl[c].abstract}

(* A package-private method of that signature is what prepare_methods may  *)
(* take for the overridden one.                                             *)
Hidden(c, sig) ==
    \E d \in Chain(c) : \E i \in DOMAIN decl[d].methods :
        decl[d].methods[i].sig = sig /\ decl[d].methods[i].default

(* At most one interface is collected twice, and the one collected last is *)
(* not: the lists of interfaces that the elimination of duplicates handles.*)
FewDuplicates(c) ==
    LET t == Collected(c) IN
    /\ Len(t) - Cardinality(ToSet(t)) <= 1
    /\ \A i \in 1..(Len(t) - 1) : t[i] # t[Len(t)]

(* Class files as a compiler writes them: class_parse does not check that  *)
(* the instance methods of a class differ, that an initializer is static,  *)
(* and that an interface has no other static method.                        *)
ProperFiles ==
    \A h \in Hierarchies, c \in Classes :
        LET ms == h[c].methods IN
        /\ \A i, j \in DOMAIN ms :
              ~ms[i].static /\ ~ms[j].static /\ ms[i].sig = ms[j].sig => i = j
        /\ \A i \in DOMAIN ms : ms[i].sig = "<clinit>" => ms[i].static
        /\ h[c].interface => \A i \in DOMAIN ms : ms[i].static => ms[i].sig = "<clinit>"

InitializerLast(k) ==
    \A j \in DOMAIN decl[k].methods :
        decl[k].methods[j].sig = "<clinit>" => j = Len(decl[k].methods)
Implements(c, k) ==
    decl[c].abstract \/ decl[c].interface \/
    \A j \in InstanceMethods(k) :
        \E d \in Chain(c) : \E i \in InstanceMethods(d) :
            decl[d].methods[i].sig = decl[k].methods[j].sig

TypeOK ==
    /\ decl \in Hierarchies
    /\ prepared \subseteq Classes /\ failed \subseteq Classes
    /\ \A c \in Classes :
         /\ layout[c].size \in 0..(2^16 - 1) /\ layout[c].staticSize \in 0..(2^16 - 1)
         /\ layout[c].refs \in 0..(2^8 - 1)
         /\ \A k \in DOMAIN layout[c].vtable :
              layout[c].vtable[k].index \in DOMAIN decl[layout[c].vtable[k].class].methods
         /\ ToSet(layout[c].intfs) \subseteq prepared
    /\ crashed \in BOOLEAN

(* The bytes of two instance fields of one object never overlap, whichever *)
(* classes declare them, and they lie between its header and its end: code *)
(* compiled against a superclass's layout is right for every subclass.     *)
FieldsApart ==
    \A c \in prepared : ~decl[c].interface =>
      LET all == UNION {{d} \X Own(decl[d].fields, FALSE) : d \in Chain(c)}
          from(p) == layout[p[1]].field[p[2]]
          to(p)   == from(p) + decl[p[1]].fields[p[2]].size
      IN  /\ \A p \in all : from(p) >= ObjOverhead /\ to(p) <= layout[c].size
          /\ \A p, q \in all : p # q => to(p) <= from(q) \/ to(q) <= from(p)

(* A virtual call compiled against any class of the chain runs, on a       *)
(* receiver of class c, the method of the nearest class that declares one  *)
(* with the signature: an overriding method has the slot of the one it     *)
(* overrides, and every other method one of its own.                        *)
VirtualCallsArrive ==
    \A c \in prepared : ~decl[c].interface =>
      \A d \in Chain(c) : \A i \in InstanceMethods(d) :
        LET sig  == decl[d].methods[i].sig
            slot == (layout[d].offset[i] - KlassSize - ArrayOverhead) \div RefSize + 1
            m    == layout[c].vtable[slot]
            declares(e) == \E j \in InstanceMethods(e) : decl[e].methods[j].sig = sig
        IN  ~Hidden(c, sig) =>
              /\ Sig(m) = sig
              /\ \A e \in Chain(c) : declares(e) => e \in Chain(m.class)

(* A call of a method of an interface enters the vtable of every concrete  *)
(* class that has the interface, inherited or not, at a method with that   *)
(* signature and the one a virtual call would run.                          *)
InterfaceCallsArrive ==
    \A c \in Concrete : \A k \in ToSet(layout[c].intfs) :
      \A j \in InstanceMethods(k) :
        LET sig  == decl[k].methods[j].sig
            slot == (InterfaceMethodOffset(c, k, j) - KlassSize - ArrayOverhead) \div RefSize + 1
            same == {s \in DOMAIN layout[c].vtable : Sig(layout[c].vtable[s]) = sig}
        IN  ~Hidden(c, sig) => same = {slot}

CallsArrive == VirtualCallsArrive /\ InterfaceCallsArrive

(* The table of a class lists each of its interfaces once, as long as few  *)
(* are collected twice, for it and for all that it stands on.               *)
InterfacesComplete ==
    \A c \in prepared : (\A d \in AllAbove(c) : FewDuplicates(d)) =>
      /\ ToSet(layout[c].intfs) = AllInterfaces(c)
      /\ IsInjective(layout[c].intfs)

(* The assertions hold and the table is not overrun when few interfaces    *)
(* are collected twice, concrete classes implement their interfaces, and   *)
(* the initializer of an interface is its last method.                      *)
AssertionsHold ==
    crashed => \E c \in Classes \ prepared :
                 /\ Supers(c) \union ToSet(decl[c].intfs) \subseteq prepared
                 /\ \/ ~FewDuplicates(c)
                    \/ \E k \in AllInterfaces(c) : ~Implements(c, k) \/ ~InitializerLast(k)

(* "eliminate duplicates": only the repetitions go.                         *)
AllInterfacesKept ==
    \A c \in prepared : AllInterfaces(c) \subseteq ToSet(layout[c].intfs)

=============================================================================
