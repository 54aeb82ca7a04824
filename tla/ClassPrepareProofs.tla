------------------------- MODULE ClassPrepareProofs -------------------------
(***************************************************************************)
(* Calls and fields of compiled code, for every hierarchy of classes that  *)
(* the loader lets class_prepare see: proofs about ClassPrepare.           *)
(***************************************************************************)
EXTENDS ClassPrepare, FiniteSetTheorems, TLAPS

-----------------------------------------------------------------------------
(* Declarations                                                            *)

LEMMA Declared ==
    ASSUME decl \in Hierarchies, NEW c \in Classes
    PROVE  /\ decl[c] \in ClassDecl
           /\ decl[c].super \in Classes \union {NoClass}
           /\ decl[c].intfs \in Seq(Classes)
           /\ decl[c].interface \in BOOLEAN /\ decl[c].abstract \in BOOLEAN
           /\ decl[c].fields \in Seq(FieldDecl)
           /\ decl[c].methods \in Seq(MethodDecl)
<1>1. decl \in [Classes -> ClassDecl]
  BY HierarchiesAssumption
<1>2. decl[c] \in ClassDecl
  BY <1>1
<1>3. QED
  BY <1>2 DEF ClassDecl

LEMMA SupersAreClasses ==
    ASSUME decl \in Hierarchies, NEW c \in Classes
    PROVE  /\ Supers(c) \subseteq Classes
           /\ decl[c].super = NoClass => Supers(c) = {}
           /\ decl[c].super # NoClass => /\ decl[c].super \in Classes
                                         /\ Supers(c) = {decl[c].super}
                                         /\ ~decl[decl[c].super].interface
BY Declared, HierarchiesAssumption DEF Supers

-----------------------------------------------------------------------------
(* The superclasses of a class                                             *)

LEMMA ChainHolds ==
    ASSUME decl \in Hierarchies, NEW c \in Classes
    PROVE  /\ Chain(c) \subseteq Classes /\ c \in Chain(c)
           /\ ClosedUp(Chain(c))
<1>1. Chain(c) \subseteq Classes /\ c \in Chain(c)
  BY DEF Chain
<1>2. ASSUME NEW d \in Chain(c), NEW s \in Supers(d)
      PROVE  s \in Chain(c)
  <2>1. s \in Classes
    BY <1>1, SupersAreClasses
  <2>2. ASSUME NEW some \in SUBSET Classes, c \in some, ClosedUp(some)
        PROVE  s \in some
    BY <2>2 DEF Chain, ClosedUp
  <2>3. QED
    BY <2>1, <2>2 DEF Chain
<1>3. QED
  BY <1>1, <1>2 DEF ClosedUp

LEMMA ChainLeast ==
    ASSUME NEW c \in Classes, NEW some \in SUBSET Classes, c \in some, ClosedUp(some)
    PROVE  Chain(c) \subseteq some
BY DEF Chain

LEMMA ChainStep ==
    ASSUME decl \in Hierarchies, NEW c \in Classes
    PROVE  /\ decl[c].super = NoClass => Chain(c) = {c}
           /\ decl[c].super # NoClass => Chain(c) = {c} \union Chain(decl[c].super)
<1>1. CASE decl[c].super = NoClass
  <2>1. ClosedUp({c})
    BY <1>1, SupersAreClasses DEF ClosedUp
  <2>2. QED
    BY <1>1, <2>1, ChainHolds, ChainLeast
<1>2. CASE decl[c].super # NoClass
  <2> DEFINE s == decl[c].super
  <2>1. s \in Classes /\ Supers(c) = {s}
    BY <1>2, SupersAreClasses
  <2> HIDE DEF s
  <2>2. Chain(s) \subseteq Classes /\ s \in Chain(s) /\ ClosedUp(Chain(s))
    BY <2>1, ChainHolds
  <2>3. Chain(c) \subseteq Classes /\ c \in Chain(c) /\ ClosedUp(Chain(c))
    BY ChainHolds
  <2>4. ClosedUp({c} \union Chain(s))
    BY <2>1, <2>2 DEF ClosedUp
  <2>5. Chain(c) \subseteq {c} \union Chain(s)
    BY <2>2, <2>4, ChainLeast
  <2>6. s \in Chain(c)
    BY <2>1, <2>3 DEF ClosedUp
  <2>7. Chain(s) \subseteq Chain(c)
    BY <2>1, <2>3, <2>6, ChainLeast
  <2>8. QED
    BY <1>2, <2>3, <2>5, <2>7 DEF s
<1>3. QED
  BY <1>1, <1>2

(* What class_prepare has seen above a class, if it has seen the class.    *)
LEMMA ChainPrepared ==
    ASSUME decl \in Hierarchies, prepared \subseteq Classes, ClosedUp(prepared),
           NEW c \in prepared
    PROVE  Chain(c) \subseteq prepared
BY ChainLeast

-----------------------------------------------------------------------------
(* Numbers                                                                 *)

(* Slots have offsets of their own, from which the JIT gets them back.     *)
LEMMA SlotOffsets ==
    ASSUME NEW k \in Nat \ {0}
    PROVE  /\ SlotOffset(k) \in Nat
           /\ (SlotOffset(k) - KlassSize - ArrayOverhead) \div RefSize + 1 = k
           /\ \A l \in Nat \ {0} : SlotOffset(l) = SlotOffset(k) => l = k
BY KlassSizeAssumption DEF SlotOffset, ArrayOverhead, RefSize

LEMMA LeastOf ==
    ASSUME NEW some, some \subseteq Nat, some # {}
    PROVE  Min(some) \in some /\ \A k \in some : Min(some) <= k
<1>1. \E x \in some : \A y \in some : ~(<<y, x>> \in OpToRel(<, Nat))
  BY NatLessThanWellFounded, WFMin
<1>2. PICK x \in some : \A y \in some : ~(<<y, x>> \in OpToRel(<, Nat))
  BY <1>1
<1>3. \A y \in some : ~(y < x)
  BY <1>2 DEF OpToRel
<1>4. \A y \in some : x <= y
  BY <1>3
<1>5. QED
  BY <1>4 DEF Min

LEMMA GreatestOf ==
    ASSUME NEW n \in Nat, NEW some \in SUBSET (1 .. n), some # {}
    PROVE  Max(some) \in some /\ \A k \in some : k <= Max(some)
<1> DEFINE from == {n - k : k \in some}
<1>1. from \subseteq Nat /\ from # {}
  <2>1. \A k \in some : k \in Nat /\ k <= n
    OBVIOUS
  <2>2. \A k \in some : n - k \in Nat
    BY <2>1
  <2>3. QED
    BY <2>2
<1>2. PICK k \in some : Min(from) = n - k
  BY <1>1, LeastOf
<1>3. \A l \in some : n - k <= n - l
  BY <1>1, <1>2, LeastOf
<1> HIDE DEF from
<1>4. \A l \in some : k >= l
  BY <1>3
<1>5. \E x \in some : \A y \in some : x >= y
  BY <1>4
<1>6. Max(some) \in some /\ \A y \in some : Max(some) >= y
  BY <1>5 DEF Max
<1>7. QED
  BY <1>6

LEMMA OnlyOf ==
    ASSUME NEW k \in Nat
    PROVE  Max({k}) = k /\ Min({k}) = k
BY DEF Max, Min

(* The members of a set of numbers in their order: the members before one  *)
(* number it, from 0.                                                       *)
LEMMA Ranks ==
    ASSUME NEW m \in Nat, NEW some, some \subseteq 1 .. m
    PROVE  LET rank == [i \in some |-> Cardinality({j \in some : j < i})]
           IN  /\ IsFiniteSet(some) /\ Cardinality(some) \in Nat
               /\ \A i \in some : rank[i] \in 0 .. Cardinality(some) - 1
               /\ \A i, j \in some : rank[i] = rank[j] => i = j
               /\ \A r \in 0 .. Cardinality(some) - 1 : \E i \in some : rank[i] = r
<1> DEFINE rank == [i \in some |-> Cardinality({j \in some : j < i})]
           n    == Cardinality(some)
<1>1. IsFiniteSet(some) /\ n \in Nat
  <2>1. IsFiniteSet(1 .. m)
    BY FS_Interval
  <2>2. QED
    BY <2>1, FS_Subset, FS_CardinalityType
<1>2. ASSUME NEW i \in some
      PROVE  /\ IsFiniteSet({j \in some : j < i})
             /\ rank[i] \in Nat /\ rank[i] < n
  <2> DEFINE before == {j \in some : j < i}
  <2>1. before \in SUBSET some /\ i \notin before /\ i \in Nat
    OBVIOUS
  <2>2. IsFiniteSet(before) /\ Cardinality(before) \in Nat /\ Cardinality(before) <= n
    BY <1>1, <2>1, FS_Subset, FS_CardinalityType
  <2>3. Cardinality(before) # n
    BY <1>1, <2>1, FS_Subset
  <2>4. QED
    BY <1>1, <2>2, <2>3
<1>3. ASSUME NEW i \in some, NEW j \in some, i < j
      PROVE  rank[i] < rank[j]
  <2> DEFINE before(k) == {l \in some : l < k}
  <2>1. i \in Nat /\ j \in Nat /\ some \subseteq Nat
    OBVIOUS
  <2>2. before(i) \in SUBSET before(j) /\ i \in before(j) /\ i \notin before(i)
    <3>1. \A l \in some : l < i => l < j
      BY <1>3, <2>1
    <3>2. before(i) \subseteq before(j)
      BY <3>1
    <3>3. ~(i < i)
      BY <2>1
    <3>4. QED
      BY <1>3, <3>2, <3>3
  <2>3. IsFiniteSet(before(i)) /\ IsFiniteSet(before(j))
    BY <1>2
  <2>4. /\ Cardinality(before(i)) <= Cardinality(before(j))
        /\ Cardinality(before(i)) # Cardinality(before(j))
    BY <2>2, <2>3, FS_Subset
  <2>5. rank[i] = Cardinality(before(i)) /\ rank[j] = Cardinality(before(j))
    OBVIOUS
  <2>6. rank[i] \in Nat /\ rank[j] \in Nat
    BY <1>2
  <2>7. QED
    BY <2>4, <2>5, <2>6
<1> HIDE DEF rank, n
<1>4. \A i, j \in some : rank[i] = rank[j] => i = j
  <2> SUFFICES ASSUME NEW i \in some, NEW j \in some, rank[i] = rank[j]
               PROVE  i = j
    OBVIOUS
  <2>1. i \in Nat /\ j \in Nat /\ rank[i] \in Nat /\ rank[j] \in Nat
    <3>1. some \subseteq Nat
      OBVIOUS
    <3>2. QED
      BY <1>2, <3>1
  <2>2. QED
    BY <1>3, <2>1
<1>5. \A i \in some : rank[i] \in 0 .. n - 1
  <2>1. \A i \in some : rank[i] \in Nat /\ rank[i] < n
    BY <1>2
  <2>2. QED
    BY <1>1, <2>1
<1>6. \A r \in 0 .. n - 1 : \E i \in some : rank[i] = r
  <2>1. DOMAIN rank = some /\ rank = [i \in some |-> rank[i]]
    BY DEF rank
  <2>2. rank \in [some -> 0 .. n - 1]
    BY <2>1, <1>5
  <2>3. rank \in Injection(some, 0 .. n - 1)
    BY <2>1, <2>2, <1>4 DEF Injection, IsInjective
  <2>4. IsFiniteSet(0 .. n - 1) /\ Cardinality(0 .. n - 1) = n
    BY <1>1, FS_Interval
  <2>5. rank \in Surjection(some, 0 .. n - 1)
    BY <2>3, <2>4, FS_Injection DEF n
  <2>6. QED
    BY <2>5 DEF Surjection
<1>7. QED
  BY <1>1, <1>4, <1>5, <1>6 DEF rank, n

-----------------------------------------------------------------------------
(* Methods                                                                 *)

Declares(e, sig) == \E j \in InstanceMethods(e) : decl[e].methods[j].sig = sig

(* No class has two methods with one signature, as the format of class     *)
(* files demands (class_parse does not check it).                          *)
SignaturesOnce(c) ==
    \A i, j \in InstanceMethods(c) :
        decl[c].methods[i].sig = decl[c].methods[j].sig => i = j

(* What the vtable of a class is, in terms of the layouts of its chain:    *)
(* each slot holds a method of the chain that has the slot's offset; each  *)
(* method of the chain has the offset of a slot with its signature; and    *)
(* a signature has one slot, with the method of the nearest class.         *)
Vtables == Seq([class : Classes, index : Nat])

SlotsHoldMethods(some, chain) ==
    \A k \in DOMAIN some :
        /\ some[k].class \in chain
        /\ some[k].index \in InstanceMethods(some[k].class)

SlotsHaveOffsets(L, some) ==
    \A k \in DOMAIN some : L[some[k].class].offset[some[k].index] = SlotOffset(k)

MethodsHaveSlots(L, some, chain) ==
    \A d \in chain : \A i \in InstanceMethods(d) :
        \E k \in DOMAIN some : /\ L[d].offset[i] = SlotOffset(k)
                               /\ Sig(some[k]) = decl[d].methods[i].sig

SignaturesHaveASlot(some, c) ==
    \A k, l \in DOMAIN some :
        Sig(some[k]) = Sig(some[l]) /\ ~Hidden(c, Sig(some[k])) => k = l

NearestInSlots(some, chain, c) ==
    \A k \in DOMAIN some : \A e \in chain :
        ~Hidden(c, Sig(some[k])) /\ Declares(e, Sig(some[k])) => e \in Chain(some[k].class)

VtableHolds(L, c) ==
    /\ L[c].vtable \in Vtables
    /\ SlotsHoldMethods(L[c].vtable, Chain(c))
    /\ SlotsHaveOffsets(L, L[c].vtable)
    /\ MethodsHaveSlots(L, L[c].vtable, Chain(c))
    /\ SignaturesHaveASlot(L[c].vtable, c)
    /\ NearestInSlots(L[c].vtable, Chain(c), c)

(* The same for what a class finds above it.                               *)
AboveHolds(c) ==
    LET above == Chain(c) \ {c}
        some  == Above(c).vtable
    IN  /\ some \in Vtables
        /\ SlotsHoldMethods(some, above)
        /\ SlotsHaveOffsets(layout, some)
        /\ MethodsHaveSlots(layout, some, above)
        /\ SignaturesHaveASlot(some, c)
        /\ NearestInSlots(some, above, c)

LEMMA FromAbove ==
    ASSUME decl \in Hierarchies, NEW c \in Classes,
           decl[c].super # NoClass =>
               c \notin Chain(decl[c].super) /\ VtableHolds(layout, decl[c].super)
    PROVE  AboveHolds(c)
<1>1. CASE decl[c].super = NoClass
  <2>1. Chain(c) \ {c} = {}
    BY <1>1, ChainStep
  <2>2. Above(c).vtable = << >>
    BY <1>1 DEF Above, Unprepared
  <2>3. << >> \in Vtables /\ DOMAIN << >> = {}
    BY DEF Vtables
  <2>4. QED
    BY <2>1, <2>2, <2>3
    DEF AboveHolds, SlotsHoldMethods, SlotsHaveOffsets, MethodsHaveSlots,
        SignaturesHaveASlot, NearestInSlots
<1>2. CASE decl[c].super # NoClass
  <2> DEFINE s    == decl[c].super
             some == layout[s].vtable
  <2>1. Above(c).vtable = some
    BY <1>2 DEF Above
  <2>2. Chain(c) \ {c} = Chain(s)
    BY <1>2, ChainStep
  <2>3. ASSUME NEW sig, Hidden(s, sig) PROVE Hidden(c, sig)
    BY <2>2, <2>3 DEF Hidden
  <2>4. VtableHolds(layout, s)
    BY <1>2
  <2> HIDE DEF s
  <2>5. /\ some \in Vtables
        /\ SlotsHoldMethods(some, Chain(s))
        /\ SlotsHaveOffsets(layout, some)
        /\ MethodsHaveSlots(layout, some, Chain(s))
    BY <2>4 DEF VtableHolds
  <2>6. SignaturesHaveASlot(some, c)
    BY <2>3, <2>4 DEF VtableHolds, SignaturesHaveASlot
  <2>7. NearestInSlots(some, Chain(s), c)
    BY <2>3, <2>4 DEF VtableHolds, NearestInSlots
  <2>8. QED
    BY <2>1, <2>2, <2>5, <2>6, <2>7 DEF AboveHolds
<1>3. QED
  BY <1>1, <1>2

-----------------------------------------------------------------------------
(* The slots that class_prepare gives out                                  *)

Slot(c, i) ==
    IF i \in NewMethods(c)
    THEN Len(Above(c).vtable) + 1 + Cardinality({j \in NewMethods(c) : j < i})
    ELSE Overridden(c, i)

LEMMA MethodNumbers ==
    ASSUME decl \in Hierarchies, NEW c \in Classes
    PROVE  /\ Len(decl[c].methods) \in Nat
           /\ DOMAIN decl[c].methods = 1 .. Len(decl[c].methods)
           /\ InstanceMethods(c) \subseteq 1 .. Len(decl[c].methods)
           /\ NewMethods(c) \subseteq InstanceMethods(c)
<1>1. decl[c].methods \in Seq(MethodDecl)
  BY Declared
<1>2. /\ Len(decl[c].methods) \in Nat
      /\ DOMAIN decl[c].methods = 1 .. Len(decl[c].methods)
  BY <1>1
<1>3. QED
  BY <1>2 DEF InstanceMethods, NewMethods

LEMMA AboveNumbers ==
    ASSUME NEW c, Above(c).vtable \in Vtables
    PROVE  /\ Len(Above(c).vtable) \in Nat
           /\ DOMAIN Above(c).vtable = 1 .. Len(Above(c).vtable)
BY DEF Vtables

LEMMA OverriddenSlot ==
    ASSUME decl \in Hierarchies, NEW c \in Classes, ~decl[c].interface,
           Above(c).vtable \in Vtables, NEW i \in InstanceMethods(c)
    PROVE  /\ i \in NewMethods(c) <=> Overridden(c, i) = 0
           /\ Overridden(c, i) # 0 =>
                /\ Overridden(c, i) \in DOMAIN Above(c).vtable
                /\ Sig(Above(c).vtable[Overridden(c, i)]) = decl[c].methods[i].sig
           /\ Overridden(c, i) = 0 =>
                \/ SameSignature(c, i) = {}
                \/ \E k \in SameSignature(c, i) : IsDefault(Above(c).vtable[k])
<1> DEFINE ks == SameSignature(c, i)
<1>1. i \in NewMethods(c) <=> Overridden(c, i) = 0
  BY DEF NewMethods
<1>2. /\ ks \subseteq DOMAIN Above(c).vtable
      /\ \A k \in ks : Sig(Above(c).vtable[k]) = decl[c].methods[i].sig
  BY DEF SameSignature
<1>3. ks \subseteq 1 .. Len(Above(c).vtable) /\ Len(Above(c).vtable) \in Nat
  BY <1>2, AboveNumbers
<1>4. ks # {} => Min(ks) \in ks
  BY <1>3, LeastOf
<1>5. Overridden(c, i) = IF ks = {} \/ IsDefault(Above(c).vtable[Min(ks)]) THEN 0 ELSE Min(ks)
  BY DEF Overridden
<1> HIDE DEF ks
<1>6. 0 \notin ks
  BY <1>3
<1>7. QED
  BY <1>1, <1>2, <1>4, <1>5, <1>6 DEF ks

(* A new method has a slot behind those above, any other the slot of the   *)
(* method it overrides; no slot behind those above is left over.           *)
LEMMA SlotsGiven ==
    ASSUME decl \in Hierarchies, NEW c \in Classes, ~decl[c].interface,
           Above(c).vtable \in Vtables
    PROVE  LET n   == Len(Above(c).vtable)
               new == Cardinality(NewMethods(c))
           IN  /\ new \in Nat
               /\ \A i \in NewMethods(c) : Slot(c, i) \in n + 1 .. n + new
               /\ \A i \in InstanceMethods(c) \ NewMethods(c) :
                    Slot(c, i) \in 1 .. n
                      /\ Sig(Above(c).vtable[Slot(c, i)]) = decl[c].methods[i].sig
               /\ \A i, j \in NewMethods(c) : Slot(c, i) = Slot(c, j) => i = j
               /\ \A k \in n + 1 .. n + new : \E i \in NewMethods(c) : Slot(c, i) = k
<1> DEFINE n    == Len(Above(c).vtable)
           some == NewMethods(c)
           new  == Cardinality(some)
           m    == Len(decl[c].methods)
           rank == [i \in some |-> Cardinality({j \in some : j < i})]
<1>1. n \in Nat /\ DOMAIN Above(c).vtable = 1 .. n
  BY AboveNumbers
<1>2. m \in Nat /\ some \subseteq 1 .. m
  BY MethodNumbers
<1>3. /\ new \in Nat
      /\ \A i \in some : rank[i] \in 0 .. new - 1
      /\ \A i, j \in some : rank[i] = rank[j] => i = j
      /\ \A r \in 0 .. new - 1 : \E i \in some : rank[i] = r
  <2> HIDE DEF some
  <2>1. QED
    BY <1>2, Ranks
<1>4. \A i \in some : Slot(c, i) = n + 1 + rank[i]
  BY DEF Slot
<1>5. ASSUME NEW i \in InstanceMethods(c) \ some
      PROVE  /\ Slot(c, i) \in 1 .. n
             /\ Sig(Above(c).vtable[Slot(c, i)]) = decl[c].methods[i].sig
  <2>1. Slot(c, i) = Overridden(c, i)
    BY DEF Slot
  <2>2. Overridden(c, i) # 0
    BY OverriddenSlot
  <2>3. /\ Overridden(c, i) \in DOMAIN Above(c).vtable
        /\ Sig(Above(c).vtable[Overridden(c, i)]) = decl[c].methods[i].sig
    BY <2>2, OverriddenSlot
  <2>4. QED
    BY <1>1, <2>1, <2>3
<1> HIDE DEF n, some, rank, new
<1>6. \A i \in some : Slot(c, i) \in n + 1 .. n + new
  BY <1>1, <1>3, <1>4
<1>7. \A i, j \in some : Slot(c, i) = Slot(c, j) => i = j
  <2> SUFFICES ASSUME NEW i \in some, NEW j \in some, Slot(c, i) = Slot(c, j)
               PROVE  i = j
    OBVIOUS
  <2>1. rank[i] \in Int /\ rank[j] \in Int /\ n + 1 + rank[i] = n + 1 + rank[j]
    BY <1>3, <1>4
  <2>2. rank[i] = rank[j]
    BY <1>1, <2>1
  <2>3. QED
    BY <1>3, <2>2
<1>8. \A k \in n + 1 .. n + new : \E i \in some : Slot(c, i) = k
  <2> SUFFICES ASSUME NEW k \in n + 1 .. n + new
               PROVE  \E i \in some : Slot(c, i) = k
    OBVIOUS
  <2>1. k - n - 1 \in 0 .. new - 1
    BY <1>1, <1>3
  <2>2. PICK i \in some : rank[i] = k - n - 1
    BY <1>3, <2>1
  <2>3. QED
    BY <1>1, <1>4, <2>2
<1>9. QED
  BY <1>3, <1>5, <1>6, <1>7, <1>8 DEF n, some, new

LEMMA OffsetsOfSlots ==
    ASSUME decl \in Hierarchies, NEW c \in Classes, ~decl[c].interface,
           Above(c).vtable \in Vtables, NEW i \in InstanceMethods(c)
    PROVE  MethodOffset(c, i) = SlotOffset(Slot(c, i)) /\ Slot(c, i) \in Nat \ {0}
<1> DEFINE n    == Len(Above(c).vtable)
           rank == Cardinality({j \in NewMethods(c) : j < i})
<1>1. n \in Nat
  BY AboveNumbers
<1>2. ~decl[c].methods[i].static
  BY DEF InstanceMethods
<1>3. CASE i \in NewMethods(c)
  <2>1. Slot(c, i) = n + 1 + rank
    BY <1>3 DEF Slot
  <2>2. MethodOffset(c, i) = SlotOffset(n + 1) + RefSize * rank
    BY <1>2, <1>3 DEF MethodOffset, NewSlots
  <2>3. rank \in Nat
    <3>1. {j \in NewMethods(c) : j < i} \subseteq 1 .. Len(decl[c].methods)
      BY MethodNumbers
    <3>2. IsFiniteSet(1 .. Len(decl[c].methods))
      BY MethodNumbers, FS_Interval
    <3>3. QED
      BY <3>1, <3>2, FS_Subset, FS_CardinalityType
  <2> HIDE DEF n, rank
  <2>4. SlotOffset(n + 1) + RefSize * rank = SlotOffset(n + 1 + rank)
    BY <1>1, <2>3, KlassSizeAssumption DEF SlotOffset, ArrayOverhead, RefSize
  <2>5. QED
    BY <1>1, <2>1, <2>2, <2>3, <2>4
<1>4. CASE i \notin NewMethods(c)
  <2>1. Slot(c, i) = Overridden(c, i) /\ MethodOffset(c, i) = SlotOffset(Overridden(c, i))
    BY <1>2, <1>4 DEF Slot, MethodOffset
  <2>2. Slot(c, i) \in 1 .. n
    BY <1>4, SlotsGiven
  <2>3. QED
    BY <1>1, <2>1, <2>2
<1>5. QED
  BY <1>3, <1>4

(* Two methods of a class with one slot have one signature.                *)
LEMMA SlotsTellMethods ==
    ASSUME decl \in Hierarchies, NEW c \in Classes, ~decl[c].interface,
           Above(c).vtable \in Vtables, SignaturesOnce(c),
           NEW i \in InstanceMethods(c), NEW j \in InstanceMethods(c),
           Slot(c, i) = Slot(c, j)
    PROVE  i = j
<1> DEFINE n   == Len(Above(c).vtable)
           new == Cardinality(NewMethods(c))
<1>1. n \in Nat /\ new \in Nat
  BY AboveNumbers, SlotsGiven
<1>2. /\ i \in NewMethods(c) => Slot(c, i) \in n + 1 .. n + new
      /\ j \in NewMethods(c) => Slot(c, j) \in n + 1 .. n + new
      /\ i \notin NewMethods(c) =>
           Slot(c, i) \in 1 .. n /\ Sig(Above(c).vtable[Slot(c, i)]) = decl[c].methods[i].sig
      /\ j \notin NewMethods(c) =>
           Slot(c, j) \in 1 .. n /\ Sig(Above(c).vtable[Slot(c, j)]) = decl[c].methods[j].sig
      /\ i \in NewMethods(c) /\ j \in NewMethods(c) => i = j
  BY SlotsGiven
<1> HIDE DEF n, new
<1>3. i \in NewMethods(c) <=> j \in NewMethods(c)
  BY <1>1, <1>2
<1>4. CASE i \notin NewMethods(c)
  BY <1>2, <1>3, <1>4 DEF SignaturesOnce
<1>5. QED
  BY <1>2, <1>3, <1>4

(* The vtable, slot by slot: a method of the class in the slot it has, and *)
(* what is above in every other.                                            *)
LEMMA VtableEntries ==
    ASSUME decl \in Hierarchies, NEW c \in Classes, ~decl[c].interface,
           Above(c).vtable \in Vtables, SignaturesOnce(c)
    PROVE  LET n   == Len(Above(c).vtable)
               all == n + Cardinality(NewMethods(c))
           IN  /\ all \in Nat /\ n <= all
               /\ Vtable(c) \in Vtables /\ DOMAIN Vtable(c) = 1 .. all
               /\ \A i \in InstanceMethods(c) :
                    Slot(c, i) \in 1 .. all /\ Vtable(c)[Slot(c, i)] = Method(c, i)
               /\ \A k \in 1 .. all :
                    \/ \E i \in InstanceMethods(c) : Slot(c, i) = k
                    \/ /\ k \in 1 .. n /\ Vtable(c)[k] = Above(c).vtable[k]
                       /\ \A i \in InstanceMethods(c) : Slot(c, i) # k
<1> DEFINE n   == Len(Above(c).vtable)
           new == Cardinality(NewMethods(c))
           own(k) == {i \in InstanceMethods(c) : MethodOffset(c, i) = SlotOffset(k)}
<1>1. n \in Nat /\ new \in Nat /\ DOMAIN Above(c).vtable = 1 .. n
  BY AboveNumbers, SlotsGiven
<1>2. Vtable(c) = [k \in 1 .. n + new |-> IF own(k) = {} THEN Above(c).vtable[k]
                                         ELSE [class |-> c, index |-> Max(own(k))]]
  BY DEF Vtable
<1>3. \A k \in 1 .. n + new : own(k) = {i \in InstanceMethods(c) : Slot(c, i) = k}
  <2> SUFFICES ASSUME NEW k \in 1 .. n + new, NEW i \in InstanceMethods(c)
               PROVE  MethodOffset(c, i) = SlotOffset(k) <=> Slot(c, i) = k
    OBVIOUS
  <2>1. MethodOffset(c, i) = SlotOffset(Slot(c, i)) /\ Slot(c, i) \in Nat \ {0}
    BY OffsetsOfSlots
  <2>2. k \in Nat \ {0}
    BY <1>1
  <2>3. QED
    BY <2>1, <2>2, SlotOffsets
<1>4. ASSUME NEW i \in InstanceMethods(c)
      PROVE  Slot(c, i) \in 1 .. n + new
  <2>1. Slot(c, i) \in n + 1 .. n + new \/ Slot(c, i) \in 1 .. n
    BY SlotsGiven
  <2>2. QED
    BY <1>1, <2>1
<1>5. ASSUME NEW i \in InstanceMethods(c)
      PROVE  Vtable(c)[Slot(c, i)] = Method(c, i)
  <2> DEFINE k == Slot(c, i)
  <2>1. k \in 1 .. n + new
    BY <1>4
  <2>2. own(k) = {i}
    <3>1. own(k) = {j \in InstanceMethods(c) : Slot(c, j) = k}
      BY <1>3, <2>1
    <3>2. \A j \in InstanceMethods(c) : Slot(c, j) = k => j = i
      BY SlotsTellMethods
    <3>3. QED
      BY <3>1, <3>2
  <2>3. i \in Nat
    BY MethodNumbers
  <2>4. Max(own(k)) = i /\ own(k) # {}
    BY <2>2, <2>3, OnlyOf
  <2> HIDE DEF own, k
  <2>5. Vtable(c)[k] = [class |-> c, index |-> i]
    BY <1>2, <2>1, <2>4
  <2>6. QED
    BY <2>5 DEF k, Method
<1>6. ASSUME NEW k \in 1 .. n + new, \A i \in InstanceMethods(c) : Slot(c, i) # k
      PROVE  k \in 1 .. n /\ Vtable(c)[k] = Above(c).vtable[k]
  <2>1. own(k) = {}
    BY <1>3, <1>6
  <2>2. Vtable(c)[k] = Above(c).vtable[k]
    BY <1>2, <2>1
  <2>3. k \notin n + 1 .. n + new
    BY <1>6, SlotsGiven, MethodNumbers
  <2>4. QED
    BY <1>1, <2>2, <2>3
<1>7. Vtable(c) \in Vtables /\ DOMAIN Vtable(c) = 1 .. n + new
  <2> DEFINE Entry == [class : Classes, index : Nat]
  <2>1. ASSUME NEW k \in 1 .. n + new
        PROVE  Vtable(c)[k] \in Entry
    <3>1. CASE \E i \in InstanceMethods(c) : Slot(c, i) = k
      <4>1. PICK i \in InstanceMethods(c) : Slot(c, i) = k
        BY <3>1
      <4>2. Vtable(c)[k] = Method(c, i) /\ i \in Nat
        BY <1>5, <4>1, MethodNumbers
      <4>3. QED
        BY <4>2 DEF Method
    <3>2. CASE \A i \in InstanceMethods(c) : Slot(c, i) # k
      <4>1. k \in 1 .. n /\ Vtable(c)[k] = Above(c).vtable[k]
        BY <1>6, <3>2
      <4>2. Above(c).vtable \in Seq(Entry)
        BY DEF Vtables
      <4> HIDE DEF Entry
      <4>3. QED
        BY <4>1, <4>2
    <3>3. QED
      BY <3>1, <3>2
  <2>2. DOMAIN Vtable(c) = 1 .. n + new
    BY <1>2
  <2>3. Vtable(c) = [k \in 1 .. n + new |-> Vtable(c)[k]]
    <3> HIDE DEF own
    <3>1. QED
      BY <1>2
  <2> HIDE DEF Entry
  <2>4. Vtable(c) \in [1 .. n + new -> Entry]
    BY <2>1, <2>3
  <2>5. Vtable(c) \in Seq(Entry)
    BY <1>1, <2>4
  <2>6. QED
    BY <2>2, <2>5 DEF Vtables, Entry
<1>8. QED
  BY <1>1, <1>4, <1>5, <1>6, <1>7

(* No slot changes its signature on the way down.                          *)
LEMMA SlotsKeepSignatures ==
    ASSUME decl \in Hierarchies, NEW c \in Classes, ~decl[c].interface,
           Above(c).vtable \in Vtables, SignaturesOnce(c)
    PROVE  /\ \A k \in DOMAIN Above(c).vtable :
                k \in DOMAIN Vtable(c) /\ Sig(Vtable(c)[k]) = Sig(Above(c).vtable[k])
           /\ \A i \in InstanceMethods(c) : Sig(Vtable(c)[Slot(c, i)]) = decl[c].methods[i].sig
<1> DEFINE n   == Len(Above(c).vtable)
           all == n + Cardinality(NewMethods(c))
<1>1. /\ n \in Nat /\ all \in Nat /\ n <= all
      /\ DOMAIN Above(c).vtable = 1 .. n /\ DOMAIN Vtable(c) = 1 .. all
  BY AboveNumbers, VtableEntries
<1>2. ASSUME NEW i \in InstanceMethods(c)
      PROVE  Sig(Vtable(c)[Slot(c, i)]) = decl[c].methods[i].sig
  <2>1. Vtable(c)[Slot(c, i)] = Method(c, i)
    BY VtableEntries
  <2>2. QED
    BY <2>1 DEF Sig, Method
<1>3. ASSUME NEW k \in 1 .. n
      PROVE  k \in 1 .. all /\ Sig(Vtable(c)[k]) = Sig(Above(c).vtable[k])
  <2>1. k \in 1 .. all
    BY <1>1
  <2>2. CASE \E i \in InstanceMethods(c) : Slot(c, i) = k
    <3>1. PICK i \in InstanceMethods(c) : Slot(c, i) = k
      BY <2>2
    <3>2. i \notin NewMethods(c)
      <4>1. i \in NewMethods(c) => Slot(c, i) \in n + 1 .. all
        BY SlotsGiven
      <4>2. QED
        BY <1>1, <3>1, <4>1
    <3>3. Sig(Above(c).vtable[k]) = decl[c].methods[i].sig
      BY <3>1, <3>2, SlotsGiven
    <3>4. QED
      BY <1>2, <2>1, <3>1, <3>3
  <2>3. CASE ~\E i \in InstanceMethods(c) : Slot(c, i) = k
    BY <2>1, <2>3, VtableEntries
  <2>4. QED
    BY <2>2, <2>3
<1>4. QED
  BY <1>1, <1>2, <1>3

LEMMA ChainSplit ==
    ASSUME decl \in Hierarchies, NEW c \in Classes
    PROVE  \A d \in Chain(c) : d = c \/ d \in Chain(c) \ {c}
OBVIOUS

LEMMA HiddenAbove ==
    ASSUME NEW c, NEW m, m.class \in Chain(c), m.index \in InstanceMethods(m.class),
           IsDefault(m)
    PROVE  Hidden(c, Sig(m))
BY DEF Hidden, InstanceMethods, IsDefault, Sig

(* A class gets a vtable that is right, if those above it are.             *)
LEMMA NewVtable ==
    ASSUME decl \in Hierarchies, NEW c \in Classes, ~decl[c].interface,
           SignaturesOnce(c), AboveHolds(c),
           NEW L, \A d \in Chain(c) \ {c} : L[d] = layout[d],
           L[c].vtable = Vtable(c),
           L[c].offset = [i \in DOMAIN decl[c].methods |-> MethodOffset(c, i)]
    PROVE  VtableHolds(L, c)
<1> DEFINE above == Chain(c) \ {c}
           old   == Above(c).vtable
           new   == Vtable(c)
           n     == Len(old)
           all   == n + Cardinality(NewMethods(c))
<1>1. /\ old \in Vtables
      /\ SlotsHoldMethods(old, above)
      /\ SlotsHaveOffsets(layout, old)
      /\ MethodsHaveSlots(layout, old, above)
      /\ SignaturesHaveASlot(old, c)
      /\ NearestInSlots(old, above, c)
  BY DEF AboveHolds
<1>2. /\ n \in Nat /\ all \in Nat /\ n <= all
      /\ DOMAIN old = 1 .. n /\ DOMAIN new = 1 .. all /\ new \in Vtables
  BY <1>1, AboveNumbers, VtableEntries
<1>3. /\ \A i \in InstanceMethods(c) : Slot(c, i) \in 1 .. all /\ new[Slot(c, i)] = Method(c, i)
      /\ \A k \in 1 .. all :
           \/ \E i \in InstanceMethods(c) : Slot(c, i) = k
           \/ /\ k \in 1 .. n /\ new[k] = old[k]
              /\ \A i \in InstanceMethods(c) : Slot(c, i) # k
  BY <1>1, VtableEntries
<1>4. /\ \A k \in 1 .. n : k \in 1 .. all /\ Sig(new[k]) = Sig(old[k])
      /\ \A i \in InstanceMethods(c) : Sig(new[Slot(c, i)]) = decl[c].methods[i].sig
  BY <1>1, <1>2, SlotsKeepSignatures
<1>5. Chain(c) \subseteq Classes /\ c \in Chain(c)
  BY ChainHolds
<1>6. \A i \in InstanceMethods(c) : L[c].offset[i] = SlotOffset(Slot(c, i))
  <2>1. \A i \in InstanceMethods(c) : MethodOffset(c, i) = SlotOffset(Slot(c, i))
    BY <1>1, OffsetsOfSlots
  <2>2. QED
    BY <2>1 DEF InstanceMethods
<1>7. SlotsHoldMethods(new, Chain(c)) /\ SlotsHaveOffsets(L, new)
  <2> SUFFICES ASSUME NEW k \in 1 .. all
               PROVE  /\ new[k].class \in Chain(c)
                      /\ new[k].index \in InstanceMethods(new[k].class)
                      /\ L[new[k].class].offset[new[k].index] = SlotOffset(k)
    BY <1>2 DEF SlotsHoldMethods, SlotsHaveOffsets
  <2>1. CASE \E i \in InstanceMethods(c) : Slot(c, i) = k
    <3>1. PICK i \in InstanceMethods(c) : Slot(c, i) = k
      BY <2>1
    <3>2. new[k] = Method(c, i)
      BY <1>3, <3>1
    <3>3. new[k].class = c /\ new[k].index = i
      BY <3>2 DEF Method
    <3>4. QED
      BY <1>5, <1>6, <3>1, <3>3
  <2>2. CASE k \in 1 .. n /\ new[k] = old[k]
    <3>1. old[k].class \in above /\ old[k].index \in InstanceMethods(old[k].class)
      BY <1>1, <1>2, <2>2 DEF SlotsHoldMethods
    <3>2. layout[old[k].class].offset[old[k].index] = SlotOffset(k)
      BY <1>1, <1>2, <2>2 DEF SlotsHaveOffsets
    <3>3. QED
      BY <2>2, <3>1, <3>2
  <2>3. QED
    BY <1>3, <2>1, <2>2
<1>8. MethodsHaveSlots(L, new, Chain(c))
  <2> SUFFICES ASSUME NEW d \in Chain(c), NEW i \in InstanceMethods(d)
               PROVE  \E k \in 1 .. all : /\ L[d].offset[i] = SlotOffset(k)
                                         /\ Sig(new[k]) = decl[d].methods[i].sig
    BY <1>2 DEF MethodsHaveSlots
  <2>1. CASE d = c
    BY <1>3, <1>4, <1>6, <2>1
  <2>2. CASE d \in above
    <3>1. PICK k \in 1 .. n : /\ layout[d].offset[i] = SlotOffset(k)
                              /\ Sig(old[k]) = decl[d].methods[i].sig
      BY <1>1, <1>2, <2>2 DEF MethodsHaveSlots
    <3>2. QED
      BY <1>4, <2>2, <3>1
  <2>3. QED
    BY <2>1, <2>2, ChainSplit
<1>9. ASSUME NEW i \in NewMethods(c), NEW k \in 1 .. n,
             Sig(old[k]) = decl[c].methods[i].sig
      PROVE  Hidden(c, decl[c].methods[i].sig)
  <2>1. i \in InstanceMethods(c)
    BY MethodNumbers
  <2>2. k \in SameSignature(c, i)
    BY <1>2, <1>9 DEF SameSignature
  <2>3. PICK l \in SameSignature(c, i) : IsDefault(old[l])
    BY <1>1, <2>1, <2>2, OverriddenSlot
  <2>4. l \in DOMAIN old /\ Sig(old[l]) = decl[c].methods[i].sig
    BY <2>3 DEF SameSignature
  <2>5. old[l].class \in Chain(c) /\ old[l].index \in InstanceMethods(old[l].class)
    BY <1>1, <2>4 DEF SlotsHoldMethods
  <2>6. QED
    BY <2>3, <2>4, <2>5, HiddenAbove
<1>10. ASSUME NEW k \in 1 .. all
       PROVE  \/ k \in 1 .. n
              \/ \E i \in NewMethods(c) : Slot(c, i) = k /\ Sig(new[k]) = decl[c].methods[i].sig
  <2>1. k \in 1 .. n \/ k \in n + 1 .. all
    BY <1>2
  <2>2. CASE k \in n + 1 .. all
    <3>1. PICK i \in NewMethods(c) : Slot(c, i) = k
      BY <1>1, <2>2, SlotsGiven
    <3>2. QED
      BY <1>4, <3>1, MethodNumbers
  <2>3. QED
    BY <2>1, <2>2
<1>11. SignaturesHaveASlot(new, c)
  <2> SUFFICES ASSUME NEW k \in 1 .. all, NEW l \in 1 .. all,
                      Sig(new[k]) = Sig(new[l]), ~Hidden(c, Sig(new[k]))
               PROVE  k = l
    BY <1>2 DEF SignaturesHaveASlot
  <2>1. CASE k \in 1 .. n /\ l \in 1 .. n
    BY <1>1, <1>2, <1>4, <2>1 DEF SignaturesHaveASlot
  <2>2. CASE k \in 1 .. n /\ l \notin 1 .. n
    <3>1. PICK i \in NewMethods(c) : Slot(c, i) = l /\ Sig(new[l]) = decl[c].methods[i].sig
      BY <1>10, <2>2
    <3>2. QED
      BY <1>4, <1>9, <2>2, <3>1
  <2>3. CASE k \notin 1 .. n /\ l \in 1 .. n
    <3>1. PICK i \in NewMethods(c) : Slot(c, i) = k /\ Sig(new[k]) = decl[c].methods[i].sig
      BY <1>10, <2>3
    <3>2. QED
      BY <1>4, <1>9, <2>3, <3>1
  <2>4. CASE k \notin 1 .. n /\ l \notin 1 .. n
    <3>1. PICK i \in NewMethods(c) : Slot(c, i) = k /\ Sig(new[k]) = decl[c].methods[i].sig
      BY <1>10, <2>4
    <3>2. PICK j \in NewMethods(c) : Slot(c, j) = l /\ Sig(new[l]) = decl[c].methods[j].sig
      BY <1>10, <2>4
    <3>3. i = j
      BY <3>1, <3>2, MethodNumbers DEF SignaturesOnce
    <3>4. QED
      BY <3>1, <3>2, <3>3
  <2>5. QED
    BY <2>1, <2>2, <2>3, <2>4
<1>12. NearestInSlots(new, Chain(c), c)
  <2> SUFFICES ASSUME NEW k \in 1 .. all, NEW e \in Chain(c),
                      ~Hidden(c, Sig(new[k])), Declares(e, Sig(new[k]))
               PROVE  e \in Chain(new[k].class)
    BY <1>2 DEF NearestInSlots
  <2>1. CASE \E i \in InstanceMethods(c) : Slot(c, i) = k
    <3>1. PICK i \in InstanceMethods(c) : Slot(c, i) = k
      BY <2>1
    <3>2. new[k] = Method(c, i)
      BY <1>3, <3>1
    <3>3. new[k].class = c
      BY <3>2 DEF Method
    <3>4. QED
      BY <3>3
  <2>2. CASE /\ k \in 1 .. n /\ new[k] = old[k]
             /\ \A i \in InstanceMethods(c) : Slot(c, i) # k
    <3>1. CASE e \in above
      BY <1>1, <1>2, <2>2, <3>1 DEF NearestInSlots
    <3>2. CASE e = c
      <4>1. PICK i \in InstanceMethods(c) : decl[c].methods[i].sig = Sig(new[k])
        BY <3>2 DEF Declares
      <4>2. i \notin NewMethods(c)
        BY <1>9, <2>2, <4>1
      <4>3. /\ Slot(c, i) \in 1 .. n
            /\ Sig(old[Slot(c, i)]) = decl[c].methods[i].sig
        BY <1>1, <4>2, SlotsGiven
      <4>4. Slot(c, i) = k
        BY <1>1, <1>2, <2>2, <4>1, <4>3 DEF SignaturesHaveASlot
      <4>5. QED
        BY <2>2, <4>4
    <3>3. QED
      BY <3>1, <3>2, ChainSplit
  <2>3. QED
    BY <1>3, <2>1, <2>2
<1>13. QED
  BY <1>2, <1>7, <1>8, <1>11, <1>12 DEF VtableHolds

-----------------------------------------------------------------------------
(* Recursion                                                               *)

(* What is done with each number in turn can be done.                      *)
Iterates(A, n, a, F) ==
    \E f \in [0 .. n -> A] : f[0] = a /\ \A i \in 1 .. n : f[i] = F[i][f[i - 1]]

LEMMA Iteration ==
    ASSUME NEW A, NEW n \in Nat, NEW a \in A, NEW F \in [1 .. n -> [A -> A]]
    PROVE  Iterates(A, n, a, F)
<1> DEFINE Upto(m) == \E f \in [0 .. m -> A] : f[0] = a /\ \A i \in 1 .. m : f[i] = F[i][f[i - 1]]
           missing == {m \in 0 .. n : ~Upto(m)}
<1>1. SUFFICES ASSUME missing # {} PROVE FALSE
  <2>1. missing = {} => Upto(n)
    BY n \in 0 .. n
  <2>2. QED
    BY <2>1 DEF Iterates
<1>2. PICK m \in missing : \A k \in missing : m <= k
  <2>1. missing \subseteq Nat
    OBVIOUS
  <2>2. QED
    BY <1>1, <2>1, LeastOf
<1>3. m # 0
  <2>1. Upto(0)
    <3>1. [i \in 0 .. 0 |-> a] \in [0 .. 0 -> A]
      OBVIOUS
    <3>2. 1 .. 0 = {} /\ [i \in 0 .. 0 |-> a][0] = a
      OBVIOUS
    <3>3. QED
      BY <3>1, <3>2
  <2>2. QED
    BY <2>1
<1>4. m - 1 \in 0 .. n /\ m \in 1 .. n /\ m \in Nat /\ ~(m <= m - 1)
  BY <1>3
<1>5. Upto(m - 1)
  BY <1>2, <1>4
<1>6. PICK f \in [0 .. (m - 1) -> A] : f[0] = a /\ \A i \in 1 .. (m - 1) : f[i] = F[i][f[i - 1]]
  BY <1>5
<1> DEFINE g == [i \in 0 .. m |-> IF i = m THEN F[m][f[m - 1]] ELSE f[i]]
<1> HIDE DEF missing
<1>7. f[m - 1] \in A /\ F[m][f[m - 1]] \in A
  BY <1>4
<1>8. \A i \in 0 .. m : i # m => i \in 0 .. (m - 1)
  BY <1>4
<1>9. g \in [0 .. m -> A]
  BY <1>6, <1>7, <1>8
<1>10. g[0] = a
  BY <1>4, <1>6
<1>11. ASSUME NEW i \in 1 .. m
       PROVE  g[i] = F[i][g[i - 1]]
  <2>1. i - 1 \in 0 .. m /\ i - 1 # m /\ i \in 0 .. m
    BY <1>4
  <2>2. g[i - 1] = f[i - 1]
    BY <2>1
  <2>3. CASE i = m
    BY <2>1, <2>2, <2>3
  <2>4. CASE i # m
    BY <1>4, <1>6, <2>1, <2>2, <2>4
  <2>5. QED
    BY <2>3, <2>4
<1> HIDE DEF g
<1>12. Upto(m)
  BY <1>9, <1>10, <1>11
<1>13. QED
  BY <1>4, <1>12 DEF missing

LEMMA WithoutGreatest ==
    ASSUME NEW i \in Nat, NEW some \in SUBSET (1 .. i), some # {}
    PROVE  /\ Max(some) \in 1 .. i
           /\ some \ {Max(some)} \in SUBSET (1 .. i)
           /\ i # 0 /\ some \ {Max(some)} \in SUBSET (1 .. i - 1)
<1>1. Max(some) \in some /\ \A k \in some : k <= Max(some)
  BY GreatestOf
<1>2. Max(some) \in 1 .. i /\ i # 0
  <2>1. Max(some) \in 1 .. i
    BY <1>1
  <2>2. 1 .. 0 = {}
    OBVIOUS
  <2>3. QED
    BY <2>1, <2>2
<1>3. \A k \in some : k # Max(some) => k \in 1 .. i - 1
  <2>1. SUFFICES ASSUME NEW k \in some, k # Max(some) PROVE k \in 1 .. i - 1
    OBVIOUS
  <2>2. k \in 1 .. i /\ k <= Max(some) /\ Max(some) \in Nat /\ Max(some) <= i
    BY <1>1, <1>2
  <2>3. QED
    BY <2>1, <2>2
<1>4. QED
  BY <1>2, <1>3

(* The recursion of a fold over a sequence of length n, from its end.      *)
Recurs(A, n, base, G) ==
    \E f \in [SUBSET (1 .. n) -> A] :
        f = [some \in SUBSET (1 .. n) |->
               IF some = {} THEN base ELSE G[Max(some)][f[some \ {Max(some)}]]]

LEMMA Recursion ==
    ASSUME NEW A, NEW n \in Nat, NEW base \in A, NEW G \in [1 .. n -> [A -> A]]
    PROVE  Recurs(A, n, base, G)
<1> DEFINE B == [SUBSET (1 .. n) -> A]
           step(t) == [some \in SUBSET (1 .. n) |->
                         IF some = {} THEN base ELSE G[Max(some)][t[some \ {Max(some)}]]]
           F == [i \in 1 .. n + 1 |-> [t \in B |-> step(t)]]
           t0 == [some \in SUBSET (1 .. n) |-> base]
<1>2. ASSUME NEW t \in B PROVE step(t) \in B
  <2> SUFFICES ASSUME NEW some \in SUBSET (1 .. n)
               PROVE  (IF some = {} THEN base ELSE G[Max(some)][t[some \ {Max(some)}]]) \in A
    OBVIOUS
  <2>1. CASE some # {}
    <3>1. Max(some) \in 1 .. n /\ some \ {Max(some)} \in SUBSET (1 .. n)
      BY <2>1, WithoutGreatest
    <3>2. t[some \ {Max(some)}] \in A
      BY <3>1
    <3>3. QED
      BY <2>1, <3>1, <3>2
  <2>2. CASE some = {}
    BY <2>2
  <2>3. QED
    BY <2>1, <2>2
<1>3. F \in [1 .. n + 1 -> [B -> B]] /\ t0 \in B
  <2> HIDE DEF B, step
  <2>1. F \in [1 .. n + 1 -> [B -> B]]
    BY <1>2
  <2>2. QED
    BY <2>1 DEF B
<1>4. PICK f \in [0 .. n + 1 -> B] : f[0] = t0 /\ \A i \in 1 .. n + 1 : f[i] = F[i][f[i - 1]]
  <2> HIDE DEF B, F, t0
  <2>1. Iterates(B, n + 1, t0, F)
    BY <1>3, Iteration
  <2>2. QED
    BY <2>1 DEF Iterates
<1>5. \A i \in 1 .. n + 1 : f[i] = step(f[i - 1])
  <2> SUFFICES ASSUME NEW i \in 1 .. n + 1 PROVE f[i] = step(f[i - 1])
    OBVIOUS
  <2> HIDE DEF B, step
  <2>1. i - 1 \in 0 .. n + 1
    OBVIOUS
  <2>2. f[i - 1] \in B
    BY <1>4, <2>1
  <2>3. QED
    BY <1>4, <2>2
<1> DEFINE Settled(i) == \A some \in SUBSET (1 .. i) : f[i + 1][some] = f[i][some]
           missing == {i \in 0 .. n : ~Settled(i)}
<1>6. missing = {}
  <2>1. SUFFICES ASSUME missing # {} PROVE FALSE
    OBVIOUS
  <2>2. PICK i \in missing : \A k \in missing : i <= k
    <3>1. missing \subseteq Nat
      OBVIOUS
    <3>2. QED
      BY <2>1, <3>1, LeastOf
  <2>3. i \in 0 .. n /\ i \in Nat /\ i + 1 \in 1 .. n + 1 /\ ~Settled(i)
    OBVIOUS
  <2>4. PICK some \in SUBSET (1 .. i) : f[i + 1][some] # f[i][some]
    BY <2>3
  <2>5. some \in SUBSET (1 .. n)
    BY <2>3
  <2>6. f[i + 1] = step(f[i])
    <3>1. i + 1 - 1 = i
      BY <2>3
    <3> HIDE DEF step
    <3>2. QED
      BY <1>5, <2>3, <3>1
  <2>7. CASE some = {}
    <3>1. f[i + 1][some] = base
      BY <2>5, <2>6, <2>7
    <3>2. f[i][some] = base
      <4>1. CASE i = 0
        BY <1>4, <2>5, <4>1
      <4>2. CASE i # 0
        <5>1. i \in 1 .. n + 1
          BY <2>3, <4>2
        <5>2. f[i] = step(f[i - 1])
          BY <1>5, <5>1
        <5>3. QED
          BY <2>5, <2>7, <5>2
      <4>3. QED
        BY <4>1, <4>2
    <3>3. QED
      BY <2>4, <3>1, <3>2
  <2>8. CASE some # {}
    <3> DEFINE rest == some \ {Max(some)}
    <3>1. i # 0 /\ rest \in SUBSET (1 .. i - 1)
      BY <2>3, <2>8, WithoutGreatest
    <3>2. i - 1 \in 0 .. n /\ ~(i <= i - 1) /\ i \in 1 .. n + 1
      BY <2>3, <3>1
    <3>3. Settled(i - 1)
      BY <2>2, <3>2
    <3>4. f[i][rest] = f[i - 1][rest]
      <4>1. (i - 1) + 1 = i
        BY <2>3
      <4>2. QED
        BY <3>1, <3>3, <4>1
    <3>5. f[i] = step(f[i - 1])
      BY <1>5, <3>2
    <3>6. f[i + 1][some] = G[Max(some)][f[i][rest]]
      BY <2>5, <2>6, <2>8
    <3>7. f[i][some] = G[Max(some)][f[i - 1][rest]]
      BY <2>5, <2>8, <3>5
    <3>8. QED
      BY <2>4, <3>4, <3>6, <3>7
  <2>9. QED
    BY <2>7, <2>8
<1>7. f[n + 1] = step(f[n]) /\ f[n] \in B /\ f[n + 1] \in B
  <2>1. n + 1 \in 1 .. n + 1 /\ n + 1 - 1 = n /\ n \in 0 .. n + 1 /\ n + 1 \in 0 .. n + 1
    OBVIOUS
  <2> HIDE DEF B, step
  <2>2. QED
    BY <1>4, <1>5, <2>1
<1>8. \A some \in SUBSET (1 .. n) : f[n + 1][some] = f[n][some]
  <2>1. n \in 0 .. n
    OBVIOUS
  <2>2. QED
    BY <1>6, <2>1
<1>9. f[n] = f[n + 1]
  BY <1>7, <1>8
<1>10. QED
  BY <1>7, <1>9 DEF Recurs

LEMMA FoldStays ==
    ASSUME NEW A, NEW n \in Nat, NEW f, f[{}] \in A,
           \A some \in SUBSET (1 .. n) :
               some # {} /\ f[some \ {Max(some)}] \in A => f[some] \in A
    PROVE  f[1 .. n] \in A
<1> DEFINE Stays(i) == \A some \in SUBSET (1 .. i) : f[some] \in A
           missing  == {i \in 0 .. n : ~Stays(i)}
<1>1. SUFFICES ASSUME missing # {} PROVE FALSE
  <2>1. missing = {} => Stays(n)
    BY n \in 0 .. n
  <2>2. QED
    BY <2>1
<1>2. PICK i \in missing : \A k \in missing : i <= k
  <2>1. missing \subseteq Nat
    OBVIOUS
  <2>2. QED
    BY <1>1, <2>1, LeastOf
<1>3. i \in 0 .. n /\ i \in Nat
  OBVIOUS
<1>4. PICK some \in SUBSET (1 .. i) : f[some] \notin A
  BY <1>2
<1>5. some # {}
  BY <1>4
<1>6. i # 0 /\ some \ {Max(some)} \in SUBSET (1 .. i - 1)
  BY <1>3, <1>5, WithoutGreatest
<1>7. i - 1 \in 0 .. n /\ ~(i <= i - 1)
  BY <1>3, <1>6
<1>8. f[some \ {Max(some)}] \in A
  BY <1>2, <1>6, <1>7
<1>9. some \in SUBSET (1 .. n)
  BY <1>3
<1>10. QED
  BY <1>4, <1>5, <1>8, <1>9

-----------------------------------------------------------------------------
(* Interfaces                                                              *)

LEMMA FlattenDefined ==
    ASSUME NEW X, NEW seqs \in Seq(Seq(X)), Len(seqs) > 0
    PROVE  \E f : f = [i \in 1 .. Len(seqs) |-> IF i = 1 THEN seqs[i] ELSE f[i - 1] \o seqs[i]]
<1> DEFINE n == Len(seqs)
           A == Seq(X)
           F == [i \in 1 .. n |-> [x \in A |-> x \o seqs[i]]]
<1>1. n \in Nat /\ \A i \in 1 .. n : seqs[i] \in A
  OBVIOUS
<1>2. \A i \in 1 .. n : \A x \in A : x \o seqs[i] \in A
  BY <1>1
<1>3. F \in [1 .. n -> [A -> A]]
  BY <1>2
<1>4. << >> \in A
  OBVIOUS
<1>5. PICK f \in [0 .. n -> A] : f[0] = << >> /\ \A i \in 1 .. n : f[i] = F[i][f[i - 1]]
  <2>1. PICK a \in A : a = << >>
    BY <1>4
  <2> HIDE DEF n, A, F
  <2>2. Iterates(A, n, a, F)
    BY <1>1, <1>3, Iteration
  <2>3. QED
    BY <2>1, <2>2 DEF Iterates
<1>6. ASSUME NEW i \in 1 .. n
      PROVE  f[i] = IF i = 1 THEN seqs[i] ELSE f[i - 1] \o seqs[i]
  <2>1. f[i] = f[i - 1] \o seqs[i]
    <3>1. i - 1 \in 0 .. n
      BY <1>1
    <3>2. f[i - 1] \in A
      BY <1>5, <3>1
    <3>3. QED
      BY <1>5, <3>2
  <2>2. << >> \o seqs[1] = seqs[1]
    BY <1>1
  <2>3. CASE i = 1
    <3>1. i - 1 = 0
      BY <2>3
    <3>2. QED
      BY <1>5, <2>1, <2>2, <2>3, <3>1
  <2>4. QED
    BY <2>1, <2>3
<1> DEFINE g == [i \in 1 .. n |-> f[i]]
<1>7. g = [i \in 1 .. n |-> IF i = 1 THEN seqs[i] ELSE g[i - 1] \o seqs[i]]
  <2>1. \A i \in 1 .. n : i # 1 => i - 1 \in 1 .. n
    BY <1>1
  <2>2. \A i \in 1 .. n : i # 1 => g[i - 1] = f[i - 1]
    BY <2>1
  <2>3. QED
    BY <1>6, <2>2
<1>8. QED
  BY <1>7

(* Each step of the flattening appends a sequence to those before it.      *)
Flattens(seqs, X, flat) ==
    /\ FlattenSeq(seqs) = flat[Len(seqs)]
    /\ \A i \in 1 .. Len(seqs) :
          /\ flat[i] \in Seq(X)
          /\ flat[i] = IF i = 1 THEN seqs[i] ELSE flat[i - 1] \o seqs[i]

LEMMA FlattenFolds ==
    ASSUME NEW X, NEW seqs \in Seq(Seq(X)), Len(seqs) > 0
    PROVE  \E flat : Flattens(seqs, X, flat)
<1> DEFINE n == Len(seqs)
           body(f) == [i \in 1 .. n |-> IF i = 1 THEN seqs[i] ELSE f[i - 1] \o seqs[i]]
           flat == CHOOSE f : f = body(f)
<1>1. n \in Nat /\ n # 0 /\ \A i \in 1 .. n : seqs[i] \in Seq(X)
  OBVIOUS
<1>2. FlattenSeq(seqs) = flat[n]
  BY <1>1 DEF FlattenSeq
<1>3. flat = body(flat)
  <2>1. \E f : f = body(f)
    BY FlattenDefined
  <2> HIDE DEF body
  <2>2. QED
    BY <2>1, Zenon DEF flat
<1> HIDE DEF flat
<1>4. \A i \in 1 .. n : flat[i] = IF i = 1 THEN seqs[i] ELSE flat[i - 1] \o seqs[i]
  BY <1>3
<1> DEFINE missing == {i \in 1 .. n : flat[i] \notin Seq(X)}
<1>5. missing = {}
  <2>1. SUFFICES ASSUME missing # {} PROVE FALSE
    OBVIOUS
  <2>2. PICK i \in missing : \A k \in missing : i <= k
    <3>1. missing \subseteq Nat
      OBVIOUS
    <3>2. QED
      BY <2>1, <3>1, LeastOf
  <2>3. i # 1
    BY <1>1, <1>4
  <2>4. i - 1 \in 1 .. n /\ ~(i <= i - 1)
    BY <2>3
  <2>5. flat[i - 1] \in Seq(X)
    BY <2>2, <2>4
  <2>6. flat[i] \in Seq(X)
    <3>1. i \in 1 .. n /\ seqs[i] \in Seq(X)
      BY <1>1
    <3>2. flat[i] = flat[i - 1] \o seqs[i]
      BY <1>4, <2>3, <3>1
    <3>3. QED
      BY <2>5, <3>1, <3>2
  <2>7. QED
    BY <2>6
<1>6. \A i \in 1 .. n : flat[i] \in Seq(X)
  BY <1>5
<1>7. Flattens(seqs, X, flat)
  BY <1>2, <1>4, <1>6 DEF Flattens
<1>8. QED
  BY <1>7

LEMMA FlattenIn ==
    ASSUME NEW X, NEW seqs \in Seq(Seq(X))
    PROVE  FlattenSeq(seqs) \in Seq(X)
<1>1. CASE Len(seqs) = 0
  BY <1>1 DEF FlattenSeq
<1>2. CASE Len(seqs) > 0
  <2>1. PICK flat : Flattens(seqs, X, flat)
    BY <1>2, FlattenFolds
  <2>2. Len(seqs) \in 1 .. Len(seqs)
    BY <1>2
  <2>3. QED
    BY <2>1, <2>2 DEF Flattens
<1>3. QED
  BY <1>1, <1>2

LEMMA FlattenHas ==
    ASSUME NEW X, NEW seqs \in Seq(Seq(X)),
           NEW i \in DOMAIN seqs, NEW j \in DOMAIN seqs[i]
    PROVE  \E k \in DOMAIN FlattenSeq(seqs) : FlattenSeq(seqs)[k] = seqs[i][j]
<1>1. PICK n \in Nat : n = Len(seqs)
  OBVIOUS
<1>2. i \in 1 .. n /\ n > 0 /\ seqs[i] \in Seq(X)
  BY <1>1
<1>3. PICK flat : Flattens(seqs, X, flat)
  BY <1>1, <1>2, FlattenFolds
<1> DEFINE Has(m) == \E k \in DOMAIN flat[m] : flat[m][k] = seqs[i][j]
           missing == {m \in i .. n : ~Has(m)}
<1>4. missing = {}
  <2>1. SUFFICES ASSUME missing # {} PROVE FALSE
    OBVIOUS
  <2>2. PICK m \in missing : \A k \in missing : m <= k
    <3>1. missing \subseteq Nat
      BY <1>2
    <3>2. QED
      BY <2>1, <3>1, LeastOf
  <2>3. m \in i .. n /\ m \in 1 .. n /\ seqs[m] \in Seq(X)
    BY <1>1, <1>2
  <2>4. flat[m] = IF m = 1 THEN seqs[m] ELSE flat[m - 1] \o seqs[m]
    BY <1>1, <1>3, <2>3 DEF Flattens
  <2>5. m # 1 => flat[m - 1] \in Seq(X)
    <3>1. m # 1 => m - 1 \in 1 .. n
      BY <2>3
    <3>2. QED
      BY <1>1, <1>3, <3>1 DEF Flattens
  <2>6. CASE m = i
    <3>1. CASE m = 1
      BY <2>4, <2>6, <3>1
    <3>2. CASE m # 1
      <4>1. PICK s \in Seq(X) : s = flat[m - 1]
        BY <2>5, <3>2
      <4>2. flat[m] = s \o seqs[i]
        BY <2>4, <2>6, <3>2, <4>1
      <4>3. PICK u \in Seq(X) : u = seqs[i]
        BY <1>2
      <4>4. Len(s) + j \in DOMAIN (s \o u) /\ (s \o u)[Len(s) + j] = u[j]
        BY <4>3
      <4>5. QED
        BY <4>2, <4>3, <4>4
    <3>3. QED
      BY <3>1, <3>2
  <2>7. CASE m # i
    <3>1. m - 1 \in i .. n /\ m # 1 /\ ~(m <= m - 1)
      BY <1>2, <2>3, <2>7
    <3>2. Has(m - 1)
      BY <2>2, <3>1
    <3>3. PICK s \in Seq(X) : s = flat[m - 1]
      BY <2>5, <3>1
    <3>4. PICK k \in DOMAIN s : s[k] = seqs[i][j]
      BY <3>2, <3>3
    <3>5. flat[m] = s \o seqs[m]
      BY <2>4, <3>1, <3>3
    <3>6. PICK u \in Seq(X) : u = seqs[m]
      BY <2>3
    <3>7. k \in DOMAIN (s \o u) /\ (s \o u)[k] = s[k]
      OBVIOUS
    <3>8. QED
      BY <3>4, <3>5, <3>6, <3>7
  <2>8. QED
    BY <2>6, <2>7
<1>5. n \in i .. n
  BY <1>2
<1>6. Has(n)
  BY <1>4, <1>5
<1>7. QED
  BY <1>1, <1>3, <1>6 DEF Flattens

Tables(n, X) == [table : [1 .. n -> X], last : 0 .. n, overrun : BOOLEAN]

LEMMA EliminateIn ==
    ASSUME NEW X, NEW n \in Nat, NEW acc \in Tables(n, X), NEW pair
    PROVE  Eliminate(acc, pair) \in Tables(n, X)
<1> DEFINE t    == acc.table
           j    == pair[2]
           some == Differing(t, j, acc.last)
           at   == Max(some)
<1>1. t \in [1 .. n -> X] /\ acc.last \in 0 .. n /\ acc.overrun \in BOOLEAN
  BY DEF Tables
<1>2. [acc EXCEPT !.overrun = TRUE] \in Tables(n, X)
  BY DEF Tables
<1>3. ASSUME some # {}
      PROVE  [table |-> [t EXCEPT ![j] = t[at]], last |-> at - 1, overrun |-> FALSE]
               \in Tables(n, X)
  <2>1. some \in SUBSET (1 .. n)
    BY <1>1 DEF Differing
  <2>2. at \in 1 .. n
    BY <1>3, <2>1, GreatestOf
  <2> HIDE DEF at, j
  <2>3. t[at] \in X /\ at - 1 \in 0 .. n
    BY <1>1, <2>2
  <2>4. [t EXCEPT ![j] = t[at]] \in [1 .. n -> X]
    BY <1>1, <2>3
  <2>5. QED
    BY <2>3, <2>4 DEF Tables
<1>4. QED
  BY <1>2, <1>3 DEF Eliminate

(* The loops compare the entries of a table, each with those behind it.    *)
Ordered(n) == {pair \in (1 .. n) \X (1 .. n) : pair[1] < pair[2]}

LEMMA PairsIn ==
    ASSUME NEW n \in Nat
    PROVE  /\ Pairs(n) \in Seq(Ordered(n))
           /\ \A pair \in Ordered(n) : \E k \in DOMAIN Pairs(n) : Pairs(n)[k] = pair
<1> DEFINE X == Ordered(n)
           row(i) == [k \in 1 .. (n - i) |-> <<i, i + k>>]
           rows   == [i \in 1 .. n |-> row(i)]
<1>1. ASSUME NEW i \in 1 .. n
      PROVE  row(i) \in Seq(X) /\ DOMAIN row(i) = 1 .. (n - i)
  <2>1. n - i \in Nat
    OBVIOUS
  <2>2. \A k \in 1 .. (n - i) : <<i, i + k>> \in X
    BY DEF Ordered
  <2> HIDE DEF X
  <2>3. row(i) \in [1 .. (n - i) -> X]
    BY <2>2
  <2>4. QED
    BY <2>1, <2>3
<1>2. \A i \in 1 .. n : \A k \in 1 .. (n - i) : row(i)[k] = <<i, i + k>>
  OBVIOUS
<1> HIDE DEF row, X
<1>3. rows \in [1 .. n -> Seq(X)]
  BY <1>1
<1>4. rows \in Seq(Seq(X)) /\ DOMAIN rows = 1 .. n /\ \A i \in 1 .. n : rows[i] = row(i)
  BY <1>3
<1>5. Pairs(n) = FlattenSeq(rows)
  BY DEF Pairs, rows, row
<1> HIDE DEF rows
<1>6. FlattenSeq(rows) \in Seq(X)
  BY <1>4, FlattenIn
<1>7. ASSUME NEW pair \in X
      PROVE  \E k \in DOMAIN Pairs(n) : Pairs(n)[k] = pair
  <2>1. PICK i \in 1 .. n, j \in 1 .. n : pair = <<i, j>> /\ i < j
    BY DEF X, Ordered
  <2>2. j - i \in 1 .. (n - i) /\ i + (j - i) = j
    BY <2>1
  <2>3. j - i \in DOMAIN rows[i] /\ rows[i][j - i] = pair
    BY <1>1, <1>2, <1>4, <2>1, <2>2
  <2>4. \E k \in DOMAIN FlattenSeq(rows) : FlattenSeq(rows)[k] = rows[i][j - i]
    <3>1. rows \in Seq(Seq(X)) /\ i \in DOMAIN rows
      BY <1>4
    <3>2. QED
      BY <2>3, <3>1, FlattenHas, Zenon
  <2>5. QED
    BY <1>5, <2>3, <2>4
<1>8. QED
  BY <1>5, <1>6, <1>7 DEF X

(* The loops over a table in steps, each for the greatest of some of them. *)
Eliminations(t, iter) ==
    LET N == Len(Pairs(Len(t))) IN
    /\ Eliminated(t) = iter[1 .. N]
    /\ iter[{}] = [table |-> t, last |-> Len(t), overrun |-> FALSE]
    /\ \A some \in SUBSET (1 .. N) :
          some # {} => iter[some] = Eliminate(iter[some \ {Max(some)}], Pairs(Len(t))[Max(some)])

LEMMA EliminationFolds ==
    ASSUME NEW X, NEW t \in Seq(X)
    PROVE  \E iter : Eliminations(t, iter)
<1> DEFINE n    == Len(t)
           A    == Tables(n, X)
           seq  == Pairs(n)
           N    == Len(seq)
           base == [table |-> t, last |-> n, overrun |-> FALSE]
           body(f) == [some \in SUBSET (DOMAIN seq) |->
                         IF some = {} THEN base
                         ELSE Eliminate(f[some \ {Max(some)}], seq[Max(some)])]
           iter == CHOOSE f : f = body(f)
           G    == [i \in 1 .. N |-> [a \in A |-> Eliminate(a, seq[i])]]
<1>1. n \in Nat /\ seq \in Seq(Ordered(n))
  BY PairsIn
<1>2. N \in Nat /\ DOMAIN seq = 1 .. N
  BY <1>1
<1>3. base \in A
  <2>1. t \in [1 .. n -> X] /\ n \in 0 .. n
    BY <1>1
  <2>2. QED
    BY <2>1 DEF Tables
<1>4. Eliminated(t) = iter[DOMAIN seq]
  BY DEF Eliminated, FoldLeft, MapThenFoldSet
<1>5. G \in [1 .. N -> [A -> A]]
  BY <1>1, EliminateIn
<1>6. Recurs(A, N, base, G)
  <2>1. PICK b \in A : b = base
    BY <1>3
  <2> HIDE DEF A, N, base, G
  <2>2. Recurs(A, N, b, G)
    BY <1>2, <1>5, Recursion
  <2>3. QED
    BY <2>1, <2>2
<1>7. PICK f \in [SUBSET (1 .. N) -> A] :
             f = [some \in SUBSET (1 .. N) |->
                    IF some = {} THEN base ELSE G[Max(some)][f[some \ {Max(some)}]]]
  <2> HIDE DEF A, N, base, G
  <2>1. QED
    BY <1>6 DEF Recurs
<1>8. ASSUME NEW some \in SUBSET (1 .. N), some # {}
      PROVE  G[Max(some)][f[some \ {Max(some)}]]
               = Eliminate(f[some \ {Max(some)}], seq[Max(some)])
  <2> HIDE DEF A
  <2>1. Max(some) \in 1 .. N /\ some \ {Max(some)} \in SUBSET (1 .. N)
    BY <1>2, <1>8, WithoutGreatest
  <2>2. f[some \ {Max(some)}] \in A
    BY <1>7, <2>1
  <2>3. QED
    BY <2>1, <2>2
<1>9. f = body(f)
  <2> HIDE DEF A, G, base
  <2>1. QED
    BY <1>2, <1>7, <1>8
<1>10. iter = body(iter)
  BY <1>9
<1> HIDE DEF A, base, iter, seq, N
<1>11. iter[{}] = base
  BY <1>10
<1>12. \A some \in SUBSET (1 .. N) :
          some # {} => iter[some] = Eliminate(iter[some \ {Max(some)}], seq[Max(some)])
  BY <1>2, <1>10
<1>13. Eliminated(t) = iter[1 .. N]
  BY <1>2, <1>4
<1>14. Eliminations(t, iter)
  BY <1>11, <1>12, <1>13 DEF Eliminations, N, seq, base
<1>15. QED
  BY <1>14

(* The elimination of duplicates brings in no interface.                   *)
LEMMA EliminatedIn ==
    ASSUME NEW X, NEW t \in Seq(X)
    PROVE  Eliminated(t) \in Tables(Len(t), X)
<1>1. PICK n \in Nat, N \in Nat : n = Len(t) /\ N = Len(Pairs(n))
  BY PairsIn
<1>2. PICK iter : Eliminations(t, iter)
  BY EliminationFolds
<1>3. iter[{}] \in Tables(n, X)
  <2>1. t \in [1 .. n -> X] /\ n \in 0 .. n
    BY <1>1
  <2>2. QED
    BY <1>1, <1>2, <2>1 DEF Tables, Eliminations
<1>4. ASSUME NEW some \in SUBSET (1 .. N), some # {}, iter[some \ {Max(some)}] \in Tables(n, X)
      PROVE  iter[some] \in Tables(n, X)
  <2>1. iter[some] = Eliminate(iter[some \ {Max(some)}], Pairs(n)[Max(some)])
    BY <1>1, <1>2, <1>4 DEF Eliminations
  <2>2. QED
    BY <1>4, <2>1, EliminateIn
<1>5. iter[1 .. N] \in Tables(n, X)
  BY <1>3, <1>4, FoldStays
<1>6. QED
  BY <1>1, <1>2, <1>5 DEF Eliminations

LEMMA CollectedIn ==
    ASSUME decl \in Hierarchies, NEW c \in Classes, NEW X,
           Above(c).intfs \in Seq(X),
           \A k \in ToSet(decl[c].intfs) : layout[k].intfs \in Seq(X),
           decl[c].interface => c \in X
    PROVE  Collected(c) \in Seq(X)
<1> DEFINE seqs == [i \in DOMAIN decl[c].intfs |-> layout[decl[c].intfs[i]].intfs]
           own  == IF decl[c].interface THEN <<c>> ELSE << >>
<1>1. decl[c].intfs \in Seq(Classes)
  BY Declared
<1>2. /\ Len(decl[c].intfs) \in Nat
      /\ DOMAIN decl[c].intfs = 1 .. Len(decl[c].intfs)
  BY <1>1
<1>3. \A i \in DOMAIN decl[c].intfs : layout[decl[c].intfs[i]].intfs \in Seq(X)
  BY DEF ToSet
<1>4. seqs \in Seq(Seq(X))
  <2>1. seqs \in [1 .. Len(decl[c].intfs) -> Seq(X)]
    BY <1>2, <1>3
  <2> HIDE DEF seqs
  <2>2. QED
    BY <1>2, <2>1
<1>5. FlattenSeq(seqs) \in Seq(X)
  <2> HIDE DEF seqs
  <2>1. QED
    BY <1>4, FlattenIn
<1>6. own \in Seq(X)
  OBVIOUS
<1>7. Collected(c) = Above(c).intfs \o FlattenSeq(seqs) \o own
  BY DEF Collected
<1> HIDE DEF seqs, own
<1>8. QED
  BY <1>5, <1>6, <1>7

LEMMA InterfacesIn ==
    ASSUME decl \in Hierarchies, NEW c \in Classes, NEW X,
           Above(c).intfs \in Seq(X),
           \A k \in ToSet(decl[c].intfs) : layout[k].intfs \in Seq(X),
           decl[c].interface => c \in X
    PROVE  InterfaceInfo(c) \in Seq(X)
<1> DEFINE t == Collected(c)
           e == Eliminated(t)
<1>1. t \in Seq(X)
  BY CollectedIn
<1> HIDE DEF t
<1>2. e \in Tables(Len(t), X)
  BY <1>1, EliminatedIn
<1>3. e.table \in [1 .. Len(t) -> X] /\ e.last \in 0 .. Len(t) /\ Len(t) \in Nat
  BY <1>1, <1>2 DEF Tables
<1> HIDE DEF e
<1>4. e.table \in Seq(X) /\ Len(e.table) = Len(t)
  BY <1>3
<1>5. SubSeq(e.table, 1, e.last) \in Seq(X)
  <2>1. \A i \in 1 .. e.last : i \in 1 .. Len(t) /\ e.table[i] \in X
    BY <1>3
  <2>2. QED
    BY <1>3, <1>4, <2>1
<1>6. QED
  BY <1>5 DEF InterfaceInfo, e, t

-----------------------------------------------------------------------------
(* The invariant                                                           *)

(* The entry of the interface table that a call finds is a method of the   *)
(* vtable with the signature of the interface's.                           *)
Entry(o) == (o - ArrayOverhead) \div RefSize + 1

TableLeads(L, c) ==
    \A n \in DOMAIN L[c].intfs : \A j \in InstanceMethods(L[c].intfs[n]) :
        \E s \in DOMAIN L[c].vtable :
            /\ L[c].table[n][Entry(L[L[c].intfs[n]].offset[j])] = L[c].vtable[s]
            /\ Sig(L[c].vtable[s]) = decl[L[c].intfs[n]].methods[j].sig

IsConcrete(c) == ~decl[c].interface /\ ~decl[c].abstract

PreparedWell(L, some, c) ==
    /\ Supers(c) \union ToSet(decl[c].intfs) \subseteq some
    /\ L[c].intfs \in Seq(some)
    /\ ~decl[c].interface => VtableHolds(L, c)
    /\ IsConcrete(c) => TableLeads(L, c)

IInv ==
    /\ decl \in Hierarchies
    /\ prepared \subseteq Classes
    /\ layout = [c \in Classes |-> layout[c]]
    /\ \A c \in prepared : PreparedWell(layout, prepared, c)

LEMMA ProperMethods ==
    ASSUME ProperFiles, decl \in Hierarchies, NEW c \in Classes
    PROVE  SignaturesOnce(c) /\ \A i \in InstanceMethods(c) : decl[c].methods[i].sig # "<clinit>"
BY DEF ProperFiles, SignaturesOnce, InstanceMethods

(* All that a call through an interface needs of the assertions of         *)
(* prepare_interface_table.                                                *)
LEMMA NewTable ==
    ASSUME ProperFiles, decl \in Hierarchies, NEW c \in Classes, IsConcrete(c), Asserts(c),
           NEW some \in SUBSET Classes, InterfaceInfo(c) \in Seq(some),
           NEW L, \A k \in some : L[k] = layout[k],
           L[c].vtable = Vtable(c), Vtable(c) \in Vtables,
           L[c].intfs = InterfaceInfo(c), L[c].table = InterfaceTable(c)
    PROVE  TableLeads(L, c)
<1> DEFINE info == InterfaceInfo(c)
           v    == Vtable(c)
<1>1. DOMAIN info = 1 .. Len(info) /\ \A n \in DOMAIN info : info[n] \in some
  <2> HIDE DEF info
  <2>1. QED
    BY DEF info
<1>2. DOMAIN v = 1 .. Len(v) /\ Len(v) \in Nat
  <2> HIDE DEF v
  <2>1. QED
    BY DEF Vtables, v
<1> SUFFICES ASSUME NEW n \in DOMAIN info, NEW j \in InstanceMethods(info[n])
             PROVE  \E s \in DOMAIN v :
                      /\ L[c].table[n][Entry(L[info[n]].offset[j])] = v[s]
                      /\ Sig(v[s]) = decl[info[n]].methods[j].sig
  BY DEF TableLeads
<1> DEFINE k == info[n]
           m == decl[k].methods[j]
           same == {s \in DOMAIN v : Sig(v[s]) = m.sig}
<1>3. k \in some /\ k \in Classes /\ L[k] = layout[k]
  BY <1>1
<1>4. j \in DOMAIN decl[k].methods /\ j \in Nat /\ m.sig # "<clinit>"
  <2>1. j \in InstanceMethods(k)
    OBVIOUS
  <2> HIDE DEF k
  <2>2. j \in DOMAIN decl[k].methods /\ j \in Nat
    BY <1>3, <2>1, MethodNumbers
  <2>3. QED
    BY <1>3, <2>1, <2>2, ProperMethods
<1>5. /\ same # {}
      /\ j - 1 = (layout[k].offset[j] - ArrayOverhead) \div RefSize
  BY <1>4 DEF Asserts, IsConcrete
<1>6. same \subseteq Nat
  BY <1>2
<1>7. Min(same) \in same
  BY <1>5, <1>6, LeastOf
<1>8. L[c].table[n][j] = FindMethod(c, v, m)
  BY <1>4 DEF InterfaceTable, IsConcrete
<1>9. FindMethod(c, v, m) = v[Min(same)]
  BY <1>5 DEF FindMethod
<1>10. Entry(L[k].offset[j]) = j
  BY <1>3, <1>4, <1>5 DEF Entry
<1>11. QED
  BY <1>7, <1>8, <1>9, <1>10

(* A class is prepared after what it stands on, and gets what is right for *)
(* it, as far as what it stands on has.                                    *)
LEMMA PreparedVtable ==
    ASSUME ProperFiles, IInv, NEW c \in Classes, c \notin prepared, ~decl[c].interface,
           Supers(c) \subseteq prepared,
           NEW L, L = [layout EXCEPT ![c] = Layout(c)]
    PROVE  VtableHolds(L, c)
<1>1. /\ decl \in Hierarchies /\ prepared \subseteq Classes
      /\ \A d \in prepared : PreparedWell(layout, prepared, d)
      /\ layout = [d \in Classes |-> layout[d]]
  BY DEF IInv
<1>2. L[c] = Layout(c) /\ \A d \in Classes \ {c} : L[d] = layout[d]
  BY <1>1
<1>3. /\ L[c].vtable = Vtable(c)
      /\ L[c].offset = [i \in DOMAIN decl[c].methods |-> MethodOffset(c, i)]
  BY <1>2 DEF Layout
<1>4. ClosedUp(prepared)
  BY <1>1 DEF ClosedUp, PreparedWell
<1>5. decl[c].super # NoClass => decl[c].super \in prepared /\ ~decl[decl[c].super].interface
  BY <1>1, SupersAreClasses
<1>6. decl[c].super # NoClass =>
        c \notin Chain(decl[c].super) /\ VtableHolds(layout, decl[c].super)
  <2> SUFFICES ASSUME decl[c].super # NoClass
               PROVE  c \notin Chain(decl[c].super) /\ VtableHolds(layout, decl[c].super)
    OBVIOUS
  <2>1. Chain(decl[c].super) \subseteq prepared
    BY <1>1, <1>4, <1>5, ChainPrepared
  <2>2. QED
    BY <1>1, <1>5, <2>1 DEF PreparedWell
<1>7. AboveHolds(c)
  BY <1>1, <1>6, FromAbove
<1>8. SignaturesOnce(c)
  BY <1>1, ProperMethods
<1>9. \A d \in Chain(c) \ {c} : L[d] = layout[d]
  BY <1>1, <1>2, ChainHolds
<1>10. QED
  BY <1>1, <1>3, <1>7, <1>8, <1>9, NewVtable

LEMMA NewLayout ==
    ASSUME ProperFiles, IInv, NEW c \in Classes, c \notin prepared,
           Supers(c) \union ToSet(decl[c].intfs) \subseteq prepared, Asserts(c),
           NEW L, L = [layout EXCEPT ![c] = Layout(c)]
    PROVE  PreparedWell(L, prepared \union {c}, c)
<1> DEFINE some == prepared \union {c}
<1>1. /\ decl \in Hierarchies /\ some \in SUBSET Classes /\ prepared \subseteq Classes
      /\ \A d \in prepared : PreparedWell(layout, prepared, d)
      /\ layout = [d \in Classes |-> layout[d]]
  BY DEF IInv
<1>2. L[c] = Layout(c) /\ \A d \in Classes \ {c} : L[d] = layout[d]
  BY <1>1
<1>3. /\ L[c].vtable = Vtable(c) /\ L[c].intfs = InterfaceInfo(c)
      /\ L[c].table = InterfaceTable(c)
      /\ L[c].offset = [i \in DOMAIN decl[c].methods |-> MethodOffset(c, i)]
  BY <1>2 DEF Layout
<1>4. ClosedUp(prepared)
  BY <1>1 DEF ClosedUp, PreparedWell
<1>5. decl[c].super # NoClass => decl[c].super \in prepared /\ ~decl[decl[c].super].interface
  BY <1>1, SupersAreClasses
<1>6. Above(c).intfs \in Seq(prepared)
  <2>1. CASE decl[c].super = NoClass
    BY <2>1 DEF Above, Unprepared
  <2>2. CASE decl[c].super # NoClass
    BY <1>1, <1>5, <2>2 DEF Above, PreparedWell
  <2>3. QED
    BY <2>1, <2>2
<1>7. \A k \in ToSet(decl[c].intfs) : layout[k].intfs \in Seq(prepared)
  BY <1>1 DEF PreparedWell
<1>8. InterfaceInfo(c) \in Seq(some)
  <2>1. \A q \in Seq(prepared) : q \in Seq(some)
    OBVIOUS
  <2>2. /\ Above(c).intfs \in Seq(some)
        /\ \A k \in ToSet(decl[c].intfs) : layout[k].intfs \in Seq(some)
        /\ c \in some
    BY <1>6, <1>7, <2>1
  <2> HIDE DEF some
  <2>3. QED
    BY <1>1, <2>2, InterfacesIn
<1>9. ~decl[c].interface => VtableHolds(L, c)
  BY PreparedVtable
<1>10. IsConcrete(c) => TableLeads(L, c)
  <2> SUFFICES ASSUME IsConcrete(c) PROVE TableLeads(L, c)
    OBVIOUS
  <2>1. InterfaceInfo(c) \in Seq(prepared)
    BY <1>1, <1>6, <1>7, InterfacesIn DEF IsConcrete
  <2>2. \A k \in prepared : L[k] = layout[k]
    BY <1>1, <1>2
  <2>3. Vtable(c) \in Vtables
    BY <1>3, <1>9 DEF VtableHolds, IsConcrete
  <2>4. QED
    BY <1>1, <1>3, <2>1, <2>2, <2>3, NewTable
<1>11. QED
  BY <1>3, <1>8, <1>9, <1>10 DEF PreparedWell

(* What is right for a class stays so while the layouts of its chain and   *)
(* of its interfaces stay.                                                 *)
LEMMA WellStays ==
    ASSUME NEW L, NEW some, NEW c, decl' = decl, PreparedWell(L, some, c)
    PROVE  PreparedWell(L, some, c)'
<1>1. /\ \A d : Supers(d)' = Supers(d)
      /\ \A d : InstanceMethods(d)' = InstanceMethods(d)
      /\ \A m : Sig(m)' = Sig(m)
      /\ \A d, sig : Declares(d, sig)' <=> Declares(d, sig)
  BY DEF Supers, InstanceMethods, Sig, Declares
<1>2. \A d : Chain(d)' = Chain(d)
  BY DEF Chain, ClosedUp, Supers
<1>3. \A d, sig : Hidden(d, sig)' <=> Hidden(d, sig)
  BY <1>2 DEF Hidden
<1>4. ASSUME NEW v, NEW chain
      PROVE  /\ SlotsHoldMethods(v, chain)' <=> SlotsHoldMethods(v, chain)
             /\ SlotsHaveOffsets(L, v)' <=> SlotsHaveOffsets(L, v)
             /\ MethodsHaveSlots(L, v, chain)' <=> MethodsHaveSlots(L, v, chain)
             /\ SignaturesHaveASlot(v, c)' <=> SignaturesHaveASlot(v, c)
             /\ NearestInSlots(v, chain, c)' <=> NearestInSlots(v, chain, c)
  <2>1. SlotsHoldMethods(v, chain)' <=> SlotsHoldMethods(v, chain)
    BY <1>1 DEF SlotsHoldMethods
  <2>2. SlotsHaveOffsets(L, v)' <=> SlotsHaveOffsets(L, v)
    BY DEF SlotsHaveOffsets
  <2>3. MethodsHaveSlots(L, v, chain)' <=> MethodsHaveSlots(L, v, chain)
    BY <1>1 DEF MethodsHaveSlots
  <2>4. SignaturesHaveASlot(v, c)' <=> SignaturesHaveASlot(v, c)
    BY <1>1, <1>3 DEF SignaturesHaveASlot
  <2>5. NearestInSlots(v, chain, c)' <=> NearestInSlots(v, chain, c)
    BY <1>1, <1>2, <1>3 DEF NearestInSlots
  <2>6. QED
    BY <2>1, <2>2, <2>3, <2>4, <2>5
<1>5. VtableHolds(L, c)' <=> VtableHolds(L, c)
  BY <1>2, <1>4 DEF VtableHolds
<1>6. TableLeads(L, c)' <=> TableLeads(L, c)
  BY <1>1 DEF TableLeads
<1>7. IsConcrete(c)' <=> IsConcrete(c)
  BY DEF IsConcrete
<1>8. QED
  BY <1>1, <1>5, <1>6, <1>7 DEF PreparedWell

LEMMA WellElsewhere ==
    ASSUME IInv, NEW d \in prepared, NEW L, \A k \in prepared : L[k] = layout[k],
           NEW more \in SUBSET Classes, prepared \subseteq more
    PROVE  PreparedWell(L, more, d)
<1>1. /\ decl \in Hierarchies /\ prepared \subseteq Classes
      /\ ClosedUp(prepared) /\ PreparedWell(layout, prepared, d)
  BY DEF IInv, ClosedUp, PreparedWell
<1>2. L[d] = layout[d]
  OBVIOUS
<1>3. layout[d].intfs \in Seq(prepared) /\ layout[d].intfs \in Seq(more)
  <2>1. layout[d].intfs \in Seq(prepared)
    BY <1>1 DEF PreparedWell
  <2>2. QED
    BY <2>1
<1>4. Chain(d) \subseteq prepared
  BY <1>1, ChainPrepared
<1>5. ~decl[d].interface => VtableHolds(L, d)
  <2> SUFFICES ASSUME ~decl[d].interface PROVE VtableHolds(L, d)
    OBVIOUS
  <2> DEFINE v == layout[d].vtable
  <2>1. VtableHolds(layout, d)
    BY <1>1 DEF PreparedWell
  <2>2. SlotsHaveOffsets(L, v)
    <3>1. SlotsHoldMethods(v, Chain(d)) /\ SlotsHaveOffsets(layout, v)
      BY <2>1 DEF VtableHolds
    <3>2. \A k \in DOMAIN v : L[v[k].class] = layout[v[k].class]
      BY <1>4, <3>1 DEF SlotsHoldMethods
    <3>3. QED
      BY <3>1, <3>2 DEF SlotsHaveOffsets
  <2>3. MethodsHaveSlots(L, v, Chain(d))
    <3>1. MethodsHaveSlots(layout, v, Chain(d))
      BY <2>1 DEF VtableHolds
    <3>2. \A e \in Chain(d) : L[e] = layout[e]
      BY <1>4
    <3>3. QED
      BY <3>1, <3>2 DEF MethodsHaveSlots
  <2>4. QED
    BY <1>2, <2>1, <2>2, <2>3 DEF VtableHolds
<1>6. IsConcrete(d) => TableLeads(L, d)
  <2> SUFFICES ASSUME IsConcrete(d) PROVE TableLeads(L, d)
    OBVIOUS
  <2>1. PICK x : x = layout[d]
    OBVIOUS
  <2>2. L[d] = x /\ x.intfs \in Seq(prepared)
    BY <1>2, <1>3, <2>1
  <2>3. TableLeads(layout, d)
    BY <1>1 DEF PreparedWell
  <2>4. ASSUME NEW n \in DOMAIN x.intfs, NEW j \in InstanceMethods(x.intfs[n])
        PROVE  \E s \in DOMAIN x.vtable :
                 /\ x.table[n][Entry(L[x.intfs[n]].offset[j])]
                      = x.vtable[s]
                 /\ Sig(x.vtable[s]) = decl[x.intfs[n]].methods[j].sig
    <3>1. PICK k : k = x.intfs[n]
      OBVIOUS
    <3>2. k \in prepared
      BY <2>2, <3>1
    <3>3. L[k] = layout[k]
      BY <3>2
    <3>4. PICK s \in DOMAIN x.vtable :
            /\ x.table[n][Entry(layout[k].offset[j])] = x.vtable[s]
            /\ Sig(x.vtable[s]) = decl[k].methods[j].sig
      BY <2>1, <2>3, <3>1 DEF TableLeads
    <3>5. x.table[n][Entry(L[k].offset[j])] = x.vtable[s]
      BY <3>3, <3>4
    <3>6. QED
      BY <3>1, <3>4, <3>5, Zenon
  <2>5. QED
    BY <2>2, <2>4, Zenon DEF TableLeads
<1>7. QED
  BY <1>1, <1>2, <1>3, <1>5, <1>6 DEF PreparedWell

LEMMA Initially == Init => IInv
BY DEF Init, IInv, Unprepared

LEMMA PrepareKeeps ==
    ASSUME ProperFiles, IInv, NEW c \in Classes, Prepare(c)
    PROVE  IInv'
<1>1. /\ decl' = decl /\ prepared' = prepared \union {c}
      /\ layout' = [layout EXCEPT ![c] = Layout(c)]
      /\ c \notin prepared /\ Supers(c) \union ToSet(decl[c].intfs) \subseteq prepared
      /\ Asserts(c)
  BY DEF Prepare, Ready
<1>2. PICK L : L = [layout EXCEPT ![c] = Layout(c)]
  OBVIOUS
<1>3. PICK some : some = prepared \union {c}
  OBVIOUS
<1>4. /\ decl \in Hierarchies /\ prepared \subseteq Classes
      /\ layout = [d \in Classes |-> layout[d]]
  BY DEF IInv
<1>5. ASSUME NEW d \in some PROVE PreparedWell(L, some, d)
  <2>1. CASE d = c
    BY <1>1, <1>2, <1>3, <2>1, NewLayout
  <2>2. CASE d \in prepared
    <3>1. \A k \in prepared : L[k] = layout[k]
      BY <1>1, <1>2, <1>4
    <3>2. QED
      BY <1>3, <1>4, <2>2, <3>1, WellElsewhere
  <2>3. QED
    BY <1>3, <2>1, <2>2
<1>6. \A d \in some : PreparedWell(L, some, d)'
  BY <1>1, <1>5, WellStays
<1>7. layout' = L /\ prepared' = some
  BY <1>1, <1>2, <1>3
<1>8. \A d \in prepared' : PreparedWell(layout, prepared, d)'
  <2>1. \A l, p : l = layout' /\ p = prepared' =>
          (\A d \in p : PreparedWell(l, p, d)' <=> PreparedWell(layout, prepared, d)')
    BY DEF PreparedWell, VtableHolds, TableLeads, SlotsHaveOffsets, MethodsHaveSlots
  <2>2. QED
    BY <1>6, <1>7, <2>1
<1>9. QED
  BY <1>1, <1>4, <1>8 DEF IInv

LEMMA Invariant ==
    ASSUME ProperFiles
    PROVE  Spec => []IInv
<1>1. IInv /\ [Next]_vars => IInv'
  <2> SUFFICES ASSUME IInv, [Next]_vars PROVE IInv'
    OBVIOUS
  <2>1. ASSUME NEW c \in Classes, Prepare(c) PROVE IInv'
    BY <2>1, PrepareKeeps
  <2>2. CASE /\ decl' = decl /\ prepared' = prepared /\ layout' = layout
    <3>1. \A l, p : l = layout /\ p = prepared =>
            \A c \in p : PreparedWell(l, p, c)'
      <4> SUFFICES ASSUME NEW l, NEW p, l = layout, p = prepared, NEW c \in p
                   PROVE  PreparedWell(l, p, c)'
        OBVIOUS
      <4>1. PreparedWell(l, p, c) <=> PreparedWell(layout, prepared, c)
        OBVIOUS
      <4>2. PreparedWell(l, p, c)
        BY <4>1 DEF IInv
      <4>3. QED
        BY <2>2, <4>2, WellStays
    <3>2. \A l, p : l = layout' /\ p = prepared' =>
            (\A c \in p : PreparedWell(l, p, c)' <=> PreparedWell(layout, prepared, c)')
      BY DEF PreparedWell, VtableHolds, TableLeads, SlotsHaveOffsets, MethodsHaveSlots
    <3>3. \A c \in prepared' : PreparedWell(layout, prepared, c)'
      <4>1. PICK l, p : l = layout /\ p = prepared
        OBVIOUS
      <4>2. l = layout' /\ p = prepared'
        BY <2>2, <4>1
      <4>3. QED
        BY <3>1, <3>2, <4>1, <4>2
    <3>4. QED
      BY <2>2, <3>3 DEF IInv
  <2>3. ASSUME NEW c \in Classes, PrepareFails(c) PROVE IInv'
    BY <2>2, <2>3 DEF PrepareFails
  <2>4. ASSUME NEW c \in Classes, PrepareCrashes(c) PROVE IInv'
    BY <2>2, <2>4 DEF PrepareCrashes
  <2>5. CASE UNCHANGED vars
    BY <2>2, <2>5 DEF vars
  <2>6. QED
    BY <2>1, <2>3, <2>4, <2>5 DEF Next
<1>2. QED
  BY <1>1, Initially, PTL DEF Spec

LEMMA VirtualCalls == IInv => VirtualCallsArrive
<1> SUFFICES ASSUME IInv, NEW c \in prepared, ~decl[c].interface,
                    NEW d \in Chain(c), NEW i \in InstanceMethods(d)
             PROVE  LET sig  == decl[d].methods[i].sig
                        slot == (layout[d].offset[i] - KlassSize - ArrayOverhead) \div RefSize + 1
                        m    == layout[c].vtable[slot]
                        declares(e) == \E j \in InstanceMethods(e) : decl[e].methods[j].sig = sig
                    IN  ~Hidden(c, sig) =>
                          /\ Sig(m) = sig
                          /\ \A e \in Chain(c) : declares(e) => e \in Chain(m.class)
  BY DEF VirtualCallsArrive
<1> DEFINE v == layout[c].vtable
<1>1. VtableHolds(layout, c)
  BY DEF IInv, PreparedWell
<1>2. PICK k \in DOMAIN v : /\ layout[d].offset[i] = SlotOffset(k)
                            /\ Sig(v[k]) = decl[d].methods[i].sig
  BY <1>1 DEF VtableHolds, MethodsHaveSlots
<1>3. k \in Nat \ {0}
  BY <1>1 DEF VtableHolds, Vtables
<1>4. (layout[d].offset[i] - KlassSize - ArrayOverhead) \div RefSize + 1 = k
  BY <1>2, <1>3, SlotOffsets
<1>5. ~Hidden(c, Sig(v[k])) =>
        \A e \in Chain(c) : Declares(e, Sig(v[k])) => e \in Chain(v[k].class)
  BY <1>1, <1>2 DEF VtableHolds, NearestInSlots
<1>6. QED
  BY <1>2, <1>4, <1>5 DEF Declares

LEMMA InterfaceCalls == IInv => InterfaceCallsArrive
<1> SUFFICES ASSUME IInv, NEW c \in Concrete, NEW k \in ToSet(layout[c].intfs),
                    NEW j \in InstanceMethods(k), ~Hidden(c, decl[k].methods[j].sig)
             PROVE  {s \in DOMAIN layout[c].vtable :
                        Sig(layout[c].vtable[s]) = decl[k].methods[j].sig}
                    = {(InterfaceMethodOffset(c, k, j) - KlassSize - ArrayOverhead)
                          \div RefSize + 1}
  BY DEF InterfaceCallsArrive
<1> DEFINE v    == layout[c].vtable
           sig  == decl[k].methods[j].sig
           at   == {n \in DOMAIN layout[c].intfs : layout[c].intfs[n] = k}
           n    == Min(at)
<1>1. VtableHolds(layout, c) /\ TableLeads(layout, c) /\ layout[c].intfs \in Seq(prepared)
  BY DEF IInv, PreparedWell, Concrete, IsConcrete
<1>2. n \in DOMAIN layout[c].intfs /\ layout[c].intfs[n] = k
  <2>1. at \subseteq Nat
    BY <1>1
  <2>2. at # {}
    BY DEF ToSet
  <2>3. n \in at
    BY <2>1, <2>2, LeastOf
  <2>4. QED
    BY <2>3
<1> HIDE DEF at, n
<1>3. PICK s \in DOMAIN v :
        /\ layout[c].table[n][Entry(layout[k].offset[j])] = v[s]
        /\ Sig(v[s]) = sig
  BY <1>1, <1>2 DEF TableLeads
<1>4. layout[v[s].class].offset[v[s].index] = SlotOffset(s)
  BY <1>1 DEF VtableHolds, SlotsHaveOffsets
<1>5. InterfaceMethodOffset(c, k, j) = SlotOffset(s)
  BY <1>3, <1>4 DEF InterfaceMethodOffset, Entry, n, at
<1>6. s \in Nat \ {0}
  BY <1>1 DEF VtableHolds, Vtables
<1>7. (InterfaceMethodOffset(c, k, j) - KlassSize - ArrayOverhead) \div RefSize + 1 = s
  BY <1>5, <1>6, SlotOffsets
<1>8. \A l \in DOMAIN v : Sig(v[l]) = sig => l = s
  BY <1>1, <1>3 DEF VtableHolds, SignaturesHaveASlot
<1>9. QED
  BY <1>3, <1>7, <1>8

(* Every call that the JIT compiles against the layouts of class_prepare   *)
(* arrives: a virtual call, compiled against any class of the chain, at    *)
(* the method of the nearest class that declares one with the signature,   *)
(* and a call through an interface where the virtual call would.           *)
THEOREM CallsAlwaysArrive ==
    ASSUME ProperFiles
    PROVE  Spec => []CallsArrive
<1>1. IInv => CallsArrive
  BY VirtualCalls, InterfaceCalls DEF CallsArrive
<1>2. QED
  BY <1>1, Invariant, PTL

-----------------------------------------------------------------------------
(* Fields                                                                  *)

FieldDecls(fs) ==
    \A i \in DOMAIN fs : /\ i \in Nat /\ fs[i].size \in 0 .. 8
                         /\ fs[i].static \in BOOLEAN /\ fs[i].ref \in BOOLEAN

LEMMA FieldsDeclared ==
    ASSUME decl \in Hierarchies, NEW c \in Classes
    PROVE  /\ FieldDecls(decl[c].fields) /\ IsFiniteSet(DOMAIN decl[c].fields)
<1>1. PICK fs : fs = decl[c].fields
  OBVIOUS
<1>2. fs \in Seq(FieldDecl)
  BY <1>1, Declared
<1>3. DOMAIN fs = 1 .. Len(fs) /\ Len(fs) \in Nat
  BY <1>2
<1>4. \A f \in FieldDecl : f.size \in 0 .. 8 /\ f.static \in BOOLEAN /\ f.ref \in BOOLEAN
  <2>1. ASSUME NEW f \in [static : BOOLEAN, ref : {FALSE}, size : {0, 1, 2, 4, 8}]
        PROVE  f.size \in 0 .. 8 /\ f.static \in BOOLEAN /\ f.ref \in BOOLEAN
    <3>1. f.size \in {0, 1, 2, 4, 8}
      OBVIOUS
    <3>2. f.static \in BOOLEAN
      OBVIOUS
    <3>3. f.ref \in {FALSE}
      OBVIOUS
    <3>4. f.ref \in BOOLEAN
      BY <3>3, Zenon
    <3>5. QED
      BY <3>1, <3>2, <3>4
  <2>2. ASSUME NEW f \in [static : BOOLEAN, ref : {TRUE}, size : {4}]
        PROVE  f.size \in 0 .. 8 /\ f.static \in BOOLEAN /\ f.ref \in BOOLEAN
    <3>1. f.size \in {4}
      OBVIOUS
    <3>2. f.static \in BOOLEAN
      OBVIOUS
    <3>3. f.ref \in {TRUE}
      OBVIOUS
    <3>4. f.ref \in BOOLEAN
      BY <3>3, Zenon
    <3>5. QED
      BY <3>1, <3>2, <3>4
  <2>3. QED
    BY <2>1, <2>2 DEF FieldDecl
<1>5. \A i \in DOMAIN fs : fs[i] \in FieldDecl
  BY <1>2
<1>6. IsFiniteSet(DOMAIN fs)
  BY <1>3, FS_Interval
<1>7. FieldDecls(fs)
  BY <1>3, <1>4, <1>5 DEF FieldDecls
<1>8. QED
  BY <1>1, <1>6, <1>7

(* Every byte of some fields is one of one of them.                        *)
LEMMA BytesCount ==
    ASSUME NEW fs, FieldDecls(fs), IsFiniteSet(DOMAIN fs), NEW some \in SUBSET DOMAIN fs
    PROVE  IsFiniteSet(Bytes(fs, some)) /\ SizeOf(fs, some) \in Nat
<1>1. PICK n \in Nat : n = 8
  OBVIOUS
<1>2. IsFiniteSet(1 .. n)
  BY FS_Interval
<1>3. IsFiniteSet((DOMAIN fs) \X (1 .. n))
  BY <1>2, FS_Product
<1>4. Bytes(fs, some) \subseteq (DOMAIN fs) \X (1 .. n)
  <2>1. \A j \in some : 1 .. fs[j].size \subseteq 1 .. n
    BY <1>1 DEF FieldDecls
  <2>2. ASSUME NEW x \in Bytes(fs, some) PROVE x \in (DOMAIN fs) \X (1 .. n)
    <3>1. PICK j \in some : \E b \in 1 .. fs[j].size : x = <<j, b>>
      BY DEF Bytes
    <3>2. PICK b \in 1 .. fs[j].size : x = <<j, b>>
      BY <3>1
    <3>3. j \in DOMAIN fs /\ b \in 1 .. n
      BY <2>1
    <3>4. QED
      BY <3>2, <3>3
  <2>3. QED
    BY <2>2
<1>5. IsFiniteSet(Bytes(fs, some))
  BY <1>3, <1>4, FS_Subset
<1>6. QED
  BY <1>5, FS_CardinalityType DEF SizeOf

LEMMA BytesGrow ==
    ASSUME NEW fs, FieldDecls(fs), IsFiniteSet(DOMAIN fs),
           NEW more \in SUBSET DOMAIN fs, NEW some \in SUBSET more
    PROVE  SizeOf(fs, some) <= SizeOf(fs, more)
<1>1. Bytes(fs, some) \subseteq Bytes(fs, more)
  BY DEF Bytes
<1>2. IsFiniteSet(Bytes(fs, more))
  BY BytesCount
<1>3. QED
  BY <1>1, <1>2, FS_Subset DEF SizeOf

(* A field adds its own bytes to those before it.                          *)
LEMMA BytesOfField ==
    ASSUME NEW fs, FieldDecls(fs), IsFiniteSet(DOMAIN fs),
           NEW some \in SUBSET DOMAIN fs, NEW i \in DOMAIN fs \ some
    PROVE  SizeOf(fs, some \union {i}) = SizeOf(fs, some) + fs[i].size
<1> DEFINE own == {i} \X (1..fs[i].size)
           old == Bytes(fs, some)
<1>1. Bytes(fs, some \union {i}) = old \union own
  BY DEF Bytes
<1>2. old \intersect own = {}
  BY DEF Bytes
<1>3. IsFiniteSet(old) /\ Cardinality(old) \in Nat
  BY BytesCount DEF SizeOf
<1>4. PICK n \in Nat : n = fs[i].size
  BY DEF FieldDecls
<1>5. IsFiniteSet(1 .. n) /\ Cardinality(1 .. n) = n
  BY FS_Interval
<1>6. IsFiniteSet(own) /\ Cardinality(own) = n
  <2>1. IsFiniteSet({i}) /\ Cardinality({i}) = 1
    BY FS_Singleton
  <2>2. IsFiniteSet({i} \X (1 .. n))
    BY <1>5, <2>1, FS_Product
  <2>3. Cardinality({i} \X (1 .. n)) = Cardinality({i}) * Cardinality(1 .. n)
    BY <1>5, <2>1, FS_Product
  <2>4. QED
    BY <1>4, <1>5, <2>1, <2>2, <2>3
<1> HIDE DEF own, old
<1>7. Cardinality(old \union own) = Cardinality(old) + Cardinality(own) - Cardinality({})
  BY <1>2, <1>3, <1>6, FS_Union
<1>8. Cardinality({}) = 0
  BY FS_EmptySet
<1>9. Cardinality(old \union own) = Cardinality(old) + n
  BY <1>3, <1>6, <1>7, <1>8
<1>10. QED
  BY <1>1, <1>4, <1>9 DEF SizeOf, old

(* Where a field ends, behind the fields of its kind placed before it.     *)
Start(fs, i) == SizeOf(fs, PlacedBefore(fs, i))

LEMMA FieldPlaces ==
    ASSUME NEW fs, FieldDecls(fs), IsFiniteSet(DOMAIN fs), NEW static \in BOOLEAN,
           NEW i \in Own(fs, static)
    PROVE  /\ Start(fs, i) \in Nat /\ fs[i].size \in Nat
           /\ Start(fs, i) + fs[i].size <= SizeOf(fs, Own(fs, static))
           /\ \A j \in Own(fs, static) :
                i # j => \/ Start(fs, i) + fs[i].size <= Start(fs, j)
                         \/ Start(fs, j) + fs[j].size <= Start(fs, i)
<1> DEFINE upto(j) == PlacedBefore(fs, j) \union {j}
<1>1. ASSUME NEW j \in Own(fs, static)
      PROVE  /\ upto(j) \in SUBSET Own(fs, static)
             /\ PlacedBefore(fs, j) \in SUBSET DOMAIN fs
             /\ j \in DOMAIN fs \ PlacedBefore(fs, j)
  BY DEF PlacedBefore, Own, FieldDecls
<1>2. ASSUME NEW j \in Own(fs, static)
      PROVE  /\ Start(fs, j) \in Nat /\ fs[j].size \in Nat
             /\ SizeOf(fs, upto(j)) = Start(fs, j) + fs[j].size
  BY <1>1, BytesCount, BytesOfField DEF Start, FieldDecls
<1>3. Own(fs, static) \in SUBSET DOMAIN fs
  BY DEF Own
<1>4. SizeOf(fs, upto(i)) <= SizeOf(fs, Own(fs, static))
  BY <1>1, <1>3, BytesGrow
<1>5. ASSUME NEW j \in Own(fs, static), i # j
      PROVE  \/ upto(i) \in SUBSET PlacedBefore(fs, j)
             \/ upto(j) \in SUBSET PlacedBefore(fs, i)
  BY <1>5 DEF PlacedBefore, Own, FieldDecls
<1> HIDE DEF upto
<1>6. ASSUME NEW j \in Own(fs, static), i # j
      PROVE  \/ Start(fs, i) + fs[i].size <= Start(fs, j)
             \/ Start(fs, j) + fs[j].size <= Start(fs, i)
  <2>1. CASE upto(i) \in SUBSET PlacedBefore(fs, j)
    <3>1. SizeOf(fs, upto(i)) <= Start(fs, j)
      BY <1>1, <2>1, BytesGrow DEF Start
    <3>2. QED
      BY <1>2, <3>1
  <2>2. CASE upto(j) \in SUBSET PlacedBefore(fs, i)
    <3>1. SizeOf(fs, upto(j)) <= Start(fs, i)
      BY <1>1, <2>2, BytesGrow DEF Start
    <3>2. QED
      BY <1>2, <3>1
  <2>3. QED
    BY <1>5, <1>6, <2>1, <2>2
<1>7. QED
  BY <1>2, <1>4, <1>6

(* The bytes of an object of a class: those of the instance fields of its  *)
(* chain.  No object outgrows the 16 bits of its size.                     *)
OwnBytes(c)    == {c} \X Bytes(decl[c].fields, Own(decl[c].fields, FALSE))
ObjectBytes(c) == UNION {OwnBytes(d) : d \in Chain(c)}
SmallObjects   == \A c \in Classes : ObjOverhead + Cardinality(ObjectBytes(c)) < 2^16

InstanceFields(c) == UNION {{d} \X Own(decl[d].fields, FALSE) : d \in Chain(c)}

(* Where a field begins and ends.                                          *)
From(L, p) == L[p[1]].field[p[2]]
To(L, p)   == From(L, p) + decl[p[1]].fields[p[2]].size

ObjectHolds(L, c) ==
    /\ IsFiniteSet(ObjectBytes(c))
    /\ L[c].size = ObjOverhead + Cardinality(ObjectBytes(c))
    /\ \A p \in InstanceFields(c) :
          From(L, p) \in Nat /\ From(L, p) >= ObjOverhead /\ To(L, p) <= L[c].size
    /\ \A p, q \in InstanceFields(c) :
          p # q => To(L, p) <= From(L, q) \/ To(L, q) <= From(L, p)

(* The bytes that a class adds to the objects of its superclass.           *)
LEMMA OwnBytesCount ==
    ASSUME decl \in Hierarchies, NEW c \in Classes
    PROVE  /\ IsFiniteSet(OwnBytes(c))
           /\ Cardinality(OwnBytes(c)) = SizeOf(decl[c].fields, Own(decl[c].fields, FALSE))
<1>1. PICK fs : fs = decl[c].fields
  OBVIOUS
<1>2. PICK bytes : bytes = Bytes(fs, Own(fs, FALSE))
  OBVIOUS
<1>3. IsFiniteSet(bytes) /\ Cardinality(bytes) \in Nat
  <2>1. Own(fs, FALSE) \in SUBSET DOMAIN fs
    BY DEF Own
  <2>2. QED
    BY <1>1, <1>2, <2>1, FieldsDeclared, BytesCount DEF SizeOf
<1>4. IsFiniteSet({c}) /\ Cardinality({c}) = 1
  BY FS_Singleton
<1>5. /\ IsFiniteSet({c} \X bytes)
      /\ Cardinality({c} \X bytes) = Cardinality({c}) * Cardinality(bytes)
  BY <1>3, <1>4, FS_Product
<1>6. Cardinality({c} \X bytes) = Cardinality(bytes)
  BY <1>3, <1>4, <1>5
<1>7. OwnBytes(c) = {c} \X bytes
  BY <1>1, <1>2, Zenon DEF OwnBytes
<1>8. SizeOf(decl[c].fields, Own(decl[c].fields, FALSE)) = Cardinality(bytes)
  BY <1>1, <1>2, Zenon DEF SizeOf
<1>9. QED
  BY <1>5, <1>6, <1>7, <1>8, Zenon

LEMMA ObjectBytesGrow ==
    ASSUME decl \in Hierarchies, prepared \subseteq Classes, ClosedUp(prepared),
           NEW c \in Classes, c \notin prepared, Supers(c) \subseteq prepared,
           decl[c].super # NoClass => ObjectHolds(layout, decl[c].super)
    PROVE  /\ IsFiniteSet(ObjectBytes(c))
           /\ InstanceBase(c) \in Nat /\ InstanceBase(c) >= ObjOverhead
           /\ InstanceBase(c) + SizeOf(decl[c].fields, Own(decl[c].fields, FALSE))
                = ObjOverhead + Cardinality(ObjectBytes(c))
<1> DEFINE added == SizeOf(decl[c].fields, Own(decl[c].fields, FALSE))
<1>1. IsFiniteSet(OwnBytes(c)) /\ added \in Nat /\ added = Cardinality(OwnBytes(c))
  <2>1. IsFiniteSet(OwnBytes(c)) /\ Cardinality(OwnBytes(c)) = added
    BY OwnBytesCount, Zenon
  <2>2. QED
    BY <2>1, FS_CardinalityType
<1> HIDE DEF added
<1> SUFFICES /\ IsFiniteSet(ObjectBytes(c))
             /\ InstanceBase(c) \in Nat /\ InstanceBase(c) >= ObjOverhead
             /\ InstanceBase(c) + added = ObjOverhead + Cardinality(ObjectBytes(c))
  BY Zenon DEF added
<1>2. CASE decl[c].super = NoClass
  <2>1. Chain(c) = {c}
    BY <1>2, ChainStep
  <2>2. ObjectBytes(c) = OwnBytes(c)
    BY <2>1 DEF ObjectBytes
  <2>3. InstanceBase(c) = ObjOverhead
    BY <1>2 DEF InstanceBase
  <2>4. QED
    BY <1>1, <2>2, <2>3 DEF ObjOverhead
<1>3. CASE decl[c].super # NoClass
  <2>1. PICK s : s = decl[c].super
    OBVIOUS
  <2>2. s \in prepared /\ s \in Classes
    BY <1>3, <2>1, SupersAreClasses
  <2>3. Chain(s) \subseteq prepared /\ c \notin Chain(s)
    BY <2>2, ChainPrepared
  <2>4. ObjectBytes(c) = OwnBytes(c) \union ObjectBytes(s)
    <3>1. Chain(c) = {c} \union Chain(s)
      BY <1>3, <2>1, ChainStep
    <3>2. QED
      BY <3>1 DEF ObjectBytes
  <2>5. OwnBytes(c) \intersect ObjectBytes(s) = {}
    <3>1. ASSUME NEW x \in OwnBytes(c), x \in ObjectBytes(s) PROVE FALSE
      <4>1. PICK d \in Chain(s) : x \in OwnBytes(d)
        BY <3>1 DEF ObjectBytes
      <4>2. x[1] = c /\ x[1] = d
        BY <3>1, <4>1 DEF OwnBytes
      <4>3. QED
        BY <2>3, <4>1, <4>2
    <3>2. QED
      BY <3>1
  <2>6. IsFiniteSet(ObjectBytes(s)) /\ Cardinality(ObjectBytes(s)) \in Nat
    BY <1>3, <2>1, FS_CardinalityType DEF ObjectHolds
  <2>7. /\ IsFiniteSet(ObjectBytes(c))
        /\ Cardinality(ObjectBytes(c))
             = Cardinality(OwnBytes(c)) + Cardinality(ObjectBytes(s)) - Cardinality({})
    BY <1>1, <2>4, <2>5, <2>6, FS_Union
  <2>8. Cardinality(ObjectBytes(c)) = Cardinality(OwnBytes(c)) + Cardinality(ObjectBytes(s))
    <3>1. Cardinality({}) = 0
      BY FS_EmptySet
    <3>2. QED
      BY <1>1, <2>6, <2>7, <3>1
  <2>9. InstanceBase(c) = ObjOverhead + Cardinality(ObjectBytes(s))
    BY <1>3, <2>1 DEF InstanceBase, Above, ObjectHolds
  <2>10. QED
    BY <1>1, <2>6, <2>7, <2>8, <2>9 DEF ObjOverhead
<1>4. QED
  BY <1>2, <1>3

LEMMA FieldOfObject ==
    ASSUME decl \in Hierarchies, NEW c \in Classes, NEW p \in InstanceFields(c)
    PROVE  \E d \in Chain(c) : \E i \in Own(decl[d].fields, FALSE) :
              p = <<d, i>> /\ decl[d].fields[i].size \in Nat
<1>1. PICK d \in Chain(c) : p \in {d} \X Own(decl[d].fields, FALSE)
  BY DEF InstanceFields
<1>2. PICK own : own = Own(decl[d].fields, FALSE)
  OBVIOUS
<1>3. PICK i \in own : p = <<d, i>>
  <2>1. p \in {d} \X own
    BY <1>1, <1>2, Zenon
  <2>2. p = <<d, p[2]>> /\ p[2] \in own
    BY <2>1
  <2>3. QED
    BY <2>2
<1>4. d \in Classes /\ i \in DOMAIN decl[d].fields
  BY <1>2, ChainHolds DEF Own
<1>5. decl[d].fields[i].size \in Nat
  BY <1>4, FieldsDeclared DEF FieldDecls
<1>6. QED
  BY <1>2, <1>3, <1>5

LEMMA EndOfField ==
    ASSUME decl \in Hierarchies, NEW c \in Classes, NEW p \in InstanceFields(c),
           NEW L, From(L, p) \in Nat
    PROVE  To(L, p) \in Int
<1>1. PICK d \in Chain(c) : \E i \in Own(decl[d].fields, FALSE) :
              p = <<d, i>> /\ decl[d].fields[i].size \in Nat
  BY FieldOfObject
<1>2. PICK i \in Own(decl[d].fields, FALSE) : p = <<d, i>> /\ decl[d].fields[i].size \in Nat
  BY <1>1
<1>3. QED
  BY <1>2 DEF To

(* What class_prepare computes for a class is right, if it is for the      *)
(* superclass: the 16 bits cut nothing off.                                *)
LEMMA NewObject ==
    ASSUME decl \in Hierarchies, SmallObjects,
           prepared \subseteq Classes, ClosedUp(prepared),
           NEW c \in Classes, c \notin prepared, Supers(c) \subseteq prepared,
           ~decl[c].interface,
           decl[c].super # NoClass => ObjectHolds(layout, decl[c].super),
           NEW L, L[c] = Layout(c), \A d \in prepared : L[d] = layout[d]
    PROVE  ObjectHolds(L, c)
<1>1. PICK fs : fs = decl[c].fields
  OBVIOUS
<1>2. PICK base : base = InstanceBase(c)
  OBVIOUS
<1>3. PICK total : total = Cardinality(ObjectBytes(c))
  OBVIOUS
<1>4. PICK added : added = SizeOf(fs, Own(fs, FALSE))
  OBVIOUS
<1>5. /\ IsFiniteSet(ObjectBytes(c)) /\ base \in Nat /\ base >= ObjOverhead
      /\ base + added = ObjOverhead + total
  <2>1. InstanceBase(c) + SizeOf(decl[c].fields, Own(decl[c].fields, FALSE))
          = ObjOverhead + Cardinality(ObjectBytes(c))
    BY ObjectBytesGrow, Zenon
  <2>2. IsFiniteSet(ObjectBytes(c)) /\ InstanceBase(c) \in Nat /\ InstanceBase(c) >= ObjOverhead
    BY ObjectBytesGrow, Zenon
  <2>3. QED
    BY <1>1, <1>2, <1>3, <1>4, <2>1, <2>2
<1>6. total \in Nat /\ ObjOverhead + total < 2^16
  BY <1>3, <1>5, FS_CardinalityType DEF SmallObjects
<1>7. FieldDecls(fs) /\ IsFiniteSet(DOMAIN fs)
  BY <1>1, FieldsDeclared
<1>8. added \in Nat
  <2>1. Own(fs, FALSE) \in SUBSET DOMAIN fs
    BY DEF Own
  <2>2. QED
    BY <1>4, <1>7, <2>1, BytesCount
<1>9. L[c].size = ObjOverhead + total
  <2>1. L[c].size = InstanceSize(c)
    BY DEF Layout
  <2>2. InstanceSize(c) = (base + added) % 2^16
    BY <1>1, <1>2, <1>4, Zenon DEF InstanceSize
  <2>3. QED
    BY <1>5, <1>6, <2>1, <2>2 DEF ObjOverhead
<1>10. ASSUME NEW i \in Own(fs, FALSE)
       PROVE  /\ i \in DOMAIN fs /\ Start(fs, i) \in Nat /\ fs[i].size \in Nat
              /\ Start(fs, i) + fs[i].size <= added
              /\ \A j \in Own(fs, FALSE) :
                   i # j => \/ Start(fs, i) + fs[i].size <= Start(fs, j)
                            \/ Start(fs, j) + fs[j].size <= Start(fs, i)
  <2>1. i \in DOMAIN fs
    BY DEF Own
  <2>2. QED
    BY <1>4, <1>7, <2>1, FieldPlaces
<1>11. ASSUME NEW i \in Own(fs, FALSE)
       PROVE  From(L, <<c, i>>) = base + Start(fs, i)
  <2>1. From(L, <<c, i>>) = Layout(c).field[i]
    BY DEF From
  <2>2. i \in DOMAIN fs /\ ~fs[i].static
    BY DEF Own
  <2>3. Layout(c).field[i] = FieldOffset(c, i)
    BY <1>1, <2>2 DEF Layout
  <2>4. FieldOffset(c, i) = (base + Start(fs, i)) % 2^16
    BY <1>1, <1>2, <2>2 DEF FieldOffset, Start
  <2>5. base + Start(fs, i) \in Nat /\ base + Start(fs, i) < 2^16
    <3>1. /\ Start(fs, i) \in Nat /\ fs[i].size \in Nat
          /\ Start(fs, i) + fs[i].size <= added
      BY <1>10
    <3>2. QED
      BY <1>5, <1>6, <1>8, <3>1 DEF ObjOverhead
  <2>6. QED
    BY <2>1, <2>3, <2>4, <2>5
<1>12. ASSUME NEW i \in Own(fs, FALSE)
       PROVE  To(L, <<c, i>>) = base + Start(fs, i) + fs[i].size
  BY <1>1, <1>11 DEF To

(* A field of the class itself, or of its superclass's objects.            *)
<1>13. ASSUME NEW p \in InstanceFields(c)
       PROVE  \/ \E i \in Own(fs, FALSE) : p = <<c, i>>
              \/ /\ decl[c].super # NoClass /\ p \in InstanceFields(decl[c].super)
                 /\ p[1] \in prepared
  <2>1. PICK d \in Chain(c) : \E i \in Own(decl[d].fields, FALSE) :
              p = <<d, i>> /\ decl[d].fields[i].size \in Nat
    BY FieldOfObject
  <2>2. CASE d = c
    BY <1>1, <2>1, <2>2
  <2>3. CASE d # c
    <3>1. decl[c].super # NoClass /\ d \in Chain(decl[c].super)
      BY <2>3, ChainStep
    <3>2. decl[c].super \in prepared
      BY <3>1, SupersAreClasses
    <3>3. d \in prepared
      BY <3>1, <3>2, ChainPrepared
    <3>4. p[1] = d
      BY <2>1
    <3>5. p \in InstanceFields(decl[c].super)
      <4>1. PICK own : own = Own(decl[d].fields, FALSE)
        OBVIOUS
      <4>2. p \in {d} \X own
        <5>1. PICK i \in own : p = <<d, i>>
          BY <2>1, <4>1, Zenon
        <5>2. QED
          BY <5>1
      <4>3. p \in {d} \X Own(decl[d].fields, FALSE)
        BY <4>1, <4>2, Zenon
      <4>4. QED
        BY <3>1, <4>3 DEF InstanceFields
    <3>6. QED
      BY <3>1, <3>3, <3>4, <3>5
  <2>4. QED
    BY <2>2, <2>3
<1>14. ASSUME decl[c].super # NoClass, NEW p \in InstanceFields(decl[c].super),
              p[1] \in prepared
       PROVE  /\ From(L, p) = From(layout, p) /\ To(L, p) = To(layout, p)
              /\ From(layout, p) \in Nat /\ From(layout, p) >= ObjOverhead
              /\ To(layout, p) <= base
  <2>1. base = layout[decl[c].super].size
    BY <1>2, <1>14 DEF InstanceBase, Above
  <2>2. From(L, p) = From(layout, p) /\ To(L, p) = To(layout, p)
    BY <1>14 DEF From, To
  <2>3. QED
    BY <1>14, <2>1, <2>2 DEF ObjectHolds
<1>15. ASSUME NEW p \in InstanceFields(c)
       PROVE  From(L, p) \in Nat /\ From(L, p) >= ObjOverhead /\ To(L, p) <= L[c].size
  <2>1. CASE \E i \in Own(fs, FALSE) : p = <<c, i>>
    <3>1. PICK i \in Own(fs, FALSE) : p = <<c, i>>
      BY <2>1
    <3>2. From(L, p) = base + Start(fs, i) /\ To(L, p) = base + Start(fs, i) + fs[i].size
      BY <1>11, <1>12, <3>1
    <3>3. /\ Start(fs, i) \in Nat /\ fs[i].size \in Nat
          /\ Start(fs, i) + fs[i].size <= added
      BY <1>10
    <3>4. QED
      BY <1>5, <1>6, <1>8, <1>9, <3>2, <3>3 DEF ObjOverhead
  <2>2. CASE /\ decl[c].super # NoClass /\ p \in InstanceFields(decl[c].super)
             /\ p[1] \in prepared
    <3>1. /\ From(L, p) = From(layout, p) /\ To(L, p) = To(layout, p)
          /\ From(layout, p) \in Nat /\ From(layout, p) >= ObjOverhead
          /\ To(layout, p) <= base
      BY <1>14, <2>2
    <3>2. base <= L[c].size
      BY <1>5, <1>6, <1>8, <1>9 DEF ObjOverhead
    <3>3. To(layout, p) \in Int
      BY <3>1, EndOfField
    <3>4. QED
      BY <1>5, <1>6, <1>9, <3>1, <3>2, <3>3 DEF ObjOverhead
  <2>3. QED
    BY <1>13, <2>1, <2>2
<1>16. ASSUME NEW p \in InstanceFields(c), NEW q \in InstanceFields(c), p # q,
              \E i \in Own(fs, FALSE) : p = <<c, i>>
       PROVE  To(L, p) <= From(L, q) \/ To(L, q) <= From(L, p)
  <2>1. PICK i \in Own(fs, FALSE) : p = <<c, i>>
    BY <1>16
  <2>2. From(L, p) = base + Start(fs, i) /\ To(L, p) = base + Start(fs, i) + fs[i].size
    BY <1>11, <1>12, <2>1
  <2>3. CASE \E j \in Own(fs, FALSE) : q = <<c, j>>
    <3>1. PICK j \in Own(fs, FALSE) : q = <<c, j>>
      BY <2>3
    <3>2. From(L, q) = base + Start(fs, j) /\ To(L, q) = base + Start(fs, j) + fs[j].size
      BY <1>11, <1>12, <3>1
    <3>3. i # j
      BY <1>16, <2>1, <3>1
    <3>4. /\ Start(fs, i) \in Nat /\ fs[i].size \in Nat
          /\ Start(fs, j) \in Nat /\ fs[j].size \in Nat
          /\ \/ Start(fs, i) + fs[i].size <= Start(fs, j)
             \/ Start(fs, j) + fs[j].size <= Start(fs, i)
      BY <1>10, <3>3
    <3>5. QED
      BY <1>5, <2>2, <3>2, <3>4
  <2>4. CASE /\ decl[c].super # NoClass /\ q \in InstanceFields(decl[c].super)
             /\ q[1] \in prepared
    <3>1. To(L, q) <= base
      BY <1>14, <2>4
    <3>2. base <= From(L, p) /\ From(L, p) \in Nat
      <4>1. Start(fs, i) \in Nat
        BY <1>10
      <4>2. QED
        BY <1>5, <2>2, <4>1
    <3>3. To(L, q) \in Int
      BY <1>15, EndOfField
    <3>4. QED
      BY <1>5, <3>1, <3>2, <3>3
  <2>5. QED
    BY <1>13, <2>3, <2>4
<1>17. ASSUME NEW p \in InstanceFields(c), NEW q \in InstanceFields(c), p # q
       PROVE  To(L, p) <= From(L, q) \/ To(L, q) <= From(L, p)
  <2>1. CASE (\E i \in Own(fs, FALSE) : p = <<c, i>>) \/ (\E i \in Own(fs, FALSE) : q = <<c, i>>)
    BY <1>16, <1>17, <2>1
  <2>2. CASE ~(\E i \in Own(fs, FALSE) : p = <<c, i>>) /\ ~(\E i \in Own(fs, FALSE) : q = <<c, i>>)
    <3>1. /\ decl[c].super # NoClass
          /\ p \in InstanceFields(decl[c].super) /\ q \in InstanceFields(decl[c].super)
          /\ p[1] \in prepared /\ q[1] \in prepared
      BY <1>13, <2>2
    <3>2. /\ From(L, p) = From(layout, p) /\ To(L, p) = To(layout, p)
          /\ From(L, q) = From(layout, q) /\ To(L, q) = To(layout, q)
      BY <1>14, <3>1
    <3>3. QED
      BY <1>17, <3>1, <3>2 DEF ObjectHolds
  <2>3. QED
    BY <2>1, <2>2
<1>18. QED
  BY <1>3, <1>5, <1>9, <1>15, <1>17 DEF ObjectHolds

FieldsInv ==
    /\ decl \in Hierarchies /\ SmallObjects
    /\ prepared \subseteq Classes /\ ClosedUp(prepared)
    /\ layout = [c \in Classes |-> layout[c]]
    /\ \A c \in prepared : ~decl[c].interface => ObjectHolds(layout, c)

LEMMA FieldsFirst == Init /\ SmallObjects => FieldsInv
BY DEF Init, FieldsInv, Unprepared, ClosedUp

LEMMA ObjectStays ==
    ASSUME decl' = decl, NEW c, NEW L
    PROVE  /\ ObjectHolds(L, c)' <=> ObjectHolds(L, c)
           /\ SmallObjects' <=> SmallObjects
<1>1. \A d : Chain(d)' = Chain(d)
  BY DEF Chain, ClosedUp, Supers
<1>2. \A d : OwnBytes(d)' = OwnBytes(d)
  BY DEF OwnBytes, Bytes, Own
<1>3. \A d : ObjectBytes(d)' = ObjectBytes(d)
  BY <1>1, <1>2 DEF ObjectBytes
<1>4. \A d : InstanceFields(d)' = InstanceFields(d)
  BY <1>1 DEF InstanceFields
<1>5. \A p : From(L, p)' = From(L, p) /\ To(L, p)' = To(L, p)
  BY DEF From, To
<1>6. ObjectHolds(L, c)' <=> ObjectHolds(L, c)
  BY <1>3, <1>4, <1>5 DEF ObjectHolds
<1>7. SmallObjects' <=> SmallObjects
  BY <1>3 DEF SmallObjects
<1>8. QED
  BY <1>6, <1>7

LEMMA ObjectElsewhere ==
    ASSUME decl \in Hierarchies, prepared \subseteq Classes, ClosedUp(prepared),
           NEW d \in prepared, ObjectHolds(layout, d),
           NEW L, \A k \in prepared : L[k] = layout[k]
    PROVE  ObjectHolds(L, d)
<1>1. ASSUME NEW p \in InstanceFields(d)
      PROVE  From(L, p) = From(layout, p) /\ To(L, p) = To(layout, p)
  <2>1. PICK e \in Chain(d) : \E i \in Own(decl[e].fields, FALSE) :
              p = <<e, i>> /\ decl[e].fields[i].size \in Nat
    BY FieldOfObject
  <2>2. e \in prepared /\ p[1] = e
    BY <2>1, ChainPrepared
  <2>3. QED
    BY <2>2 DEF From, To
<1>2. L[d] = layout[d]
  OBVIOUS
<1>3. QED
  BY <1>1, <1>2 DEF ObjectHolds

LEMMA PrepareKeepsFields ==
    ASSUME FieldsInv, NEW c \in Classes, Prepare(c)
    PROVE  FieldsInv'
<1>1. /\ decl' = decl /\ prepared' = prepared \union {c}
      /\ layout' = [layout EXCEPT ![c] = Layout(c)]
      /\ c \notin prepared /\ Supers(c) \subseteq prepared
  BY DEF Prepare, Ready
<1>2. PICK L : L = [layout EXCEPT ![c] = Layout(c)]
  OBVIOUS
<1>3. /\ decl \in Hierarchies /\ SmallObjects
      /\ prepared \subseteq Classes /\ ClosedUp(prepared)
      /\ layout = [d \in Classes |-> layout[d]]
      /\ \A d \in prepared : ~decl[d].interface => ObjectHolds(layout, d)
  BY DEF FieldsInv
<1>4. L[c] = Layout(c) /\ \A d \in prepared : L[d] = layout[d]
  BY <1>1, <1>2, <1>3
<1>5. decl[c].super # NoClass => ObjectHolds(layout, decl[c].super)
  <2>1. decl[c].super # NoClass =>
          decl[c].super \in prepared /\ ~decl[decl[c].super].interface
    BY <1>1, <1>3, SupersAreClasses
  <2>2. QED
    BY <1>3, <2>1
<1>6. ASSUME NEW d \in prepared \union {c}, ~decl[d].interface
      PROVE  ObjectHolds(L, d)
  <2>1. CASE d = c
    BY <1>1, <1>3, <1>4, <1>5, <1>6, <2>1, NewObject
  <2>2. CASE d \in prepared
    BY <1>3, <1>4, <1>6, <2>2, ObjectElsewhere
  <2>3. QED
    BY <2>1, <2>2
<1>7. \A d \in prepared \union {c} : ~decl[d].interface => ObjectHolds(L, d)'
  BY <1>1, <1>6, ObjectStays
<1>8. layout' = L
  BY <1>1, <1>2
<1>9. \A d \in prepared' : ~decl'[d].interface => ObjectHolds(layout, d)'
  <2>1. \A l : l = layout' => \A d : ObjectHolds(l, d)' <=> ObjectHolds(layout, d)'
    BY DEF ObjectHolds, From, To
  <2>2. QED
    BY <1>1, <1>7, <1>8, <2>1
<1>10. SmallObjects'
  BY <1>1, <1>3, ObjectStays
<1>11. ClosedUp(prepared)'
  <2>1. \A d : Supers(d)' = Supers(d)
    BY <1>1 DEF Supers
  <2>2. QED
    BY <1>1, <1>3, <2>1 DEF ClosedUp
<1>12. QED
  <2>1. prepared' \subseteq Classes /\ decl' \in Hierarchies
    BY <1>1, <1>3
  <2>2. layout' = [d \in Classes |-> layout'[d]]
    BY <1>1, <1>3
  <2>3. QED
    BY <1>9, <1>10, <1>11, <2>1, <2>2 DEF FieldsInv

LEMMA FieldsInvariant == Spec /\ SmallObjects => []FieldsInv
<1>1. FieldsInv /\ [Next]_vars => FieldsInv'
  <2> SUFFICES ASSUME FieldsInv, [Next]_vars PROVE FieldsInv'
    OBVIOUS
  <2>1. ASSUME NEW c \in Classes, Prepare(c) PROVE FieldsInv'
    BY <2>1, PrepareKeepsFields
  <2>2. CASE decl' = decl /\ prepared' = prepared /\ layout' = layout
    <3>1. SmallObjects' <=> SmallObjects
      BY <2>2, ObjectStays
    <3>2. ClosedUp(prepared)'
      BY <2>2 DEF ClosedUp, Supers, FieldsInv
    <3>3. \A l : l = layout => \A d \in prepared : ~decl[d].interface => ObjectHolds(l, d)'
      <4> SUFFICES ASSUME NEW l, l = layout, NEW d \in prepared, ~decl[d].interface
                   PROVE  ObjectHolds(l, d)'
        OBVIOUS
      <4>1. ObjectHolds(l, d) <=> ObjectHolds(layout, d)
        OBVIOUS
      <4>2. ObjectHolds(l, d)
        BY <4>1 DEF FieldsInv
      <4>3. QED
        BY <2>2, <4>2, ObjectStays
    <3>4. \A l : l = layout' => \A d : ObjectHolds(l, d)' <=> ObjectHolds(layout, d)'
      BY DEF ObjectHolds, From, To
    <3>5. \A d \in prepared' : ~decl'[d].interface => ObjectHolds(layout, d)'
      BY <2>2, <3>3, <3>4
    <3>6. QED
      BY <2>2, <3>1, <3>2, <3>5 DEF FieldsInv
  <2>3. ASSUME NEW c \in Classes, PrepareFails(c) PROVE FieldsInv'
    BY <2>2, <2>3 DEF PrepareFails
  <2>4. ASSUME NEW c \in Classes, PrepareCrashes(c) PROVE FieldsInv'
    BY <2>2, <2>4 DEF PrepareCrashes
  <2>5. CASE UNCHANGED vars
    BY <2>2, <2>5 DEF vars
  <2>6. QED
    BY <2>1, <2>3, <2>4, <2>5 DEF Next
<1>2. QED
  BY <1>1, FieldsFirst, PTL DEF Spec

(* The bytes of two instance fields of an object never overlap, whichever  *)
(* of the classes above declare them and whatever place prepare_fields     *)
(* gives refs and others, as long as no object outgrows 16 bits.           *)
THEOREM FieldsStayApart == Spec /\ SmallObjects => []FieldsApart
<1>1. FieldsInv => FieldsApart
  <2> SUFFICES ASSUME FieldsInv, NEW c \in prepared, ~decl[c].interface
               PROVE  /\ \A p \in InstanceFields(c) :
                            From(layout, p) >= ObjOverhead /\ To(layout, p) <= layout[c].size
                      /\ \A p, q \in InstanceFields(c) :
                            p # q => \/ To(layout, p) <= From(layout, q)
                                     \/ To(layout, q) <= From(layout, p)
    BY DEF FieldsApart, InstanceFields, From, To
  <2>1. ObjectHolds(layout, c)
    BY DEF FieldsInv
  <2>2. QED
    BY <2>1 DEF ObjectHolds
<1>2. QED
  BY <1>1, FieldsInvariant, PTL

-----------------------------------------------------------------------------
(* The elimination of few duplicates                                       *)

Few(t) ==
    /\ Len(t) - Cardinality(ToSet(t)) <= 1
    /\ \A i \in 1 .. (Len(t) - 1) : t[i] # t[Len(t)]

(* Entry b repeats entry a, nothing else is repeated, and b is not last.   *)
RepeatsOnce(t, a, b) ==
    /\ a \in 1 .. Len(t) /\ b \in 1 .. Len(t) /\ a < b /\ b < Len(t) /\ t[a] = t[b]
    /\ \A i, j \in (1 .. Len(t)) \ {b} : t[i] = t[j] => i = j

LEMMA FewRepeat ==
    ASSUME NEW X, NEW t \in Seq(X), Few(t), ~IsInjective(t)
    PROVE  \E a, b : RepeatsOnce(t, a, b)
<1>1. PICK n \in Nat : n = Len(t)
  OBVIOUS
<1>2. DOMAIN t = 1 .. n
  BY <1>1
<1>3. PICK a \in 1 .. n, b \in 1 .. n : a < b /\ t[a] = t[b]
  <2>1. PICK i \in 1 .. n, j \in 1 .. n : t[i] = t[j] /\ i # j
    BY <1>2 DEF IsInjective
  <2>2. i < j \/ j < i
    BY <2>1
  <2>3. QED
    BY <2>1, <2>2
<1>4. b < n
  <2>1. b # n
    <3>1. SUFFICES ASSUME b = n PROVE FALSE
      OBVIOUS
    <3>2. a \in 1 .. (n - 1)
      BY <1>3, <3>1
    <3>3. QED
      BY <1>1, <1>3, <3>1, <3>2 DEF Few
  <2>2. QED
    BY <2>1
<1> DEFINE others == (1 .. n) \ {b}
           values == ToSet(t)
           g == [i \in others |-> t[i]]
<1>5. IsFiniteSet(others) /\ Cardinality(others) = n - 1
  <2>1. PICK all : all = 1 .. n
    OBVIOUS
  <2>2. IsFiniteSet(all) /\ Cardinality(all) = n
    BY <2>1, FS_Interval
  <2>3. b \in all
    BY <2>1
  <2>4. IsFiniteSet(all \ {b}) /\ Cardinality(all \ {b}) = Cardinality(all) - 1
    BY <2>2, <2>3, FS_RemoveElement
  <2>5. QED
    BY <2>1, <2>2, <2>4
<1>6. g \in [others -> values]
  BY <1>2 DEF ToSet
<1>7. \A x \in values : \E i \in others : g[i] = x
  <2>1. SUFFICES ASSUME NEW x \in values PROVE \E i \in others : g[i] = x
    OBVIOUS
  <2>2. PICK k \in 1 .. n : t[k] = x
    BY <1>2 DEF ToSet
  <2>3. a \in others
    BY <1>3
  <2>4. CASE k = b
    BY <1>3, <2>2, <2>3, <2>4
  <2>5. CASE k # b
    BY <2>2, <2>5
  <2>6. QED
    BY <2>4, <2>5
<1>8. \A i, j \in others : t[i] = t[j] => i = j
  <2>1. g \in Surjection(others, values)
    <3> HIDE DEF g, others, values
    <3>1. QED
      BY <1>6, <1>7 DEF Surjection
  <2>2. /\ IsFiniteSet(values) /\ Cardinality(values) <= Cardinality(others)
        /\ Cardinality(values) = Cardinality(others) <=> g \in Injection(others, values)
    <3> HIDE DEF g, others, values
    <3>1. QED
      BY <1>5, <2>1, FS_Surjection
  <2>3. Cardinality(values) \in Nat
    BY <2>2, FS_CardinalityType
  <2>4. n - Cardinality(values) <= 1
    BY <1>1 DEF Few
  <2>5. Cardinality(values) = Cardinality(others)
    <3> HIDE DEF g, others, values
    <3>1. QED
      BY <1>5, <2>2, <2>3, <2>4
  <2>6. g \in Injection(others, values)
    BY <2>2, <2>5
  <2>7. \A i, j \in DOMAIN g : g[i] = g[j] => i = j
    <3> HIDE DEF g, others, values
    <3>1. QED
      BY <2>6 DEF Injection, IsInjective
  <2>8. QED
    BY <2>7
<1>9. RepeatsOnce(t, a, b)
  BY <1>1, <1>3, <1>4, <1>8 DEF RepeatsOnce
<1>10. QED
  BY <1>9

(* Nothing happens to a table of different entries.                        *)
LEMMA EliminateNone ==
    ASSUME NEW n \in Nat, NEW acc, NEW pair \in Ordered(n), acc.last \in Nat,
           \A i, j \in 1 .. acc.last : acc.table[i] = acc.table[j] => i = j
    PROVE  Eliminate(acc, pair) = acc
<1>1. /\ pair[1] \in 1 .. n /\ pair[2] \in 1 .. n /\ pair[1] < pair[2]
  BY DEF Ordered
<1>2. /\ ~(pair[2] > acc.last \/ pair[1] > acc.last)
        => acc.table[pair[1]] # acc.table[pair[2]]
  BY <1>1
<1>3. QED
  BY <1>2 DEF Eliminate

(* The table after the one repetition was replaced with the last entry.    *)
Replaced(t, b) ==
    [table |-> [t EXCEPT ![b] = t[Len(t)]], last |-> Len(t) - 1, overrun |-> FALSE]

LEMMA EliminateOne ==
    ASSUME NEW X, NEW t \in Seq(X), NEW a, NEW b, RepeatsOnce(t, a, b),
           \A i \in 1 .. (Len(t) - 1) : t[i] # t[Len(t)],
           NEW pair \in Ordered(Len(t))
    PROVE  LET base == [table |-> t, last |-> Len(t), overrun |-> FALSE] IN
           /\ Eliminate(base, pair) = IF pair = <<a, b>> THEN Replaced(t, b) ELSE base
           /\ Eliminate(Replaced(t, b), pair) = Replaced(t, b)
<1> DEFINE base == [table |-> t, last |-> Len(t), overrun |-> FALSE]
<1>1. PICK n \in Nat : n = Len(t)
  OBVIOUS
<1>2. /\ a \in 1 .. n /\ b \in 1 .. n /\ a < b /\ b < n /\ t[a] = t[b]
      /\ \A i, j \in (1 .. n) \ {b} : t[i] = t[j] => i = j
      /\ \A i \in 1 .. (n - 1) : t[i] # t[n]
  BY <1>1 DEF RepeatsOnce
<1>3. PICK i \in 1 .. n, j \in 1 .. n : pair = <<i, j>> /\ i < j
  BY <1>1 DEF Ordered
<1>4. Eliminate(base, <<a, b>>) = Replaced(t, b)
  <2>1. n \in Differing(t, b, n) /\ Differing(t, b, n) \in SUBSET (1 .. n)
    BY <1>2 DEF Differing
  <2>2. Max(Differing(t, b, n)) = n
    <3>1. PICK some \in SUBSET (1 .. n) : some = Differing(t, b, n)
      BY <2>1
    <3>2. Max(some) \in some /\ \A k \in some : k <= Max(some)
      BY <2>1, <3>1, GreatestOf
    <3>3. n <= Max(some) /\ Max(some) \in 1 .. n
      BY <2>1, <3>1, <3>2
    <3>4. Max(some) = n
      BY <3>3
    <3>5. QED
      BY <3>1, <3>4
  <2>3. Differing(t, b, n) # {}
    BY <2>1
  <2>4. Eliminate(base, <<a, b>>)
          = [table |-> [t EXCEPT ![b] = t[n]], last |-> n - 1, overrun |-> FALSE]
    <3>1. ~(base.overrun \/ b > base.last \/ a > base.last \/ base.table[a] # base.table[b])
      BY <1>1, <1>2
    <3>2. base.table = t /\ base.last = n
      BY <1>1
    <3>3. <<a, b>>[1] = a /\ <<a, b>>[2] = b
      OBVIOUS
    <3> HIDE DEF base
    <3>4. QED
      BY <2>2, <2>3, <3>1, <3>2, <3>3 DEF Eliminate
  <2>5. [table |-> [t EXCEPT ![b] = t[n]], last |-> n - 1, overrun |-> FALSE] = Replaced(t, b)
    BY <1>1, Zenon DEF Replaced
  <2>6. QED
    BY <2>4, <2>5
<1>5. ASSUME pair # <<a, b>> PROVE Eliminate(base, pair) = base
  <2>1. t[i] # t[j]
    <3>1. SUFFICES ASSUME t[i] = t[j] PROVE FALSE
      OBVIOUS
    <3>2. CASE i = b
      <4>1. t[a] = t[j] /\ a # b /\ j # b
        BY <1>2, <1>3, <3>1, <3>2
      <4>2. a = j
        BY <1>2, <4>1
      <4>3. QED
        BY <1>2, <1>3, <3>2, <4>2
    <3>3. CASE j = b
      <4>1. t[a] = t[i] /\ a # b /\ i # b
        BY <1>2, <1>3, <3>1, <3>3
      <4>2. a = i
        BY <1>2, <4>1
      <4>3. QED
        BY <1>3, <1>5, <3>3, <4>2
    <3>4. CASE i # b /\ j # b
      BY <1>2, <1>3, <3>1, <3>4
    <3>5. QED
      BY <3>2, <3>3, <3>4
  <2>2. base.table[pair[1]] # base.table[pair[2]]
    BY <1>3, <2>1
  <2> HIDE DEF base
  <2>3. QED
    BY <2>2 DEF Eliminate
<1>6. Eliminate(Replaced(t, b), pair) = Replaced(t, b)
  <2>1. PICK acc : acc = Replaced(t, b)
    OBVIOUS
  <2>2. acc.last = n - 1 /\ acc.last \in Nat
    BY <1>1, <1>2, <2>1 DEF Replaced
  <2>3. \A k \in 1 .. n - 1 : acc.table[k] = IF k = b THEN t[n] ELSE t[k]
    BY <1>1, <2>1 DEF Replaced
  <2>4. \A k, l \in 1 .. acc.last : acc.table[k] = acc.table[l] => k = l
    <3> SUFFICES ASSUME NEW k \in 1 .. n - 1, NEW l \in 1 .. n - 1,
                        acc.table[k] = acc.table[l]
                 PROVE  k = l
      BY <2>2
    <3>1. k \in 1 .. n /\ l \in 1 .. n /\ t[k] # t[n] /\ t[l] # t[n]
      BY <1>2
    <3>2. QED
      BY <1>2, <2>3, <3>1
  <2>5. Eliminate(acc, pair) = acc
    BY <1>1, <2>2, <2>4, EliminateNone
  <2>6. QED
    BY <2>1, <2>5
<1> HIDE DEF base
<1>7. Eliminate(base, pair) = IF pair = <<a, b>> THEN Replaced(t, b) ELSE base
  BY <1>4, <1>5
<1>8. QED
  BY <1>6, <1>7 DEF base

(* A fold that one of its elements takes from x to y, and nothing further. *)
Passes(f, n, k, x, y) ==
    /\ f[{}] = x
    /\ \A some \in SUBSET (1 .. n) :
          some # {} =>
            /\ f[some \ {Max(some)}] = y => f[some] = y
            /\ f[some \ {Max(some)}] = x => f[some] \in {x, y}
            /\ f[some \ {Max(some)}] = x /\ Max(some) = k => f[some] = y

LEMMA FoldPasses ==
    ASSUME NEW x, NEW y, NEW n \in Nat, NEW f, NEW k \in 1 .. n, Passes(f, n, k, x, y)
    PROVE  f[1 .. n] = y
<1> DEFINE passed(some) == IF k \in some THEN 1 ELSE 0
           A == {<<x, 0>>, <<y, 0>>, <<y, 1>>}
           g == [some \in SUBSET (1 .. n) |-> <<f[some], passed(some)>>]
<1>1. g[{}] \in A
  BY DEF Passes
<1>2. ASSUME NEW some \in SUBSET (1 .. n), some # {}, g[some \ {Max(some)}] \in A
      PROVE  g[some] \in A
  <2>1. PICK m : m = Max(some)
    OBVIOUS
  <2>2. m \in some /\ some \ {m} \in SUBSET (1 .. n)
    BY <1>2, <2>1, GreatestOf
  <2>3. /\ g[some \ {m}] = <<f[some \ {m}], passed(some \ {m})>>
        /\ g[some] = <<f[some], passed(some)>>
    BY <2>2
  <2>4. /\ f[some \ {m}] = y => f[some] = y
        /\ f[some \ {m}] = x => f[some] \in {x, y}
        /\ f[some \ {m}] = x /\ m = k => f[some] = y
    BY <1>2, <2>1 DEF Passes
  <2>5. f[some \ {m}] \in {x, y} /\ (k \in some \ {m} => f[some \ {m}] = y)
    <3>1. PICK u, p : u = f[some \ {m}] /\ p = passed(some \ {m})
      OBVIOUS
    <3>2. <<u, p>> \in A
      BY <1>2, <2>1, <2>3, <3>1
    <3>3. u \in {x, y} /\ (p = 1 => u = y)
      BY <3>2
    <3>4. QED
      BY <3>1, <3>3
  <2>6. f[some] \in {x, y} /\ (k \in some => f[some] = y)
    BY <2>2, <2>4, <2>5
  <2>7. QED
    BY <2>3, <2>6
<1>3. g[1 .. n] \in A
  <2> HIDE DEF A, g
  <2>1. QED
    BY <1>1, <1>2, FoldStays
<1>4. g[1 .. n] = <<f[1 .. n], 1>>
  OBVIOUS
<1>5. QED
  BY <1>3, <1>4

(* Few duplicates are eliminated as they should be.                        *)
LEMMA Elimination ==
    ASSUME NEW X, NEW t \in Seq(X), Few(t)
    PROVE  LET e == Eliminated(t) IN
           /\ ~e.overrun /\ e.last \in 0 .. Len(t)
           /\ \A i, j \in 1 .. e.last : e.table[i] = e.table[j] => i = j
           /\ {e.table[i] : i \in 1 .. e.last} = ToSet(t)
<1>1. PICK n \in Nat, N \in Nat : n = Len(t) /\ N = Len(Pairs(n))
  BY PairsIn
<1>2. DOMAIN t = 1 .. n /\ DOMAIN Pairs(n) = 1 .. N /\ Pairs(n) \in Seq(Ordered(n))
  BY <1>1, PairsIn
<1>3. PICK iter : Eliminations(t, iter)
  BY EliminationFolds
<1> DEFINE base == [table |-> t, last |-> n, overrun |-> FALSE]
<1>4. /\ Eliminated(t) = iter[1 .. N] /\ iter[{}] = base
      /\ \A some \in SUBSET (1 .. N) : some # {} =>
            iter[some] = Eliminate(iter[some \ {Max(some)}], Pairs(n)[Max(some)])
  BY <1>1, <1>3 DEF Eliminations
<1>5. ASSUME NEW some \in SUBSET (1 .. N), some # {}
      PROVE  Max(some) \in 1 .. N /\ Pairs(n)[Max(some)] \in Ordered(n)
  <2>1. Max(some) \in 1 .. N
    BY <1>5, GreatestOf
  <2>2. QED
    BY <1>2, <2>1
<1>6. CASE IsInjective(t)
  <2>1. \A i, j \in 1 .. base.last : base.table[i] = base.table[j] => i = j
    BY <1>2, <1>6 DEF IsInjective
  <2>2. \A pair \in Ordered(n) : Eliminate(base, pair) = base
    BY <1>1, <2>1, EliminateNone
  <2>3. iter[1 .. N] \in {base}
    <3> HIDE DEF base
    <3>1. PICK A : A = {base}
      OBVIOUS
    <3>2. iter[{}] \in A
      BY <1>4, <3>1
    <3>3. \A some \in SUBSET (1 .. N) :
             some # {} /\ iter[some \ {Max(some)}] \in A => iter[some] \in A
      BY <1>4, <1>5, <2>2, <3>1
    <3>4. iter[1 .. N] \in A
      BY <3>2, <3>3, FoldStays
    <3>5. QED
      BY <3>1, <3>4
  <2>4. Eliminated(t) = base
    BY <1>4, <2>3
  <2>5. {base.table[i] : i \in 1 .. base.last} = ToSet(t)
    BY <1>2 DEF ToSet
  <2>6. ~base.overrun /\ base.last \in 0 .. Len(t)
    BY <1>1
  <2> HIDE DEF base
  <2>7. QED
    BY <2>1, <2>4, <2>5, <2>6
<1>7. CASE ~IsInjective(t)
  <2>1. PICK a, b : RepeatsOnce(t, a, b)
    BY <1>7, FewRepeat
  <2>2. /\ a \in 1 .. n /\ b \in 1 .. n /\ a < b /\ b < n /\ t[a] = t[b]
        /\ \A i, j \in (1 .. n) \ {b} : t[i] = t[j] => i = j
        /\ \A i \in 1 .. (n - 1) : t[i] # t[n]
    BY <1>1, <2>1 DEF RepeatsOnce, Few
  <2> DEFINE after == Replaced(t, b)
  <2>3. \A pair \in Ordered(n) :
          /\ Eliminate(base, pair) = IF pair = <<a, b>> THEN after ELSE base
          /\ Eliminate(after, pair) = after
    BY <1>1, <2>1, EliminateOne DEF Few
  <2>4. PICK k \in 1 .. N : Pairs(n)[k] = <<a, b>>
    <3>1. <<a, b>> \in Ordered(n)
      BY <2>2 DEF Ordered
    <3>2. QED
      BY <1>2, <3>1, PairsIn
  <2>5. iter[1 .. N] = after
    <3> HIDE DEF base, after
    <3>1. iter[{}] = base
      BY <1>4
    <3>2. ASSUME NEW some \in SUBSET (1 .. N), some # {}
          PROVE  /\ iter[some \ {Max(some)}] = after => iter[some] = after
                 /\ iter[some \ {Max(some)}] = base => iter[some] \in {base, after}
                 /\ iter[some \ {Max(some)}] = base /\ Max(some) = k => iter[some] = after
      BY <1>4, <1>5, <2>3, <2>4, <3>2
    <3>3. PICK x, y : x = base /\ y = after
      OBVIOUS
    <3>4. Passes(iter, N, k, x, y)
      BY <3>1, <3>2, <3>3 DEF Passes
    <3>5. iter[1 .. N] = y
      BY <3>4, FoldPasses
    <3>6. QED
      BY <3>3, <3>5
  <2>6. Eliminated(t) = after
    BY <1>4, <2>5
  <2>7. ~after.overrun /\ after.last = n - 1 /\ after.last \in 0 .. Len(t)
    BY <1>1, <2>2 DEF Replaced
  <2>8. \A i \in 1 .. n - 1 : after.table[i] = IF i = b THEN t[n] ELSE t[i]
    BY <1>1, <1>2 DEF Replaced
  <2> HIDE DEF after
  <2>9. \A i, j \in 1 .. after.last : after.table[i] = after.table[j] => i = j
    <3> SUFFICES ASSUME NEW i \in 1 .. n - 1, NEW j \in 1 .. n - 1,
                        after.table[i] = after.table[j]
                 PROVE  i = j
      BY <2>7
    <3>1. i \in 1 .. n /\ j \in 1 .. n /\ t[i] # t[n] /\ t[j] # t[n]
      BY <2>2
    <3>2. QED
      BY <2>2, <2>8, <3>1
  <2>10. {after.table[i] : i \in 1 .. after.last} = ToSet(t)
    <3>1. ASSUME NEW i \in 1 .. n - 1 PROVE after.table[i] \in ToSet(t)
      <4>1. i \in 1 .. n /\ n \in 1 .. n
        BY <2>2
      <4>2. QED
        BY <1>2, <2>8, <4>1 DEF ToSet
    <3>2. ASSUME NEW i \in 1 .. n PROVE \E j \in 1 .. n - 1 : after.table[j] = t[i]
      <4>1. a \in 1 .. n - 1 /\ b \in 1 .. n - 1 /\ a # b
        BY <2>2
      <4>2. CASE i = n
        BY <2>8, <4>1, <4>2
      <4>3. CASE i = b
        BY <2>2, <2>8, <4>1, <4>3
      <4>4. CASE i # b /\ i # n
        <5>1. i \in 1 .. n - 1
          BY <4>4
        <5>2. QED
          BY <2>8, <4>4, <5>1
      <4>5. QED
        BY <4>2, <4>3, <4>4
    <3>3. ToSet(t) = {t[i] : i \in 1 .. n}
      BY <1>2 DEF ToSet
    <3>4. PICK last : last = after.last
      OBVIOUS
    <3>5. {after.table[i] : i \in 1 .. last} = {t[i] : i \in 1 .. n}
      BY <2>7, <3>1, <3>2, <3>3, <3>4
    <3>6. QED
      BY <3>3, <3>4, <3>5
  <2>11. QED
    BY <2>6, <2>7, <2>9, <2>10
<1>8. QED
  BY <1>6, <1>7

-----------------------------------------------------------------------------
(* The interfaces of a class                                               *)

Direct(c) == Supers(c) \union ToSet(decl[c].intfs)

LEMMA DirectAreClasses ==
    ASSUME decl \in Hierarchies, NEW c \in Classes
    PROVE  /\ Direct(c) \subseteq Classes
           /\ decl[c].super # NoClass => decl[c].super \in Direct(c)
           /\ ToSet(decl[c].intfs) \subseteq Direct(c)
<1>1. ToSet(decl[c].intfs) \subseteq Classes
  <2>1. decl[c].intfs \in Seq(Classes)
    BY Declared
  <2>2. QED
    BY <2>1 DEF ToSet
<1>2. QED
  BY <1>1, SupersAreClasses DEF Direct

LEMMA AllAboveHolds ==
    ASSUME decl \in Hierarchies, NEW c \in Classes
    PROVE  AllAbove(c) \subseteq Classes /\ c \in AllAbove(c) /\ ClosedAbove(AllAbove(c))
<1>1. AllAbove(c) \subseteq Classes /\ c \in AllAbove(c)
  BY DEF AllAbove
<1>2. ASSUME NEW d \in AllAbove(c), NEW s \in Direct(d)
      PROVE  s \in AllAbove(c)
  <2>1. s \in Classes
    BY <1>1, DirectAreClasses
  <2>2. ASSUME NEW some \in SUBSET Classes, c \in some, ClosedAbove(some)
        PROVE  s \in some
    BY <2>2 DEF AllAbove, ClosedAbove, Direct
  <2>3. QED
    BY <2>1, <2>2 DEF AllAbove
<1>3. QED
  BY <1>1, <1>2 DEF ClosedAbove, Direct

LEMMA AllAboveLeast ==
    ASSUME NEW c \in Classes, NEW some \in SUBSET Classes, c \in some, ClosedAbove(some)
    PROVE  AllAbove(c) \subseteq some
BY DEF AllAbove

LEMMA AllAboveStep ==
    ASSUME decl \in Hierarchies, NEW c \in Classes
    PROVE  /\ \A d \in Direct(c) : AllAbove(d) \subseteq AllAbove(c)
           /\ \A e \in AllAbove(c) : e = c \/ \E d \in Direct(c) : e \in AllAbove(d)
<1> DEFINE some == {c} \union UNION {AllAbove(d) : d \in Direct(c)}
<1>1. Direct(c) \subseteq Classes
  BY DirectAreClasses
<1>2. \A d \in Direct(c) : AllAbove(d) \subseteq Classes /\ d \in AllAbove(d)
                             /\ ClosedAbove(AllAbove(d))
  BY <1>1, AllAboveHolds
<1>3. AllAbove(c) \subseteq Classes /\ c \in AllAbove(c) /\ ClosedAbove(AllAbove(c))
  BY AllAboveHolds
<1>4. ASSUME NEW d \in Direct(c) PROVE AllAbove(d) \subseteq AllAbove(c)
  <2>1. d \in AllAbove(c)
    BY <1>3 DEF ClosedAbove, Direct
  <2>2. QED
    BY <1>1, <1>3, <2>1, AllAboveLeast
<1>5. some \in SUBSET Classes /\ c \in some
  BY <1>2
<1>6. ClosedAbove(some)
  <2>1. SUFFICES ASSUME NEW e \in some PROVE Direct(e) \subseteq some
    BY DEF ClosedAbove, Direct
  <2>2. CASE e = c
    BY <1>2, <2>2
  <2>3. CASE \E d \in Direct(c) : e \in AllAbove(d)
    <3>1. PICK d \in Direct(c) : e \in AllAbove(d)
      BY <2>3
    <3>2. Direct(e) \subseteq AllAbove(d)
      BY <1>2, <3>1 DEF ClosedAbove, Direct
    <3>3. QED
      BY <3>2
  <2>4. QED
    BY <2>2, <2>3
<1>7. AllAbove(c) \subseteq some
  <2> HIDE DEF some
  <2>1. QED
    BY <1>5, <1>6, AllAboveLeast
<1>8. QED
  BY <1>4, <1>7

LEMMA AllAbovePrepared ==
    ASSUME decl \in Hierarchies, prepared \subseteq Classes, ClosedAbove(prepared),
           NEW c \in Classes, Direct(c) \subseteq prepared
    PROVE  /\ \A d \in Direct(c) : AllAbove(d) \subseteq prepared
           /\ AllAbove(c) \subseteq prepared \union {c}
<1>1. \A d \in Direct(c) : AllAbove(d) \subseteq prepared
  BY AllAboveLeast
<1>2. QED
  BY <1>1, AllAboveStep

LEMMA ItemsOfSeq ==
    ASSUME NEW X, NEW s \in Seq(X), NEW u \in Seq(X)
    PROVE  ToSet(s \o u) = ToSet(s) \union ToSet(u)
<1>1. ToSet(s) \subseteq ToSet(s \o u)
  <2>1. \A i \in DOMAIN s : i \in DOMAIN (s \o u) /\ (s \o u)[i] = s[i]
    OBVIOUS
  <2>2. QED
    BY <2>1 DEF ToSet
<1>2. ToSet(u) \subseteq ToSet(s \o u)
  <2>1. \A i \in DOMAIN u : Len(s) + i \in DOMAIN (s \o u) /\ (s \o u)[Len(s) + i] = u[i]
    OBVIOUS
  <2>2. QED
    BY <2>1 DEF ToSet
<1>3. ToSet(s \o u) \subseteq ToSet(s) \union ToSet(u)
  <2>1. SUFFICES ASSUME NEW i \in DOMAIN (s \o u) PROVE (s \o u)[i] \in ToSet(s) \union ToSet(u)
    BY DEF ToSet
  <2>2. CASE i <= Len(s)
    <3>1. i \in DOMAIN s /\ (s \o u)[i] = s[i]
      BY <2>2
    <3>2. QED
      BY <3>1 DEF ToSet
  <2>3. CASE i > Len(s)
    <3>1. i - Len(s) \in DOMAIN u /\ (s \o u)[i] = u[i - Len(s)]
      BY <2>3
    <3>2. QED
      BY <3>1 DEF ToSet
  <2>4. QED
    BY <2>2, <2>3
<1>4. QED
  BY <1>1, <1>2, <1>3

LEMMA CollectedHas ==
    ASSUME decl \in Hierarchies, NEW c \in Classes, NEW X,
           Above(c).intfs \in Seq(X),
           \A k \in ToSet(decl[c].intfs) : layout[k].intfs \in Seq(X),
           decl[c].interface => c \in X
    PROVE  /\ ToSet(Above(c).intfs) \subseteq ToSet(Collected(c))
           /\ \A k \in ToSet(decl[c].intfs) : ToSet(layout[k].intfs) \subseteq ToSet(Collected(c))
           /\ decl[c].interface => c \in ToSet(Collected(c))
<1> DEFINE seqs == [i \in DOMAIN decl[c].intfs |-> layout[decl[c].intfs[i]].intfs]
           own  == IF decl[c].interface THEN <<c>> ELSE << >>
           flat == FlattenSeq(seqs)
<1>1. decl[c].intfs \in Seq(Classes)
  BY Declared
<1>2. /\ Len(decl[c].intfs) \in Nat
      /\ DOMAIN decl[c].intfs = 1 .. Len(decl[c].intfs)
  BY <1>1
<1>3. \A i \in DOMAIN decl[c].intfs : layout[decl[c].intfs[i]].intfs \in Seq(X)
  BY DEF ToSet
<1>4. seqs \in Seq(Seq(X)) /\ DOMAIN seqs = DOMAIN decl[c].intfs
  <2>1. seqs \in [1 .. Len(decl[c].intfs) -> Seq(X)]
    BY <1>2, <1>3
  <2> HIDE DEF seqs
  <2>2. QED
    BY <1>2, <2>1
<1>5. flat \in Seq(X)
  <2> HIDE DEF seqs
  <2>1. QED
    BY <1>4, FlattenIn
<1>6. own \in Seq(X)
  OBVIOUS
<1>7. Collected(c) = Above(c).intfs \o flat \o own
  BY DEF Collected
<1>8. ASSUME NEW k \in ToSet(decl[c].intfs), NEW x \in ToSet(layout[k].intfs)
      PROVE  x \in ToSet(flat)
  <2>1. PICK i \in DOMAIN decl[c].intfs : decl[c].intfs[i] = k
    BY DEF ToSet
  <2>2. i \in DOMAIN seqs /\ seqs[i] = layout[k].intfs
    BY <1>4, <2>1
  <2>3. PICK j \in DOMAIN layout[k].intfs : layout[k].intfs[j] = x
    BY DEF ToSet
  <2> HIDE DEF seqs, flat
  <2>4. j \in DOMAIN seqs[i] /\ seqs[i][j] = x
    BY <2>2, <2>3
  <2>5. \E l \in DOMAIN FlattenSeq(seqs) : FlattenSeq(seqs)[l] = seqs[i][j]
    BY <1>4, <2>2, <2>4, FlattenHas
  <2>6. QED
    BY <2>4, <2>5 DEF ToSet, flat
<1>9. decl[c].interface => c \in ToSet(own)
  <2> SUFFICES ASSUME decl[c].interface PROVE c \in ToSet(own)
    OBVIOUS
  <2>1. 1 \in DOMAIN own /\ own[1] = c
    OBVIOUS
  <2>2. QED
    BY <2>1 DEF ToSet
<1> HIDE DEF seqs, own, flat
<1>10. Above(c).intfs \o flat \in Seq(X)
  BY <1>5
<1>11. ToSet(Collected(c)) = (ToSet(Above(c).intfs) \union ToSet(flat)) \union ToSet(own)
  <2>1. ToSet(Collected(c)) = ToSet(Above(c).intfs \o flat) \union ToSet(own)
    <3>1. PICK first \in Seq(X) : first = Above(c).intfs \o flat
      BY <1>10
    <3>2. ToSet(first \o own) = ToSet(first) \union ToSet(own)
      BY <1>6, ItemsOfSeq
    <3>3. QED
      BY <1>7, <3>1, <3>2
  <2>2. ToSet(Above(c).intfs \o flat) = ToSet(Above(c).intfs) \union ToSet(flat)
    BY <1>5, ItemsOfSeq
  <2>3. QED
    BY <2>1, <2>2
<1>12. QED
  BY <1>8, <1>9, <1>11

(* The interfaces that class_prepare gives a class are interfaces of it;   *)
(* they are all, each once, if few are collected twice.                    *)
LEMMA NewInterfaces ==
    ASSUME decl \in Hierarchies, NEW c \in Classes,
           \A d \in Direct(c) : layout[d].intfs \in Seq(AllInterfaces(d))
    PROVE  /\ InterfaceInfo(c) \in Seq(AllInterfaces(c))
           /\ (/\ FewDuplicates(c)
               /\ \A d \in Direct(c) : ToSet(layout[d].intfs) = AllInterfaces(d))
              => /\ ToSet(InterfaceInfo(c)) = AllInterfaces(c)
                 /\ IsInjective(InterfaceInfo(c))
           /\ FewDuplicates(c) => ~Eliminated(Collected(c)).overrun
<1> DEFINE X == AllInterfaces(c)
           t == Collected(c)
           e == Eliminated(t)
<1>1. \A d \in Direct(c) : AllInterfaces(d) \subseteq X
  BY AllAboveStep DEF AllInterfaces
<1>2. \A d \in Direct(c) : layout[d].intfs \in Seq(X)
  BY <1>1
<1>3. Above(c).intfs \in Seq(X)
  <2>1. CASE decl[c].super = NoClass
    BY <2>1 DEF Above, Unprepared
  <2>2. CASE decl[c].super # NoClass
    <3>1. decl[c].super \in Direct(c)
      BY <2>2, DirectAreClasses
    <3>2. Above(c).intfs = layout[decl[c].super].intfs
      BY <2>2 DEF Above
    <3>3. QED
      BY <1>2, <3>1, <3>2
  <2>3. QED
    BY <2>1, <2>2
<1>4. \A k \in ToSet(decl[c].intfs) : layout[k].intfs \in Seq(X)
  BY <1>2, DirectAreClasses
<1>5. decl[c].interface => c \in X
  BY AllAboveHolds DEF AllInterfaces
<1> HIDE DEF X
<1>6. InterfaceInfo(c) \in Seq(X)
  BY <1>3, <1>4, <1>5, InterfacesIn
<1>7. t \in Seq(X)
  BY <1>3, <1>4, <1>5, CollectedIn
<1>8. ASSUME FewDuplicates(c)
      PROVE  /\ ~e.overrun /\ e.last \in 0 .. Len(t)
             /\ \A i, j \in 1 .. e.last : e.table[i] = e.table[j] => i = j
             /\ {e.table[i] : i \in 1 .. e.last} = ToSet(t)
  <2>1. Few(t)
    BY <1>8 DEF FewDuplicates, Few
  <2> HIDE DEF t
  <2>2. QED
    BY <1>7, <2>1, Elimination
<1>9. e \in Tables(Len(t), X)
  <2> HIDE DEF t
  <2>1. QED
    BY <1>7, EliminatedIn
<1>10. InterfaceInfo(c) = SubSeq(e.table, 1, e.last)
  BY DEF InterfaceInfo
<1> HIDE DEF e, t
<1>11. /\ Len(t) \in Nat /\ e.table \in [1 .. Len(t) -> X] /\ e.last \in 0 .. Len(t)
  BY <1>7, <1>9 DEF Tables
<1>12. /\ DOMAIN InterfaceInfo(c) = 1 .. e.last
       /\ \A i \in 1 .. e.last : InterfaceInfo(c)[i] = e.table[i]
  BY <1>10, <1>11
<1>13. ASSUME FewDuplicates(c), \A d \in Direct(c) : ToSet(layout[d].intfs) = AllInterfaces(d)
       PROVE  ToSet(InterfaceInfo(c)) = X /\ IsInjective(InterfaceInfo(c))
  <2>1. ToSet(InterfaceInfo(c)) = ToSet(t)
    <3>1. ToSet(InterfaceInfo(c)) = {InterfaceInfo(c)[i] : i \in DOMAIN InterfaceInfo(c)}
      BY DEF ToSet
    <3>2. PICK last : last = e.last
      OBVIOUS
    <3>3. {InterfaceInfo(c)[i] : i \in 1 .. last} = {e.table[i] : i \in 1 .. last}
      BY <1>12, <3>2
    <3>4. QED
      BY <1>8, <1>12, <1>13, <3>1, <3>2, <3>3
  <2>2. IsInjective(InterfaceInfo(c))
    BY <1>8, <1>12, <1>13 DEF IsInjective
  <2>3. ToSet(t) \subseteq X
    BY <1>7 DEF ToSet
  <2>4. ASSUME NEW k \in X PROVE k \in ToSet(t)
    <3>1. k \in AllAbove(c) /\ decl[k].interface
      BY DEF X, AllInterfaces
    <3>2. CASE k = c
      BY <1>3, <1>4, <1>5, <3>1, <3>2, CollectedHas DEF t
    <3>3. CASE \E d \in Direct(c) : k \in AllAbove(d)
      <4>1. PICK d \in Direct(c) : k \in AllAbove(d)
        BY <3>3
      <4>2. k \in ToSet(layout[d].intfs)
        <5>1. k \in AllInterfaces(d)
          BY <3>1, <4>1, AllAboveHolds, DirectAreClasses DEF AllInterfaces
        <5>2. QED
          BY <1>13, <5>1
      <4>3. CASE d \in ToSet(decl[c].intfs)
        BY <1>3, <1>4, <1>5, <4>2, <4>3, CollectedHas DEF t
      <4>4. CASE d \in Supers(c)
        <5>1. decl[c].super # NoClass /\ d = decl[c].super
          BY <4>4 DEF Supers
        <5>2. Above(c) = layout[d]
          BY <5>1 DEF Above
        <5>3. QED
          BY <1>3, <1>4, <1>5, <4>2, <5>2, CollectedHas DEF t
      <4>5. QED
        BY <4>3, <4>4 DEF Direct
    <3>4. QED
      BY <3>1, <3>2, <3>3, AllAboveStep
  <2>5. QED
    BY <2>1, <2>2, <2>3, <2>4
<1>14. QED
  BY <1>6, <1>8, <1>13 DEF X, e, t

Tidy(c) == \A d \in AllAbove(c) : FewDuplicates(d)

(* The methods of an interface are numbered in their order.                *)
Numbered(c) ==
    decl[c].interface =>
      \A j \in InstanceMethods(c) :
        layout[c].offset[j]
          = ArrayOverhead + RefSize * Cardinality({i \in InstanceMethods(c) : i < j})

InterfacesHold(c) ==
    /\ layout[c].intfs \in Seq(AllInterfaces(c))
    /\ Tidy(c) => ToSet(layout[c].intfs) = AllInterfaces(c) /\ IsInjective(layout[c].intfs)
    /\ Numbered(c)

InterfacesInv ==
    /\ decl \in Hierarchies /\ prepared \subseteq Classes /\ ClosedAbove(prepared)
    /\ layout = [c \in Classes |-> layout[c]]
    /\ \A c \in prepared : InterfacesHold(c)

LEMMA InterfacesFirst == Init => InterfacesInv
BY DEF Init, InterfacesInv, ClosedAbove, Unprepared

(* What is collected for a class depends on the layouts it stands on.      *)
LEMMA CollectedStays ==
    ASSUME decl' = decl, \A k \in prepared : layout'[k] = layout[k]
    PROVE  /\ \A d : AllAbove(d)' = AllAbove(d) /\ AllInterfaces(d)' = AllInterfaces(d)
           /\ \A d : Direct(d)' = Direct(d)
           /\ \A d : Direct(d) \subseteq prepared => Collected(d)' = Collected(d)
           /\ \A d : Direct(d) \subseteq prepared => (FewDuplicates(d)' <=> FewDuplicates(d))
<1>1. \A d : Direct(d)' = Direct(d) /\ Supers(d)' = Supers(d)
  BY DEF Direct, Supers
<1>2. \A d : AllAbove(d)' = AllAbove(d)
  BY DEF AllAbove, ClosedAbove, Supers
<1>3. \A d : AllInterfaces(d)' = AllInterfaces(d)
  BY <1>2 DEF AllInterfaces
<1>4. ASSUME NEW d, Direct(d) \subseteq prepared
      PROVE  Collected(d)' = Collected(d)
  <2>1. Above(d)' = Above(d)
    BY <1>4 DEF Above, Direct, Supers, Unprepared
  <2>2. \A i \in DOMAIN decl[d].intfs : decl[d].intfs[i] \in prepared
    BY <1>4 DEF Direct, ToSet
  <2>3. \A i \in DOMAIN decl[d].intfs : layout'[decl[d].intfs[i]] = layout[decl[d].intfs[i]]
    BY <2>2
  <2>4. [i \in DOMAIN decl'[d].intfs |-> layout'[decl'[d].intfs[i]].intfs]
          = [i \in DOMAIN decl[d].intfs |-> layout[decl[d].intfs[i]].intfs]
    BY <2>3
  <2>5. FlattenSeq([i \in DOMAIN decl'[d].intfs |-> layout'[decl'[d].intfs[i]].intfs])
          = FlattenSeq([i \in DOMAIN decl[d].intfs |-> layout[decl[d].intfs[i]].intfs])
    BY <2>4, Zenon
  <2>6. QED
    BY <2>1, <2>5, Zenon DEF Collected
<1>5. \A d : Direct(d) \subseteq prepared => (FewDuplicates(d)' <=> FewDuplicates(d))
  BY <1>4 DEF FewDuplicates
<1>6. QED
  BY <1>1, <1>2, <1>3, <1>4, <1>5

LEMMA TidyStays ==
    ASSUME decl \in Hierarchies, prepared \subseteq Classes, ClosedAbove(prepared),
           decl' = decl, \A k \in prepared : layout'[k] = layout[k],
           NEW d \in Classes, Direct(d) \subseteq prepared
    PROVE  Tidy(d)' <=> Tidy(d)
<1>1. AllAbove(d) \subseteq prepared \union {d}
  BY AllAbovePrepared
<1>2. \A e \in AllAbove(d) : Direct(e) \subseteq prepared
  BY <1>1 DEF ClosedAbove, Direct
<1>3. \A e \in AllAbove(d) : FewDuplicates(e)' <=> FewDuplicates(e)
  BY <1>2, CollectedStays
<1>4. AllAbove(d)' = AllAbove(d)
  BY CollectedStays
<1>5. QED
  BY <1>3, <1>4 DEF Tidy

LEMMA InterfacesStay ==
    ASSUME InterfacesInv, decl' = decl, \A k \in prepared : layout'[k] = layout[k],
           NEW d \in prepared
    PROVE  InterfacesHold(d)'
<1>1. /\ decl \in Hierarchies /\ prepared \subseteq Classes /\ ClosedAbove(prepared)
      /\ d \in Classes /\ Direct(d) \subseteq prepared /\ InterfacesHold(d)
  BY DEF InterfacesInv, ClosedAbove, Direct
<1>2. Tidy(d)' <=> Tidy(d)
  BY <1>1, TidyStays
<1>3. AllInterfaces(d)' = AllInterfaces(d)
  BY CollectedStays
<1>4. layout'[d] = layout[d]
  OBVIOUS
<1>5. Numbered(d)' <=> Numbered(d)
  BY <1>4 DEF Numbered, InstanceMethods
<1>6. QED
  BY <1>1, <1>2, <1>3, <1>4, <1>5 DEF InterfacesHold

LEMMA PrepareKeepsInterfaces ==
    ASSUME InterfacesInv, NEW c \in Classes, Prepare(c)
    PROVE  InterfacesInv'
<1>1. /\ decl' = decl /\ prepared' = prepared \union {c}
      /\ layout' = [layout EXCEPT ![c] = Layout(c)]
      /\ c \notin prepared /\ Direct(c) \subseteq prepared
  BY DEF Prepare, Ready, Direct
<1>2. /\ decl \in Hierarchies /\ prepared \subseteq Classes /\ ClosedAbove(prepared)
      /\ layout = [d \in Classes |-> layout[d]]
      /\ \A d \in prepared : InterfacesHold(d)
  BY DEF InterfacesInv
<1>3. layout'[c] = Layout(c) /\ \A d \in prepared : layout'[d] = layout[d]
  BY <1>1, <1>2
<1>4. \A d \in prepared : InterfacesHold(d)'
  BY <1>1, <1>3, InterfacesStay
<1>5. InterfacesHold(c)'
  <2>1. layout'[c].intfs = InterfaceInfo(c)
    BY <1>3 DEF Layout
  <2>2. AllInterfaces(c)' = AllInterfaces(c)
    BY <1>1, <1>3, CollectedStays
  <2>3. \A d \in Direct(c) : layout[d].intfs \in Seq(AllInterfaces(d))
    BY <1>1, <1>2 DEF InterfacesHold
  <2>4. InterfaceInfo(c) \in Seq(AllInterfaces(c))
    BY <1>2, <2>3, NewInterfaces
  <2>5. Tidy(c)' <=> Tidy(c)
    BY <1>1, <1>2, <1>3, TidyStays
  <2>6. ASSUME Tidy(c)
        PROVE  ToSet(InterfaceInfo(c)) = AllInterfaces(c) /\ IsInjective(InterfaceInfo(c))
    <3>1. FewDuplicates(c)
      BY <1>2, <2>6, AllAboveHolds DEF Tidy
    <3>2. \A d \in Direct(c) : Tidy(d)
      BY <1>2, <2>6, AllAboveStep DEF Tidy
    <3>3. \A d \in Direct(c) : ToSet(layout[d].intfs) = AllInterfaces(d)
      BY <1>1, <1>2, <3>2 DEF InterfacesHold
    <3>4. QED
      BY <1>2, <2>3, <3>1, <3>3, NewInterfaces
  <2>7. Numbered(c)'
    <3>1. ASSUME decl[c].interface, NEW j \in InstanceMethods(c)
          PROVE  Layout(c).offset[j]
                   = ArrayOverhead + RefSize * Cardinality({i \in InstanceMethods(c) : i < j})
      <4>1. j \in DOMAIN decl[c].methods /\ ~decl[c].methods[j].static
        BY <3>1 DEF InstanceMethods
      <4>2. Layout(c).offset[j] = MethodOffset(c, j)
        BY <4>1 DEF Layout
      <4>3. NewMethods(c) = InstanceMethods(c)
        BY <3>1 DEF NewMethods
      <4>4. NewSlots(c) = ArrayOverhead
        BY <3>1 DEF NewSlots
      <4>5. QED
        BY <3>1, <4>1, <4>2, <4>3, <4>4 DEF MethodOffset
    <3>2. InstanceMethods(c)' = InstanceMethods(c)
      BY <1>1 DEF InstanceMethods
    <3>3. QED
      BY <1>1, <1>3, <3>1, <3>2 DEF Numbered
  <2>8. QED
    BY <2>1, <2>2, <2>4, <2>5, <2>6, <2>7 DEF InterfacesHold
<1>6. ClosedAbove(prepared)'
  <2>1. \A d : Direct(d)' = Direct(d)
    BY <1>1, <1>3, CollectedStays
  <2>2. \A d \in prepared' : Direct(d)' \subseteq prepared'
    BY <1>1, <1>2, <2>1 DEF ClosedAbove, Direct
  <2>3. QED
    BY <2>2 DEF ClosedAbove, Direct
<1>7. QED
  BY <1>1, <1>2, <1>4, <1>5, <1>6 DEF InterfacesInv

LEMMA InterfacesInvariant == Spec => []InterfacesInv
<1>1. InterfacesInv /\ [Next]_vars => InterfacesInv'
  <2> SUFFICES ASSUME InterfacesInv, [Next]_vars PROVE InterfacesInv'
    OBVIOUS
  <2>1. ASSUME NEW c \in Classes, Prepare(c) PROVE InterfacesInv'
    BY <2>1, PrepareKeepsInterfaces
  <2>2. CASE decl' = decl /\ prepared' = prepared /\ layout' = layout
    <3>1. \A d \in prepared : InterfacesHold(d)'
      BY <2>2, InterfacesStay
    <3>2. ClosedAbove(prepared)'
      BY <2>2 DEF InterfacesInv, ClosedAbove, Supers
    <3>3. QED
      BY <2>2, <3>1, <3>2 DEF InterfacesInv
  <2>3. ASSUME NEW c \in Classes, PrepareFails(c) PROVE InterfacesInv'
    BY <2>2, <2>3 DEF PrepareFails
  <2>4. ASSUME NEW c \in Classes, PrepareCrashes(c) PROVE InterfacesInv'
    BY <2>2, <2>4 DEF PrepareCrashes
  <2>5. CASE UNCHANGED vars
    BY <2>2, <2>5 DEF vars
  <2>6. QED
    BY <2>1, <2>3, <2>4, <2>5 DEF Next
<1>2. QED
  BY <1>1, InterfacesFirst, PTL DEF Spec

(* The elimination of duplicates, right only for tables in which one entry *)
(* is repeated once and the last is not, loses no interface of a class     *)
(* when the tables of the class and of all it stands on are like that.     *)
THEOREM InterfacesAreComplete == Spec => []InterfacesComplete
<1>1. InterfacesInv => InterfacesComplete
  BY DEF InterfacesInv, InterfacesHold, InterfacesComplete, Tidy
<1>2. QED
  BY <1>1, InterfacesInvariant, PTL

(* The methods of an interface before one are as many as its number says,  *)
(* if its initializer is the last.                                         *)
LEMMA MethodsInOrder ==
    ASSUME ProperFiles, decl \in Hierarchies, NEW k \in Classes, decl[k].interface,
           InitializerLast(k), NEW j \in InstanceMethods(k)
    PROVE  j \in Nat \ {0} /\ Cardinality({i \in InstanceMethods(k) : i < j}) = j - 1
<1>1. PICK ms \in Seq(MethodDecl) : ms = decl[k].methods
  BY Declared
<1>2. DOMAIN ms = 1 .. Len(ms) /\ Len(ms) \in Nat
  OBVIOUS
<1>3. j \in 1 .. Len(ms) /\ j \in Nat \ {0}
  BY <1>1, <1>2 DEF InstanceMethods
<1>4. ASSUME NEW i \in 1 .. (j - 1) PROVE i \in InstanceMethods(k)
  <2>1. i \in DOMAIN ms /\ i # Len(ms)
    <3>1. PICK m \in Nat : m = Len(ms)
      OBVIOUS
    <3>2. i \in 1 .. m /\ i # m
      BY <1>3, <3>1
    <3>3. QED
      BY <1>2, <3>1, <3>2
  <2>2. ms[i].sig # "<clinit>"
    BY <1>1, <2>1 DEF InitializerLast
  <2>3. ~ms[i].static
    BY <1>1, <2>1, <2>2 DEF ProperFiles
  <2>4. QED
    BY <1>1, <2>1, <2>3 DEF InstanceMethods
<1>5. \A i \in InstanceMethods(k) : i \in Nat \ {0}
  BY <1>1, <1>2 DEF InstanceMethods
<1>6. {i \in InstanceMethods(k) : i < j} = 1 .. (j - 1)
  <2>1. \A i \in InstanceMethods(k) : i < j => i \in 1 .. (j - 1)
    BY <1>3, <1>5
  <2>2. \A i \in 1 .. (j - 1) : i \in InstanceMethods(k) /\ i < j
    BY <1>3, <1>4
  <2>3. QED
    BY <2>1, <2>2
<1>7. PICK n \in Nat : n = j - 1
  BY <1>3
<1>8. Cardinality(1 .. n) = n
  BY FS_Interval
<1>9. QED
  BY <1>3, <1>6, <1>7, <1>8

(* What load_class may give class_prepare without stopping the VM.         *)
Harmless(c) == FewDuplicates(c) /\ \A k \in AllInterfaces(c) : Implements(c, k) /\ InitializerLast(k)

LEMMA AssertionsOf ==
    ASSUME ProperFiles, IInv, InterfacesInv, NEW c \in Classes, c \notin prepared,
           Direct(c) \subseteq prepared, Harmless(c)
    PROVE  Asserts(c)
<1>1. /\ decl \in Hierarchies /\ prepared \subseteq Classes /\ ClosedAbove(prepared)
      /\ \A d \in prepared : InterfacesHold(d)
      /\ layout = [d \in Classes |-> layout[d]]
  BY DEF InterfacesInv
<1>2. \A d \in Direct(c) : layout[d].intfs \in Seq(AllInterfaces(d))
  BY <1>1 DEF InterfacesHold
<1>3. InterfaceInfo(c) \in Seq(AllInterfaces(c)) /\ ~Eliminated(Collected(c)).overrun
  BY <1>1, <1>2, NewInterfaces DEF Harmless
<1>4. ASSUME ~decl[c].interface, NEW k \in AllInterfaces(c),
             NEW j \in DOMAIN decl[k].methods, decl[k].methods[j].sig # "<clinit>"
      PROVE  /\ \/ decl[c].abstract
                \/ \E s \in DOMAIN Vtable(c) : Sig(Vtable(c)[s]) = decl[k].methods[j].sig
             /\ j - 1 = (layout[k].offset[j] - ArrayOverhead) \div RefSize
  <2>1. k \in Classes /\ decl[k].interface /\ k \in prepared
    <3>1. k \in AllAbove(c) /\ decl[k].interface
      BY DEF AllInterfaces
    <3>2. k # c
      BY <1>4, <3>1
    <3>3. QED
      BY <1>1, <3>1, <3>2, AllAbovePrepared
  <2>2. j \in InstanceMethods(k)
    BY <1>1, <1>4, <2>1 DEF ProperFiles, InstanceMethods
  <2>3. Implements(c, k) /\ InitializerLast(k)
    BY DEF Harmless
  <2>4. ASSUME ~decl[c].abstract
        PROVE  \E s \in DOMAIN Vtable(c) : Sig(Vtable(c)[s]) = decl[k].methods[j].sig
    <3>1. PICK L : L = [layout EXCEPT ![c] = Layout(c)]
      OBVIOUS
    <3>2. VtableHolds(L, c)
      BY <1>4, <3>1, PreparedVtable DEF Direct
    <3>3. L[c].vtable = Vtable(c)
      BY <1>1, <3>1 DEF Layout
    <3>4. PICK d \in Chain(c) : \E i \in InstanceMethods(d) :
                 decl[d].methods[i].sig = decl[k].methods[j].sig
      BY <1>4, <2>2, <2>3, <2>4 DEF Implements
    <3>5. PICK i \in InstanceMethods(d) : decl[d].methods[i].sig = decl[k].methods[j].sig
      BY <3>4
    <3>6. \E s \in DOMAIN L[c].vtable : Sig(L[c].vtable[s]) = decl[d].methods[i].sig
      BY <3>2 DEF VtableHolds, MethodsHaveSlots
    <3>7. QED
      BY <3>3, <3>5, <3>6
  <2>5. j \in Nat \ {0} /\ Cardinality({i \in InstanceMethods(k) : i < j}) = j - 1
    BY <1>1, <2>1, <2>2, <2>3, MethodsInOrder
  <2>6. layout[k].offset[j]
          = ArrayOverhead + RefSize * Cardinality({i \in InstanceMethods(k) : i < j})
    BY <1>1, <2>1, <2>2 DEF InterfacesHold, Numbered
  <2>7. layout[k].offset[j] = ArrayOverhead + RefSize * (j - 1)
    BY <2>5, <2>6
  <2>8. j - 1 = (layout[k].offset[j] - ArrayOverhead) \div RefSize
    BY <2>5, <2>7 DEF ArrayOverhead, RefSize
  <2>9. QED
    BY <2>4, <2>8
<1>5. \A i \in DOMAIN InterfaceInfo(c) : InterfaceInfo(c)[i] \in AllInterfaces(c)
  BY <1>3
<1>6. QED
  BY <1>3, <1>4, <1>5 DEF Asserts

AssertionsInv ==
    crashed => \E c \in Classes : c \notin prepared /\ Direct(c) \subseteq prepared /\ ~Harmless(c)

(* An assertion of prepare_interface_table fails, or its table is overrun, *)
(* only for a class that does not implement an interface of its, whose     *)
(* interface has methods behind its initializer, or that collects more     *)
(* duplicates than the elimination handles.                                *)
THEOREM AssertionsHoldForProperFiles ==
    ASSUME ProperFiles
    PROVE  Spec => []AssertionsHold
<1>1. Init => AssertionsInv
  BY DEF Init, AssertionsInv
<1>2. IInv /\ InterfacesInv /\ AssertionsInv /\ [Next]_vars => AssertionsInv'
  <2> SUFFICES ASSUME IInv, InterfacesInv, AssertionsInv, [Next]_vars PROVE AssertionsInv'
    OBVIOUS
  <2>1. ASSUME NEW c \in Classes, Prepare(c) PROVE AssertionsInv'
    BY <2>1 DEF Prepare, Ready, AssertionsInv
  <2>2. ASSUME NEW c \in Classes, PrepareFails(c) PROVE AssertionsInv'
    BY <2>2 DEF PrepareFails, Ready, AssertionsInv
  <2>3. ASSUME decl' = decl, prepared' = prepared, layout' = layout,
               NEW c \in Classes, c \notin prepared, Direct(c) \subseteq prepared, ~Harmless(c)
        PROVE  AssertionsInv'
    <3>1. /\ FewDuplicates(c)' <=> FewDuplicates(c)
          /\ AllInterfaces(c)' = AllInterfaces(c) /\ Direct(c)' = Direct(c)
      BY <2>3, CollectedStays
    <3>2. \A k : (Implements(c, k)' <=> Implements(c, k))
                 /\ (InitializerLast(k)' <=> InitializerLast(k))
      <4>1. Chain(c)' = Chain(c)
        BY <2>3 DEF Chain, ClosedUp, Supers
      <4>2. QED
        BY <2>3, <4>1 DEF Implements, InitializerLast, InstanceMethods
    <3>3. ~Harmless(c)'
      BY <2>3, <3>1, <3>2 DEF Harmless
    <3>4. QED
      BY <2>3, <3>1, <3>3 DEF AssertionsInv
  <2>4. ASSUME NEW c \in Classes, PrepareCrashes(c) PROVE AssertionsInv'
    <3>1. /\ decl' = decl /\ prepared' = prepared /\ layout' = layout
          /\ c \notin prepared /\ Direct(c) \subseteq prepared /\ ~Asserts(c)
      BY <2>4 DEF PrepareCrashes, Ready, Direct
    <3>2. ~Harmless(c)
      BY <3>1, AssertionsOf
    <3>3. QED
      BY <2>3, <3>1, <3>2
  <2>5. CASE UNCHANGED vars
    <3>1. decl' = decl /\ prepared' = prepared /\ layout' = layout /\ crashed' = crashed
      BY <2>5 DEF vars
    <3>2. CASE crashed
      BY <2>3, <3>1, <3>2 DEF AssertionsInv
    <3>3. CASE ~crashed
      BY <3>1, <3>3 DEF AssertionsInv
    <3>4. QED
      BY <3>2, <3>3
  <2>6. QED
    BY <2>1, <2>2, <2>4, <2>5 DEF Next
<1>3. AssertionsInv => AssertionsHold
  BY DEF AssertionsInv, AssertionsHold, Harmless, Direct
<1>4. QED
  BY <1>1, <1>2, <1>3, Invariant, InterfacesInvariant, PTL DEF Spec

-----------------------------------------------------------------------------
(* Types                                                                   *)

Sizes(l) == /\ l.size \in 0 .. (2^16 - 1) /\ l.staticSize \in 0 .. (2^16 - 1)
            /\ l.refs \in 0 .. (2^8 - 1)

TypeInv ==
    /\ decl \in Hierarchies /\ prepared \subseteq Classes /\ failed \subseteq Classes
    /\ crashed \in BOOLEAN
    /\ layout = [c \in Classes |-> layout[c]]
    /\ \A c \in Classes : Sizes(layout[c])
    /\ \A c \in Classes \ prepared : layout[c] = Unprepared
    /\ \A c \in prepared : decl[c].interface => layout[c].vtable = << >>

LEMMA SizesOfLayout ==
    ASSUME TypeInv, NEW c \in Classes
    PROVE  Sizes(Layout(c))
<1>1. PICK fs : fs = decl[c].fields
  OBVIOUS
<1>2. FieldDecls(fs) /\ IsFiniteSet(DOMAIN fs)
  BY <1>1, FieldsDeclared DEF TypeInv
<1>3. \A static : Own(fs, static) \in SUBSET DOMAIN fs
  BY DEF Own
<1>4. \A static : SizeOf(fs, Own(fs, static)) \in Nat
  BY <1>2, <1>3, BytesCount
<1>5. Sizes(Above(c))
  <2>1. CASE decl[c].super = NoClass
    BY <2>1 DEF Above, Unprepared, Sizes
  <2>2. CASE decl[c].super # NoClass
    BY <2>2, SupersAreClasses DEF Above, TypeInv
  <2>3. QED
    BY <2>1, <2>2
<1>6. InstanceBase(c) \in Nat
  BY <1>5 DEF InstanceBase, ObjOverhead, Sizes
<1>7. StaticSize(c) \in 0 .. (2^16 - 1)
  <2>1. PICK n \in Nat : n = SizeOf(fs, Own(fs, TRUE))
    BY <1>4
  <2>2. StaticSize(c) = n % 2^16
    BY <1>1, <2>1 DEF StaticSize
  <2>3. QED
    BY <2>2
<1>8. InstanceSize(c) \in 0 .. (2^16 - 1)
  <2>1. PICK n \in Nat : n = InstanceBase(c) + SizeOf(fs, Own(fs, FALSE))
    <3>1. PICK b \in Nat, o \in Nat : b = InstanceBase(c) /\ o = SizeOf(fs, Own(fs, FALSE))
      BY <1>4, <1>6
    <3>2. b + o \in Nat
      OBVIOUS
    <3>3. QED
      BY <3>1, <3>2
  <2>2. InstanceSize(c) = 0 \/ InstanceSize(c) = n % 2^16
    BY <1>1, <2>1 DEF InstanceSize
  <2>3. QED
    BY <2>2
<1>9. InstanceRefs(c) \in 0 .. (2^8 - 1)
  <2>1. PICK refs : refs = {i \in Own(fs, FALSE) : fs[i].ref}
    OBVIOUS
  <2>2. refs \in SUBSET DOMAIN fs
    BY <2>1 DEF Own
  <2>3. Cardinality(refs) \in Nat
    BY <1>2, <2>2, FS_Subset, FS_CardinalityType
  <2>4. PICK n \in Nat : n = Above(c).refs + Cardinality(refs)
    BY <1>5, <2>3 DEF Sizes
  <2>5. InstanceRefs(c) = 0 \/ InstanceRefs(c) = n % 2^8
    BY <1>1, <2>1, <2>4 DEF InstanceRefs
  <2>6. QED
    BY <2>5
<1>10. QED
  BY <1>7, <1>8, <1>9 DEF Layout, Sizes

LEMMA PrepareKeepsTypes ==
    ASSUME TypeInv, NEW c \in Classes, Prepare(c)
    PROVE  TypeInv'
<1>1. /\ decl' = decl /\ prepared' = prepared \union {c} /\ failed' = failed
      /\ crashed' = crashed /\ layout' = [layout EXCEPT ![c] = Layout(c)]
  BY DEF Prepare
<1>2. /\ \A d \in Classes : layout'[d] = IF d = c THEN Layout(c) ELSE layout[d]
      /\ layout' = [d \in Classes |-> layout'[d]]
  BY <1>1 DEF TypeInv
<1>3. \A d \in Classes : Sizes(layout'[d])
  BY <1>2, SizesOfLayout DEF TypeInv
<1>4. \A d \in prepared' : decl[d].interface => layout'[d].vtable = << >>
  <2>1. decl[c].interface => Layout(c).vtable = << >>
    BY DEF Layout, Vtable
  <2>2. QED
    BY <1>1, <1>2, <2>1 DEF TypeInv
<1>5. \A d \in Classes \ prepared' : layout'[d] = Unprepared'
  BY <1>1, <1>2 DEF TypeInv, Unprepared
<1>6. QED
  BY <1>1, <1>2, <1>3, <1>4, <1>5 DEF TypeInv

(* Sizes stay in their widths, every slot of a vtable holds a method that  *)
(* its class declares, and the interfaces of a class are prepared.         *)
THEOREM TypeCorrect ==
    ASSUME ProperFiles
    PROVE  Spec => []TypeOK
<1>1. Init => TypeInv
  <2> SUFFICES ASSUME Init PROVE TypeInv
    OBVIOUS
  <2>1. \A c \in Classes : layout[c] = Unprepared
    BY DEF Init
  <2>2. Sizes(Unprepared)
    BY DEF Sizes, Unprepared
  <2>3. layout = [c \in Classes |-> layout[c]]
    BY DEF Init
  <2>4. QED
    BY <2>1, <2>2, <2>3 DEF Init, TypeInv
<1>2. TypeInv /\ [Next]_vars => TypeInv'
  <2> SUFFICES ASSUME TypeInv, [Next]_vars PROVE TypeInv'
    OBVIOUS
  <2>1. ASSUME NEW c \in Classes, Prepare(c) PROVE TypeInv'
    BY <2>1, PrepareKeepsTypes
  <2>2. ASSUME NEW c \in Classes, PrepareFails(c) PROVE TypeInv'
    BY <2>2 DEF PrepareFails, TypeInv, Unprepared
  <2>3. ASSUME NEW c \in Classes, PrepareCrashes(c) PROVE TypeInv'
    BY <2>3 DEF PrepareCrashes, TypeInv, Unprepared
  <2>4. CASE UNCHANGED vars
    BY <2>4 DEF vars, TypeInv, Unprepared
  <2>5. QED
    BY <2>1, <2>2, <2>3, <2>4 DEF Next
<1>3. IInv /\ TypeInv => TypeOK
  <2> SUFFICES ASSUME IInv, TypeInv PROVE TypeOK
    OBVIOUS
  <2>1. ASSUME NEW c \in Classes, NEW k \in DOMAIN layout[c].vtable
        PROVE  layout[c].vtable[k].index \in DOMAIN decl[layout[c].vtable[k].class].methods
    <3>1. CASE c \in prepared /\ ~decl[c].interface
      <4>1. VtableHolds(layout, c)
        BY <3>1 DEF IInv, PreparedWell
      <4>2. QED
        BY <4>1 DEF VtableHolds, SlotsHoldMethods, InstanceMethods
    <3>2. CASE ~(c \in prepared /\ ~decl[c].interface)
      <4>1. layout[c].vtable = << >>
        BY <3>2 DEF TypeInv, Unprepared
      <4>2. QED
        BY <4>1
    <3>3. QED
      BY <3>1, <3>2
  <2>2. ASSUME NEW c \in Classes PROVE ToSet(layout[c].intfs) \subseteq prepared
    <3>1. layout[c].intfs \in Seq(prepared)
      <4>1. CASE c \in prepared
        BY <4>1 DEF IInv, PreparedWell
      <4>2. CASE c \notin prepared
        <5>1. layout[c] = Unprepared
          BY <4>2 DEF TypeInv
        <5>2. layout[c].intfs = << >>
          BY <5>1 DEF Unprepared
        <5>3. QED
          BY <5>2
      <4>3. QED
        BY <4>1, <4>2
    <3>2. QED
      BY <3>1 DEF ToSet
  <2>3. QED
    BY <2>1, <2>2 DEF TypeInv, TypeOK, Sizes
<1>4. QED
  BY <1>1, <1>2, <1>3, Invariant, PTL DEF Spec

=============================================================================
