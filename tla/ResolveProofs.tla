--------------------------- MODULE ResolveProofs ---------------------------
(***************************************************************************)
(* Proofs about Resolve, for every set of classes, every declaration and   *)
(* every constant pool: what a resolved entry holds, that it stays, that    *)
(* legal references are resolved, and which casts succeed.                  *)
(***************************************************************************)
EXTENDS Resolve, TLAPS

(* e has a value for each class.                                            *)
PerClass(e) == e = [c \in Classes |-> e[c]]

(* The entries e of all pools are written at indices of the pools.         *)
EntriesOK(e) ==
    /\ PerClass(e)
    /\ \A c \in Classes : DOMAIN e[c] \subseteq DOMAIN pool[c]

(* EntriesBacked, of entries e when the classes now are loaded.            *)
Backed(e, now) ==
    \A c \in Classes : \A i \in DOMAIN e[c] :
        /\ pool[c][i].tag \in MemberTags => pool[c][i].class \in DOMAIN e[c]
        /\ pool[c][i].tag = "Class" => e[c][i] = pool[c][i].name /\ e[c][i] \in now

(* What e holds, later holds too.                                           *)
Keeps(e, later) ==
    \A c \in Classes : \A i \in DOMAIN e[c] :
        i \in DOMAIN later[c] /\ later[c][i] = e[c][i]

IInv ==
    /\ program \in Programs
    /\ EntriesOK(entry)
    /\ loaded \subseteq Classes
    /\ crashed \in {"no", "null", "overflow"}
    /\ Backed(entry, loaded)

-----------------------------------------------------------------------------
(* The helper Store                                                         *)

(* Store changes one entry of one pool, and keeps a pool for each class.   *)
LEMMA StoreOne ==
    ASSUME NEW e, PerClass(e), NEW c \in Classes, NEW i, NEW value
    PROVE  LET s == Store(e, c, i, value) IN
           /\ PerClass(s)
           /\ \A d \in Classes : d # c => s[d] = e[d]
           /\ DOMAIN s[c] = DOMAIN e[c] \union {i}
           /\ s[c][i] = value
           /\ \A j \in DOMAIN e[c] : j # i => s[c][j] = e[c][j]
<1> DEFINE p == [j \in DOMAIN e[c] \union {i} |-> IF j = i THEN value ELSE e[c][j]]
           s == Store(e, c, i, value)
<1>1. s = [d \in Classes |-> IF d = c THEN p ELSE e[d]]
  <2>1. s = [e EXCEPT ![c] = p]
    BY DEF Store
  <2>2. DOMAIN e = Classes
    BY Zenon DEF PerClass
  <2> QED
    BY <2>1, <2>2, Zenon
<1>2. DOMAIN p = DOMAIN e[c] \union {i} /\ p[i] = value
  BY Zenon
<1>3. \A j \in DOMAIN e[c] : j # i => p[j] = e[c][j]
  BY Zenon
<1> HIDE DEF p, s
<1>4. s[c] = p /\ \A d \in Classes : d # c => s[d] = e[d]
  BY <1>1
<1>5. PerClass(s)
  BY <1>1 DEF PerClass
<1>6. /\ DOMAIN s[c] = DOMAIN e[c] \union {i} /\ s[c][i] = value
      /\ \A j \in DOMAIN e[c] : j # i => s[c][j] = e[c][j]
  BY <1>2, <1>3, <1>4
<1> QED
  BY <1>4, <1>5, <1>6 DEF s

(* The class of an entry can be written: again, it changes nothing.        *)
LEMMA StoreClass ==
    ASSUME NEW e, NEW now, NEW c \in Classes, NEW i \in DOMAIN pool[c],
           EntriesOK(e), Backed(e, now),
           pool[c][i].tag = "Class", pool[c][i].name \in now
    PROVE  LET s == Store(e, c, i, pool[c][i].name) IN
           EntriesOK(s) /\ Backed(s, now) /\ Keeps(e, s) /\ i \in DOMAIN s[c]
<1> DEFINE s == Store(e, c, i, pool[c][i].name)
<1>1. /\ PerClass(s)
      /\ \A d \in Classes : d # c => s[d] = e[d]
      /\ DOMAIN s[c] = DOMAIN e[c] \union {i}
      /\ s[c][i] = pool[c][i].name
      /\ \A j \in DOMAIN e[c] : j # i => s[c][j] = e[c][j]
  <2>1. PerClass(e)
    BY DEF EntriesOK
  <2> QED
    BY <2>1, StoreOne
<1> HIDE DEF s
<1>2. EntriesOK(s)
  BY <1>1 DEF EntriesOK
<1>3. Keeps(e, s)
  BY <1>1 DEF Keeps, Backed
<1>4. Backed(s, now)
  BY <1>1 DEF Backed, MemberTags
<1> QED
  BY <1>1, <1>2, <1>3, <1>4 DEF s

(* A member is written once, after its class.                               *)
LEMMA StoreMember ==
    ASSUME NEW e, NEW now, NEW value, NEW c \in Classes, NEW i \in DOMAIN pool[c],
           EntriesOK(e), Backed(e, now), i \notin DOMAIN e[c],
           pool[c][i].tag \in MemberTags, pool[c][i].class \in DOMAIN e[c]
    PROVE  LET s == Store(e, c, i, value) IN
           EntriesOK(s) /\ Backed(s, now) /\ Keeps(e, s)
<1> DEFINE s == Store(e, c, i, value)
<1>1. /\ PerClass(s)
      /\ \A d \in Classes : d # c => s[d] = e[d]
      /\ DOMAIN s[c] = DOMAIN e[c] \union {i}
      /\ \A j \in DOMAIN e[c] : j # i => s[c][j] = e[c][j]
  <2>1. PerClass(e)
    BY DEF EntriesOK
  <2> QED
    BY <2>1, StoreOne
<1> HIDE DEF s
<1>2. EntriesOK(s)
  BY <1>1 DEF EntriesOK
<1>3. Keeps(e, s)
  BY <1>1 DEF Keeps
<1>4. Backed(s, now)
  BY <1>1 DEF Backed, MemberTags
<1> QED
  BY <1>2, <1>3, <1>4 DEF s

(* Loading only adds classes.                                               *)
LEMMA BackedMonotone ==
    ASSUME NEW e, NEW now, NEW later, Backed(e, now), now \subseteq later
    PROVE  Backed(e, later)
BY DEF Backed

LEMMA KeepsTransitive ==
    ASSUME NEW e, NEW f, NEW g, Keeps(e, f), Keeps(f, g)
    PROVE  Keeps(e, g)
BY DEF Keeps

-----------------------------------------------------------------------------
(* The class of an entry                                                    *)

(* The reference of a member has an entry of a class.                       *)
LEMMA MemberHasClass ==
    ASSUME program \in Programs, NEW c \in Classes, NEW i \in DOMAIN pool[c],
           pool[c][i].tag \in MemberTags
    PROVE  /\ pool[c][i].class \in DOMAIN pool[c]
           /\ pool[c][pool[c][i].class].tag = "Class"
BY ProgramsAssumption, Zenon DEF pool

LEMMA LoadingGrows ==
    ASSUME IInv, NEW c \in Classes, NEW i, NEW now \in Loading(c, i)
    PROVE  loaded \subseteq now /\ now \subseteq Classes
BY DEF IInv, Loading, LoadedThen

(* class_resolve_class finds the class named, loaded, or none.              *)
LEMMA ClassAtNamed ==
    ASSUME IInv, NEW c \in Classes, NEW i \in DOMAIN pool[c], pool[c][i].tag = "Class",
           NEW now \in Loading(c, i), ClassAt(c, i, now) # NoClass
    PROVE  ClassAt(c, i, now) = pool[c][i].name /\ pool[c][i].name \in now
<1>1. loaded \subseteq now
  BY LoadingGrows
<1>2. CASE Resolved(c, i)
  BY <1>1, <1>2 DEF IInv, Backed, ClassAt, Resolved
<1>3. CASE ~Resolved(c, i)
  BY <1>3 DEF ClassAt
<1> QED
  BY <1>2, <1>3

(* What a failed or successful resolution of a member does to the class.    *)
LEMMA ClassOfMember ==
    ASSUME IInv, NEW c \in Classes, NEW i \in DOMAIN pool[c], pool[c][i].tag = "Class",
           NEW now \in Loading(c, i), ClassAt(c, i, now) # NoClass
    PROVE  LET s == Store(entry, c, i, ClassAt(c, i, now)) IN
           EntriesOK(s) /\ Backed(s, now) /\ Keeps(entry, s) /\ i \in DOMAIN s[c]
<1>1. ClassAt(c, i, now) = pool[c][i].name /\ pool[c][i].name \in now
  BY ClassAtNamed
<1>2. EntriesOK(entry) /\ Backed(entry, now)
  BY LoadingGrows, BackedMonotone DEF IInv
<1> QED
  BY <1>1, <1>2, StoreClass

-----------------------------------------------------------------------------
(* The steps                                                                *)

LEMMA InitInvariant == Init => IInv
<1> SUFFICES ASSUME Init PROVE IInv
  OBVIOUS
<1>1. entry = [c \in Classes |-> entry[c]] /\ \A c \in Classes : DOMAIN entry[c] = {}
  BY DEF Init
<1> QED
  BY <1>1, ClassesAssumption DEF Init, IInv, EntriesOK, PerClass, Backed

LEMMA ResolveClassStep ==
    ASSUME IInv, NEW c \in Classes, NEW i \in DOMAIN pool[c], ResolveClass(c, i)
    PROVE  IInv' /\ Keeps(entry, entry')
<1>1. PICK now \in Loading(c, i) :
        /\ loaded' = now
        /\ entry' = IF ClassAt(c, i, now) = NoClass THEN entry
                    ELSE Store(entry, c, i, ClassAt(c, i, now))
  BY DEF ResolveClass
<1>2. pool[c][i].tag = "Class" /\ program' = program /\ crashed' = crashed
  BY DEF ResolveClass, Translating
<1>3. loaded \subseteq now /\ now \subseteq Classes
  BY LoadingGrows
<1>4. EntriesOK(entry') /\ Backed(entry', now) /\ Keeps(entry, entry')
  <2>1. CASE ClassAt(c, i, now) = NoClass
    BY <1>1, <1>3, <2>1, BackedMonotone DEF IInv, Keeps
  <2>2. CASE ClassAt(c, i, now) # NoClass
    BY <1>1, <1>2, <2>2, ClassOfMember
  <2> QED
    BY <2>1, <2>2
<1> QED
  BY <1>1, <1>2, <1>3, <1>4 DEF IInv, EntriesOK, PerClass, Backed, pool

LEMMA ClassUnavailableStep ==
    ASSUME IInv, NEW c \in Classes, NEW i \in DOMAIN pool[c], ClassUnavailable(c, i)
    PROVE  IInv' /\ Keeps(entry, entry')
<1>1. PICK now \in Loading(c, pool[c][i].class) : loaded' = now
  BY DEF ClassUnavailable
<1>2. entry' = entry /\ program' = program /\ crashed' = "null"
  BY DEF ClassUnavailable
<1>3. loaded \subseteq now /\ now \subseteq Classes
  BY LoadingGrows
<1>4. Backed(entry, now)
  BY <1>3, BackedMonotone DEF IInv
<1> QED
  BY <1>1, <1>2, <1>3, <1>4 DEF IInv, EntriesOK, PerClass, Backed, Keeps, pool

LEMMA MemberResolvedStep ==
    ASSUME IInv, NEW c \in Classes, NEW i \in DOMAIN pool[c], MemberResolved(c, i)
    PROVE  IInv' /\ Keeps(entry, entry')
<1> DEFINE ref == pool[c][i]
           K(now) == ClassAt(c, ref.class, now)
           d(now) == Lookup(K(now), ref.tag, ref.sig)
           first(now) == Store(entry, c, ref.class, K(now))
<1>1. PICK now \in Loading(c, ref.class) :
        /\ K(now) # NoClass /\ loaded' = now
        /\ entry' = Store(first(now), c, i, Member(d(now), ref.sig))
  BY Zenon DEF MemberResolved
<1>2. /\ ref.tag \in MemberTags /\ i \notin DOMAIN entry[c]
      /\ program' = program /\ crashed' = crashed
  BY DEF MemberResolved, Translating, Resolved
<1>3. loaded \subseteq now /\ now \subseteq Classes
  BY LoadingGrows
<1>4. ref.class \in DOMAIN pool[c] /\ pool[c][ref.class].tag = "Class"
  BY <1>2, MemberHasClass DEF IInv
<1>5. /\ EntriesOK(first(now)) /\ Backed(first(now), now) /\ Keeps(entry, first(now))
      /\ ref.class \in DOMAIN first(now)[c]
  BY <1>1, <1>4, ClassOfMember
<1>6. i \notin DOMAIN first(now)[c]
  <2>1. i # ref.class
    BY <1>2, <1>4 DEF MemberTags
  <2>2. DOMAIN first(now)[c] = DOMAIN entry[c] \union {ref.class}
    <3>1. PerClass(entry)
      BY DEF IInv, EntriesOK
    <3> QED
      BY <3>1, StoreOne
  <2> QED
    BY <1>2, <2>1, <2>2
<1> HIDE DEF first, d, K
<1>7. EntriesOK(entry') /\ Backed(entry', now) /\ Keeps(first(now), entry')
  BY <1>1, <1>2, <1>5, <1>6, StoreMember
<1>8. Keeps(entry, entry')
  BY <1>5, <1>7, KeepsTransitive
<1> QED
  BY <1>1, <1>2, <1>3, <1>7, <1>8 DEF IInv, EntriesOK, PerClass, Backed, pool

LEMMA MemberFailsStep ==
    ASSUME IInv, NEW c \in Classes, NEW i \in DOMAIN pool[c], MemberFails(c, i)
    PROVE  IInv' /\ Keeps(entry, entry')
<1> DEFINE ref == pool[c][i]
           K(now) == ClassAt(c, ref.class, now)
<1>1. PICK now \in Loading(c, ref.class) :
        /\ K(now) # NoClass /\ loaded' = now
        /\ entry' = Store(entry, c, ref.class, K(now))
  BY Zenon DEF MemberFails
<1>2. ref.tag \in MemberTags /\ program' = program
  BY DEF MemberFails, Translating
<1>3. crashed' \in {"null", "overflow"}
  BY DEF MemberFails
<1>4. loaded \subseteq now /\ now \subseteq Classes
  BY LoadingGrows
<1>5. ref.class \in DOMAIN pool[c] /\ pool[c][ref.class].tag = "Class"
  BY <1>2, MemberHasClass DEF IInv
<1>6. EntriesOK(entry') /\ Backed(entry', now) /\ Keeps(entry, entry')
  BY <1>1, <1>5, ClassOfMember
<1> QED
  BY <1>1, <1>2, <1>3, <1>4, <1>6 DEF IInv, EntriesOK, PerClass, Backed, pool

LEMMA StepInvariant == IInv /\ [Next]_vars => IInv' /\ Keeps(entry, entry')
<1> SUFFICES ASSUME IInv, [Next]_vars PROVE IInv' /\ Keeps(entry, entry')
  OBVIOUS
<1>1. CASE Next
  <2>1. PICK c \in Classes :
          \E i \in DOMAIN pool[c] :
             \/ ResolveClass(c, i) \/ ClassUnavailable(c, i)
             \/ MemberResolved(c, i) \/ MemberFails(c, i)
    BY <1>1, Zenon DEF Next
  <2> QED
    BY <2>1, ResolveClassStep, ClassUnavailableStep, MemberResolvedStep, MemberFailsStep
<1>2. CASE UNCHANGED vars
  BY <1>2 DEF vars, IInv, EntriesOK, PerClass, Backed, Keeps, pool
<1> QED
  BY <1>1, <1>2

-----------------------------------------------------------------------------
(* The theorems                                                             *)

THEOREM Invariance == Spec => []IInv
BY InitInvariant, StepInvariant, PTL DEF Spec

(* Every variable keeps its type: no index outside a pool is ever written. *)
THEOREM TypeCorrectness == Spec => []TypeOK
<1>1. IInv => TypeOK
  BY DEF IInv, EntriesOK, TypeOK
<1> QED
  BY <1>1, Invariance, PTL

(* The class of a resolved member is resolved in the same pool, and a      *)
(* resolved class is the one named, and loaded.                             *)
THEOREM ResolvedIsBacked == Spec => []EntriesBacked
<1>1. IInv => EntriesBacked
  BY DEF IInv, Backed, EntriesBacked
<1> QED
  BY <1>1, Invariance, PTL

(* An entry that code was compiled against never changes, whatever fails   *)
(* later.                                                                   *)
THEOREM ResolvedStays == Spec => EntriesStable
<1>1. IInv /\ [Next]_vars =>
        [\A c \in Classes : \A i \in DOMAIN entry[c] :
           i \in DOMAIN entry'[c] /\ entry'[c][i] = entry[c][i]]_vars
  BY StepInvariant DEF Keeps
<1> QED
  BY <1>1, Invariance, PTL DEF Spec, EntriesStable

-----------------------------------------------------------------------------
(* Hierarchies                                                              *)

(* What is reached from d along R, d included: it lies in every set that R *)
(* does not lead out of.                                                    *)
Closed(R, some) == \A x \in some : R[x] \subseteq some
Reach(R, d) ==
    {e \in Classes : \A some \in SUBSET Classes : d \in some /\ Closed(R, some) => e \in some}

LEMMA ReachClosed ==
    ASSUME NEW R \in [Classes -> SUBSET Classes], NEW d \in Classes
    PROVE  d \in Reach(R, d) /\ Closed(R, Reach(R, d)) /\ Reach(R, d) \subseteq Classes
<1>1. ASSUME NEW x \in Reach(R, d), NEW y \in R[x]
      PROVE  y \in Reach(R, d)
  <2>1. y \in Classes
    BY DEF Reach
  <2>2. ASSUME NEW some \in SUBSET Classes, d \in some, Closed(R, some)
        PROVE  y \in some
    <3>1. x \in some
      BY <2>2 DEF Reach
    <3> QED
      BY <2>2, <3>1 DEF Closed
  <2> QED
    BY <2>1, <2>2 DEF Reach
<1> QED
  BY <1>1 DEF Closed, Reach

LEMMA ReachLeast ==
    ASSUME NEW R, NEW d, NEW some \in SUBSET Classes, d \in some, Closed(R, some)
    PROVE  Reach(R, d) \subseteq some
BY DEF Reach

LEMMA ReachTransitive ==
    ASSUME NEW R \in [Classes -> SUBSET Classes], NEW d \in Classes, NEW e \in Reach(R, d)
    PROVE  Reach(R, e) \subseteq Reach(R, d)
BY ReachClosed, ReachLeast

(* What is reached is the class itself or reached from one step on.        *)
LEMMA ReachStep ==
    ASSUME NEW R \in [Classes -> SUBSET Classes], NEW d \in Classes
    PROVE  /\ \A x \in R[d] : Reach(R, x) \subseteq Reach(R, d)
           /\ \A e \in Reach(R, d) : e = d \/ \E x \in R[d] : e \in Reach(R, x)
<1>1. \A x \in R[d] : x \in Reach(R, d)
  BY ReachClosed DEF Closed
<1>2. \A x \in R[d] : Reach(R, x) \subseteq Reach(R, d)
  BY <1>1, ReachTransitive
<1> DEFINE some == {e \in Classes : e = d \/ \E x \in R[d] : e \in Reach(R, x)}
<1>3. Closed(R, some)
  <2> SUFFICES ASSUME NEW y \in some, NEW z \in R[y] PROVE z \in some
    BY DEF Closed
  <2>1. CASE y = d
    <3>1. z \in Classes /\ z \in Reach(R, z)
      BY <2>1, ReachClosed
    <3> QED
      BY <2>1, <3>1
  <2>2. CASE y # d
    <3>1. PICK x \in R[d] : y \in Reach(R, x)
      BY <2>2
    <3>2. x \in Classes
      OBVIOUS
    <3>3. z \in Reach(R, x) /\ z \in Classes
      BY <3>1, <3>2, ReachClosed DEF Closed
    <3> QED
      BY <3>3
  <2> QED
    BY <2>1, <2>2
<1>4. Reach(R, d) \subseteq some
  BY <1>3, ReachLeast
<1> QED
  BY <1>2, <1>4

(* A relation that ends: some member of every set leads to none of it.     *)
Ends(R) == \A some \in SUBSET Classes :
              some # {} => \E c \in some : R[c] \intersect some = {}

(* Two classes that are reached from each other are one.                   *)
LEMMA ReachAntisymmetric ==
    ASSUME NEW R \in [Classes -> SUBSET Classes], Ends(R),
           NEW d \in Classes, NEW e \in Reach(R, d), d \in Reach(R, e)
    PROVE  d = e
<1> SUFFICES ASSUME d # e PROVE FALSE
  OBVIOUS
<1> DEFINE C == {x \in Reach(R, d) : d \in Reach(R, x)}
<1>1. d \in C /\ C \in SUBSET Classes
  BY ReachClosed
<1>2. PICK x \in C : R[x] \intersect C = {}
  BY <1>1 DEF Ends
<1>3. x \in Classes /\ \A y \in R[x] : y \in Reach(R, d)
  BY <1>1, ReachClosed DEF Closed
<1>4. x = d
  <2>1. d = x \/ \E y \in R[x] : d \in Reach(R, y)
    BY <1>3, ReachStep
  <2> QED
    BY <1>2, <1>3, <2>1
<1>5. PICK y \in R[d] : e \in Reach(R, y)
  BY ReachStep
<1>6. d \in Reach(R, y)
  <2>1. y \in Classes
    OBVIOUS
  <2>2. Reach(R, e) \subseteq Reach(R, y)
    BY <1>5, <2>1, ReachTransitive
  <2> QED
    BY <2>2
<1> QED
  BY <1>2, <1>3, <1>4, <1>5, <1>6

(* The relations of a program: to the superclass, and to all supers.       *)
UpOf(h)  == [d \in Classes |-> {h[d].super} \ {NoClass}]
AllOf(h) == [d \in Classes |-> ({h[d].super} \ {NoClass}) \union h[d].intfs]

LEMMA HierarchyEnds ==
    ASSUME program \in Programs
    PROVE  /\ UpOf(decl) \in [Classes -> SUBSET Classes] /\ Ends(UpOf(decl))
           /\ AllOf(decl) \in [Classes -> SUBSET Classes] /\ Ends(AllOf(decl))
<1>1. decl \in [Classes -> ClassDecl] /\ WellFounded(decl)
  BY ProgramsAssumption, HierarchiesAssumption DEF decl
<1>2. \A d \in Classes : decl[d].super \in Classes \union {NoClass} /\ decl[d].intfs \subseteq Classes
  BY <1>1 DEF ClassDecl
<1>3. UpOf(decl) \in [Classes -> SUBSET Classes] /\ AllOf(decl) \in [Classes -> SUBSET Classes]
  BY <1>2 DEF UpOf, AllOf
<1>4. ASSUME NEW some \in SUBSET Classes, some # {}
      PROVE  \E c \in some : AllOf(decl)[c] \intersect some = {} /\ UpOf(decl)[c] \intersect some = {}
  <2>1. PICK c \in some : (({decl[c].super} \ {NoClass}) \union decl[c].intfs) \intersect some = {}
    BY <1>1, <1>4 DEF WellFounded
  <2>2. c \in Classes /\ AllOf(decl)[c] = ({decl[c].super} \ {NoClass}) \union decl[c].intfs
                       /\ UpOf(decl)[c] = {decl[c].super} \ {NoClass}
    BY <1>4, Zenon DEF AllOf, UpOf
  <2>3. AllOf(decl)[c] \intersect some = {} /\ UpOf(decl)[c] \intersect some = {}
    BY <2>1, <2>2
  <2> QED
    BY <2>3
<1> QED
  BY <1>3, <1>4 DEF Ends

LEMMA UpStep ==
    ASSUME program \in Programs, NEW d \in Classes
    PROVE  /\ UpOf(decl)[d] = IF decl[d].super = NoClass THEN {} ELSE {decl[d].super}
           /\ decl[d].super # NoClass => decl[d].super \in Classes
<1>1. UpOf(decl)[d] = {decl[d].super} \ {NoClass}
  BY Zenon DEF UpOf
<1>2. UpOf(decl)[d] \subseteq Classes
  BY HierarchyEnds
<1> QED
  BY <1>1, <1>2

-----------------------------------------------------------------------------
(* What the recursive lookups compute                                       *)

(* is_subclass climbs the superclasses.                                     *)
LEMMA SubclassReaches ==
    ASSUME program \in Programs, NEW s, NEW k \in Classes
    PROVE  IsSubclass(s, k) <=> s \in Reach(UpOf(decl), k)
<1> DEFINE R == UpOf(decl)
           body(f) == [d \in Classes |-> d = s \/ (decl[d].super # NoClass /\ f[decl[d].super])]
           up == CHOOSE f : f = body(f)
<1>1. R \in [Classes -> SUBSET Classes] /\ Ends(R)
  BY HierarchyEnds
<1>2. \A d \in Classes : /\ R[d] = IF decl[d].super = NoClass THEN {} ELSE {decl[d].super}
                         /\ decl[d].super # NoClass => decl[d].super \in Classes
  BY UpStep, Zenon
<1>3. IsSubclass(s, k) = up[k]
  BY Zenon DEF IsSubclass
<1> HIDE DEF R
<1> DEFINE g == [d \in Classes |-> s \in Reach(R, d)]
<1>4. g = body(g)
  <2>1. ASSUME NEW d \in Classes
        PROVE  s \in Reach(R, d) <=> (d = s \/ (decl[d].super # NoClass /\ g[decl[d].super]))
    <3>1. decl[d].super # NoClass => (g[decl[d].super] <=> s \in Reach(R, decl[d].super))
      BY <1>2
    <3>2. s \in Reach(R, d) <=> (d = s \/ \E x \in R[d] : s \in Reach(R, x))
      BY <1>1, ReachStep, ReachClosed
    <3>3. (\E x \in R[d] : s \in Reach(R, x))
             <=> (decl[d].super # NoClass /\ s \in Reach(R, decl[d].super))
      BY <1>2
    <3> QED
      BY <3>1, <3>2, <3>3, Zenon
  <2> HIDE DEF g
  <2>2. \A d \in Classes :
          s \in Reach(R, d) <=> (d = s \/ (decl[d].super # NoClass /\ g[decl[d].super]))
    BY <2>1, Zenon
  <2>3. g = [d \in Classes |-> s \in Reach(R, d)]
    BY Zenon DEF g
  <2>4. body(g) = [d \in Classes |-> d = s \/ (decl[d].super # NoClass /\ g[decl[d].super])]
    BY Zenon
  <2>5. [d \in Classes |-> s \in Reach(R, d)]
          = [d \in Classes |-> d = s \/ (decl[d].super # NoClass /\ g[decl[d].super])]
    BY <2>2
  <2> QED
    BY <2>3, <2>4, <2>5, Zenon
<1> HIDE DEF g, body
<1>5. up = body(up)
  BY <1>4, Zenon DEF up
<1> HIDE DEF up
<1> DEFINE wrong == {d \in Classes : ~(up[d] <=> s \in Reach(R, d))}
<1>6. wrong = {}
  <2> SUFFICES ASSUME wrong # {} PROVE FALSE
    OBVIOUS
  <2>1. PICK d \in wrong : R[d] \intersect wrong = {}
    <3>1. wrong \in SUBSET Classes
      OBVIOUS
    <3> HIDE DEF wrong
    <3> QED
      BY <1>1, <3>1 DEF Ends
  <2>2. up[d] <=> (d = s \/ (decl[d].super # NoClass /\ up[decl[d].super]))
    BY <1>5, Zenon DEF body
  <2>3. decl[d].super # NoClass => (up[decl[d].super] <=> s \in Reach(R, decl[d].super))
    BY <1>2, <2>1
  <2>4. s \in Reach(R, d) <=> (d = s \/ \E x \in R[d] : s \in Reach(R, x))
    BY <1>1, ReachStep, ReachClosed
  <2>5. (\E x \in R[d] : s \in Reach(R, x))
           <=> (decl[d].super # NoClass /\ s \in Reach(R, decl[d].super))
    BY <1>2
  <2>6. up[d] <=> s \in Reach(R, d)
    BY <2>2, <2>3, <2>4, <2>5, Zenon
  <2> QED
    BY <2>6
<1> QED
  BY <1>3, <1>6, Zenon DEF R

LEMMA AllStep ==
    ASSUME program \in Programs, NEW d \in Classes
    PROVE  /\ AllOf(decl)[d] = Supers(d) /\ Supers(d) \subseteq Classes
           /\ UpOf(decl)[d] \subseteq AllOf(decl)[d]
<1>1. AllOf(decl)[d] = ({decl[d].super} \ {NoClass}) \union decl[d].intfs
  BY Zenon DEF AllOf
<1>2. UpOf(decl)[d] = {decl[d].super} \ {NoClass}
  BY Zenon DEF UpOf
<1>3. AllOf(decl)[d] \subseteq Classes
  BY HierarchyEnds
<1> QED
  BY <1>1, <1>2, <1>3 DEF Supers

(* What load_class loads with a class is what is reached along the supers. *)
LEMMA AboveReaches ==
    ASSUME program \in Programs, NEW k \in Classes
    PROVE  AllAbove(k) = Reach(AllOf(decl), k)
<1> DEFINE R == AllOf(decl)
           body(f) == [d \in Classes |-> {d} \union UNION {f[e] : e \in Supers(d)}]
           all == CHOOSE f : f = body(f)
<1>1. R \in [Classes -> SUBSET Classes] /\ Ends(R)
  BY HierarchyEnds
<1>2. \A d \in Classes : R[d] = Supers(d) /\ Supers(d) \subseteq Classes
  BY AllStep, Zenon
<1>3. AllAbove(k) = all[k]
  BY Zenon DEF AllAbove
<1> HIDE DEF R
<1>4. ASSUME NEW d \in Classes
      PROVE  Reach(R, d) = {d} \union UNION {Reach(R, e) : e \in Supers(d)}
  <2>1. d \in Reach(R, d) /\ \A x \in R[d] : Reach(R, x) \subseteq Reach(R, d)
    BY <1>1, ReachStep, ReachClosed
  <2>2. \A e \in Reach(R, d) : e = d \/ \E x \in R[d] : e \in Reach(R, x)
    BY <1>1, ReachStep
  <2>3. R[d] = Supers(d)
    BY <1>2
  <2> QED
    BY <2>1, <2>2, <2>3
<1> DEFINE g == [d \in Classes |-> Reach(R, d)]
<1>5. g = body(g)
  <2>1. ASSUME NEW d \in Classes
        PROVE  {g[e] : e \in Supers(d)} = {Reach(R, e) : e \in Supers(d)}
    <3>1. \A e \in Supers(d) : g[e] = Reach(R, e)
      BY <1>2
    <3> HIDE DEF g
    <3> QED
      BY <3>1
  <2>2. \A d \in Classes : Reach(R, d) = {d} \union UNION {g[e] : e \in Supers(d)}
    BY <1>4, <2>1, Zenon
  <2> HIDE DEF g
  <2>3. g = [d \in Classes |-> Reach(R, d)]
    BY Zenon DEF g
  <2> QED
    BY <2>2, <2>3, Zenon
<1> HIDE DEF g, body
<1>6. all = body(all)
  BY <1>5, Zenon DEF all
<1> HIDE DEF all
<1> DEFINE wrong == {d \in Classes : all[d] # Reach(R, d)}
<1>7. wrong = {}
  <2> SUFFICES ASSUME wrong # {} PROVE FALSE
    OBVIOUS
  <2>1. PICK d \in wrong : R[d] \intersect wrong = {}
    <3>1. wrong \in SUBSET Classes
      OBVIOUS
    <3> HIDE DEF wrong
    <3> QED
      BY <1>1, <3>1 DEF Ends
  <2>2. d \in Classes
    OBVIOUS
  <2>3. all[d] = {d} \union UNION {all[e] : e \in Supers(d)}
    BY <1>6, <2>2, Zenon DEF body
  <2>4. \A e \in Supers(d) : all[e] = Reach(R, e)
    BY <1>2, <2>1, <2>2
  <2>5. {all[e] : e \in Supers(d)} = {Reach(R, e) : e \in Supers(d)}
    BY <2>4
  <2>6. all[d] = Reach(R, d)
    BY <1>4, <2>2, <2>3, <2>5, Zenon
  <2> QED
    BY <2>6
<1> QED
  BY <1>3, <1>7, Zenon DEF R

(* The nearest of the superclasses of a class, itself included, that has a *)
(* member of that name.                                                     *)
Declares(e, tag, sig) == sig \in DOMAIN Table(e, tag)
Nearest(d, k, tag, sig) ==
    /\ d \in Reach(UpOf(decl), k) /\ Declares(d, tag, sig)
    /\ \A e \in Reach(UpOf(decl), k) : Declares(e, tag, sig) => e \in Reach(UpOf(decl), d)

LEMMA NearestUnique ==
    ASSUME program \in Programs, NEW k \in Classes, NEW tag, NEW sig,
           NEW d, NEW e, Nearest(d, k, tag, sig), Nearest(e, k, tag, sig)
    PROVE  d = e
<1>1. UpOf(decl) \in [Classes -> SUBSET Classes] /\ Ends(UpOf(decl))
  BY HierarchyEnds
<1>2. d \in Classes /\ e \in Classes
  BY DEF Nearest, Reach
<1>3. e \in Reach(UpOf(decl), d) /\ d \in Reach(UpOf(decl), e)
  BY DEF Nearest
<1> QED
  BY <1>1, <1>2, <1>3, ReachAntisymmetric

(* A class that declares the member is the nearest itself; for another it  *)
(* is the same as for its superclass.                                       *)
LEMMA NearestStep ==
    ASSUME program \in Programs, NEW d \in Classes, NEW tag, NEW sig
    PROVE  /\ Declares(d, tag, sig) => Nearest(d, d, tag, sig)
           /\ ~Declares(d, tag, sig) /\ decl[d].super # NoClass =>
                \A e : Nearest(e, d, tag, sig) <=> Nearest(e, decl[d].super, tag, sig)
           /\ ~Declares(d, tag, sig) /\ decl[d].super = NoClass =>
                \A e : ~Nearest(e, d, tag, sig)
<1> DEFINE R == UpOf(decl)
<1>1. R \in [Classes -> SUBSET Classes]
  BY HierarchyEnds
<1>2. /\ R[d] = IF decl[d].super = NoClass THEN {} ELSE {decl[d].super}
      /\ decl[d].super # NoClass => decl[d].super \in Classes
  BY UpStep
<1> HIDE DEF R
<1>3. d \in Reach(R, d)
  BY <1>1, ReachClosed
<1>4. \A e \in Reach(R, d) : e = d \/ \E x \in R[d] : e \in Reach(R, x)
  BY <1>1, ReachStep
<1>5. \A x \in R[d] : Reach(R, x) \subseteq Reach(R, d)
  BY <1>1, ReachStep
<1>6. Declares(d, tag, sig) => Nearest(d, d, tag, sig)
  BY <1>3 DEF Nearest, R
<1>7. ASSUME ~Declares(d, tag, sig), decl[d].super # NoClass, NEW e
      PROVE  Nearest(e, d, tag, sig) <=> Nearest(e, decl[d].super, tag, sig)
  <2>1. \A f : Declares(f, tag, sig) => (f \in Reach(R, d) <=> f \in Reach(R, decl[d].super))
    BY <1>2, <1>4, <1>5, <1>7
  <2> QED
    BY <2>1, Zenon DEF Nearest, R
<1>8. ASSUME ~Declares(d, tag, sig), decl[d].super = NoClass, NEW e
      PROVE  ~Nearest(e, d, tag, sig)
  BY <1>2, <1>4, <1>8 DEF Nearest, R
<1> QED
  BY <1>6, <1>7, <1>8

(* class_lookup_field_recursive and class_lookup_method_recursive find the *)
(* nearest declaration, and none only if there is none.                     *)
LEMMA LookupFinds ==
    ASSUME program \in Programs, NEW k \in Classes, NEW tag, NEW sig
    PROVE  IF Lookup(k, tag, sig) = NoClass
           THEN \A e \in Reach(UpOf(decl), k) : ~Declares(e, tag, sig)
           ELSE Nearest(Lookup(k, tag, sig), k, tag, sig)
<1> DEFINE R == UpOf(decl)
           C == Classes \union {NoClass}
           body(f) == [d \in C |-> IF d = NoClass \/ sig \in DOMAIN Table(d, tag) THEN d
                                   ELSE f[decl[d].super]]
           found == CHOOSE f : f = body(f)
           near(d) == CHOOSE e : Nearest(e, d, tag, sig)
           h(d) == IF d # NoClass /\ \E e : Nearest(e, d, tag, sig) THEN near(d) ELSE NoClass
           g == [d \in C |-> h(d)]
<1>1. R \in [Classes -> SUBSET Classes] /\ Ends(R)
  BY HierarchyEnds
<1>2. \A d \in Classes : /\ R[d] = IF decl[d].super = NoClass THEN {} ELSE {decl[d].super}
                         /\ decl[d].super # NoClass => decl[d].super \in Classes
  BY UpStep, Zenon
<1>3. Lookup(k, tag, sig) = found[k]
  BY Zenon DEF Lookup
<1>4. \A d \in Classes : \A e : Nearest(e, d, tag, sig) => near(d) = e
  <2> SUFFICES ASSUME NEW d \in Classes, NEW e, Nearest(e, d, tag, sig)
               PROVE  near(d) = e
    OBVIOUS
  <2>1. Nearest(near(d), d, tag, sig)
    BY Zenon
  <2> QED
    BY <2>1, NearestUnique
<1> HIDE DEF near, R
<1>5. NoClass \notin Classes
  BY ClassesAssumption
<1>6. ASSUME NEW d \in C
      PROVE  g[d] = IF d = NoClass \/ sig \in DOMAIN Table(d, tag) THEN d ELSE g[decl[d].super]
  <2>1. CASE d = NoClass
    BY <2>1
  <2>2. CASE d # NoClass /\ Declares(d, tag, sig)
    <3>1. Nearest(d, d, tag, sig)
      BY <2>2, NearestStep
    <3>2. near(d) = d
      BY <1>4, <2>2, <3>1
    <3> QED
      BY <2>2, <3>1, <3>2 DEF Declares
  <2>3. CASE d # NoClass /\ ~Declares(d, tag, sig) /\ decl[d].super = NoClass
    <3>1. \A e : ~Nearest(e, d, tag, sig)
      BY <2>3, NearestStep
    <3>2. g[d] = NoClass /\ g[NoClass] = NoClass
      BY <3>1
    <3> QED
      BY <2>3, <3>2 DEF Declares
  <2>4. CASE d # NoClass /\ ~Declares(d, tag, sig) /\ decl[d].super # NoClass
    <3>1. \A e : Nearest(e, d, tag, sig) <=> Nearest(e, decl[d].super, tag, sig)
      BY <2>4, NearestStep
    <3>2. d \in Classes /\ decl[d].super \in Classes /\ decl[d].super \in C
      BY <1>2, <2>4
    <3>3. CASE \E e : Nearest(e, d, tag, sig)
      <4>1. PICK e : Nearest(e, d, tag, sig) /\ Nearest(e, decl[d].super, tag, sig)
        BY <3>1, <3>3
      <4>2. near(d) = e /\ near(decl[d].super) = e
        BY <1>4, <3>2, <4>1
      <4>3. g[d] = e /\ g[decl[d].super] = e
        BY <2>4, <3>2, <4>1, <4>2
      <4> QED
        BY <2>4, <4>3 DEF Declares
    <3>4. CASE ~\E e : Nearest(e, d, tag, sig)
      <4>1. g[d] = NoClass /\ g[decl[d].super] = NoClass
        BY <3>1, <3>2, <3>4
      <4> QED
        BY <2>4, <4>1 DEF Declares
    <3> QED
      BY <3>3, <3>4
  <2> QED
    BY <2>1, <2>2, <2>3, <2>4
<1>7. g = body(g)
  <2> HIDE DEF h
  <2>1. \A d \in C : h(d) = IF d = NoClass \/ sig \in DOMAIN Table(d, tag) THEN d
                           ELSE g[decl[d].super]
    <3>1. \A d \in C : g[d] = h(d)
      OBVIOUS
    <3> HIDE DEF g
    <3> QED
      BY <1>6, <3>1, Zenon
  <2> HIDE DEF g
  <2>2. g = [d \in C |-> h(d)]
    BY Zenon DEF g
  <2> QED
    BY <2>1, <2>2, Zenon
<1> HIDE DEF g, body
<1>8. found = body(found)
  BY <1>7, Zenon DEF found
<1> HIDE DEF found
<1> DEFINE right(d) == IF found[d] = NoClass
                       THEN \A e \in Reach(R, d) : ~Declares(e, tag, sig)
                       ELSE Nearest(found[d], d, tag, sig)
           wrong == {d \in Classes : ~right(d)}
<1>9. wrong = {}
  <2> SUFFICES ASSUME wrong # {} PROVE FALSE
    OBVIOUS
  <2>1. PICK d \in wrong : R[d] \intersect wrong = {}
    <3>1. wrong \in SUBSET Classes
      OBVIOUS
    <3> HIDE DEF wrong
    <3> QED
      BY <1>1, <3>1 DEF Ends
  <2>2. d \in Classes /\ d \in C /\ d # NoClass
    BY <1>5
  <2>3. found[d] = IF Declares(d, tag, sig) THEN d ELSE found[decl[d].super]
    BY <1>8, <2>2, Zenon DEF body, Declares
  <2>4. CASE Declares(d, tag, sig)
    BY <2>2, <2>3, <2>4, NearestStep
  <2>5. CASE ~Declares(d, tag, sig) /\ decl[d].super = NoClass
    <3>1. found[NoClass] = NoClass
      BY <1>8, Zenon DEF body
    <3>2. R[d] = {}
      BY <1>2, <2>2, <2>5
    <3>3. \A e \in Reach(R, d) : e = d
      BY <1>1, <2>2, <3>2, ReachStep
    <3> QED
      BY <2>1, <2>3, <2>5, <3>1, <3>3
  <2>6. CASE ~Declares(d, tag, sig) /\ decl[d].super # NoClass
    <3>1. R[d] = {decl[d].super} /\ decl[d].super \in Classes
      BY <1>2, <2>2, <2>6
    <3>2. right(decl[d].super)
      BY <2>1, <3>1
    <3>3. found[d] = found[decl[d].super]
      BY <2>3, <2>6
    <3>4. \A e \in Reach(R, d) : e = d \/ e \in Reach(R, decl[d].super)
      BY <1>1, <2>2, <3>1, ReachStep
    <3>5. \A e : Nearest(e, d, tag, sig) <=> Nearest(e, decl[d].super, tag, sig)
      BY <2>2, <2>6, NearestStep
    <3> QED
      BY <2>1, <2>6, <3>2, <3>3, <3>4, <3>5
  <2> QED
    BY <2>4, <2>5, <2>6
<1>10. right(k)
  BY <1>9
<1> QED
  BY <1>3, <1>10 DEF R

-----------------------------------------------------------------------------
(* Casts                                                                    *)

LEMMA UpInAll ==
    ASSUME program \in Programs, NEW d \in Classes
    PROVE  Reach(UpOf(decl), d) \subseteq Reach(AllOf(decl), d)
<1>1. \A x \in Classes : UpOf(decl)[x] \subseteq AllOf(decl)[x]
  BY AllStep, Zenon
<1>2. AllOf(decl) \in [Classes -> SUBSET Classes]
  BY HierarchyEnds
<1>3. /\ d \in Reach(AllOf(decl), d) /\ Closed(AllOf(decl), Reach(AllOf(decl), d))
      /\ Reach(AllOf(decl), d) \subseteq Classes
  BY <1>2, ReachClosed
<1>4. Closed(UpOf(decl), Reach(AllOf(decl), d))
  BY <1>1, <1>3 DEF Closed
<1> QED
  BY <1>3, <1>4, ReachLeast

LEMMA Proper ==
    ASSUME program \in Programs, ProperSupers, NEW c \in Classes
    PROVE  /\ \A d \in Classes : decl[c].super = NoClass /\ decl[d].super = NoClass => c = d
           /\ decl[c].super # NoClass => ~decl[decl[c].super].interface
           /\ decl[c].interface => /\ decl[c].super # NoClass
                                   /\ decl[decl[c].super].super = NoClass
           /\ \A d \in decl[c].intfs : d \in Classes /\ decl[d].interface
<1>1. decl[c].super # NoClass => decl[c].super \in Classes
  BY UpStep
<1>2. \A d \in decl[c].intfs : d \in Classes
  BY AllStep DEF Supers
<1>3. \A d \in Classes :
        /\ decl[c].super = NoClass /\ decl[d].super = NoClass => c = d
        /\ decl[c].super = d => ~decl[d].interface
        /\ decl[c].interface => decl[c].super # NoClass
        /\ decl[c].interface /\ decl[c].super = d => decl[d].super = NoClass
        /\ d \in decl[c].intfs => decl[d].interface
  BY Zenon DEF ProperSupers, decl
<1> QED
  BY <1>1, <1>2, <1>3

(* Every class is a subclass of the one that has no superclass.            *)
LEMMA RootAboveAll ==
    ASSUME program \in Programs, ProperSupers, NEW r \in Classes, decl[r].super = NoClass,
           NEW k \in Classes
    PROVE  r \in Reach(UpOf(decl), k)
<1> DEFINE R == UpOf(decl)
           wrong == {d \in Classes : r \notin Reach(R, d)}
<1>1. R \in [Classes -> SUBSET Classes] /\ Ends(R)
  BY HierarchyEnds
<1> SUFFICES ASSUME wrong # {} PROVE FALSE
  OBVIOUS
<1>2. PICK d \in wrong : R[d] \intersect wrong = {}
  <2>1. wrong \in SUBSET Classes
    OBVIOUS
  <2> HIDE DEF wrong, R
  <2> QED
    BY <1>1, <2>1 DEF Ends
<1>3. /\ R[d] = IF decl[d].super = NoClass THEN {} ELSE {decl[d].super}
      /\ decl[d].super # NoClass => decl[d].super \in Classes
  BY UpStep
<1> HIDE DEF R
<1>4. CASE decl[d].super = NoClass
  <2>1. d = r
    BY <1>4, Proper
  <2> QED
    BY <1>1, <1>2, <2>1, ReachClosed
<1>5. CASE decl[d].super # NoClass
  <2>1. decl[d].super \in R[d] /\ r \in Reach(R, decl[d].super)
    BY <1>2, <1>3, <1>5
  <2> QED
    BY <1>1, <1>2, <2>1, ReachStep
<1> QED
  BY <1>4, <1>5

LEMMA RootAlone ==
    ASSUME program \in Programs, ProperSupers, NEW r \in Classes, decl[r].super = NoClass
    PROVE  Reach(AllOf(decl), r) = {r}
<1>1. AllOf(decl) \in [Classes -> SUBSET Classes] /\ Ends(AllOf(decl))
  BY HierarchyEnds
<1>2. \A d \in Classes : AllOf(decl)[d] = ({decl[d].super} \ {NoClass}) \union decl[d].intfs
  BY Zenon DEF AllOf
<1>3. AllOf(decl)[r] = {}
  <2> SUFFICES ASSUME NEW i \in AllOf(decl)[r] PROVE FALSE
    OBVIOUS
  <2>1. i \in decl[r].intfs
    BY <1>2
  <2>2. i \in Classes /\ decl[i].interface
    BY <2>1, Proper
  <2>3. decl[i].super # NoClass /\ decl[decl[i].super].super = NoClass
    BY <2>2, Proper
  <2>4. decl[i].super \in Classes
    BY <2>2, <2>3, UpStep
  <2>5. decl[i].super = r
    BY <2>3, <2>4, Proper
  <2>6. r \in AllOf(decl)[i]
    BY <1>2, <2>2, <2>3, <2>5
  <2>7. \E c \in {i, r} : AllOf(decl)[c] \intersect {i, r} = {}
    BY <1>1, <2>2 DEF Ends
  <2> QED
    BY <2>6, <2>7
<1> QED
  BY <1>1, <1>3, ReachStep, ReachClosed

(* Above an interface there are interfaces, and java/lang/Object.          *)
LEMMA AboveInterfaces ==
    ASSUME program \in Programs, ProperSupers, NEW s \in Classes, decl[s].interface,
           NEW k \in Reach(AllOf(decl), s), ~decl[k].interface
    PROVE  decl[k].super = NoClass
<1> DEFINE R == AllOf(decl)
           wrong == {d \in Classes : decl[d].interface /\ k \in Reach(R, d)}
<1>1. R \in [Classes -> SUBSET Classes] /\ Ends(R)
  BY HierarchyEnds
<1> SUFFICES ASSUME decl[k].super # NoClass PROVE FALSE
  OBVIOUS
<1>2. PICK d \in wrong : R[d] \intersect wrong = {}
  <2>1. wrong \in SUBSET Classes /\ wrong # {}
    OBVIOUS
  <2> HIDE DEF wrong, R
  <2> QED
    BY <1>1, <2>1 DEF Ends
<1>3. R[d] = ({decl[d].super} \ {NoClass}) \union decl[d].intfs
  BY Zenon DEF AllOf
<1>4. PICK x \in R[d] : k \in Reach(R, x)
  <2>1. k # d
    BY <1>2
  <2> HIDE DEF R
  <2> QED
    BY <1>1, <1>2, <2>1, ReachStep
<1>5. x \in Classes
  BY <1>1, <1>2, <1>4
<1>6. x \notin decl[d].intfs
  <2>1. x \in decl[d].intfs => decl[x].interface
    BY <1>2, Proper
  <2> QED
    BY <1>2, <1>4, <1>5, <2>1
<1>7. x = decl[d].super
  BY <1>3, <1>4, <1>6
<1>8. decl[x].super = NoClass
  BY <1>2, <1>7, Proper
<1>9. k = x
  BY <1>4, <1>5, <1>8, RootAlone
<1> QED
  BY <1>8, <1>9

(* A class is a k if it is k, or a step of java_instanceof_class says so,   *)
(* given that those in some are.                                            *)
InstanceStep(d, k, some) ==
    \/ d = k
    \/ IF decl[k].interface
       THEN \E e \in Reach(UpOf(decl), d) : \E i \in decl[e].intfs : i \in some
       ELSE k \in Reach(UpOf(decl), d)

Below(k) == {d \in Classes : k \in Reach(AllOf(decl), d)}

(* Exactly the classes below k are stepped to from the classes below k.    *)
LEMMA BelowSteps ==
    ASSUME program \in Programs, ProperSupers, NEW k \in Classes, NEW d \in Classes
    PROVE  d \in Below(k) <=> InstanceStep(d, k, Below(k))
<1> DEFINE U == UpOf(decl)
           A == AllOf(decl)
<1>1. /\ U \in [Classes -> SUBSET Classes] /\ Ends(U)
      /\ A \in [Classes -> SUBSET Classes] /\ Ends(A)
  BY HierarchyEnds
<1>2. \A x \in Classes : A[x] = ({decl[x].super} \ {NoClass}) \union decl[x].intfs
  BY Zenon DEF AllOf
<1>3. \A x \in Classes : Reach(U, x) \subseteq Reach(A, x) /\ Reach(U, x) \subseteq Classes
  BY <1>1, UpInAll, ReachClosed
<1>4. ASSUME NEW x \in Classes, decl[x].super # NoClass
      PROVE  decl[x].super \in Classes /\ Reach(U, decl[x].super) \subseteq Reach(U, x)
  BY <1>1, <1>4, UpStep, ReachStep
<1> HIDE DEF U, A
<1>5. ASSUME NEW e \in Reach(U, d), NEW i \in decl[e].intfs, i \in Below(k)
      PROVE  d \in Below(k)
  <2>1. e \in Classes /\ e \in Reach(A, d) /\ i \in A[e]
    BY <1>2, <1>3
  <2>2. Reach(A, i) \subseteq Reach(A, e) /\ Reach(A, e) \subseteq Reach(A, d)
    BY <1>1, <2>1, ReachStep, ReachTransitive
  <2> QED
    BY <1>5, <2>2 DEF Below, A
<1>6. InstanceStep(d, k, Below(k)) => d \in Below(k)
  <2>1. d = k => d \in Below(k)
    BY <1>1, ReachClosed DEF Below, A
  <2>2. k \in Reach(U, d) => d \in Below(k)
    BY <1>3 DEF Below, A
  <2> QED
    BY <1>5, <2>1, <2>2 DEF InstanceStep, U
<1> DEFINE wrong == {x \in Classes : x \in Below(k) /\ ~InstanceStep(x, k, Below(k))}
<1>7. wrong = {}
  <2> SUFFICES ASSUME wrong # {} PROVE FALSE
    OBVIOUS
  <2>1. PICK x \in wrong : A[x] \intersect wrong = {}
    <3>1. wrong \in SUBSET Classes
      OBVIOUS
    <3> HIDE DEF wrong
    <3> QED
      BY <1>1, <3>1 DEF Ends
  <2>2. x \in Classes /\ k \in Reach(A, x) /\ ~InstanceStep(x, k, Below(k))
    <3>1. x \in Classes /\ x \in Below(k) /\ ~InstanceStep(x, k, Below(k))
      OBVIOUS
    <3> HIDE DEF wrong
    <3> QED
      BY <3>1 DEF Below, A
  <2>3. x # k /\ x \in Reach(U, x)
    BY <1>1, <2>2, ReachClosed DEF InstanceStep
  <2>4. PICK y \in A[x] : k \in Reach(A, y)
    BY <1>1, <2>2, <2>3, ReachStep
  <2>5. y \in Classes /\ y \in Below(k)
    <3>1. y \in Classes
      BY <1>1, <2>2, <2>4
    <3> HIDE DEF wrong
    <3> QED
      BY <2>4, <3>1 DEF Below, A
  <2>6. CASE y \in decl[x].intfs
    <3>1. CASE decl[k].interface
      BY <2>2, <2>3, <2>5, <2>6, <3>1 DEF InstanceStep, U
    <3>2. CASE ~decl[k].interface
      <4>1. decl[y].interface
        BY <2>2, <2>6, Proper
      <4>2. decl[k].super = NoClass
        BY <2>4, <2>5, <3>2, <4>1, AboveInterfaces DEF A
      <4>3. k \in Reach(U, x)
        BY <2>2, <4>2, RootAboveAll DEF U
      <4> QED
        BY <2>2, <3>2, <4>3 DEF InstanceStep, U
    <3> QED
      BY <3>1, <3>2
  <2>7. CASE y \notin decl[x].intfs
    <3>1. y = decl[x].super /\ decl[x].super # NoClass
      BY <1>2, <2>2, <2>4, <2>7
    <3>2. Reach(U, y) \subseteq Reach(U, x) /\ y \in Reach(U, y)
      BY <1>1, <1>4, <2>2, <2>5, <3>1, ReachClosed
    <3>3. InstanceStep(y, k, Below(k))
      BY <2>1, <2>4, <2>5
    <3>4. y # k \/ ~decl[k].interface
      BY <2>2, <3>1, Proper
    <3>5. InstanceStep(x, k, Below(k))
      <4>1. CASE decl[k].interface
        <5>1. \E e \in Reach(U, y) : \E i \in decl[e].intfs : i \in Below(k)
          BY <3>3, <3>4, <4>1 DEF InstanceStep, U
        <5> QED
          BY <3>2, <4>1, <5>1 DEF InstanceStep, U
      <4>2. CASE ~decl[k].interface
        <5>1. k \in Reach(U, y)
          BY <3>2, <3>3, <4>2 DEF InstanceStep, U
        <5> QED
          BY <3>2, <4>2, <5>1 DEF InstanceStep, U
      <4> QED
        BY <4>1, <4>2
    <3> QED
      BY <2>2, <3>5
  <2> QED
    BY <2>6, <2>7
<1>8. d \in Below(k) => InstanceStep(d, k, Below(k))
  BY <1>7
<1> QED
  BY <1>6, <1>8

(* The recursion of java_instanceof_class, over all interfaces of all      *)
(* superclasses, decides whether k is above c.                              *)
LEMMA InstanceOfBelow ==
    ASSUME program \in Programs, ProperSupers, NEW k \in Classes, NEW c \in Classes
    PROVE  InstanceOf(c, k) <=> c \in Below(k)
<1> DEFINE body(f) ==
             [d \in Classes |->
                \/ d = k
                \/ IF decl[k].interface
                   THEN \E e \in {e \in Classes : IsSubclass(e, d)} : \E i \in decl[e].intfs : f[i]
                   ELSE IsSubclass(k, d)]
           of == CHOOSE f : f = body(f)
           A  == AllOf(decl)
           step(f, d) ==
                \/ d = k
                \/ IF decl[k].interface
                   THEN \E e \in Reach(UpOf(decl), d) : \E i \in decl[e].intfs : f[i]
                   ELSE k \in Reach(UpOf(decl), d)
<1>1. A \in [Classes -> SUBSET Classes] /\ Ends(A)
  BY HierarchyEnds
<1>2. InstanceOf(c, k) = of[c]
  BY Zenon DEF InstanceOf
<1>3. ASSUME NEW e \in Classes
      PROVE  decl[e].intfs \subseteq A[e] /\ A[e] \subseteq Classes
  BY <1>1, AllStep DEF Supers
<1> HIDE DEF A
<1>4. \A d \in Classes : /\ {e \in Classes : IsSubclass(e, d)} = Reach(UpOf(decl), d)
                         /\ IsSubclass(k, d) <=> k \in Reach(UpOf(decl), d)
  <2> SUFFICES ASSUME NEW d \in Classes
               PROVE  /\ {e \in Classes : IsSubclass(e, d)} = Reach(UpOf(decl), d)
                      /\ IsSubclass(k, d) <=> k \in Reach(UpOf(decl), d)
    BY Zenon
  <2>1. \A e : IsSubclass(e, d) <=> e \in Reach(UpOf(decl), d)
    BY SubclassReaches, Zenon
  <2>2. Reach(UpOf(decl), d) \subseteq Classes
    BY DEF Reach
  <2> QED
    BY <2>1, <2>2
<1>5. ASSUME NEW f, NEW d \in Classes
      PROVE  body(f)[d] <=> step(f, d)
  <2>1. body(f)[d] <=>
                \/ d = k
                \/ IF decl[k].interface
                   THEN \E e \in {e \in Classes : IsSubclass(e, d)} : \E i \in decl[e].intfs : f[i]
                   ELSE IsSubclass(k, d)
    BY Zenon
  <2>2. {e \in Classes : IsSubclass(e, d)} = Reach(UpOf(decl), d)
    BY <1>4
  <2>3. (\E e \in {e \in Classes : IsSubclass(e, d)} : \E i \in decl[e].intfs : f[i])
          <=> \E e \in Reach(UpOf(decl), d) : \E i \in decl[e].intfs : f[i]
    BY <2>2, Zenon
  <2>4. IsSubclass(k, d) <=> k \in Reach(UpOf(decl), d)
    BY <1>4
  <2> HIDE DEF body
  <2> QED
    BY <2>1, <2>3, <2>4, Zenon
<1> DEFINE g == [d \in Classes |-> d \in Below(k)]
<1>6. \A d \in Classes : d \in Below(k) <=> step(g, d)
  <2> SUFFICES ASSUME NEW d \in Classes PROVE d \in Below(k) <=> step(g, d)
    BY Zenon
  <2>1. d \in Below(k) <=> InstanceStep(d, k, Below(k))
    BY BelowSteps
  <2>2. \A e \in Reach(UpOf(decl), d) : \A i \in decl[e].intfs : g[i] <=> i \in Below(k)
    <3> SUFFICES ASSUME NEW e \in Reach(UpOf(decl), d), NEW i \in decl[e].intfs
                 PROVE  g[i] <=> i \in Below(k)
      BY Zenon
    <3>1. e \in Classes
      BY DEF Reach
    <3>2. i \in Classes
      BY <1>3, <3>1
    <3> QED
      BY <3>2, Zenon
  <2> HIDE DEF g
  <2> QED
    BY <2>1, <2>2, Zenon DEF InstanceStep
<1>7. g = body(g)
  <2>1. \A d \in Classes : d \in Below(k) <=> body(g)[d]
    <3> HIDE DEF body, g, step
    <3> QED
      BY <1>5, <1>6, Zenon
  <2>2. g = [d \in Classes |-> d \in Below(k)]
    BY Zenon
  <2> HIDE DEF g
  <2> DEFINE b(d) == \/ d = k
                     \/ IF decl[k].interface
                        THEN \E e \in {e \in Classes : IsSubclass(e, d)} : \E i \in decl[e].intfs : g[i]
                        ELSE IsSubclass(k, d)
  <2>3. body(g) = [d \in Classes |-> b(d)] /\ \A d \in Classes : body(g)[d] <=> b(d)
    BY Zenon
  <2>6. \A d \in Classes : b(d) \in BOOLEAN
    BY Zenon
  <2> HIDE DEF body, b
  <2>4. \A d \in Classes : d \in Below(k) <=> b(d)
    BY <2>1, <2>3, Zenon
  <2>5. [d \in Classes |-> d \in Below(k)] = [d \in Classes |-> b(d)]
    BY <2>4, <2>6
  <2> QED
    BY <2>2, <2>3, <2>5, Zenon
<1> HIDE DEF g
<1>8. of = body(of)
  <2> HIDE DEF body
  <2> QED
    BY <1>7, Zenon DEF of
<1>9. \A d \in Classes : of[d] <=> step(of, d)
  <2> HIDE DEF of
  <2> HIDE DEF body
  <2>1. of = body(of)
    BY <1>8
  <2>2. \A d \in Classes : body(of)[d] <=> step(of, d)
    BY <1>5, Zenon
  <2>3. \A d \in Classes : of[d] = body(of)[d]
    BY <2>1, Zenon
  <2> QED
    BY <2>2, <2>3, Zenon
<1> HIDE DEF of, body, step
<1> DEFINE wrong == {d \in Classes : ~(of[d] <=> d \in Below(k))}
           bad   == {d \in Classes : \E x \in Reach(A, d) : x \in wrong}
<1>10. bad = {}
  <2> SUFFICES ASSUME bad # {} PROVE FALSE
    OBVIOUS
  <2>1. PICK d \in bad : A[d] \intersect bad = {}
    <3>1. bad \in SUBSET Classes
      OBVIOUS
    <3> HIDE DEF bad
    <3> QED
      BY <1>1, <3>1 DEF Ends
  <2>2. d \in Classes
    OBVIOUS
  <2>3. \A s \in A[d] : \A x \in Reach(A, s) : x \notin wrong
    <3>1. \A s \in A[d] : s \in Classes /\ s \notin bad
      BY <1>1, <2>1, <2>2
    <3> HIDE DEF wrong
    <3> QED
      BY <3>1, Zenon
  <2>4. PICK x \in Reach(A, d) : x \in wrong
    OBVIOUS
  <2>5. x = d
    <3> HIDE DEF wrong, bad
    <3> QED
      BY <1>1, <2>2, <2>3, <2>4, ReachStep
  <2>6. ASSUME NEW e \in Reach(UpOf(decl), d), NEW i \in decl[e].intfs
        PROVE  of[i] <=> i \in Below(k)
    <3>1. e \in Classes /\ e \in Reach(A, d)
      BY <2>2, UpInAll DEF Reach, A
    <3>2. i \in A[e] /\ i \in Classes
      BY <1>3, <3>1
    <3>3. i \in Reach(A, d) /\ i \in Reach(A, e)
      <4>1. i \in Reach(A, i) /\ Reach(A, i) \subseteq Reach(A, e)
        BY <1>1, <3>1, <3>2, ReachStep, ReachClosed
      <4> QED
        BY <1>1, <2>2, <3>1, <4>1, ReachTransitive
    <3>4. i # d
      <4> SUFFICES ASSUME i = d PROVE FALSE
        OBVIOUS
      <4>1. e = d
        BY <1>1, <2>2, <3>1, <3>3, ReachAntisymmetric
      <4>2. d \in A[d]
        BY <3>2, <4>1
      <4>3. A[d] \intersect {d} = {}
        BY <1>1, <2>2 DEF Ends
      <4> QED
        BY <4>2, <4>3
    <3>5. PICK s \in A[d] : i \in Reach(A, s)
      <4> HIDE DEF wrong, bad
      <4> QED
        BY <1>1, <2>2, <3>3, <3>4, ReachStep
    <3>6. i \notin wrong
      BY <2>3, <3>5
    <3> QED
      BY <3>2, <3>6
  <2>7. d \in Below(k) <=> InstanceStep(d, k, Below(k))
    BY <2>2, BelowSteps
  <2> HIDE DEF bad
  <2>8. of[d] <=> d \in Below(k)
    <3>1. of[d] <=> step(of, d)
      BY <1>9, <2>2, Zenon
    <3>2. step(of, d) <=> InstanceStep(d, k, Below(k))
      BY <2>6, Zenon DEF step, InstanceStep
    <3> QED
      BY <2>7, <3>1, <3>2, Zenon
  <2> QED
    BY <2>4, <2>5, <2>8
<1>11. c \notin wrong
  <2>1. c \in Reach(A, c)
    BY <1>1, ReachClosed
  <2> QED
    BY <1>10, <2>1
<1> QED
  BY <1>2, <1>11, Zenon

-----------------------------------------------------------------------------
(* References                                                               *)

(* A resolved member is the nearest declaration of what was referred to.   *)
RightValue(ref, k, value) ==
    value.sig = ref.sig /\ Nearest(value.class, k, ref.tag, ref.sig)

MembersRight(e) ==
    \A c \in Classes : \A i \in DOMAIN e[c] :
        pool[c][i].tag \in MemberTags =>
            RightValue(pool[c][i], pool[c][pool[c][i].class].name, e[c][i])

LEMMA StoreRight ==
    ASSUME NEW e, NEW c \in Classes, NEW i, NEW value, EntriesOK(e), MembersRight(e),
           pool[c][i].tag \in MemberTags =>
               RightValue(pool[c][i], pool[c][pool[c][i].class].name, value)
    PROVE  MembersRight(Store(e, c, i, value))
<1> DEFINE s == Store(e, c, i, value)
<1>1. /\ \A d \in Classes : d # c => s[d] = e[d]
      /\ DOMAIN s[c] = DOMAIN e[c] \union {i}
      /\ s[c][i] = value
      /\ \A j \in DOMAIN e[c] : j # i => s[c][j] = e[c][j]
  <2>1. PerClass(e)
    BY DEF EntriesOK
  <2> QED
    BY <2>1, StoreOne
<1> HIDE DEF s
<1>2. ASSUME NEW d \in Classes, NEW j \in DOMAIN s[d], pool[d][j].tag \in MemberTags
      PROVE  RightValue(pool[d][j], pool[d][pool[d][j].class].name, s[d][j])
  <2>1. CASE d # c
    <3>1. s[d] = e[d]
      BY <1>1, <2>1
    <3> QED
      BY <1>2, <3>1, Zenon DEF MembersRight
  <2>2. CASE d = c /\ j = i
    BY <1>1, <1>2, <2>2
  <2>3. CASE d = c /\ j # i
    <3>1. j \in DOMAIN e[d] /\ s[d][j] = e[d][j]
      BY <1>1, <2>3
    <3> QED
      BY <1>2, <3>1, Zenon DEF MembersRight
  <2> QED
    BY <2>1, <2>2, <2>3
<1>3. MembersRight(s)
  BY <1>2, Zenon DEF MembersRight
<1> QED
  BY <1>3 DEF s

LEMMA RightStays ==
    ASSUME program' = program, NEW CONSTANT ref, NEW CONSTANT k, NEW CONSTANT value,
           RightValue(ref, k, value)
    PROVE  RightValue(ref, k, value)'
<1>1. decl' = decl
  BY DEF decl
<1>2. \A e : Declares(e, ref.tag, ref.sig)' <=> Declares(e, ref.tag, ref.sig)
  BY <1>1 DEF Declares, Table
<1> QED
  BY <1>1, <1>2, Zenon DEF RightValue, Nearest

LEMMA RightStep ==
    ASSUME IInv, MembersRight(entry), [Next]_vars
    PROVE  MembersRight(entry)'
<1>1. program' = program
  BY DEF Next, vars, ResolveClass, ClassUnavailable, MemberResolved, MemberFails
<1>2. MembersRight(entry')
  <2>1. CASE entry' = entry
    BY <2>1
  <2>2. ASSUME NEW c \in Classes, NEW i \in DOMAIN pool[c], ResolveClass(c, i)
        PROVE  MembersRight(entry')
    <3>1. PICK now \in Loading(c, i) :
            entry' = IF ClassAt(c, i, now) = NoClass THEN entry
                     ELSE Store(entry, c, i, ClassAt(c, i, now))
      BY <2>2 DEF ResolveClass
    <3>2. pool[c][i].tag \notin MemberTags
      BY <2>2 DEF ResolveClass, Translating, MemberTags
    <3> QED
      BY <3>1, <3>2, StoreRight DEF IInv
  <2>3. ASSUME NEW c \in Classes, NEW i \in DOMAIN pool[c], MemberFails(c, i)
        PROVE  MembersRight(entry')
    <3>1. PICK now : entry' = Store(entry, c, pool[c][i].class, ClassAt(c, pool[c][i].class, now))
      BY <2>3, Zenon DEF MemberFails
    <3>2. pool[c][i].tag \in MemberTags
      BY <2>3 DEF MemberFails, Translating
    <3>3. pool[c][pool[c][i].class].tag \notin MemberTags
      BY <3>2, MemberHasClass DEF IInv, MemberTags
    <3> QED
      BY <3>1, <3>3, StoreRight DEF IInv
  <2>4. ASSUME NEW c \in Classes, NEW i \in DOMAIN pool[c], MemberResolved(c, i)
        PROVE  MembersRight(entry')
    <3> DEFINE ref == pool[c][i]
               K(now) == ClassAt(c, ref.class, now)
               d(now) == Lookup(K(now), ref.tag, ref.sig)
               first(now) == Store(entry, c, ref.class, K(now))
    <3>1. PICK now \in Loading(c, ref.class) :
            /\ K(now) # NoClass /\ d(now) # NoClass
            /\ entry' = Store(first(now), c, i, Member(d(now), ref.sig))
      BY <2>4, Zenon DEF MemberResolved, Linkable
    <3>2. ref.tag \in MemberTags
      BY <2>4 DEF MemberResolved, Translating
    <3>3. ref.class \in DOMAIN pool[c] /\ pool[c][ref.class].tag = "Class"
      BY <3>2, MemberHasClass DEF IInv
    <3>4. K(now) = pool[c][ref.class].name /\ K(now) \in Classes
      BY <3>1, <3>3, ClassAtNamed, LoadingGrows
    <3>5. EntriesOK(first(now))
      BY <3>1, <3>3, ClassOfMember
    <3>6. MembersRight(first(now))
      <4>1. pool[c][ref.class].tag \notin MemberTags
        BY <3>3 DEF MemberTags
      <4> QED
        BY <4>1, StoreRight DEF IInv
    <3>7. Nearest(d(now), K(now), ref.tag, ref.sig)
      BY <3>1, <3>4, LookupFinds DEF IInv
    <3>8. RightValue(ref, pool[c][ref.class].name, Member(d(now), ref.sig))
      <4> HIDE DEF ref, d, K
      <4>1. /\ Member(d(now), ref.sig).sig = ref.sig
            /\ Member(d(now), ref.sig).class = d(now)
        BY DEF Member
      <4> QED
        BY <3>4, <3>7, <4>1, Zenon DEF RightValue
    <3> HIDE DEF first, d, K
    <3> QED
      BY <3>1, <3>5, <3>6, <3>8, StoreRight
  <2>5. CASE UNCHANGED vars
    BY <2>1, <2>5 DEF vars
  <2>6. CASE Next
    <3>1. PICK c \in Classes :
            \E i \in DOMAIN pool[c] :
               \/ ResolveClass(c, i) \/ ClassUnavailable(c, i)
               \/ MemberResolved(c, i) \/ MemberFails(c, i)
      BY <2>6, Zenon DEF Next
    <3>2. PICK i \in DOMAIN pool[c] :
             \/ ResolveClass(c, i) \/ ClassUnavailable(c, i)
             \/ MemberResolved(c, i) \/ MemberFails(c, i)
      BY <3>1
    <3>3. ClassUnavailable(c, i) => entry' = entry
      BY DEF ClassUnavailable
    <3> QED
      BY <2>1, <2>2, <2>3, <2>4, <3>2, <3>3
  <2> QED
    BY <2>5, <2>6
<1>3. PICK q : q = entry'
  OBVIOUS
<1>4. pool' = pool /\ decl' = decl
  BY <1>1 DEF pool, decl
<1>5. ASSUME NEW c \in Classes, NEW i \in DOMAIN q[c], pool'[c][i].tag \in MemberTags
      PROVE  RightValue(pool[c][i], pool[c][pool[c][i].class].name, q[c][i])'
  <2>1. PICK ref : ref = pool[c][i]
    OBVIOUS
  <2>2. PICK k : k = pool[c][ref.class].name
    OBVIOUS
  <2>3. RightValue(ref, k, q[c][i])
    BY <1>2, <1>3, <1>4, <1>5, <2>1, <2>2, Zenon DEF MembersRight
  <2>4. RightValue(ref, k, q[c][i])'
    BY <1>1, <2>3, RightStays
  <2> QED
    BY <1>4, <2>1, <2>2, <2>4, Zenon
<1> QED
  BY <1>3, <1>5, Zenon DEF MembersRight

(* In every pool and after any loads, failures and resolutions in between, *)
(* a resolved member is the declaration Java takes: the nearest one above   *)
(* the class that the reference names.                                      *)
THEOREM ReferencesAreRight == Spec => []ReferencesRight
<1>1. Init => MembersRight(entry)
  BY DEF Init, MembersRight
<1>2. IInv /\ MembersRight(entry) => ReferencesRight
  <2> SUFFICES ASSUME IInv, MembersRight(entry), NEW c \in Classes, NEW i \in DOMAIN entry[c],
                      pool[c][i].tag \in MemberTags
               PROVE  LET ref == pool[c][i]
                          d   == entry[c][i].class
                          k   == pool[c][ref.class].name
                      IN  /\ entry[c][i].sig = ref.sig /\ ref.sig \in DOMAIN Table(d, ref.tag)
                          /\ d \in AllAbove(k) /\ IsSubclass(d, k)
                          /\ \A e \in Classes :
                               IsSubclass(e, k) /\ ref.sig \in DOMAIN Table(e, ref.tag)
                                 => IsSubclass(e, d)
    BY Zenon DEF ReferencesRight
  <2>1. PICK ref : ref = pool[c][i]
    OBVIOUS
  <2>2. PICK k : k = pool[c][ref.class].name
    OBVIOUS
  <2>3. PICK d : d = entry[c][i].class
    OBVIOUS
  <2>4. entry[c][i].sig = ref.sig /\ Nearest(d, k, ref.tag, ref.sig)
    BY <2>1, <2>2, <2>3, Zenon DEF MembersRight, RightValue
  <2>5. k \in Classes /\ program \in Programs
    <3>1. i \in DOMAIN pool[c]
      BY DEF IInv, EntriesOK
    <3>2. pool[c][ref.class].tag = "Class"
      BY <2>1, <3>1, MemberHasClass DEF IInv
    <3>3. ref.class \in DOMAIN entry[c]
      BY <2>1 DEF IInv, Backed
    <3>4. k \in loaded
      BY <2>2, <3>2, <3>3 DEF IInv, Backed
    <3> QED
      BY <3>4 DEF IInv
  <2>6. d \in Classes
    BY <2>4 DEF Nearest, Reach
  <2>7. \A s : IsSubclass(s, k) <=> s \in Reach(UpOf(decl), k)
    BY <2>5, SubclassReaches, Zenon
  <2>8. \A s : IsSubclass(s, d) <=> s \in Reach(UpOf(decl), d)
    BY <2>5, <2>6, SubclassReaches, Zenon
  <2>9. d \in AllAbove(k)
    BY <2>4, <2>5, UpInAll, AboveReaches DEF Nearest
  <2>10. /\ entry[c][i].sig = ref.sig /\ ref.sig \in DOMAIN Table(d, ref.tag)
         /\ d \in AllAbove(k) /\ IsSubclass(d, k)
         /\ \A e \in Classes :
              IsSubclass(e, k) /\ ref.sig \in DOMAIN Table(e, ref.tag) => IsSubclass(e, d)
    BY <2>4, <2>7, <2>8, <2>9, Zenon DEF Nearest, Declares
  <2> QED
    BY <2>1, <2>2, <2>3, <2>10, Zenon
<1> QED
  BY <1>1, <1>2, RightStep, Invariance, PTL DEF Spec

(* A cast or an instanceof succeeds exactly for the classes and interfaces *)
(* above the class of the object, in every hierarchy that load_class lets   *)
(* through and a compiler writes.                                           *)
THEOREM CastsAreRight ==
    ASSUME ProperSupers
    PROVE  Spec => []CastsFollowHierarchy
<1>1. IInv => CastsFollowHierarchy
  <2> SUFFICES ASSUME IInv, NEW c \in loaded, NEW k \in loaded
               PROVE  InstanceOf(c, k) <=> k \in AllAbove(c)
    BY Zenon DEF CastsFollowHierarchy
  <2>1. program \in Programs /\ c \in Classes /\ k \in Classes
    BY DEF IInv
  <2>2. InstanceOf(c, k) <=> c \in Below(k)
    BY <2>1, InstanceOfBelow
  <2>3. AllAbove(c) = Reach(AllOf(decl), c)
    BY <2>1, AboveReaches
  <2> QED
    BY <2>1, <2>2, <2>3, Zenon DEF Below
<1> QED
  BY <1>1, Invariance, PTL

-----------------------------------------------------------------------------
(* Legal references                                                         *)

(* Legal and not in need of the unnamed package, of a program rather than  *)
(* of a state.                                                              *)
LegalIn(p, c, i) ==
    LET h   == p.decl
        ref == p.pool[c][i]
        k   == p.pool[c][ref.class].name
        table(d) == IF ref.tag = "Field" THEN h[d].fields ELSE h[d].methods
    IN  /\ Reach(AllOf(h), k) \intersect p.faulty = {}
        /\ h[k].public \/ k = c \/ (h[k].package = h[c].package /\ h[c].package # Unnamed)
        /\ ref.tag # "Field" => h[k].interface = (ref.tag = "InterfaceMethod")
        /\ \E d \in Reach(UpOf(h), k) :
             /\ ref.sig \in DOMAIN table(d)
             /\ \A e \in Reach(UpOf(h), k) :
                  ref.sig \in DOMAIN table(e) => e \in Reach(UpOf(h), d)
             /\ \/ table(d)[ref.sig] \in {"public", "protected"}
                \/ table(d)[ref.sig] = "private" /\ d = c /\ k = c
                \/ table(d)[ref.sig] = "default"
                     /\ {h[d].package, h[k].package} = {h[c].package}
                     /\ (h[c].package # Unnamed \/ d = k)

LEMMA LegalIsLegal ==
    ASSUME program \in Programs, NEW c \in Classes, NEW i \in DOMAIN pool[c],
           pool[c][i].tag \in MemberTags, pool[c][pool[c][i].class].name \in Classes,
           Legal(c, i), ~NeedsUnnamed(c, i)
    PROVE  LegalIn(program, c, i)
<1>1. PICK ref : ref = pool[c][i]
  OBVIOUS
<1>2. PICK k : k = pool[c][ref.class].name
  OBVIOUS
<1> DEFINE has(e)  == IsSubclass(e, k) /\ ref.sig \in DOMAIN Table(e, ref.tag)
           near(d) == /\ IsSubclass(d, k) /\ ref.sig \in DOMAIN Table(d, ref.tag)
                      /\ \A e \in Classes :
                           IsSubclass(e, k) /\ ref.sig \in DOMAIN Table(e, ref.tag) => IsSubclass(e, d)
           d == Declaring(k, ref)
           access == Table(d, ref.tag)[ref.sig]
<1>3. /\ AllAbove(k) \intersect program.faulty = {}
      /\ decl[k].public \/ decl[k].package = decl[c].package
      /\ ref.tag # "Field" => decl[k].interface = (ref.tag = "InterfaceMethod")
      /\ \E e \in Classes : IsSubclass(e, k) /\ ref.sig \in DOMAIN Table(e, ref.tag)
      /\ \/ access \in {"public", "protected"}
         \/ access = "private" /\ d = c /\ k = c
         \/ access = "default" /\ {decl[d].package, decl[k].package} = {decl[c].package}
  BY <1>1, <1>2, Zenon DEF Legal
<1>13. /\ decl[k].public \/ k = c \/ (decl[k].package = decl[c].package /\ decl[c].package # Unnamed)
       /\ decl[c].package # Unnamed \/ access # "default" \/ d = k
  BY <1>1, <1>2, <1>3, Zenon DEF NeedsUnnamed
<1>4. k \in Classes
  BY <1>1, <1>2
<1>5. \A s : IsSubclass(s, k) <=> s \in Reach(UpOf(decl), k)
  BY <1>4, SubclassReaches, Zenon
<1>6. d \in Classes /\ near(d)
  <2>1. PICK e \in Classes : IsSubclass(e, k) /\ ref.sig \in DOMAIN Table(e, ref.tag)
    BY <1>3, Zenon
  <2>2. Nearest(Lookup(k, ref.tag, ref.sig), k, ref.tag, ref.sig)
    BY <1>4, <1>5, <2>1, LookupFinds DEF Declares
  <2>3. PICK f : Nearest(f, k, ref.tag, ref.sig)
    BY <2>2
  <2>4. f \in Classes
    BY <2>3 DEF Nearest, Reach
  <2>5. \A s : IsSubclass(s, f) <=> s \in Reach(UpOf(decl), f)
    BY <2>4, SubclassReaches, Zenon
  <2>6. near(f)
    BY <1>5, <2>3, <2>5, Zenon DEF Nearest, Declares
  <2>7. d = CHOOSE g \in Classes : near(g)
    BY Zenon DEF Declaring
  <2> HIDE DEF near, d
  <2> QED
    BY <2>4, <2>6, <2>7, Zenon
<1>7. PICK f : f = d
  OBVIOUS
<1>8. \A s : IsSubclass(s, f) <=> s \in Reach(UpOf(decl), f)
  BY <1>6, <1>7, SubclassReaches, Zenon
<1>9. near(f) /\ f \in Classes
  BY <1>6, <1>7, Zenon
<1>10. /\ f \in Reach(UpOf(decl), k) /\ ref.sig \in DOMAIN Table(f, ref.tag)
       /\ \A e \in Reach(UpOf(decl), k) :
            ref.sig \in DOMAIN Table(e, ref.tag) => e \in Reach(UpOf(decl), f)
  <2>1. Reach(UpOf(decl), k) \subseteq Classes
    BY DEF Reach
  <2>2. \A e \in Reach(UpOf(decl), k) : e \in Classes
    BY <2>1
  <2> QED
    BY <1>5, <1>8, <1>9, <2>2, Zenon
<1>11. \/ Table(f, ref.tag)[ref.sig] \in {"public", "protected"}
       \/ Table(f, ref.tag)[ref.sig] = "private" /\ f = c /\ k = c
       \/ Table(f, ref.tag)[ref.sig] = "default"
            /\ {decl[f].package, decl[k].package} = {decl[c].package}
            /\ (decl[c].package # Unnamed \/ f = k)
  BY <1>3, <1>7, <1>13, Zenon
<1>12. Reach(AllOf(decl), k) \intersect program.faulty = {}
  BY <1>3, <1>4, AboveReaches, Zenon
<1> HIDE DEF near, d
<1> QED
  BY <1>1, <1>2, <1>3, <1>10, <1>11, <1>12, <1>13, Zenon DEF LegalIn, Table, decl, pool

(* A legal reference is resolved: its class is loaded and accessible, and  *)
(* the lookup ends at a member that class_resolve_method takes.            *)
LEMMA LegalLinks ==
    ASSUME IInv, NEW c \in Classes, NEW i \in DOMAIN pool[c], pool[c][i].tag \in MemberTags,
           NEW now \in Loading(c, pool[c][i].class), LegalIn(program, c, i)
    PROVE  LET ref == pool[c][i]
               k   == ClassAt(c, ref.class, now)
           IN  k # NoClass /\ Linkable(k, Lookup(k, ref.tag, ref.sig), ref)
<1>1. PICK ref : ref = pool[c][i]
  OBVIOUS
<1>2. ref.class \in DOMAIN pool[c] /\ pool[c][ref.class].tag = "Class"
  BY <1>1, MemberHasClass DEF IInv
<1>3. PICK k : k = pool[c][ref.class].name
  OBVIOUS
<1>4. k \in Classes
  <2>1. program.pool \in [Classes -> Seq(Entries)]
    BY ProgramsAssumption DEF IInv
  <2>2. pool[c] \in Seq(Entries)
    BY <2>1 DEF pool
  <2>3. pool[c][ref.class] \in Entries
    BY <1>2, <2>2
  <2> QED
    BY <1>2, <1>3, <2>3 DEF Entries, MemberTags
<1>5. /\ Reach(AllOf(decl), k) \intersect program.faulty = {}
      /\ decl[k].public \/ k = c \/ (decl[k].package = decl[c].package /\ decl[c].package # Unnamed)
      /\ ref.tag # "Field" => decl[k].interface = (ref.tag = "InterfaceMethod")
      /\ \E d : /\ Nearest(d, k, ref.tag, ref.sig)
                /\ \/ Table(d, ref.tag)[ref.sig] \in {"public", "protected"}
                   \/ Table(d, ref.tag)[ref.sig] = "private" /\ d = c /\ k = c
                   \/ Table(d, ref.tag)[ref.sig] = "default"
                        /\ {decl[d].package, decl[k].package} = {decl[c].package}
                        /\ (decl[c].package # Unnamed \/ d = k)
  BY <1>1, <1>3, Zenon DEF LegalIn, Nearest, Declares, Table, decl, pool
<1>6. ClassAt(c, ref.class, now) = k
  <2>1. CASE Resolved(c, ref.class)
    BY <1>2, <1>3, <2>1 DEF ClassAt, Resolved, IInv, Backed
  <2>2. CASE ~Resolved(c, ref.class)
    <3>1. now \in LoadedThen(k)
      BY <1>1, <1>3, <2>2 DEF Loading
    <3>2. k \in now
      BY <1>4, <1>5, <3>1, AboveReaches DEF LoadedThen, IInv
    <3>3. ClassAccessible(c, k)
      BY <1>5 DEF ClassAccessible, Package
    <3> QED
      BY <1>3, <2>2, <3>2, <3>3 DEF ClassAt
  <2> QED
    BY <2>1, <2>2
<1>7. k # NoClass
  BY <1>4, ClassesAssumption
<1>8. PICK d : /\ Nearest(d, k, ref.tag, ref.sig)
               /\ \/ Table(d, ref.tag)[ref.sig] \in {"public", "protected"}
                  \/ Table(d, ref.tag)[ref.sig] = "private" /\ d = c /\ k = c
                  \/ Table(d, ref.tag)[ref.sig] = "default"
                       /\ {decl[d].package, decl[k].package} = {decl[c].package}
                       /\ (decl[c].package # Unnamed \/ d = k)
  BY <1>5
<1>9. Lookup(k, ref.tag, ref.sig) = d
  <2>1. Lookup(k, ref.tag, ref.sig) # NoClass
    BY <1>4, <1>8, LookupFinds DEF IInv, Nearest
  <2>2. Nearest(Lookup(k, ref.tag, ref.sig), k, ref.tag, ref.sig)
    BY <1>4, <2>1, LookupFinds DEF IInv
  <2> QED
    BY <1>4, <1>8, <2>2, NearestUnique DEF IInv
<1>10. d # NoClass
  BY <1>8, ClassesAssumption DEF Nearest, Reach
<1>11. Fits(ref.tag, k)
  BY <1>1, <1>5 DEF Fits, MemberTags
<1>12. MemberAccessible(k, d, ref.tag, ref.sig)
  <2>1. IsSubclass(d, k)
    BY <1>4, <1>8, SubclassReaches DEF IInv, Nearest
  <2>2. PICK access : access = Table(d, ref.tag)[ref.sig]
    OBVIOUS
  <2>3. \/ access = "public" \/ d = k \/ access = "protected"
        \/ access = "default" /\ Package(d) = Package(k)
    BY <1>8, <2>2 DEF Package
  <2> QED
    BY <2>1, <2>2, <2>3, Zenon DEF MemberAccessible
<1> QED
  BY <1>1, <1>6, <1>7, <1>9, <1>10, <1>11, <1>12, Zenon DEF Linkable

(* Whatever was loaded, resolved or refused before, in every program: the  *)
(* reference whose resolution ends the VM is not legal Java, or names what  *)
(* only classes of the unnamed package may.                                 *)
THEOREM LegalReferencesDoLink == Spec => LegalReferencesLink
<1>1. IInv /\ [Next]_vars =>
        [\A c \in loaded : \A i \in DOMAIN pool[c] :
           pool[c][i].tag \in MemberTags /\ Legal(c, i) /\ ~NeedsUnnamed(c, i) =>
               ~ClassUnavailable(c, i) /\ ~MemberFails(c, i)]_vars
  <2> SUFFICES ASSUME IInv, NEW c \in loaded, NEW i \in DOMAIN pool[c],
                      pool[c][i].tag \in MemberTags, Legal(c, i), ~NeedsUnnamed(c, i)
               PROVE  ~ClassUnavailable(c, i) /\ ~MemberFails(c, i)
    BY Zenon
  <2>1. c \in Classes
    BY DEF IInv
  <2>2. pool[c][pool[c][i].class].name \in Classes
    <3>1. pool[c][i].class \in DOMAIN pool[c] /\ pool[c][pool[c][i].class].tag = "Class"
      BY <2>1, MemberHasClass DEF IInv
    <3>2. program.pool \in [Classes -> Seq(Entries)]
      BY ProgramsAssumption DEF IInv
    <3>3. pool[c] \in Seq(Entries)
      BY <2>1, <3>2 DEF pool
    <3>4. pool[c][pool[c][i].class] \in Entries
      BY <3>1, <3>3
    <3> QED
      BY <3>1, <3>4 DEF Entries, MemberTags
  <2>3. LegalIn(program, c, i)
    BY <2>1, <2>2, LegalIsLegal DEF IInv
  <2>4. ~ClassUnavailable(c, i)
    <3>1. SUFFICES ASSUME ClassUnavailable(c, i) PROVE FALSE
      OBVIOUS
    <3>2. PICK now \in Loading(c, pool[c][i].class) :
             ClassAt(c, pool[c][i].class, now) = NoClass
      BY <3>1, Zenon DEF ClassUnavailable
    <3> QED
      BY <2>1, <2>3, <3>2, LegalLinks
  <2>5. ~MemberFails(c, i)
    <3>1. SUFFICES ASSUME MemberFails(c, i) PROVE FALSE
      OBVIOUS
    <3>2. PICK now \in Loading(c, pool[c][i].class) :
             ~Linkable(ClassAt(c, pool[c][i].class, now),
                       Lookup(ClassAt(c, pool[c][i].class, now), pool[c][i].tag, pool[c][i].sig),
                       pool[c][i])
      BY <3>1, Zenon DEF MemberFails
    <3> QED
      BY <2>1, <2>3, <3>2, LegalLinks, Zenon
  <2> QED
    BY <2>4, <2>5
<1> QED
  BY <1>1, Invariance, PTL DEF Spec, LegalReferencesLink

=============================================================================
