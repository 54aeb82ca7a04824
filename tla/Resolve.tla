------------------------------ MODULE Resolve ------------------------------
(***************************************************************************)
(* Resolution of the constant pools while methods are translated.  An      *)
(* entry holds names until it is first needed; then it is replaced by the  *)
(* class, field or method they name, and all code that uses the entry is   *)
(* compiled against that.  Resolving a member resolves the entry of its    *)
(* class, which loads the class and everything above it; a step can fail   *)
(* after an earlier one has left its result behind.  Translations nest, so *)
(* the entries of all loaded classes are resolved in any order.             *)
(***************************************************************************)
EXTENDS Naturals, Sequences

CONSTANTS
    Classes,
    NoClass,        \* the super_class of java/lang/Object, a class not found
    Sigs,           \* names and descriptors of members
    Packages,
    Unnamed,        \* the package of the classes without a '/' in their names
    Start,          \* the classes loaded before the first translation
    Programs        \* declarations, constant pools, and unreliable files

Accesses   == {"public", "protected", "default", "private"}
MemberTags == {"Field", "Method", "InterfaceMethod"}
Tables     == UNION {[some -> Accesses] : some \in SUBSET Sigs}

ClassDecl == [super : Classes \union {NoClass}, intfs : SUBSET Classes,
              interface : BOOLEAN, public : BOOLEAN, package : Packages,
              fields : Tables, methods : Tables]

(* An entry of tag Class names a class; one of a member has the index of   *)
(* such an entry, and a signature.                                          *)
Entries == [tag : {"Class"}, name : Classes]
             \union [tag : MemberTags, class : Nat, sig : Sigs]

ASSUME PackagesAssumption == Unnamed \in Packages
ASSUME ClassesAssumption == NoClass \notin Classes /\ Start \subseteq Classes

ASSUME ProgramsAssumption ==
    \A p \in Programs :
        /\ p.decl \in [Classes -> ClassDecl]
        /\ p.pool \in [Classes -> Seq(Entries)]
        /\ p.faulty \subseteq Classes
        /\ \A c \in Classes : \A i \in DOMAIN p.pool[c] :
             LET e == p.pool[c][i] IN
             e.tag \in MemberTags => /\ e.class \in DOMAIN p.pool[c]
                                     /\ p.pool[c][e.class].tag = "Class"
        /\ \A c \in Start : ({p.decl[c].super} \ {NoClass}) \union p.decl[c].intfs \subseteq Start

(* Some class of every set has no super in it: no hierarchy is endless.    *)
WellFounded(h) ==
    \A some \in SUBSET Classes : some # {} =>
        \E c \in some : (({h[c].super} \ {NoClass}) \union h[c].intfs) \intersect some = {}

(* The load of a class with an endless hierarchy never returns, so nothing *)
(* is resolved against it.                                                  *)
ASSUME HierarchiesAssumption == \A p \in Programs : WellFounded(p.decl)

(* What load_class_supers makes sure of, that only java/lang/Object has no *)
(* superclass and that no superclass is an interface; and what it leaves to *)
(* the compiler: the superclass of an interface is java/lang/Object, and    *)
(* only interfaces are implemented.                                         *)
ProperSupers ==
    \A p \in Programs : \A c, d \in Classes :
        LET h == p.decl IN
        /\ h[c].super = NoClass /\ h[d].super = NoClass => c = d
        /\ h[c].super = d => ~h[d].interface
        /\ h[c].interface => h[c].super # NoClass
        /\ h[c].interface /\ h[c].super = d => h[d].super = NoClass
        /\ d \in h[c].intfs => h[d].interface

VARIABLES
    program,        \* fixed
    loaded,         \* the classes in the class table
    entry,          \* what the resolved entries of each pool hold
    crashed         \* "null": NULL was dereferenced, "overflow": the stack is full

vars == <<program, loaded, entry, crashed>>

decl == program.decl
pool == program.pool

Supers(d) == ({decl[d].super} \ {NoClass}) \union decl[d].intfs

Member(d, sig) == [class |-> d, sig |-> sig]

Resolved(c, i) == i \in DOMAIN entry[c]

(* value[index] and the mark RESOLVED_MASK in its tag. *)
Store(e, c, i, value) ==
    [e EXCEPT ![c] = [j \in DOMAIN e[c] \union {i} |-> IF j = i THEN value ELSE e[c][j]]]

-----------------------------------------------------------------------------
(* class_utils                                                              *)

Table(d, tag) == IF tag = "Field" THEN decl[d].fields ELSE decl[d].methods

(* Mutation: the loop goes on to the topmost declaration. *)
LookupTopmost(k, tag, sig) ==
    LET found[d \in Classes \union {NoClass}] ==
          IF d = NoClass THEN NoClass
          ELSE IF found[decl[d].super] = NoClass /\ sig \in DOMAIN Table(d, tag) THEN d
          ELSE found[decl[d].super]
    IN  found[k]

(* class_lookup_field_recursive, class_lookup_method_recursive: the loop   *)
(* over the superclasses.                                                   *)
Lookup(k, tag, sig) ==
    LET found[d \in Classes \union {NoClass}] ==
          IF d = NoClass \/ sig \in DOMAIN Table(d, tag) THEN d
          ELSE found[decl[d].super]
    IN  found[k]

(* The loop over the interfaces passes the class itself on, not the        *)
(* interface: with an interface to look at, the recursion has no end.       *)
Recurs(k, tag, sig) == Lookup(k, tag, sig) = NoClass /\ decl[k].intfs # {}

IsSubclass(super, sub) ==
    LET up[d \in Classes] == d = super \/ (decl[d].super # NoClass /\ up[decl[d].super])
    IN  up[sub]

(* Mutation: the interfaces of the superclasses are not searched. *)
InstanceOfOwn(c, k) ==
    LET of[d \in Classes] ==
          \/ d = k
          \/ IF decl[k].interface THEN \E i \in decl[d].intfs : of[i] ELSE IsSubclass(k, d)
    IN  of[c]

(* java_instanceof_class for classes that are not arrays. *)
InstanceOf(c, k) ==
    LET of[d \in Classes] ==
          \/ d = k
          \/ IF decl[k].interface
             THEN \E e \in {e \in Classes : IsSubclass(e, d)} : \E i \in decl[e].intfs : of[i]
             ELSE IsSubclass(k, d)
    IN  of[c]

-----------------------------------------------------------------------------
(* vm_interface                                                             *)

(* load_class: the class and all above it are loaded, or some of those     *)
(* above are and it is not.                                                 *)
AllAbove(k) ==
    LET all[d \in Classes] == {d} \union UNION {all[e] : e \in Supers(d)} IN all[k]

LoadedThen(k) ==
    {now \in SUBSET Classes :
        /\ loaded \subseteq now /\ now \subseteq loaded \union AllAbove(k)
        /\ \A d \in now : Supers(d) \subseteq now
        /\ k \notin now => AllAbove(k) \intersect program.faulty # {}}

(* class_create_package_name: the name up to the last '/', which is all of *)
(* it where there is none, so each class without a package is in one of its *)
(* own.                                                                     *)
Package(c) == IF decl[c].package = Unnamed THEN c ELSE decl[c].package

ClassAccessible(c, k) ==
    decl[k].public \/ k = c \/ Package(k) = Package(c)

(* class_resolve_class: what it finds at entry i and leaves loaded.  The   *)
(* class of an entry that is not resolved is loaded whether the entry can   *)
(* be resolved or not.                                                      *)
ClassAt(c, i, now) ==
    IF Resolved(c, i) THEN entry[c][i]
    ELSE IF pool[c][i].name \in now /\ ClassAccessible(c, pool[c][i].name)
    THEN pool[c][i].name ELSE NoClass

Loading(c, i) == IF Resolved(c, i) THEN {loaded} ELSE LoadedThen(pool[c][i].name)

(* Mutation: a reference of a method may name an interface, and no other. *)
FitsSwapped(tag, k) == tag = "Field" \/ decl[k].interface

Fits(tag, k) ==
    CASE tag = "Method"          -> ~decl[k].interface
      [] tag = "InterfaceMethod" -> decl[k].interface
      [] OTHER -> TRUE

(* The access that is checked is that of the class the reference names to  *)
(* the class that declares the member; who makes the reference is ignored.  *)
MemberAccessible(k, d, tag, sig) ==
    LET access == Table(d, tag)[sig] IN
    \/ access = "public" \/ d = k
    \/ access = "protected" /\ (Package(d) = Package(k) \/ IsSubclass(d, k))
    \/ access = "default" /\ Package(d) = Package(k)

(* One entry of the pool of a loaded class. *)
Translating(c, i, tags) ==
    /\ crashed = "no" /\ c \in loaded
    /\ i \in DOMAIN pool[c] /\ pool[c][i].tag \in tags

Linkable(k, d, ref) ==
    Fits(ref.tag, k) /\ d # NoClass /\ MemberAccessible(k, d, ref.tag, ref.sig)

(* new and checkcast: if there is no class, NULL is compiled into the code *)
(* and the entry stays a name, for the next translation to try again.       *)
ResolveClass(c, i) ==
    /\ Translating(c, i, {"Class"})
    /\ \E now \in Loading(c, i) :
         /\ loaded' = now
         /\ entry' = IF ClassAt(c, i, now) = NoClass THEN entry
                     ELSE Store(entry, c, i, ClassAt(c, i, now))
    /\ UNCHANGED <<program, crashed>>

(* Field accesses and calls.  The code generator goes on with the owner of *)
(* the member without looking whether there is one.                         *)
ClassUnavailable(c, i) ==
    /\ Translating(c, i, MemberTags) /\ ~Resolved(c, i)
    /\ \E now \in Loading(c, pool[c][i].class) :
         /\ ClassAt(c, pool[c][i].class, now) = NoClass
         /\ loaded' = now
    /\ crashed' = "null"
    /\ UNCHANGED <<program, entry>>

(* class_resolve_field, class_resolve_method. *)
MemberResolved(c, i) ==
    /\ Translating(c, i, MemberTags) /\ ~Resolved(c, i)
    /\ \E now \in Loading(c, pool[c][i].class) :
         LET ref == pool[c][i]
             k   == ClassAt(c, ref.class, now)
             d   == Lookup(k, ref.tag, ref.sig)
         IN  /\ k # NoClass /\ Linkable(k, d, ref)
             /\ loaded' = now
             /\ entry' = Store(Store(entry, c, ref.class, k), c, i, Member(d, ref.sig))
    /\ UNCHANGED <<program, crashed>>

(* Mutation: the failure takes the class's entry back, too. *)
MemberFailsUndone(c, i) ==
    /\ Translating(c, i, MemberTags) /\ ~Resolved(c, i)
    /\ \E now \in Loading(c, pool[c][i].class) :
         LET ref == pool[c][i]
             k   == ClassAt(c, ref.class, now)
             d   == Lookup(k, ref.tag, ref.sig)
         IN  /\ k # NoClass /\ ~Linkable(k, d, ref)
             /\ loaded' = now
             /\ entry' = [entry EXCEPT ![c] = [j \in DOMAIN @ \ {ref.class} |-> @[j]]]
             /\ crashed' = "null"
    /\ UNCHANGED program

(* NoSuchFieldError, NoSuchMethodError, IllegalAccessError, or no answer:  *)
(* the class's entry is resolved, the member's is not.                      *)
MemberFails(c, i) ==
    /\ Translating(c, i, MemberTags) /\ ~Resolved(c, i)
    /\ \E now \in Loading(c, pool[c][i].class) :
         LET ref == pool[c][i]
             k   == ClassAt(c, ref.class, now)
             d   == Lookup(k, ref.tag, ref.sig)
         IN  /\ k # NoClass /\ ~Linkable(k, d, ref)
             /\ loaded' = now
             /\ entry' = Store(entry, c, ref.class, k)
             /\ crashed' = IF Fits(ref.tag, k) /\ Recurs(k, ref.tag, ref.sig)
                           THEN "overflow" ELSE "null"
    /\ UNCHANGED program

Init ==
    /\ program \in Programs
    /\ loaded = Start
    /\ entry = [c \in Classes |-> <<>>]
    /\ crashed = "no"

Next == \E c \in Classes : \E i \in DOMAIN pool[c] :
            \/ ResolveClass(c, i) \/ ClassUnavailable(c, i)
            \/ MemberResolved(c, i) \/ MemberFails(c, i)

Spec == Init /\ [][Next]_vars

-----------------------------------------------------------------------------
(* Properties                                                               *)

TypeOK ==
    /\ loaded \subseteq Classes
    /\ \A c \in Classes : DOMAIN entry[c] \subseteq DOMAIN pool[c]
    /\ crashed \in {"no", "null", "overflow"}

(* Code is compiled against the classes and offsets of the entries, so     *)
(* these must be there: the class of a resolved member is resolved in the  *)
(* same pool, and a resolved class is the one named, and loaded.            *)
EntriesBacked ==
    \A c \in Classes : \A i \in DOMAIN entry[c] :
        /\ pool[c][i].tag \in MemberTags => pool[c][i].class \in DOMAIN entry[c]
        /\ pool[c][i].tag = "Class" =>
             entry[c][i] = pool[c][i].name /\ entry[c][i] \in loaded

(* A resolved member is the one the class named by the reference has in    *)
(* Java: declared by the nearest of its superclasses that declares one, in  *)
(* every pool and whatever was loaded or resolved in between.               *)
ReferencesRight ==
    \A c \in Classes : \A i \in DOMAIN entry[c] :
        LET ref == pool[c][i]
            d   == entry[c][i].class
            k   == pool[c][ref.class].name
        IN  ref.tag \in MemberTags =>
              /\ entry[c][i].sig = ref.sig /\ ref.sig \in DOMAIN Table(d, ref.tag)
              /\ d \in AllAbove(k) /\ IsSubclass(d, k)
              /\ \A e \in Classes :
                   IsSubclass(e, k) /\ ref.sig \in DOMAIN Table(e, ref.tag) => IsSubclass(e, d)

(* Code that was compiled against an entry and code compiled later agree.  *)
EntriesStable ==
    [][\A c \in Classes : \A i \in DOMAIN entry[c] :
         i \in DOMAIN entry'[c] /\ entry'[c][i] = entry[c][i]]_vars

(* The member a reference names in Java, and its access.                   *)
Declaring(k, ref) ==
    CHOOSE d \in Classes :
        /\ IsSubclass(d, k) /\ ref.sig \in DOMAIN Table(d, ref.tag)
        /\ \A e \in Classes :
             IsSubclass(e, k) /\ ref.sig \in DOMAIN Table(e, ref.tag) => IsSubclass(e, d)

(* A reference the Java language allows, to a member that is not inherited *)
(* from an interface, and whose class can be loaded.                        *)
Legal(c, i) ==
    LET ref == pool[c][i]
        k   == pool[c][ref.class].name
        d   == Declaring(k, ref)
        access == Table(d, ref.tag)[ref.sig]
    IN  /\ AllAbove(k) \intersect program.faulty = {}
        /\ decl[k].public \/ decl[k].package = decl[c].package
        /\ ref.tag # "Field" => decl[k].interface = (ref.tag = "InterfaceMethod")
        /\ \E e \in Classes : IsSubclass(e, k) /\ ref.sig \in DOMAIN Table(e, ref.tag)
        /\ \/ access \in {"public", "protected"}
           \/ access = "private" /\ d = c /\ k = c
           \/ access = "default" /\ {decl[d].package, decl[k].package} = {decl[c].package}

(* One that is legal only because classes without a package are in one     *)
(* package together, which Package denies: a class that is not public, or a *)
(* member that is package-private and inherited.                            *)
NeedsUnnamed(c, i) ==
    LET ref == pool[c][i]
        k   == pool[c][ref.class].name
        d   == Declaring(k, ref)
    IN  /\ decl[c].package = Unnamed
        /\ \/ ~decl[k].public /\ k # c
           \/ Table(d, ref.tag)[ref.sig] = "default" /\ d # k

(* A resolution that fails ends the VM.  The reference that fails is never *)
(* a legal one, whatever was loaded, resolved or refused before, except     *)
(* those that need the unnamed package.                                     *)
LegalReferencesLink ==
    [][\A c \in loaded : \A i \in DOMAIN pool[c] :
         pool[c][i].tag \in MemberTags /\ Legal(c, i) /\ ~NeedsUnnamed(c, i) =>
             ~ClassUnavailable(c, i) /\ ~MemberFails(c, i)]_vars

(* A cast succeeds exactly for the classes and interfaces above a class,   *)
(* those its superclasses implement and interfaces extend included.         *)
CastsFollowHierarchy ==
    \A c, k \in loaded : InstanceOf(c, k) <=> k \in AllAbove(c)

=============================================================================
