------------------------------ MODULE MCResolve ------------------------------
(* Instances of Resolve for TLC: interfaces K and L, a class A, its         *)
(* subclass B, which implements L and lives in another package, and a class *)
(* M whose methods are translated first.  B is a K through L, or through A. *)
EXTENDS Resolve

Class(super, package) ==
    [super |-> super, intfs |-> {}, interface |-> FALSE, public |-> TRUE,
     package |-> package, fields |-> <<>>, methods |-> <<>>]
Interface(intfs, methods) ==
    [Class("Object", "q") EXCEPT !.interface = TRUE, !.intfs = intfs, !.methods = methods]

(* A and M are in the package home, B in another one.  A declares the field *)
(* x with some access, B may hide x and override m.                         *)
Decl(home, away, access, publicA, own) ==
    [c \in Classes |->
        CASE c = "Object" -> [Class(NoClass, "q") EXCEPT !.methods = [hash |-> "public"]]
          [] c = "K" -> Interface({}, [k |-> "public"])
          [] c = "L" -> Interface(IF own = {} THEN {"K"} ELSE {}, [l |-> "public"])
          [] c = "A" -> [Class("Object", home) EXCEPT !.public = publicA,
                           !.intfs = IF own = {} THEN {} ELSE {"K"},
                           !.fields = [x |-> access], !.methods = [m |-> "default"]]
          [] c = "B" -> [Class("A", away) EXCEPT !.intfs = {"L"},
                           !.fields = [n \in own |-> "public"],
                           !.methods = [n \in {"l"} \union own |-> "public"]]
          [] c = "M" -> [Class("Object", home) EXCEPT !.public = FALSE,
                           !.methods = [m |-> "private"]]]

ClassRef(c) == [tag |-> "Class", name |-> c]
Ref(tag, class, sig) == [tag |-> tag, class |-> class, sig |-> sig]

(* M refers to all others, B to M, which it may not, and to A. *)
Pool(some) ==
    [c \in Classes |->
        CASE c = "M" -> <<ClassRef("A"), ClassRef("B"), ClassRef("L"), ClassRef("M")>> \o some
          [] c = "B" -> <<ClassRef("M"), ClassRef("A"), Ref("Field", 2, "x")>>
          [] OTHER -> <<>>]

Inherited  == Ref("InterfaceMethod", 3, "l")
Interfaces == {Ref("InterfaceMethod", 3, "k"), Ref("InterfaceMethod", 3, "hash"),
               Ref("InterfaceMethod", 1, "m"), Ref("Method", 3, "l"),
               Ref("Method", 2, "k"), Ref("Method", 1, "k")}

Some(refs) == {<<Ref("Field", 2, "x"), Ref("Method", i, "m"), r>> : i \in {1, 2, 4}, r \in refs}

(* Every access, with the unnamed package too, then every kind of reference *)
(* of a method.                                                             *)
MCPrograms ==
    {[decl |-> Decl(home, "q", access, a, own), pool |-> Pool(some), faulty |-> {}] :
        home \in {"p", Unnamed}, access \in Accesses, a \in BOOLEAN,
        own \in {{}, {"x", "m"}}, some \in Some({Inherited})}
      \union
    {[decl |-> Decl(Unnamed, Unnamed, "default", a, own), pool |-> Pool(some), faulty |-> {}] :
        a \in BOOLEAN, own \in {{}, {"x", "m"}}, some \in Some({Inherited})}
      \union
    {[decl |-> Decl("p", "q", "public", TRUE, own), pool |-> Pool(some), faulty |-> faulty] :
        own \in {{}, {"x", "m"}}, some \in Some(Interfaces), faulty \in {{}, {"K"}}}

ASSUME HierarchiesAreProper == ProperSupers

=============================================================================
