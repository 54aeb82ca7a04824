---------------------------- MODULE MCClassPrepare ----------------------------
(* Instances of ClassPrepare for TLC: java/lang/Object, an interface K, an  *)
(* interface L that may extend it, a class A and its subclass B.            *)
EXTENDS ClassPrepare

Word    == [static |-> FALSE, ref |-> FALSE, size |-> 4]
Long   == [Word EXCEPT !.size = 8]
Byte   == [Word EXCEPT !.size = 1]
Odd    == [Word EXCEPT !.size = 0]
Ref    == [Word EXCEPT !.ref = TRUE]
Static(field) == [field EXCEPT !.static = TRUE]

M(sig)        == [sig |-> sig, static |-> FALSE, default |-> FALSE]
Package(sig)  == [M(sig) EXCEPT !.default = TRUE]
Clinit        == [M("<clinit>") EXCEPT !.static = TRUE]

Class(super, intfs, fields, methods) ==
    [super |-> super, intfs |-> intfs, interface |-> FALSE, abstract |-> FALSE,
     fields |-> fields, methods |-> methods]
Interface(intfs, methods) ==
    [Class("Object", intfs, <<>>, methods) EXCEPT !.interface = TRUE]
Abstract(class) == [class EXCEPT !.abstract = TRUE]

TheObject == Class(NoClass, <<>>, <<>>, <<M("init"), M("eq")>>)

Shapes(k, l, a, b) ==
    {[c \in Classes |-> CASE c = "K" -> p[1] [] c = "L" -> p[2] [] c = "A" -> p[3]
                          [] c = "B" -> p[4] [] c = "Object" -> TheObject] :
       p \in k \X l \X a \X b}

PlainK == {Interface(<<>>, <<M("f")>>)}

(* Every way A and B may implement and extend K and L, and override. *)
InterfaceHierarchies ==
    Shapes({Interface(<<>>, <<M("f"), Clinit>>), Interface(<<>>, <<Clinit, M("f")>>)},
           {Interface(<<>>, <<M("g")>>), Interface(<<"K">>, <<M("h"), M("g")>>)},
           {Abstract(Class("Object", i, <<>>, <<M("g"), Clinit>>)) :
               i \in {<<>>, <<"L">>}}
             \union
           {Class("Object", i, <<>>, m) :
               i \in {<<>>, <<"K">>, <<"L">>, <<"K", "L">>, <<"L", "K">>},
               m \in {<<M("init"), Clinit, M("f"), M("h"), M("g")>>, <<M("f")>>}},
           {Class("A", i, <<>>, m) :
               i \in {<<>>, <<"K">>, <<"L">>, <<"K", "L">>, <<"L", "K">>},
               m \in {<<>>, <<M("h"), M("f"), M("init")>>, <<Clinit, M("f"), M("g")>>}})

(* Package-private methods and every order of fields. *)
MemberHierarchies ==
    Shapes(PlainK, {Interface(<<>>, <<>>)},
           {Class("Object", <<>>, f, m) :
               f \in {<<Word, Ref, Long>>, <<Byte, Static(Ref), Word, Static(Word)>>, <<Odd>>},
               m \in {<<Package("f"), M("g")>>, <<M("g"), Package("init")>>}},
           {Class("A", i, f, m) :
               i \in {<<>>, <<"K">>},
               f \in {<<>>, <<Byte, Ref>>, <<Static(Odd)>>, <<Long, Ref, Word>>},
               m \in {<<M("f")>>, <<M("eq"), M("f"), M("g")>>}})

MCHierarchies == InterfaceHierarchies \union MemberHierarchies

(* What the theorems of ClassPrepareProofs ask of the class files.          *)
ASSUME HierarchiesAreProper == ProperFiles

=============================================================================
