---------------------------- MODULE MCClassParse ----------------------------
(* Instances of ClassParse for TLC.  A writer of class files makes, from    *)
(* the description of a class and an order of its constants, the file; some *)
(* files are then cut off, or one of their cells is changed.                *)
EXTENDS ClassParse, TLC

(* Names stand for whole strings; each is one character. *)
MCStr == [Code |-> <<11>>, Exceptions |-> <<12>>, LineNumberTable |-> <<13>>,
          LocalVariableTable |-> <<14>>, SourceFile |-> <<15>>, InnerClasses |-> <<16>>,
          ConstantVlaue |-> <<17>>, ConstantValue |-> <<18>>, clinit |-> <<19>>,
          J |-> <<74>>, F |-> <<70>>, D |-> <<68>>, I |-> <<73>>, S |-> <<83>>,
          Z |-> <<90>>, B |-> <<66>>, C |-> <<67>>,
          This |-> <<20>>, Super |-> <<21>>, Other |-> <<22>>, name |-> <<23, 24>>]

MCJncFields == MCStr.Super :> <<[modifier |-> 2, name |-> <<30>>, descriptor |-> <<31>>]>>

-----------------------------------------------------------------------------
(* The writer.  (The empty sequences in front of others make TLC compute    *)
(* these once.)  An item of a file is a number, or the place of a constant.  *)
N(n) == [is |-> "number", v |-> n]
R(key) == [is |-> "ref", v |-> key]
Ns(seq) == [i \in DOMAIN seq |-> N(seq[i])]

Text(key)       == [tag |-> Utf8, items |-> <<N(Len(MCStr[key]))>> \o Ns(MCStr[key]),
                    means |-> MCStr[key]]
Ref(tag, of, s) == [tag |-> tag, items |-> <<R(of)>>, means |-> s]
Number(tag, ns) == [tag |-> tag, items |-> Ns(ns), means |-> ns]
Pair(a, b)      == <<R(a), R(b)>>

Constants ==
    [cThis    |-> Ref(Class, "This", MCStr.This),
     cSuper   |-> Ref(Class, "Super", MCStr.Super),
     cOther   |-> Ref(Class, "Other", MCStr.Other),
     text     |-> Ref(String, "name", MCStr.name),
     long     |-> Number(Long, <<1, 2>>),
     double   |-> Number(Double, <<3, 4>>),
     int      |-> Number(Integer, <<5>>),
     float    |-> Number(Float, <<6>>),
     nameType |-> [tag |-> NameAndType, items |-> Pair("name", "I"),
                   means |-> <<MCStr.name, MCStr.I>>],
     field    |-> [tag |-> Fieldref, items |-> Pair("cSuper", "nameType"), means |-> <<>>],
     method   |-> [tag |-> Methodref, items |-> Pair("cThis", "nameType"), means |-> <<>>],
     imethod  |-> [tag |-> InterfaceMethodref, items |-> Pair("cOther", "nameType"),
                   means |-> <<>>]]
    @@ [key \in DOMAIN MCStr |-> Text(key)]

SlotsOf(key) == IF key \in {"long", "double"} THEN 2 ELSE 1

(* Where each constant stands when they are written in this order. *)
Place(order) ==
    [key \in ToSet(order) |->
        1 + MapThenSumSet(LAMBDA k : SlotsOf(order[k]),
                          1..(CHOOSE i \in DOMAIN order : order[i] = key) - 1)]

Poolsize(order) == 1 + MapThenSumSet(LAMBDA k : SlotsOf(order[k]), DOMAIN order)

Written(order, items) ==
    LET place == Place(order)
    IN  [i \in DOMAIN items |-> IF items[i].is = "number" THEN items[i].v
                                ELSE place[items[i].v]]

PoolItems(order) ==
    LET constants == Constants
    IN  FlattenSeq([k \in DOMAIN order |-> <<N(constants[order[k]].tag)>>
                                            \o constants[order[k]].items])

(* An attribute: its name, the length of its body, its body. *)
Attr(key, body) == <<R(key), N(Len(body))>> \o body

Attrs(seq) == <<N(Len(seq))>> \o FlattenSeq(seq)

(* What a member looks like in the file and in the class. *)
Field(mod, desc, attrs, value) ==
    [items |-> <<N(mod), R("name"), R(desc)>> \o Attrs(attrs),
     means |-> [NoMember EXCEPT !.modifier = mod, !.name = MCStr.name,
                                !.descriptor = MCStr[desc], !.constval = value]]

Lines     == Attr("LineNumberTable", Ns(<<2, 0, 7, 2, 8>>))
Locals    == Attr("LocalVariableTable", <<N(1), N(1), N(1), R("name"), R("I"), N(2)>>)
Unknown   == Attr("Other", Ns(<<0, 9>>))
Throws    == Attr("Exceptions", <<N(2), R("cOther"), R("cSuper")>>)
Code(length, attrs) ==
    Attr("Code", Ns(<<3, 2, length>>) \o Ns([k \in 1..length |-> k])
                   \o Ns(<<1, 0, 1, 1, 0>>) \o Attrs(attrs))

Coded(m, length) == [m EXCEPT !.stack = 3, !.locals = 2, !.code = <<>> \o [k \in 1..length |-> k],
                              !.handlers = <<<<0, 1, 1, 0>>>>, !.codes = 1]
Lined(m)  == [m EXCEPT !.lines = <<<<0, 7>>, <<2, 8>>>>]
Localed(m) == [m EXCEPT !.variables = <<<<1, 1, MCStr.name, MCStr.I, 2>>>>]
Throwing(m) == [m EXCEPT !.exceptions = <<MCStr.Other, MCStr.Super>>]

Method(mod, name, attrs, means) ==
    [items |-> <<N(mod), R(name), R("I")>> \o Attrs(attrs),
     means |-> [means EXCEPT !.modifier = mod, !.name = MCStr[name], !.descriptor = MCStr.I]]

Source == Attr("SourceFile", <<R("name")>>)
Inner  == Attr("InnerClasses", <<N(2), R("cThis"), N(0), N(0), N(1),
                                 R("cOther"), R("cThis"), R("name"), N(2)>>)

Part(seq) == FlattenSeq([i \in DOMAIN seq |-> seq[i].items])

(* A class: super and this are keys of constants, "" is no class. *)
ClassOf(this, super, intfs, fields, methods, attrs) ==
    [this |-> this, super |-> super, attrs |-> attrs,
     items |-> <<N(1), R("c" \o this)>> \o (IF super = "" THEN <<N(0)>> ELSE <<R("c" \o super)>>)
                 \o <<N(Len(intfs))>> \o [i \in DOMAIN intfs |-> R("c" \o intfs[i])]
                 \o <<N(Len(fields))>> \o Part(fields)
                 \o <<N(Len(methods))>> \o Part(methods)
                 \o Attrs(attrs),
     means |-> [modifier |-> 1, super |-> IF super = "" THEN None ELSE MCStr[super],
                intfs |-> <<>> \o [i \in DOMAIN intfs |-> MCStr[intfs[i]]],
                fields |-> [i \in DOMAIN fields |-> fields[i].means]
                             \o (IF this = "Super"
                                 THEN <<[NoMember EXCEPT !.modifier = 2, !.name = <<30>>,
                                                         !.descriptor = <<31>>]>> ELSE <<>>),
                methods |-> <<>> \o [i \in DOMAIN methods |-> methods[i].means],
                source |-> IF Source \in ToSet(attrs) THEN MCStr.name ELSE None,
                clinit |-> IF \E i \in DOMAIN methods : methods[i].means.name = MCStr.clinit
                           THEN CHOOSE i \in DOMAIN methods : methods[i].means.name = MCStr.clinit
                           ELSE 0]]

Small == ClassOf("Super", "", <<>>, <<>>, <<Method(0, "name", <<>>, NoMember)>>, <<Unknown, Source>>)

Instance == Field(0, "J", <<Unknown>>, <<>>)
Constant(desc, at)        == Field(8, desc, <<Unknown, Attr("ConstantValue", <<R(at)>>)>>, <<>>)
Misspelt(desc, value, at) == Field(8, desc, <<Attr("ConstantVlaue", <<R(at)>>)>>, value)

(* The attributes of Code and of a method, in every order. *)
Full(perm) ==
    LET two == <<<<Lines, Locals, Unknown>>, <<Unknown, Locals, Lines>>, <<Locals, Unknown, Lines>>>>[perm]
        all == Localed(Lined(Coded(Throwing(NoMember), 3)))
    IN  ClassOf("This", "Super", <<"Other", "Super">>,
                <<Instance, Constant("I", "int"), Misspelt("J", <<1, 2>>, "long"),
                  Misspelt("F", <<6>>, "float"), Misspelt("D", <<3, 4>>, "double")>>,
                <<Method(8, "clinit", <<Code(1, <<>>)>>, Coded(NoMember, 1)),
                  Method(0, "name", <<<<Code(3, two), Throws, Unknown>>,
                                      <<Unknown, Throws, Code(3, two)>>,
                                      <<Throws, Unknown, Code(3, two)>>>>[perm], all)>>,
                <<<<Source, Inner, Unknown>>, <<Inner, Source>>, <<Unknown, Inner, Source>>>>[perm])

(* Code longer than the header of an array can say; more line numbers than   *)
(* references fit into one array; a text too long for the string pool.       *)
Longer == ClassOf("This", "Super", <<>>, <<>>,
                  <<Method(0, "name", <<Code(MaxLength, <<>>)>>, Coded(NoMember, MaxLength))>>, <<>>)
ManyLines == Attr("LineNumberTable", <<N(MaxRefs)>> \o Ns([k \in 1..2 * MaxRefs |-> 0]))
Wider == ClassOf("This", "Super", <<>>, <<>>,
                 <<Method(0, "name", <<Code(1, <<ManyLines>>)>>,
                          [Coded(NoMember, 1) EXCEPT
                             !.lines = <<>> \o [k \in 1..MaxRefs |-> <<0, 0>>]])>>, <<>>)

(* Two Code attributes: the second is shorter than the tables of the first. *)
Bare(length) == Attr("Code", Ns(<<3, 2, length>>) \o Ns([k \in 1..length |-> k])
                               \o Ns(<<0>>) \o Attrs(<<>>))
Twice == ClassOf("This", "Super", <<>>, <<>>,
                 <<Method(0, "name", <<Code(3, <<Lines, Locals>>), Bare(0)>>,
                          [Localed(Lined(Coded(NoMember, 0))) EXCEPT !.codes = 2])>>, <<>>)

Bytes(class, order) ==
    <<Magic, 3, 45, Poolsize(order)>> \o Written(order, PoolItems(order) \o class.items)

InOrder(class, order) ==
    LET place == Place(order)
        constants == Constants
        kept  == {key \in ToSet(order) : constants[key].means # <<>>}
    IN  [kind |-> "written", cells |-> Bytes(class, order), name |-> MCStr[class.this],
         class |-> class.means,
         slots |-> <<>> @@ [i \in {place[key] : key \in kept} |->
                               constants[CHOOSE key \in kept : place[key] = i].means]]

SmallKeys == <<"cSuper", "Super", "name", "I", "long", "Other", "SourceFile", "nameType", "field">>

(* The file of Small with a text of this length as the last of its constants. *)
WithText(length) ==
    LET order == SmallKeys
    IN  <<Magic, 3, 45, Poolsize(order) + 1>>
          \o Written(order, PoolItems(order)) \o <<Utf8, length>> \o [k \in 1..length |-> 1]
          \o Written(order, Small.items)

Damaged(input, kind, cs) == [input EXCEPT !.kind = kind, !.cells = cs]

-----------------------------------------------------------------------------
(* The files: the constants of each class in many orders; all beginnings of *)
(* two files; every cell of one file, and of another behind its pool, changed. *)
FullKeys ==
    <<"cThis", "long", "This", "int", "Super", "field", "cSuper", "name", "I", "text",
      "float", "cOther", "Other", "nameType", "J", "F", "double", "D", "Code", "method", "Exceptions",
      "LineNumberTable", "imethod", "LocalVariableTable", "SourceFile", "InnerClasses",
      "ConstantVlaue", "ConstantValue", "clinit">>

Turned(seq, k) == SubSeq(seq, k + 1, Len(seq)) \o SubSeq(seq, 1, k)

Turns == [k \in 0..8 |-> <<Turned(SmallKeys, k), Turned(Reverse(SmallKeys), k)>>]
FullTurns == [k \in 0..14 |-> <<Turned(FullKeys, k), Turned(Reverse(FullKeys), k)>>]
Fulls == [p \in 1..3 |-> Full(p)]

OneFull   == InOrder(Full(1), FullKeys)
OneSmall  == InOrder(Small, Reverse(SmallKeys))
PastPool  == 4 + Len(PoolItems(FullKeys))
NewValues == {0, 1, 5, 7, 8, 12, Poolsize(SmallKeys), Poolsize(FullKeys), MaxRefs, MaxLength}

WrittenFiles ==
    {InOrder(Small, Turned(order, k)) : order \in {SmallKeys, Reverse(SmallKeys)}, k \in 0..8}
    \union
    {InOrder(Full(1 + (k % 3)), Turned(order, k)) :
        order \in {FullKeys, Reverse(FullKeys)}, k \in 0..14}

Cuts(input) == {Damaged(input, "cut", SubSeq(input.cells, 1, n)) : n \in 0..(Len(input.cells) - 1)}

Changes(input, places) ==
    {Damaged(input, "changed", [input.cells EXCEPT ![n] = v]) : n \in places, v \in NewValues}

AllInputs ==
    LET full == OneFull  small == OneSmall
    IN  WrittenFiles \union Cuts(full) \union Cuts(small)
          \union Changes(small, DOMAIN small.cells)
          \union Changes(full, (PastPool + 1)..Len(full.cells))
          \union {Damaged(full, "changed", Bytes(Longer, FullKeys)), InOrder(Twice, FullKeys),
                  Damaged(full, "changed", Bytes(Wider, FullKeys)),
                  [InOrder(Small, SmallKeys) EXCEPT !.cells = WithText(MaxLength - 2)],
                  Damaged(small, "changed", WithText(MaxLength - 1))}
MCInputs == AllInputs
=============================================================================
