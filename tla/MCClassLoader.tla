---------------------------- MODULE MCClassLoader ----------------------------
(* Instances of ClassLoader for TLC.  A class path is a set of possible     *)
(* shapes of the application's classes A, B and the interface K over a      *)
(* runtime of java/lang/Object, java/lang/Class and java/lang/String.       *)
EXTENDS ClassLoaderInv

Absent(kind) == [kind |-> kind, super |-> NoName, intfs |-> <<>>,
                 isInterface |-> FALSE, isFinal |-> FALSE, typesOk |-> TRUE]
Missing   == Absent("missing")
Malformed == Absent("malformed")
Class(super, intfs) == [Absent("class") EXCEPT !.super = super, !.intfs = intfs]
Plain     == Class("Object", <<>>)
Interface(intfs) == [Class("Object", intfs) EXCEPT !.isInterface = TRUE]
Final(file)    == [file EXCEPT !.isFinal = TRUE]
BadField(file) == [file EXCEPT !.typesOk = FALSE]

(* The runtime's classes, overridden by the application's. *)
Layout(app) == [n \in ClassNames |->
                  IF n \in DOMAIN app THEN app[n]
                  ELSE IF n = "Object" THEN Class(NoName, <<>>) ELSE Plain]

App(a, b, k) == Layout([n \in {"A", "B", "K"} |->
                          CASE n = "A" -> a [] n = "B" -> b [] n = "K" -> k])

MCElemName == [a \in ArrayNames |->
                 CASE a = "[I" -> "I" [] a = "[J" -> "J"
                   [] a = "[A" -> "A" [] a = "[K" -> "K" [] a = "[[A" -> "[A"]

MCBaseName == [a \in ArrayNames |-> IF a = "[[A" THEN "A" ELSE MCElemName[a]]

(* prepare_globals assigns the class of "V" to long_class as well. *)
MCBootPrims == <<[name |-> "I", slot |-> "I"], [name |-> "J", slot |-> "J"],
                 [name |-> "V", slot |-> "J"]>>
IntOnly     == <<[name |-> "I", slot |-> "I"]>>
MCBootLoads == <<"[J">>
StringOnly  == <<"String">>
NoBootLoads == <<>>

(* A over B over the interface K, in every acyclic shape the loader tells  *)
(* apart: B may be missing, malformed, an interface, final, unpreparable,  *)
(* without a superclass or a class where an interface is expected.          *)
AcyclicDisks ==
    {<<App(a, b, k)>> :
       a \in {Class("B", <<"K">>), Class("Object", <<"K", "B">>), Interface(<<"B">>)},
       b \in {Missing, Malformed, Class(NoName, <<>>), Class("Object", <<"K">>),
              Class("K", <<>>), Interface(<<"K">>), Final(Plain), BadField(Plain)},
       k \in {Missing, Interface(<<>>), Plain}}

(* Two directories with different versions of A and B. *)
TwoPathDisks ==
    {<<App(a, b, Missing), App(Plain, c, Interface(<<>>))>> :
       a \in {Class("B", <<"K">>), Malformed},
       b \in {Class("Object", <<"K">>), Missing},
       c \in {Plain, Class("K", <<>>)}}

(* A runtime that is incomplete, and one whose java/lang/Class implements  *)
(* an interface, as java/lang/Class of the JDK does.                        *)
BootDisks ==
    {<<[App(Class("B", <<>>), Plain, Interface(<<>>)) EXCEPT ![n] = f]>> :
       n \in {"Object", "Class", "String"}, f \in {Missing, Malformed, Plain}}
      \union
    {<<[App(Plain, Plain, Interface(<<>>)) EXCEPT !["Class"] = Class("Object", <<"K">>)]>>}

(* Class files whose supers form a cycle, and the shapes of an application *)
(* in which the class above, the interface or the class itself is refused. *)
CyclicDisks ==
    {<<App(Class("B", <<>>), Class("A", <<>>), Missing)>>,
     <<App(Class("Object", <<"K">>), Missing, Interface(<<"K">>))>>}

RefusedDisks ==
    CyclicDisks \union
    {<<App(Class("B", <<"K">>), b, k)>> :
       b \in {Final(Plain), Interface(<<>>), BadField(Plain), Class("K", <<>>), Plain},
       k \in {Interface(<<>>), Interface(<<"B">>), Malformed}}

(* All of these in the directory that can be read, and nothing in the other. *)
StartDisks ==
    TwoPathDisks \union {<<[n \in ClassNames |-> Missing]>> \o path :
                           path \in BootDisks \union RefusedDisks}

=============================================================================
