---------------------------- MODULE MCClassInit ----------------------------
(* Instances of ClassInit for TLC: java/lang/Object and java/lang/Class, a  *)
(* class A, its subclass B that implements the interface K, and a class M   *)
(* that has main.                                                           *)
EXTENDS ClassInit

Field(c)   == <<[op |-> "field", arg |-> c]>>
Direct(m)  == <<[op |-> "direct", arg |-> m]>>
Virtual(m) == <<[op |-> "virtual", arg |-> m]>>
Interf(m)  == <<[op |-> "interface", arg |-> m]>>
NewA       == <<[op |-> "new", arg |-> "A"]>> \o Direct("A.init")
NewB       == <<[op |-> "new", arg |-> "B"]>> \o Direct("B.init")
ReflectB   == <<[op |-> "reflect", arg |-> "B"]>>

MCSuper == [c \in Classes |-> CASE c = "Object" -> NoClass
                                [] c = "B" -> "A"
                                [] OTHER -> "Object"]

MCOwner == [m \in Methods |->
    CASE m \in {"A.clinit", "A.init", "A.f", "A.g", "A.s"} -> "A"
      [] m \in {"B.clinit", "B.init", "B.f"} -> "B"
      [] m = "K.f" -> "K"
      [] m = "M.main" -> "M"
      [] OTHER -> "Class"]

MCClinit == [c \in Classes |-> CASE c = "A" -> "A.clinit"
                                 [] c = "B" -> "B.clinit"
                                 [] OTHER -> NoMethod]

(* B overrides f and, as the code compares signatures only, <init>; it     *)
(* inherits g.                                                              *)
MCTable == [c \in Classes |-> [s \in Slots |->
    CASE c = "Class" /\ s = 1 -> "newInstance"
      [] c = "A" -> <<"A.init", "A.f", "A.g">>[s]
      [] c = "B" -> <<"B.init", "B.f", "A.g">>[s]
      [] OTHER -> NoMethod]]

MCSlot == [m \in Methods |->
    CASE m \in {"newInstance", "A.init", "B.init"} -> 1
      [] m \in {"A.f", "B.f"} -> 2
      [] m = "A.g" -> 3
      [] OTHER -> 0]

MCDispatch == [c \in Classes |-> [m \in Methods |->
    CASE c = "Class" /\ m = "newInstance" -> 1
      [] c \in {"A", "B"} /\ m = "A.f" -> 2
      [] c = "B" /\ m = "K.f" -> 2
      [] c \in {"A", "B"} /\ m = "A.g" -> 3
      [] OTHER -> 0]]

(* Bodies for main, the initializers of A and B, B.f and A.s. *)
Bodies(main, a, b, f, s) ==
    {[m \in Methods |->
        CASE m = "M.main"   -> p[1]
          [] m = "A.clinit" -> p[2]
          [] m = "B.clinit" -> p[3]
          [] m = "B.f"      -> p[4]
          [] m = "A.s"      -> p[5]
          [] m = "A.g"      -> Interf("K.f")
          [] m = "B.init"   -> Direct("A.init")
          [] m = "newInstance" -> ReflectB
          [] OTHER -> <<>>] :
      p \in main \X a \X b \X f \X s}

(* No method calls itself, but initializers of A and B use each other in   *)
(* every way, and call methods that are being translated.                   *)
AcyclicPrograms ==
    Bodies({NewB \o Virtual("A.g"), NewA \o Virtual("A.f") \o Direct("A.s"),
            Virtual("newInstance") \o Virtual("A.f"), Field("B") \o Direct("A.s")},
           {Field("B"), NewB \o Virtual("A.f"), Direct("A.s")},
           {NewA \o Virtual("A.g"), Direct("A.s")},
           {<<>>, Direct("A.s")},
           {Field("B"), NewB})

(* Methods that call themselves and one another, and a native method that  *)
(* is missing.                                                              *)
LoopingPrograms ==
    Bodies({NewB \o Virtual("A.f"), Direct("A.s") \o Direct("missing")},
           {Direct("A.s"), NewB \o Virtual("A.g")},
           {<<>>},
           {Direct("A.s"), Virtual("A.g")},
           {Direct("A.s")})

MCPrograms == AcyclicPrograms \union LoopingPrograms

=============================================================================
