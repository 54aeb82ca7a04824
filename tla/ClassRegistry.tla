---------------------------- MODULE ClassRegistry ----------------------------
(***************************************************************************)
(* What the class loader promises the rest of the VM, without how it loads *)
(* anything: a registry in which a name is bound to a class once and for   *)
(* all, after the names of the class's supers, and answers that always     *)
(* come from the registry.                                                  *)
(***************************************************************************)
EXTENDS Naturals

CONSTANTS Names,    \* class names
          Ids       \* class identities; 0 is none of a class and says "none"

VARIABLES bound,    \* the class each name is bound to, or 0
          supers,   \* the names of the direct supers of each bound class
          answers   \* the answers given so far

registryVars == <<bound, supers, answers>>

RegistryInit ==
    /\ bound = [n \in Names |-> 0]
    /\ supers = [n \in Names |-> {}]
    /\ answers = {}

(* A new class may be bound once its supers are. *)
Bind(n, id, direct) ==
    /\ bound[n] = 0
    /\ \A m \in Names : bound[m] # id
    /\ \A m \in direct : bound[m] # 0
    /\ bound' = [bound EXCEPT ![n] = id]
    /\ supers' = [supers EXCEPT ![n] = direct]
    /\ UNCHANGED answers

(* The answer is the class the name is bound to; "none" is only said of a  *)
(* name that is not bound.                                                  *)
Answer(n) ==
    /\ answers' = answers \union {[name |-> n, class |-> bound[n]]}
    /\ UNCHANGED <<bound, supers>>

RegistryNext ==
    \/ \E n \in Names, id \in Ids \ {0}, direct \in SUBSET Names : Bind(n, id, direct)
    \/ \E n \in Names : Answer(n)

RegistrySpec == RegistryInit /\ [][RegistryNext]_registryVars

(* Two requests are never answered with two classes for one name, nor with *)
(* one class for two names.                                                 *)
AnswersConsistent ==
    \A a, b \in answers :
      a.class # 0 /\ b.class # 0 => (a.name = b.name <=> a.class = b.class)

(* The hierarchy of the bound classes is well-founded: among any of them   *)
(* there is one without a super among them.  Every loop of the VM that     *)
(* climbs from a class to its supers (is_subclass, the field and method    *)
(* lookups, override_superclass_method) ends because of it.                *)
HierarchyWellFounded ==
    \A some \in (SUBSET Names) \ {{}} :
      (\A n \in some : bound[n] # 0) => \E n \in some : supers[n] \intersect some = {}

=============================================================================
