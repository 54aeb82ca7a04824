---------------------------- MODULE AbstractProofs ----------------------------
(***************************************************************************)
(* Theorems about what two components promise: the registry of classes     *)
(* (ClassRegistry), for every set of names and of classes, and the         *)
(* lifecycle of their initialization (InitLifecycle), for every hierarchy. *)
(***************************************************************************)
EXTENDS ClassRegistry, InitLifecycle, TLAPS

-----------------------------------------------------------------------------
(* The registry                                                            *)

(* What every state of the registry looks like. *)
RegistryTyped ==
    /\ bound \in [Names -> Ids \union {0}]
    /\ supers \in [Names -> SUBSET Names]
    /\ answers \subseteq [name : Names, class : Ids \union {0}]

(* An answer holds what the name is bound to or was given before it was;   *)
(* no class has two names; the supers of a class are bound.                *)
RegistryInv ==
    /\ RegistryTyped
    /\ \A a \in answers : a.class # 0 => a.class = bound[a.name]
    /\ \A m, n \in Names : bound[m] = bound[n] /\ bound[m] # 0 => m = n
    /\ \A n \in Names : bound[n] = 0 => supers[n] = {}
    /\ \A n \in Names : \A m \in supers[n] : bound[m] # 0
    /\ HierarchyWellFounded

LEMMA InitRegistry == RegistryInit => RegistryInv
<1> SUFFICES ASSUME RegistryInit PROVE RegistryInv
  OBVIOUS
<1>1. \A n \in Names : bound[n] = 0 /\ supers[n] = {}
  BY DEF RegistryInit
<1>2. HierarchyWellFounded
  BY <1>1 DEF HierarchyWellFounded
<1> QED BY <1>1, <1>2 DEF RegistryInit, RegistryInv, RegistryTyped

LEMMA BindKeeps ==
  ASSUME RegistryInv, NEW n \in Names, NEW id \in Ids \ {0}, NEW direct \in SUBSET Names,
         Bind(n, id, direct)
  PROVE  RegistryInv'
<1>1. RegistryTyped' /\ id # 0
  BY DEF RegistryInv, RegistryTyped, Bind
<1>2. /\ bound'[n] = id /\ supers'[n] = direct
      /\ \A m \in Names \ {n} : bound'[m] = bound[m] /\ supers'[m] = supers[m]
  BY DEF Bind, RegistryInv, RegistryTyped
<1>3. (\A a \in answers : a.class # 0 => a.class = bound[a.name])'
  BY <1>2 DEF Bind, RegistryInv, RegistryTyped
<1>4. (\A l, m \in Names : bound[l] = bound[m] /\ bound[l] # 0 => l = m)'
  BY <1>2 DEF Bind, RegistryInv
<1>5. (\A m \in Names : bound[m] = 0 => supers[m] = {})'
  BY <1>1, <1>2 DEF RegistryInv
<1>6. (\A m \in Names : \A l \in supers[m] : bound[l] # 0)'
  BY <1>1, <1>2 DEF Bind, RegistryInv, RegistryTyped
<1>7. HierarchyWellFounded'
  <2> SUFFICES ASSUME NEW some \in (SUBSET Names) \ {{}},
                      \A m \in some : bound'[m] # 0
               PROVE  \E m \in some : supers'[m] \intersect some = {}
    BY DEF HierarchyWellFounded
  <2>1. CASE n \notin some
    BY <1>2, <2>1 DEF RegistryInv, HierarchyWellFounded
  <2>2. CASE some = {n}
    <3>1. n \notin direct
      BY DEF Bind
    <3> QED BY <1>2, <2>2, <3>1
  <2>3. CASE n \in some /\ some # {n}
    <3> DEFINE rest == some \ {n}
    <3>1. rest \in (SUBSET Names) \ {{}} /\ \A m \in rest : bound[m] # 0
      BY <1>2, <2>3
    <3>2. HierarchyWellFounded
      BY DEF RegistryInv
    <3>3. \E m \in rest : supers[m] \intersect rest = {}
      <4> HIDE DEF rest
      <4> QED BY <3>1, <3>2 DEF HierarchyWellFounded
    <3>4. PICK m \in rest : supers[m] \intersect rest = {}
      BY <3>3
    <3>5. n \notin supers[m]
      BY <3>4 DEF Bind, RegistryInv
    <3> QED BY <1>2, <3>4, <3>5
  <2> QED BY <2>1, <2>2, <2>3
<1> QED BY <1>1, <1>3, <1>4, <1>5, <1>6, <1>7 DEF RegistryInv

LEMMA AnswerKeeps ==
  ASSUME RegistryInv, NEW n \in Names, Answer(n)
  PROVE  RegistryInv'
<1>1. RegistryTyped'
  BY DEF RegistryInv, RegistryTyped, Answer
<1>2. (\A a \in answers : a.class # 0 => a.class = bound[a.name])'
  BY DEF RegistryInv, Answer
<1>3. HierarchyWellFounded'
  BY DEF RegistryInv, Answer, HierarchyWellFounded
<1> QED BY <1>1, <1>2, <1>3 DEF RegistryInv, Answer

LEMMA RegistryInvariant == RegistrySpec => []RegistryInv
<1>1. RegistryInv /\ [RegistryNext]_registryVars => RegistryInv'
  <2> SUFFICES ASSUME RegistryInv, [RegistryNext]_registryVars PROVE RegistryInv'
    OBVIOUS
  <2>1. ASSUME NEW n \in Names, NEW id \in Ids \ {0}, NEW direct \in SUBSET Names,
               Bind(n, id, direct)
        PROVE  RegistryInv'
    BY <2>1, BindKeeps
  <2>2. ASSUME NEW n \in Names, Answer(n)
        PROVE  RegistryInv'
    BY <2>2, AnswerKeeps
  <2>3. CASE UNCHANGED registryVars
    BY <2>3 DEF registryVars, RegistryInv, RegistryTyped, HierarchyWellFounded
  <2> QED BY <2>1, <2>2, <2>3 DEF RegistryNext
<1> QED BY InitRegistry, <1>1, PTL DEF RegistrySpec

(* No two answers of the registry contradict each other. *)
THEOREM AnswersAreConsistent == RegistrySpec => []AnswersConsistent
<1>1. RegistryInv => AnswersConsistent
  <2> SUFFICES ASSUME RegistryInv, NEW a \in answers, NEW b \in answers,
                      a.class # 0, b.class # 0
               PROVE  a.name = b.name <=> a.class = b.class
    BY DEF AnswersConsistent
  <2>1. /\ a.name \in Names /\ b.name \in Names
        /\ a.class = bound[a.name] /\ b.class = bound[b.name]
    BY DEF RegistryInv, RegistryTyped
  <2> QED BY <2>1 DEF RegistryInv
<1> QED BY RegistryInvariant, <1>1, PTL

(* The class hierarchy never has a cycle or an infinite ascent, so a loop  *)
(* that climbs it ends.                                                     *)
THEOREM HierarchyIsWellFounded == RegistrySpec => []HierarchyWellFounded
<1>1. RegistryInv => HierarchyWellFounded
  BY DEF RegistryInv
<1> QED BY RegistryInvariant, <1>1, PTL

-----------------------------------------------------------------------------
(* The lifecycle                                                           *)

(* within relates active classes only.                                      *)
LifecycleTypeOK ==
    /\ active \subseteq Classes
    /\ within \subseteq active \X active
    /\ done \subseteq started /\ started \subseteq Classes

LifecycleInv == LifecycleTypeOK /\ Nesting /\ SupersBegun

LEMMA BeginStep ==
    ASSUME LifecycleInv, NEW c \in Classes, Begin(c)
    PROVE  LifecycleInv'
<1> USE DEF LifecycleInv, LifecycleTypeOK
<1>1. /\ c \notin active /\ active' = active \union {c}
      /\ within' = within \union (active \X {c})
      /\ UNCHANGED <<started, done>>
  BY DEF Begin
<1>2. LifecycleTypeOK'
  BY <1>1
<1>3. \A d \in active : <<d, c>> \in within' /\ <<c, d>> \notin within'
  BY <1>1
<1>4. \A b, d \in active : <<b, d>> \in within' <=> <<b, d>> \in within
  BY <1>1
<1>5. <<c, c>> \notin within'
  BY <1>1
<1>6. Nesting'
  <2>1. \A b \in active' : <<b, b>> \notin within'
    BY <1>1, <1>4, <1>5 DEF Nesting
  <2>2. ASSUME NEW b \in active', NEW d \in active', b # d
        PROVE  <<b, d>> \in within' <=> <<d, b>> \notin within'
    BY <2>2, <1>1, <1>3, <1>4 DEF Nesting
  <2>3. ASSUME NEW a \in active', NEW b \in active', NEW d \in active',
               <<a, b>> \in within', <<b, d>> \in within'
        PROVE  <<a, d>> \in within'
    BY <2>3, <1>1, <1>3, <1>4, <1>5 DEF Nesting
  <2> QED
    BY <2>1, <2>2, <2>3 DEF Nesting
<1>7. SupersBegun'
  BY <1>1 DEF SupersBegun
<1> QED
  BY <1>2, <1>6, <1>7

LEMMA FinishStep ==
    ASSUME LifecycleInv, NEW c \in Classes, Finish(c)
    PROVE  LifecycleInv'
<1> USE DEF LifecycleInv, LifecycleTypeOK
<1>1. /\ c \in active /\ c \in started /\ \A d \in active : <<c, d>> \notin within
      /\ active' = active \ {c} /\ within' = within \ (active \X {c})
      /\ done' = done \union {c} /\ UNCHANGED started
  BY DEF Finish, Innermost
<1>2. LifecycleTypeOK'
  BY <1>1
<1>3. \A b, d \in active' : <<b, d>> \in within' <=> <<b, d>> \in within
  BY <1>1
<1>4. Nesting'
  <2>1. active' \subseteq active
    BY <1>1
  <2> QED
    BY <1>3, <2>1 DEF Nesting
<1>5. SupersBegun'
  BY <1>1 DEF SupersBegun
<1> QED
  BY <1>2, <1>4, <1>5

(* Each step of the lifecycle preserves the invariant.                      *)
LEMMA LifecycleStep ==
    LifecycleInv /\ [LifecycleNext]_lifecycleVars => LifecycleInv'
<1> SUFFICES ASSUME LifecycleInv, [LifecycleNext]_lifecycleVars
             PROVE  LifecycleInv'
  OBVIOUS
<1>1. CASE UNCHANGED lifecycleVars
  <2>1. active' = active /\ within' = within /\ started' = started /\ done' = done
    BY <1>1 DEF lifecycleVars
  <2>2. LifecycleTypeOK' /\ SupersBegun'
    BY <2>1 DEF LifecycleInv, LifecycleTypeOK, SupersBegun
  <2>3. Nesting'
    <3>1. Nesting
      BY DEF LifecycleInv
    <3> QED
      BY <2>1, <3>1, SMT DEF Nesting
  <2> QED
    BY <2>2, <2>3 DEF LifecycleInv
<1>2. ASSUME NEW c \in Classes, Start(c) PROVE LifecycleInv'
  <2>1. /\ c \in active /\ Super[c] \in {NoClass} \union done \union active
        /\ started' = started \union {c}
        /\ active' = active /\ within' = within /\ done' = done
    BY <1>2 DEF Start, Innermost
  <2>2. LifecycleTypeOK' /\ SupersBegun'
    BY <2>1 DEF LifecycleInv, LifecycleTypeOK, SupersBegun
  <2>3. Nesting'
    BY <2>1 DEF LifecycleInv, Nesting
  <2> QED
    BY <2>2, <2>3 DEF LifecycleInv
<1> QED
  BY <1>1, <1>2, BeginStep, FinishStep DEF LifecycleNext

THEOREM LifecycleInvariance == LifecycleSpec => []LifecycleInv
<1>1. LifecycleInit => LifecycleInv
  BY DEF LifecycleInit, LifecycleInv, LifecycleTypeOK, Nesting, SupersBegun
<1> QED
  BY <1>1, LifecycleStep, PTL DEF LifecycleSpec

(* The initializations under way are nested in one another: none waits for *)
(* its own, and of any two one began within the other.                      *)
THEOREM InitializationsNest == LifecycleSpec => []Nesting
<1>1. LifecycleInv => Nesting
  BY DEF LifecycleInv
<1> QED
  BY <1>1, LifecycleInvariance, PTL

(* The superclass of every class whose initializer has started is          *)
(* initialized, or its initialization is under way.                         *)
THEOREM SupersAlwaysBegun == LifecycleSpec => []SupersBegun
<1>1. LifecycleInv => SupersBegun
  BY DEF LifecycleInv
<1> QED
  BY <1>1, LifecycleInvariance, PTL

=============================================================================
