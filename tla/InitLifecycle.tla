---------------------------- MODULE InitLifecycle ----------------------------
(***************************************************************************)
(* What class_initialize promises, without the code that asks for it: each *)
(* class is initialized at most once, initializations nest, and a class's  *)
(* own initializer starts only after its superclass has been initialized   *)
(* or while an initialization of the superclass is waiting for it.         *)
(***************************************************************************)
CONSTANTS Classes,
          NoClass,      \* the superclass of a class that has none
          Super         \* the superclass of each class

VARIABLES active,       \* the classes being initialized
          within,       \* the pairs <<c, d>> of active classes such that the
                        \* initialization of d began during that of c
          started,      \* the classes whose own initializer has started
          done          \* the classes that are initialized

lifecycleVars == <<active, within, started, done>>

LifecycleInit == active = {} /\ within = {} /\ started = {} /\ done = {}

(* The initialization that runs; the other active ones wait for it. *)
Innermost(c) == c \in active /\ \A d \in active : <<c, d>> \notin within

Begin(c) ==
    /\ c \notin done \union active
    /\ active' = active \union {c}
    /\ within' = within \union (active \X {c})
    /\ UNCHANGED <<started, done>>

Start(c) ==
    /\ Innermost(c)
    /\ c \notin started
    /\ Super[c] \in {NoClass} \union done \union active
    /\ started' = started \union {c}
    /\ UNCHANGED <<active, within, done>>

Finish(c) ==
    /\ Innermost(c)
    /\ c \in started
    /\ active' = active \ {c}
    /\ within' = within \ (active \X {c})
    /\ done' = done \union {c}
    /\ UNCHANGED started

LifecycleNext == \E c \in Classes : Begin(c) \/ Start(c) \/ Finish(c)

LifecycleSpec == LifecycleInit /\ [][LifecycleNext]_lifecycleVars

(* Initializations nest: of two that are under way one began within the    *)
(* other, and no class waits, directly or through others, for its own.      *)
Nesting ==
    /\ \A c \in active : <<c, c>> \notin within
    /\ \A c, d \in active :
          c # d => (<<c, d>> \in within <=> <<d, c>> \notin within)
    /\ \A b, c, d \in active :
          <<b, c>> \in within /\ <<c, d>> \in within => <<b, d>> \in within

(* The superclass of a class that is initialized, or whose initializer has *)
(* started, is initialized, or its initialization is still under way.      *)
SupersBegun ==
    \A c \in started \union done : Super[c] \in {NoClass} \union done \union active

=============================================================================
