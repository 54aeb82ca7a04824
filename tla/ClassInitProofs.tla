--------------------------- MODULE ClassInitProofs ---------------------------
(***************************************************************************)
(* Proofs about ClassInit, for every class hierarchy, every vtable and     *)
(* every program.                                                           *)
(***************************************************************************)
EXTENDS ClassInit, SequenceTheorems, TLAPS

(* The classes that the first n instructions of m rely on, with its owner. *)
Needed(m, n) ==
    {Owner[m]} \union
    ({ClassNeeded(m, body[m][k]) : k \in {j \in DOMAIN body[m] : j <= n}} \ {NoClass})

(* The classes whose initialization the code of a frame has asked for.      *)
ReliesOn(f) ==
    CASE f.pc = "clinit"    -> {Super[f.who]} \ {NoClass}
      [] f.pc = "translate" -> Needed(f.who, f.at - 1)
      [] f.pc = "run"       -> Needed(f.who, Len(body[f.who]))
      [] OTHER              -> {}

(* What can run on top of a frame that has called.                          *)
Calls(pc) ==
    CASE pc \in {"clinit", "translate"} -> {"initialize", "clinit", "complete"}
      [] pc \in {"complete", "run"}     -> {"jit", "translate", "run"}
      [] OTHER                          -> {}

WellNested == \A i \in 1..(Len(stack) - 1) : stack[i + 1].pc \in Calls(stack[i].pc)

(* A class that was asked for is initialized or being initialized, unless   *)
(* the call that asks for it has just been made.                            *)
Asked(i, c) == i < Len(stack) /\ stack[i + 1] = FrameAt("initialize", c)
PromisesKept ==
    \A i \in Indices : \A c \in ReliesOn(stack[i]) : Begun(c) \/ Asked(i, c)

(* So are the classes that the code of a compiled method relies on.         *)
CodeReady ==
    \A m \in Methods :
        /\ jitted[m] = "code" <=> mstate[m] = "Compiled"
        /\ jitted[m] = "code" => \A c \in Needed(m, Len(body[m])) : Begun(c)

FlagsEnd == \A c \in Classes : flag[c] => "Initialized" \notin state[c]

StackInv == FlagOnStack /\ FlagsEnd /\ WellNested /\ PromisesKept

IInv == TypeOK /\ StackInv /\ SlotsLeadToMethods /\ CodeReady /\ InstancesInitialized

-----------------------------------------------------------------------------
(* Facts about instructions, frames and the native stack.                   *)

LEMMA ElementOf ==
    ASSUME NEW S, NEW s \in Seq(S), NEW i \in 1..Len(s)
    PROVE  s[i] \in S
OBVIOUS

(* A sequence without its last element.                                     *)
LEMMA FrontProperties ==
    ASSUME NEW S, NEW s \in Seq(S), s # <<>>
    PROVE  /\ SubSeq(s, 1, Len(s) - 1) \in Seq(S)
           /\ Len(SubSeq(s, 1, Len(s) - 1)) = Len(s) - 1
           /\ \A i \in 1..(Len(s) - 1) : SubSeq(s, 1, Len(s) - 1)[i] = s[i]
<1>1. Len(s) \in Nat /\ Len(s) > 0 /\ \A i \in 1..Len(s) : s[i] \in S
  OBVIOUS
<1> DEFINE n == Len(s) - 1
<1>2. n \in Nat /\ 1 \in Int /\ n \in Int /\ \A i \in 1..n : s[i] \in S
  BY <1>1
<1> HIDE DEF n
<1>3. /\ SubSeq(s, 1, n) \in Seq(S)
      /\ Len(SubSeq(s, 1, n)) = IF 1 <= n THEN n - 1 + 1 ELSE 0
      /\ \A i \in 1..(n - 1 + 1) : SubSeq(s, 1, n)[i] = s[1 + i - 1]
  BY <1>2, SubSeqProperties
<1>4. (IF 1 <= n THEN n - 1 + 1 ELSE 0) = n /\ n - 1 + 1 = n
  BY <1>2
<1>5. \A i \in 1..n : 1 + i - 1 = i
  BY <1>2
<1>6. /\ SubSeq(s, 1, n) \in Seq(S)
      /\ Len(SubSeq(s, 1, n)) = n
      /\ \A i \in 1..n : SubSeq(s, 1, n)[i] = s[i]
  BY <1>3, <1>4, <1>5, Zenon
<1> QED
  BY <1>6 DEF n

(* What an instruction names, by its kind.                                  *)
LEMMA InstrFacts ==
    ASSUME body \in Programs, NEW m \in Methods, NEW i \in DOMAIN body[m]
    PROVE  /\ DOMAIN body[m] = 1..Len(body[m]) /\ Len(body[m]) \in Nat
           /\ body[m][i].op \in Ops
           /\ body[m][i].op \in {"field", "new", "reflect"} => body[m][i].arg \in Classes
           /\ body[m][i].op \in {"direct", "virtual", "interface"} =>
                 body[m][i].arg \in Methods
           /\ ClassNeeded(m, body[m][i]) \in Classes \union {NoClass}
<1>1. body[m] \in Seq(Instr)
  BY ProgramsAssumption
<1>2. DOMAIN body[m] = 1..Len(body[m]) /\ Len(body[m]) \in Nat
  BY <1>1
<1>3. body[m][i] \in Instr
  BY <1>1, <1>2, ElementOf
<1>4. /\ body[m][i].op \in Ops
      /\ body[m][i].op \in {"field", "new", "reflect"} => body[m][i].arg \in Classes
      /\ body[m][i].op \in {"direct", "virtual", "interface"} => body[m][i].arg \in Methods
  BY <1>3 DEF Instr, Ops
<1>5. ClassNeeded(m, body[m][i]) \in Classes \union {NoClass}
  BY <1>4, MethodsAssumption DEF ClassNeeded
<1> QED
  BY <1>2, <1>4, <1>5

(* Every body has a length.                                                 *)
LEMMA BodyFacts ==
    ASSUME body \in Programs, NEW m \in Methods
    PROVE  Len(body[m]) \in Nat /\ DOMAIN body[m] = 1..Len(body[m])
<1>1. body[m] \in Seq(Instr)
  BY ProgramsAssumption
<1> QED
  BY <1>1

LEMMA ConcatTwo ==
    ASSUME NEW S, NEW s \in Seq(S), NEW t \in Seq(S), Len(t) = 2
    PROVE  (s \o t)[Len(s) + 1] = t[1] /\ (s \o t)[Len(s) + 2] = t[2]
<1> DEFINE n == Len(s)
<1>1. n \in Nat
  OBVIOUS
<1>2. \A i \in 1..(n + 2) : (s \o t)[i] = IF i <= n THEN s[i] ELSE t[i - n]
  BY ConcatProperties
<1> HIDE DEF n
<1>3. n + 1 \in 1..(n + 2) /\ n + 2 \in 1..(n + 2) /\ ~(n + 1 <= n) /\ ~(n + 2 <= n)
      /\ (n + 1) - n = 1 /\ (n + 2) - n = 2
  BY <1>1
<1>4. (s \o t)[n + 1] = t[1] /\ (s \o t)[n + 2] = t[2]
  BY <1>2, <1>3, Zenon
<1> QED
  BY <1>4 DEF n

LEMMA FrameFacts ==
    ASSUME NEW f \in Frame
    PROVE  /\ f.pc \in {"initialize", "clinit", "complete"} => f.who \in Classes
           /\ f.pc \in {"jit", "translate", "run"} => f.who \in Methods
           /\ f.pc \in {"initialize", "clinit", "complete", "jit", "translate", "run"}
           /\ f.at \in Nat \ {0}
BY DEF Frame

LEMMA FrameAtFacts ==
    /\ \A c \in Classes : \A pc \in {"initialize", "clinit", "complete"} :
          /\ FrameAt(pc, c) \in Frame
          /\ FrameAt(pc, c).pc = pc /\ FrameAt(pc, c).who = c /\ FrameAt(pc, c).at = 1
    /\ \A m \in Methods : \A pc \in {"jit", "translate", "run"} :
          /\ FrameAt(pc, m) \in Frame
          /\ FrameAt(pc, m).pc = pc /\ FrameAt(pc, m).who = m /\ FrameAt(pc, m).at = 1
BY DEF Frame, FrameAt

LEMMA TopFacts ==
    ASSUME stack \in Seq(Frame), stack # <<>>
    PROVE  /\ Len(stack) \in Nat \ {0}
           /\ Top \in Frame
           /\ Below \in Seq(Frame) /\ Len(Below) = Len(stack) - 1
           /\ \A i \in 1..(Len(stack) - 1) : Below[i] = stack[i]
<1>1. Len(stack) \in Nat \ {0}
  OBVIOUS
<1>2. Top \in Frame
  BY <1>1, ElementOf DEF Top
<1>3. /\ Below \in Seq(Frame) /\ Len(Below) = Len(stack) - 1
      /\ \A i \in 1..(Len(stack) - 1) : Below[i] = stack[i]
  BY <1>1, FrontProperties DEF Below
<1> QED
  BY <1>1, <1>2, <1>3

(* What a method and a frame rely on are classes.                           *)
LEMMA NeededClasses ==
    ASSUME body \in Programs, NEW m \in Methods, NEW n
    PROVE  Needed(m, n) \subseteq Classes
BY InstrFacts, MethodsAssumption DEF Needed

LEMMA ReliesOnClasses ==
    ASSUME body \in Programs, NEW f \in Frame
    PROVE  ReliesOn(f) \subseteq Classes
<1>1. CASE f.pc = "clinit"
  BY <1>1, FrameFacts, ClassesAssumption DEF ReliesOn
<1>2. CASE f.pc = "translate"
  BY <1>2, FrameFacts, NeededClasses DEF ReliesOn
<1>3. CASE f.pc = "run"
  BY <1>3, FrameFacts, NeededClasses DEF ReliesOn
<1> QED
  BY <1>1, <1>2, <1>3 DEF ReliesOn

(* What a frame does to the stack: the frames below it stay, and one or two *)
(* may replace it.                                                          *)
BelowKept == /\ stack' \in Seq(Frame)
             /\ \A i \in 1..(Len(stack) - 1) : stack'[i] = stack[i]

LEMMA ReturnStack ==
    ASSUME stack \in Seq(Frame), stack # <<>>, Return
    PROVE  BelowKept /\ Len(stack') = Len(stack) - 1
BY TopFacts DEF Return, BelowKept

LEMMA GoOnStack ==
    ASSUME stack \in Seq(Frame), stack # <<>>, NEW f \in Frame, GoOn(f)
    PROVE  BelowKept /\ Len(stack') = Len(stack) /\ stack'[Len(stack)] = f
<1>1. stack' = Append(Below, f)
  BY DEF GoOn
<1>2. /\ Below \in Seq(Frame) /\ Len(Below) = Len(stack) - 1 /\ Len(stack) \in Nat \ {0}
      /\ \A i \in 1..(Len(stack) - 1) : Below[i] = stack[i]
  BY TopFacts
<1> HIDE DEF Below
<1>3. stack' \in Seq(Frame) /\ Len(stack') = Len(stack)
  BY <1>1, <1>2
<1>4. \A i \in 1..(Len(stack) - 1) : stack'[i] = stack[i]
  BY <1>1, <1>2
<1>5. stack'[Len(stack)] = f
  BY <1>1, <1>2
<1> QED
  BY <1>3, <1>4, <1>5 DEF BelowKept

LEMMA CallStack ==
    ASSUME stack \in Seq(Frame), stack # <<>>, NEW f \in Frame, NEW g \in Frame, Call(f, g)
    PROVE  /\ BelowKept /\ Len(stack') = Len(stack) + 1
           /\ stack'[Len(stack)] = f /\ stack'[Len(stack) + 1] = g
<1>1. stack' = Below \o <<f, g>>
  BY DEF Call
<1>2. /\ Below \in Seq(Frame) /\ Len(Below) = Len(stack) - 1 /\ Len(stack) \in Nat \ {0}
      /\ \A i \in 1..(Len(stack) - 1) : Below[i] = stack[i]
  BY TopFacts
<1>3. <<f, g>> \in Seq(Frame) /\ Len(<<f, g>>) = 2 /\ <<f, g>>[1] = f /\ <<f, g>>[2] = g
  OBVIOUS
<1> HIDE DEF Below
<1>4. stack' \in Seq(Frame) /\ Len(stack') = Len(stack) + 1
  BY <1>1, <1>2, <1>3
<1>5. \A i \in 1..(Len(stack) - 1) : stack'[i] = stack[i]
  BY <1>1, <1>2, <1>3
<1>6. stack'[Len(stack)] = f /\ stack'[Len(stack) + 1] = g
  <2>1. Len(stack) = Len(Below) + 1 /\ Len(stack) + 1 = Len(Below) + 2
    BY <1>2
  <2>2. /\ (Below \o <<f, g>>)[Len(Below) + 1] = <<f, g>>[1]
        /\ (Below \o <<f, g>>)[Len(Below) + 2] = <<f, g>>[2]
    BY <1>2, <1>3, ConcatTwo, Zenon
  <2> QED
    BY <1>1, <1>3, <2>1, <2>2, Zenon
<1> QED
  BY <1>4, <1>5, <1>6 DEF BelowKept

-----------------------------------------------------------------------------
(* What the steps of all kinds leave as it was.                             *)

(* The initializations under way are the same.                              *)
InitsSame ==
    /\ UNCHANGED classVars
    /\ InitFrames' = InitFrames
    /\ \A i \in InitFrames : stack'[i].who = stack[i].who

BegunKept == \A c \in Classes : Begun(c) => Begun(c)'

(* A step that neither begins nor ends an initialization, nor starts an     *)
(* initializer.                                                             *)
Quiet == InitsSame /\ \A i \in InitFrames : stack'[i] = stack[i]

(* The innermost frame begins to initialize c, starts its initializer, and  *)
(* ends its initialization.                                                 *)
Begins(c) ==
    /\ ~Settled(c) /\ Initialized' = Initialized
    /\ InitFrames' = InitFrames \union {Len(stack)}
    /\ stack'[Len(stack)] = FrameAt("clinit", c)
    /\ \A i \in InitFrames : i < Len(stack) /\ stack'[i] = stack[i]

InnermostIs(pc, c) ==
    /\ Len(stack) \in InitFrames /\ Top.pc = pc /\ Top.who = c
    /\ \A i \in InitFrames \ {Len(stack)} : i < Len(stack) /\ stack'[i] = stack[i]

Starts(c) ==
    /\ InnermostIs("clinit", c) /\ Initialized' = Initialized
    /\ InitFrames' = InitFrames
    /\ stack'[Len(stack)] = FrameAt("complete", c)

Finishes(c) ==
    /\ InnermostIs("complete", c) /\ Initialized' = Initialized \union {c}
    /\ InitFrames' = InitFrames \ {Len(stack)}

(* A step that neither begins nor ends an initialization.                   *)
LEMMA SameInits ==
    ASSUME TypeOK, stack # <<>>, UNCHANGED classVars, BelowKept,
           Len(stack') \in {Len(stack) - 1, Len(stack), Len(stack) + 1},
           Top.pc \notin {"clinit", "complete"},
           \A i \in Indices' : i >= Len(stack) => stack'[i].pc \notin {"clinit", "complete"}
    PROVE  Quiet
<1>1. Len(stack) \in Nat \ {0}
  BY TopFacts DEF TypeOK
<1>2. \A i \in InitFrames : i \in 1..(Len(stack) - 1)
  BY <1>1 DEF InitFrames, Indices, Top
<1>3. \A i \in InitFrames' : i \in 1..(Len(stack) - 1)
  BY <1>1 DEF InitFrames, Indices
<1>4. \A i \in 1..(Len(stack) - 1) : stack'[i] = stack[i] /\ i \in Indices /\ i \in Indices'
  BY <1>1 DEF BelowKept, Indices
<1>5. InitFrames' = InitFrames
  BY <1>2, <1>3, <1>4 DEF InitFrames
<1> QED
  BY <1>2, <1>4, <1>5 DEF Quiet, InitsSame

LEMMA SameFlags ==
    ASSUME FlagOnStack, FlagsEnd, InitsSame
    PROVE  FlagOnStack' /\ FlagsEnd' /\ BegunKept
<1>1. /\ state' = state /\ flag' = flag /\ InitFrames' = InitFrames
      /\ \A i \in InitFrames : stack'[i].who = stack[i].who
  BY DEF InitsSame, classVars
<1>2. FlagOnStack'
  <2>1. \A c : (\E i \in InitFrames : stack[i].who = c)'
                <=> \E i \in InitFrames : stack[i].who = c
    BY <1>1
  <2>2. \A c \in Classes : flag'[c] = (\E i \in InitFrames : stack[i].who = c)'
    BY <1>1, <2>1, Zenon DEF FlagOnStack
  <2>3. ASSUME NEW c \in Classes, NEW i \in InitFrames, NEW j \in InitFrames,
               stack'[i].who = c, stack'[j].who = c
        PROVE  i = j
    <3>1. stack[i].who = c /\ stack[j].who = c
      BY <1>1, <2>3, Zenon
    <3> QED
      BY <3>1, Zenon DEF FlagOnStack
  <2>4. \A c \in Classes : \A i, j \in InitFrames' :
          stack'[i].who = c /\ stack'[j].who = c => i = j
    BY <1>1, <2>3, Zenon
  <2> QED
    BY <2>2, <2>4 DEF FlagOnStack
<1>3. FlagsEnd'
  BY <1>1 DEF FlagsEnd
<1>4. BegunKept
  BY <1>1 DEF BegunKept, Begun
<1> QED
  BY <1>2, <1>3, <1>4

(* Frames of one kind may take each other's place.                          *)
Kind(pc) == IF pc \in {"initialize", "clinit", "complete"} THEN "class" ELSE "method"

LEMMA NestedStep ==
    ASSUME TypeOK, WellNested, stack # <<>>, BelowKept,
           Len(stack') \in {Len(stack) - 1, Len(stack), Len(stack) + 1},
           Len(stack') >= Len(stack) => Kind(stack'[Len(stack)].pc) = Kind(Top.pc),
           Len(stack') > Len(stack) =>
             stack'[Len(stack) + 1].pc \in Calls(stack'[Len(stack)].pc)
    PROVE  WellNested'
<1>1. Len(stack) \in Nat \ {0}
  BY TopFacts DEF TypeOK
<1>2. \A i \in 1..(Len(stack) - 1) : stack'[i] = stack[i]
  BY DEF BelowKept
<1> SUFFICES ASSUME NEW i \in 1..(Len(stack') - 1)
             PROVE  stack'[i + 1].pc \in Calls(stack'[i].pc)
  BY DEF WellNested
<1>3. CASE i = Len(stack)
  BY <1>1, <1>3
<1>4. CASE i = Len(stack) - 1
  <2>1. i \in 1..(Len(stack) - 1) /\ i + 1 = Len(stack) /\ Len(stack') >= Len(stack)
    BY <1>1, <1>4
  <2>2. stack[i + 1].pc \in Calls(stack[i].pc) /\ stack'[i] = stack[i] /\ stack[i + 1] = Top
    BY <1>2, <2>1 DEF WellNested, Top
  <2>3. stack'[i + 1].pc \in {"initialize", "clinit", "complete", "jit", "translate", "run"}
    <3>1. stack' \in Seq(Frame) /\ i + 1 \in 1..Len(stack')
      BY <1>1, <2>1 DEF BelowKept
    <3> QED
      BY <3>1, ElementOf, FrameFacts
  <2>4. Kind(stack'[i + 1].pc) = Kind(Top.pc)
    BY <2>1
  <2> QED
    BY <2>2, <2>3, <2>4 DEF Calls, Kind
<1>5. CASE i < Len(stack) - 1
  <2>1. i \in 1..(Len(stack) - 1) /\ i + 1 \in 1..(Len(stack) - 1)
    BY <1>1, <1>5
  <2> QED
    BY <1>2, <2>1 DEF WellNested
<1> QED
  BY <1>1, <1>3, <1>4, <1>5

(* A frame asks for a class only by calling, so below the innermost frame  *)
(* all promises are kept already, the call of that frame excepted.          *)
LEMMA PromisesStep ==
    ASSUME TypeOK, WellNested, PromisesKept, stack # <<>>, BelowKept, BegunKept,
           body' = body,
           Len(stack') \in {Len(stack) - 1, Len(stack), Len(stack) + 1},
           \A c : Top.pc = "initialize" /\ Top.who = c => Begun(c)',
           \A i \in Indices' : i >= Len(stack) =>
             \A c \in ReliesOn(stack[i])' : Begun(c)' \/ Asked(i, c)'
    PROVE  PromisesKept'
<1>1. Len(stack) \in Nat \ {0}
  BY TopFacts DEF TypeOK
<1>2. \A i \in 1..(Len(stack) - 1) : stack'[i] = stack[i]
  BY DEF BelowKept
<1> SUFFICES ASSUME NEW i \in Indices', NEW c, c \in ReliesOn(stack[i])'
             PROVE  Begun(c)' \/ Asked(i, c)'
  BY DEF PromisesKept
<1>3. CASE i >= Len(stack)
  BY <1>3
<1>4. CASE i < Len(stack)
  <2>1. i \in 1..(Len(stack) - 1) /\ i \in Indices
    BY <1>1, <1>4 DEF Indices
  <2>2. stack'[i] = stack[i]
    BY <1>2, <2>1
  <2>3. c \in ReliesOn(stack[i])
    <3>1. \A m : Needed(m, stack[i].at - 1)' = Needed(m, stack[i].at - 1)
      BY <2>2 DEF Needed, ClassNeeded
    <3>2. \A m : Needed(m, Len(body[m]))' = Needed(m, Len(body[m]))
      BY DEF Needed, ClassNeeded
    <3> QED
      BY <2>2, <3>1, <3>2, Zenon DEF ReliesOn
  <2>4. Begun(c) \/ Asked(i, c)
    BY <2>1, <2>3 DEF PromisesKept
  <2>5. CASE Begun(c)
    <3>1. c \in Classes
      <4>1. stack[i] \in Frame /\ body \in Programs
        BY <2>1, ElementOf DEF TypeOK, Indices
      <4> QED
        BY <2>3, <4>1, ReliesOnClasses
    <3> QED
      BY <2>5, <3>1 DEF BegunKept
  <2>6. CASE Asked(i, c)
    <3>1. stack[i + 1].pc = "initialize" /\ stack[i + 1].who = c
      BY <2>6 DEF Asked, FrameAt
    <3>2. CASE i + 1 = Len(stack)
      BY <3>1, <3>2 DEF Top
    <3>3. CASE i + 1 # Len(stack)
      <4>1. i + 1 \in 1..(Len(stack) - 1)
        BY <1>1, <2>1, <3>3
      <4>2. stack[(i + 1) + 1].pc \in Calls(stack[i + 1].pc)
        BY <4>1 DEF WellNested
      <4> QED
        BY <3>1, <4>2 DEF Calls
    <3> QED
      BY <3>2, <3>3
  <2> QED
    BY <2>4, <2>5, <2>6
<1> QED
  BY <1>1, <1>3, <1>4 DEF Indices

(* The methods, and what has been made of them, are as before.              *)
LEMMA MethodsSame ==
    ASSUME TypeOK, SlotsLeadToMethods, CodeReady, BegunKept, body' = body,
           UNCHANGED methodVars
    PROVE  SlotsLeadToMethods' /\ CodeReady'
<1>1. UNCHANGED <<mstate, jitted, entry, header>>
  BY DEF methodVars
<1>2. SlotsLeadToMethods'
  BY <1>1 DEF SlotsLeadToMethods
<1>3. CodeReady'
  <2> SUFFICES ASSUME NEW m \in Methods
               PROVE  /\ jitted[m] = "code" <=> mstate[m] = "Compiled"
                      /\ jitted[m] = "code" =>
                           \A c \in Needed(m, Len(body[m])) : Begun(c)'
    BY <1>1 DEF CodeReady, Needed, ClassNeeded
  <2>1. \A c \in Needed(m, Len(body[m])) : c \in Classes
    BY NeededClasses DEF TypeOK
  <2> QED
    BY <2>1 DEF CodeReady, BegunKept
<1> QED
  BY <1>2, <1>3

LEMMA InstancesSame ==
    ASSUME TypeOK, InstancesInitialized, BegunKept, instances' = instances
    PROVE  InstancesInitialized'
BY DEF TypeOK, InstancesInitialized, BegunKept

-----------------------------------------------------------------------------
(* The steps that neither begin nor end an initialization, by what they do  *)
(* to the stack.                                                            *)

LEMMA SameReliance ==
    ASSUME body' = body, NEW f
    PROVE  ReliesOn(f)' = ReliesOn(f)
<1>1. \A m, n : Needed(m, n)' = Needed(m, n)
  BY DEF Needed, ClassNeeded
<1>2. Needed(f.who, Len(body[f.who]))' = Needed(f.who, Len(body[f.who]))
  BY DEF Needed, ClassNeeded
<1> QED
  BY <1>1, <1>2, Zenon DEF ReliesOn

LEMMA ReturnKeeps ==
    ASSUME TypeOK, StackInv, stack # <<>>, Return, UNCHANGED <<body, classVars>>,
           Top.pc \notin {"clinit", "complete"},
           Top.pc = "initialize" => Begun(Top.who)
    PROVE  stack' \in Seq(Frame) /\ StackInv' /\ BegunKept /\ Quiet
<1>1. Len(stack) \in Nat \ {0} /\ Top \in Frame
  BY TopFacts DEF TypeOK
<1>2. BelowKept /\ Len(stack') = Len(stack) - 1
  BY ReturnStack DEF TypeOK
<1>3. \A i \in Indices' : ~(i >= Len(stack))
  BY <1>1, <1>2 DEF Indices
<1>4. Quiet
  BY <1>2, <1>3, SameInits
<1>5. FlagOnStack' /\ FlagsEnd' /\ BegunKept
  BY <1>4, SameFlags DEF StackInv, Quiet
<1>6. WellNested'
  BY <1>1, <1>2, NestedStep DEF StackInv
<1>7. \A c : Top.pc = "initialize" /\ Top.who = c => Begun(c)'
  BY <1>1, <1>5, FrameFacts DEF BegunKept
<1>8. PromisesKept'
  BY <1>2, <1>3, <1>5, <1>7, PromisesStep DEF StackInv
<1> QED
  BY <1>2, <1>4, <1>5, <1>6, <1>8 DEF StackInv, BelowKept

LEMMA GoOnKeeps ==
    ASSUME TypeOK, StackInv, stack # <<>>, NEW f \in Frame, GoOn(f),
           UNCHANGED <<body, classVars>>,
           Top.pc \in {"jit", "translate", "run"}, f.pc \in {"translate", "run"},
           \A c \in ReliesOn(f) : Begun(c)
    PROVE  stack' \in Seq(Frame) /\ StackInv' /\ BegunKept /\ Quiet
<1>1. Len(stack) \in Nat \ {0}
  BY TopFacts DEF TypeOK
<1>2. BelowKept /\ Len(stack') = Len(stack) /\ stack'[Len(stack)] = f
  BY GoOnStack DEF TypeOK
<1>3. \A i \in Indices' : i >= Len(stack) => i = Len(stack)
  BY <1>1, <1>2 DEF Indices
<1>4. Quiet
  BY <1>2, <1>3, SameInits
<1>5. FlagOnStack' /\ FlagsEnd' /\ BegunKept
  BY <1>4, SameFlags DEF StackInv, Quiet
<1>6. WellNested'
  BY <1>1, <1>2, NestedStep DEF StackInv, Kind
<1>7. \A c \in ReliesOn(f) : Begun(c)'
  BY <1>5, ReliesOnClasses DEF BegunKept, TypeOK
<1>8. \A i \in Indices' : i >= Len(stack) =>
        \A c \in ReliesOn(stack[i])' : Begun(c)' \/ Asked(i, c)'
  <2> SUFFICES ASSUME NEW i \in Indices', i >= Len(stack), NEW c, c \in ReliesOn(stack[i])'
               PROVE  Begun(c)'
    OBVIOUS
  <2>2. stack'[i] = f
    BY <1>2, <1>3
  <2>3. c \in ReliesOn(f)
    BY <2>2, SameReliance
  <2> QED
    BY <1>7, <2>3
<1>9. PromisesKept'
  BY <1>2, <1>5, <1>8, PromisesStep DEF StackInv
<1> QED
  BY <1>2, <1>4, <1>5, <1>6, <1>9 DEF StackInv, BelowKept

LEMMA CallKeeps ==
    ASSUME TypeOK, StackInv, stack # <<>>, NEW f \in Frame, NEW g \in Frame, Call(f, g),
           UNCHANGED <<body, classVars>>,
           Top.pc \in {"jit", "translate", "run"}, f.pc \in {"translate", "run"},
           g.pc \in Calls(f.pc) \ {"clinit", "complete"},
           \A c \in ReliesOn(f) : Begun(c) \/ g = FrameAt("initialize", c),
           \A c \in ReliesOn(g) : Begun(c)
    PROVE  stack' \in Seq(Frame) /\ StackInv' /\ BegunKept /\ Quiet
<1>1. Len(stack) \in Nat \ {0}
  BY TopFacts DEF TypeOK
<1>2. /\ BelowKept /\ Len(stack') = Len(stack) + 1
      /\ stack'[Len(stack)] = f /\ stack'[Len(stack) + 1] = g
  BY CallStack DEF TypeOK
<1>3. \A i \in Indices' : i >= Len(stack) => i = Len(stack) \/ i = Len(stack) + 1
  BY <1>1, <1>2 DEF Indices
<1>4. Quiet
  BY <1>2, <1>3, SameInits
<1>5. FlagOnStack' /\ FlagsEnd' /\ BegunKept
  BY <1>4, SameFlags DEF StackInv, Quiet
<1>6. WellNested'
  BY <1>1, <1>2, NestedStep DEF StackInv, Kind
<1>7. /\ \A c \in ReliesOn(f) : Begun(c)' \/ g = FrameAt("initialize", c)
      /\ \A c \in ReliesOn(g) : Begun(c)'
  BY <1>5, ReliesOnClasses DEF BegunKept, TypeOK
<1>8. \A i \in Indices' : i >= Len(stack) =>
        \A c \in ReliesOn(stack[i])' : Begun(c)' \/ Asked(i, c)'
  <2> SUFFICES ASSUME NEW i \in Indices', i >= Len(stack), NEW c, c \in ReliesOn(stack[i])'
               PROVE  Begun(c)' \/ Asked(i, c)'
    OBVIOUS
  <2>1. CASE i = Len(stack)
    <3>1. c \in ReliesOn(f)
      BY <1>2, <2>1, SameReliance
    <3>2. i < Len(stack') /\ stack'[i + 1] = g
      BY <1>1, <1>2, <2>1
    <3> QED
      BY <1>7, <3>1, <3>2 DEF Asked, FrameAt
  <2>2. CASE i = Len(stack) + 1
    <3>1. c \in ReliesOn(g)
      BY <1>2, <2>2, SameReliance
    <3> QED
      BY <1>7, <3>1
  <2> QED
    BY <1>3, <2>1, <2>2
<1>9. PromisesKept'
  BY <1>2, <1>5, <1>8, PromisesStep DEF StackInv
<1> QED
  BY <1>2, <1>4, <1>5, <1>6, <1>9 DEF StackInv, BelowKept

-----------------------------------------------------------------------------
(* The steps of jit_a_method and of compiled code.                          *)

(* The innermost frame has been answered every call it made.                *)
LEMMA TopReady ==
    ASSUME TypeOK, StackInv, stack # <<>>
    PROVE  \A c \in ReliesOn(Top) : Begun(c)
<1>1. Len(stack) \in Nat \ {0}
  BY TopFacts DEF TypeOK
<1> QED
  BY <1>1 DEF StackInv, PromisesKept, Indices, Asked, Top

LEMMA NextFrame ==
    ASSUME TypeOK, stack # <<>>, Top.pc \in {"translate", "run"}
    PROVE  LET f == [Top EXCEPT !.at = @ + 1] IN
           /\ f \in Frame /\ f.pc = Top.pc /\ f.who = Top.who /\ f.at = Top.at + 1
           /\ Top.who \in Methods /\ Top.at \in Nat \ {0}
<1>1. Top \in [pc : {"jit", "translate", "run"}, who : Methods, at : Nat \ {0}]
  BY TopFacts DEF TypeOK, Frame
<1> QED
  BY <1>1 DEF Frame

(* An entry of a vtable, or jitted_code, leads to the stub or to code that  *)
(* is ready.                                                                *)
LEMMA EnteredReady ==
    ASSUME TypeOK, CodeReady, NEW m \in Methods, NEW code \in {"stub", "code"},
           code = "code" => jitted[m] = "code"
    PROVE  /\ Entered(m, code) \in Frame /\ Entered(m, code).pc \in {"jit", "run"}
           /\ Entered(m, code).who = m
           /\ \A c \in ReliesOn(Entered(m, code)) : Begun(c)
<1>1. CASE code = "stub"
  <2>1. Entered(m, code) = FrameAt("jit", m)
    BY <1>1 DEF Entered
  <2> QED
    BY <2>1, FrameAtFacts DEF ReliesOn
<1>2. CASE code = "code"
  <2>1. Entered(m, code) = FrameAt("run", m)
    BY <1>2 DEF Entered
  <2>2. FrameAt("run", m).pc = "run" /\ FrameAt("run", m).who = m
        /\ FrameAt("run", m) \in Frame
    BY FrameAtFacts
  <2>3. ReliesOn(FrameAt("run", m)) = Needed(m, Len(body[m]))
    BY <2>2 DEF ReliesOn
  <2> QED
    BY <1>2, <2>1, <2>2, <2>3 DEF CodeReady
<1> QED
  BY <1>1, <1>2

(* The part of the invariant that a step that compiles and makes nothing    *)
(* leaves to be shown.                                                      *)
LEMMA RestSame ==
    ASSUME IInv, stack' \in Seq(Frame), StackInv', BegunKept,
           UNCHANGED <<body, classVars, methodVars, instances, crashed>>
    PROVE  IInv'
<1>1. TypeOK'
  BY DEF IInv, TypeOK, classVars, methodVars
<1>2. SlotsLeadToMethods' /\ CodeReady'
  BY MethodsSame DEF IInv
<1>3. InstancesInitialized'
  BY InstancesSame DEF IInv
<1> QED
  BY <1>1, <1>2, <1>3 DEF IInv

LEMMA AtFacts ==
    ASSUME TypeOK, NEW pc, At(pc)
    PROVE  stack # <<>> /\ Top.pc = pc /\ Top \in Frame /\ Len(stack) \in Nat \ {0}
BY TopFacts DEF At, TypeOK

LEMMA InitializeReturnsStep == IInv /\ InitializeReturns => IInv' /\ Quiet
<1> SUFFICES ASSUME IInv, InitializeReturns PROVE IInv' /\ Quiet
  OBVIOUS
<1>1. /\ stack # <<>> /\ Top.pc = "initialize" /\ Top \in Frame
      /\ Settled(Top.who) /\ Return
      /\ UNCHANGED <<body, classVars, methodVars, instances, crashed>>
  BY AtFacts DEF InitializeReturns, IInv
<1>2. Top.who \in Classes
  BY <1>1, FrameFacts
<1>3. Begun(Top.who)
  BY <1>1, <1>2 DEF Settled, IInv, StackInv, FlagOnStack, Begun
<1>4. stack' \in Seq(Frame) /\ StackInv' /\ BegunKept /\ Quiet
  BY <1>1, <1>3, ReturnKeeps DEF IInv
<1> QED
  BY <1>1, <1>4, RestSame

LEMMA JitReturnsStep == IInv /\ JitReturns => IInv' /\ Quiet
<1> SUFFICES ASSUME IInv, JitReturns PROVE IInv' /\ Quiet
  OBVIOUS
<1>1. /\ stack # <<>> /\ Top.pc = "jit" /\ Top \in Frame
      /\ mstate[Top.who] = "Compiled" /\ GoOn(FrameAt("run", Top.who))
      /\ UNCHANGED <<body, classVars, methodVars, instances, crashed>>
  BY AtFacts DEF JitReturns, IInv
<1>2. Top.who \in Methods
  BY <1>1, FrameFacts
<1>3. Entered(Top.who, "code") = FrameAt("run", Top.who)
  BY DEF Entered
<1>4. jitted[Top.who] = "code"
  BY <1>1, <1>2 DEF IInv, CodeReady
<1>5. \A c \in ReliesOn(FrameAt("run", Top.who)) : Begun(c)
  BY <1>2, <1>3, <1>4, EnteredReady DEF IInv
<1>6. FrameAt("run", Top.who) \in Frame /\ FrameAt("run", Top.who).pc = "run"
  BY <1>2, FrameAtFacts
<1>7. stack' \in Seq(Frame) /\ StackInv' /\ BegunKept /\ Quiet
  BY <1>1, <1>5, <1>6, GoOnKeeps DEF IInv
<1> QED
  BY <1>1, <1>7, RestSame

LEMMA JitBeginsStep == IInv /\ JitBegins => IInv' /\ Quiet
<1> SUFFICES ASSUME IInv, JitBegins PROVE IInv' /\ Quiet
  OBVIOUS
<1> DEFINE m == Top.who
           f == FrameAt("translate", m)
           g == FrameAt("initialize", Owner[m])
<1>1. /\ stack # <<>> /\ Top.pc = "jit" /\ Top \in Frame
      /\ mstate[m] # "Compiled" /\ mstate' = [mstate EXCEPT ![m] = "BeingCompiled"]
      /\ Call(f, g)
      /\ UNCHANGED <<body, classVars, jitted, entry, header, instances, crashed>>
  BY AtFacts DEF JitBegins, IInv
<1>2. m \in Methods /\ Owner[m] \in Classes
  BY <1>1, FrameFacts, MethodsAssumption
<1>3. /\ f \in Frame /\ f.pc = "translate" /\ f.who = m /\ f.at = 1
      /\ g \in Frame /\ g.pc = "initialize"
  BY <1>2, FrameAtFacts
<1> HIDE DEF f, g, m
<1>4. ReliesOn(f) = {Owner[m]}
  <2>1. ReliesOn(f) = Needed(m, f.at - 1)
    BY <1>3 DEF ReliesOn
  <2>2. \A k \in DOMAIN body[m] : ~(k <= f.at - 1)
    BY <1>2, <1>3, BodyFacts DEF IInv, TypeOK
  <2> QED
    BY <2>1, <2>2 DEF Needed
<1>5. ReliesOn(g) = {}
  BY <1>3 DEF ReliesOn
<1>6. stack' \in Seq(Frame) /\ StackInv' /\ BegunKept /\ Quiet
  BY <1>1, <1>3, <1>4, <1>5, CallKeeps DEF IInv, Calls, g
<1>7. TypeOK'
  BY <1>1, <1>2, <1>6 DEF IInv, TypeOK, classVars
<1>8. SlotsLeadToMethods'
  BY <1>1 DEF IInv, SlotsLeadToMethods
<1>9. CodeReady'
  <2> SUFFICES ASSUME NEW n \in Methods
               PROVE  /\ jitted[n] = "code" <=> mstate'[n] = "Compiled"
                      /\ jitted[n] = "code" => \A c \in Needed(n, Len(body[n])) : Begun(c)'
    BY <1>1 DEF CodeReady, Needed, ClassNeeded
  <2>1. \A c \in Needed(n, Len(body[n])) : c \in Classes
    BY NeededClasses DEF IInv, TypeOK
  <2>2. jitted[n] = "code" => \A c \in Needed(n, Len(body[n])) : Begun(c)'
    BY <1>6, <2>1 DEF IInv, CodeReady, BegunKept
  <2>3. jitted[n] = "code" <=> mstate'[n] = "Compiled"
    BY <1>1, <1>2 DEF IInv, CodeReady, TypeOK
  <2> QED
    BY <2>2, <2>3
<1>10. InstancesInitialized'
  BY <1>1, <1>6, InstancesSame DEF IInv
<1> QED
  BY <1>6, <1>7, <1>8, <1>9, <1>10 DEF IInv

LEMMA TranslateStep == IInv /\ Translate => IInv' /\ Quiet
<1> SUFFICES ASSUME IInv, Translate PROVE IInv' /\ Quiet
  OBVIOUS
<1> DEFINE m    == Top.who
           ins  == body[m][Top.at]
           next == [Top EXCEPT !.at = @ + 1]
           g    == FrameAt("initialize", ClassNeeded(m, ins))
<1>1. /\ stack # <<>> /\ Top.pc = "translate" /\ Top \in Frame
      /\ ~(Top.at > Len(body[m]))
      /\ IF ClassNeeded(m, ins) = NoClass THEN GoOn(next) ELSE Call(next, g)
      /\ UNCHANGED <<body, classVars, methodVars, instances, crashed>>
  BY AtFacts DEF Translate, Translating, Translated, Callee, IInv
<1>2. /\ next \in Frame /\ next.pc = "translate" /\ next.who = m /\ next.at = Top.at + 1
      /\ m \in Methods /\ Top.at \in Nat \ {0}
  BY <1>1, NextFrame DEF IInv
<1>3. Top.at \in DOMAIN body[m] /\ ClassNeeded(m, ins) \in Classes \union {NoClass}
  <2>1. Top.at \in DOMAIN body[m]
    BY <1>1, <1>2, BodyFacts DEF IInv, TypeOK
  <2> QED
    BY <1>2, <2>1, InstrFacts DEF IInv, TypeOK
<1>4. ReliesOn(Top) = Needed(m, Top.at - 1) /\ ReliesOn(next) = Needed(m, next.at - 1)
  BY <1>1, <1>2 DEF ReliesOn
<1> HIDE DEF m, next, g
<1>5. \A c \in ReliesOn(next) : c \in ReliesOn(Top) \/ c = ClassNeeded(m, ins)
  <2>1. \A k \in DOMAIN body[m] : k <= next.at - 1 => k <= Top.at - 1 \/ k = Top.at
    BY <1>2, BodyFacts DEF IInv, TypeOK
  <2> QED
    BY <1>4, <2>1 DEF Needed
<1>6. \A c \in ReliesOn(next) : Begun(c) \/ c = ClassNeeded(m, ins)
  BY <1>1, <1>5, TopReady DEF IInv
<1>7. CASE ClassNeeded(m, ins) = NoClass
  <2>1. NoClass \notin ReliesOn(next)
    BY <1>2, ReliesOnClasses, ClassesAssumption DEF IInv, TypeOK
  <2>2. \A c \in ReliesOn(next) : Begun(c)
    BY <1>6, <1>7, <2>1
  <2>3. stack' \in Seq(Frame) /\ StackInv' /\ BegunKept /\ Quiet
    BY <1>1, <1>2, <1>7, <2>2, GoOnKeeps DEF IInv
  <2> QED
    BY <1>1, <2>3, RestSame
<1>8. CASE ClassNeeded(m, ins) # NoClass
  <2>1. g \in Frame /\ g.pc = "initialize"
    BY <1>3, <1>8, FrameAtFacts DEF g
  <2>2. \A c \in ReliesOn(next) : Begun(c) \/ g = FrameAt("initialize", c)
    BY <1>6 DEF g
  <2>3. g.pc \in Calls(next.pc) \ {"clinit", "complete"} /\ ReliesOn(g) = {}
    BY <1>2, <2>1 DEF Calls, ReliesOn
  <2>4. stack' \in Seq(Frame) /\ StackInv' /\ BegunKept /\ Quiet
    BY <1>1, <1>2, <1>8, <2>1, <2>2, <2>3, CallKeeps DEF IInv
  <2> QED
    BY <1>1, <2>4, RestSame
<1> QED
  BY <1>7, <1>8

(* Where the code of a method is installed, there its slot is.              *)
LEMMA InstallStep ==
    ASSUME TypeOK, SlotsLeadToMethods, NEW m \in Methods, UpdateVtable(m),
           jitted' = [jitted EXCEPT ![m] = "code"]
    PROVE  /\ entry' \in [Classes -> [Slots -> [method : Methods \union {NoMethod},
                                                 code : {"stub", "code"}]]]
           /\ header' \in [Classes -> {"header", "code"}]
           /\ SlotsLeadToMethods'
<1> DEFINE E == [method : Methods \union {NoMethod}, code : {"stub", "code"}]
           new == [method |-> m, code |-> "code"]
           o   == Owner[m]
<1>1. /\ o \in Classes /\ jitted \in [Methods -> {"stub", "code"}]
      /\ entry \in [Classes -> [Slots -> E]] /\ header \in [Classes -> {"header", "code"}]
      /\ new \in E /\ new.method = m /\ new.code = "code"
  BY MethodsAssumption DEF TypeOK
<1>2. /\ jitted'[m] = "code" /\ \A n \in Methods : n # m => jitted'[n] = jitted[n]
  BY <1>1
<1>3. \A c \in Classes, s \in Slots :
        /\ entry[c][s].method = Table[c][s]
        /\ entry[c][s].code = "code" => Table[c][s] \in Methods /\ jitted[Table[c][s]] = "code"
  BY DEF SlotsLeadToMethods
<1> HIDE DEF E, new, o
<1>4. \A n \in Methods : jitted[n] = "code" => jitted'[n] = "code"
  BY <1>2
<1>5. CASE Slot[m] = 0
  <2>1. header' = [header EXCEPT ![o] = "code"] /\ entry' = entry
    BY <1>5 DEF UpdateVtable, o
  <2>2. header' \in [Classes -> {"header", "code"}]
    BY <1>1, <2>1
  <2>3. ASSUME NEW c \in Classes
        PROVE  header'[c] = "code" <=>
                 \E n \in Methods : Owner[n] = c /\ Slot[n] = 0 /\ jitted'[n] = "code"
    <3>1. CASE c = o
      BY <1>1, <1>2, <1>5, <2>1, <3>1 DEF o
    <3>2. CASE c # o
      <4>1. header'[c] = header[c]
        BY <1>1, <2>1, <3>2
      <4>2. \A n \in Methods : Owner[n] = c => jitted'[n] = jitted[n]
        BY <1>2, <3>2 DEF o
      <4> QED
        BY <4>1, <4>2 DEF SlotsLeadToMethods
    <3> QED
      BY <3>1, <3>2
  <2> QED
    BY <1>1, <1>3, <1>4, <2>1, <2>2, <2>3 DEF SlotsLeadToMethods, E
<1>6. CASE Slot[m] # 0
  <2> DEFINE s == Slot[m]
  <2>1. s \in Slots /\ Table[o][s] = m
    BY <1>6, TablesAssumption, VtablesAssumption DEF o
  <2>2. entry' = [entry EXCEPT ![o][s] = new] /\ header' = header
    BY <1>6 DEF UpdateVtable, o, new
  <2> HIDE DEF s
  <2>3. /\ entry' \in [Classes -> [Slots -> E]]
        /\ entry'[o][s] = new
        /\ \A c \in Classes, t \in Slots : c # o \/ t # s => entry'[c][t] = entry[c][t]
    BY <1>1, <2>1, <2>2
  <2>4. ASSUME NEW c \in Classes, NEW t \in Slots
        PROVE  /\ entry'[c][t].method = Table[c][t]
               /\ entry'[c][t].code = "code" =>
                    Table[c][t] \in Methods /\ jitted'[Table[c][t]] = "code"
    <3>1. CASE c = o /\ t = s
      BY <1>1, <1>2, <2>1, <2>3, <3>1
    <3>2. CASE c # o \/ t # s
      BY <1>3, <1>4, <2>3, <3>2
    <3> QED
      BY <3>1, <3>2
  <2>5. ASSUME NEW c \in Classes
        PROVE  header'[c] = "code" <=>
                 \E n \in Methods : Owner[n] = c /\ Slot[n] = 0 /\ jitted'[n] = "code"
    <3>1. \A n \in Methods : Slot[n] = 0 => jitted'[n] = jitted[n]
      BY <1>2, <1>6
    <3> QED
      BY <2>2, <3>1 DEF SlotsLeadToMethods
  <2> QED
    BY <1>1, <2>2, <2>3, <2>4, <2>5 DEF SlotsLeadToMethods, E
<1> QED
  BY <1>5, <1>6

LEMMA JitEndsStep == IInv /\ JitEnds => IInv' /\ Quiet
<1> SUFFICES ASSUME IInv, JitEnds PROVE IInv' /\ Quiet
  OBVIOUS
<1> DEFINE m == Top.who
           f == FrameAt("run", m)
<1>1. /\ stack # <<>> /\ Top.pc = "translate" /\ Top \in Frame
      /\ Top.at > Len(body[m]) \/ m \in Natives
      /\ jitted' = [jitted EXCEPT ![m] = "code"] /\ UpdateVtable(m)
      /\ mstate' = [mstate EXCEPT ![m] = "Compiled"]
      /\ GoOn(f)
      /\ UNCHANGED <<body, classVars, instances, crashed>>
  BY AtFacts, MethodsAssumption DEF JitEnds, Translated, Translating, IInv
<1>2. m \in Methods /\ Top.at \in Nat \ {0} /\ f \in Frame /\ f.pc = "run" /\ f.who = m
  BY <1>1, FrameFacts, FrameAtFacts
<1>3. ReliesOn(Top) = Needed(m, Top.at - 1) /\ ReliesOn(f) = Needed(m, Len(body[m]))
  BY <1>1, <1>2 DEF ReliesOn
<1> HIDE DEF m, f
<1>4. \A c \in Needed(m, Len(body[m])) : c \in Needed(m, Top.at - 1)
  <2>1. CASE Top.at > Len(body[m])
    <3>1. \A k \in DOMAIN body[m] : k <= Top.at - 1
      BY <1>2, <2>1, BodyFacts DEF IInv, TypeOK
    <3> QED
      BY <3>1 DEF Needed
  <2>2. CASE m \in Natives
    <3>1. \A k \in DOMAIN body[m] : body[m][k].op = "reflect"
      BY <1>2, <2>2, ProgramsAssumption DEF IInv, TypeOK, Lawful
    <3>2. \A k \in DOMAIN body[m] : ClassNeeded(m, body[m][k]) = NoClass
      BY <3>1 DEF ClassNeeded
    <3> QED
      BY <3>2 DEF Needed
  <2> QED
    BY <1>1, <2>1, <2>2
<1>5. \A c \in Needed(m, Len(body[m])) : Begun(c)
  BY <1>1, <1>3, <1>4, TopReady DEF IInv
<1>6. stack' \in Seq(Frame) /\ StackInv' /\ BegunKept /\ Quiet
  BY <1>1, <1>2, <1>3, <1>5, GoOnKeeps DEF IInv
<1>7. /\ entry' \in [Classes -> [Slots -> [method : Methods \union {NoMethod},
                                            code : {"stub", "code"}]]]
      /\ header' \in [Classes -> {"header", "code"}]
      /\ SlotsLeadToMethods'
  BY <1>1, <1>2, InstallStep DEF IInv
<1>8. TypeOK'
  BY <1>1, <1>2, <1>6, <1>7 DEF IInv, TypeOK, classVars
<1>9. CodeReady'
  <2> SUFFICES ASSUME NEW n \in Methods
               PROVE  /\ jitted'[n] = "code" <=> mstate'[n] = "Compiled"
                      /\ jitted'[n] = "code" => \A c \in Needed(n, Len(body[n])) : Begun(c)'
    BY <1>1 DEF CodeReady, Needed, ClassNeeded
  <2>1. \A c \in Needed(n, Len(body[n])) : c \in Classes
    BY NeededClasses DEF IInv, TypeOK
  <2>2. CASE n = m
    <3>1. jitted'[n] = "code" /\ mstate'[n] = "Compiled"
      BY <1>1, <2>2 DEF IInv, TypeOK
    <3> QED
      BY <1>5, <1>6, <2>1, <2>2, <3>1 DEF BegunKept
  <2>3. CASE n # m
    <3>1. jitted'[n] = jitted[n] /\ mstate'[n] = mstate[n]
      BY <1>1, <2>3 DEF IInv, TypeOK
    <3> QED
      BY <1>6, <2>1, <3>1 DEF IInv, CodeReady, BegunKept
  <2> QED
    BY <2>2, <2>3
<1>10. InstancesInitialized'
  BY <1>1, <1>6, InstancesSame DEF IInv
<1> QED
  BY <1>6, <1>7, <1>8, <1>9, <1>10 DEF IInv

(* An instruction of a running method, and the frame after it.              *)
LEMMA ExecutingFacts ==
    ASSUME IInv, NEW ops, Executing(ops)
    PROVE  /\ stack # <<>> /\ Top.pc = "run" /\ Top.who \in Methods
           /\ Top.at \in DOMAIN body[Top.who] /\ body[Top.who][Top.at].op \in ops
           /\ NextInstr \in Frame /\ NextInstr.pc = "run"
           /\ \A c \in ReliesOn(NextInstr) : Begun(c)
<1>1. /\ stack # <<>> /\ Top.pc = "run" /\ Top \in Frame
      /\ Top.at <= Len(body[Top.who]) /\ body[Top.who][Top.at].op \in ops
  BY AtFacts DEF Executing, IInv
<1>2. /\ NextInstr \in Frame /\ NextInstr.pc = "run" /\ NextInstr.who = Top.who
      /\ Top.who \in Methods /\ Top.at \in Nat \ {0}
  BY <1>1, NextFrame DEF NextInstr, IInv
<1>3. Top.at \in DOMAIN body[Top.who]
  BY <1>1, <1>2, BodyFacts DEF IInv, TypeOK
<1>4. ReliesOn(NextInstr) = ReliesOn(Top)
  BY <1>1, <1>2 DEF ReliesOn
<1>5. \A c \in ReliesOn(NextInstr) : Begun(c)
  BY <1>1, <1>4, TopReady DEF IInv
<1> QED
  BY <1>1, <1>2, <1>3, <1>5

LEMMA PassStep == IInv /\ Pass => IInv' /\ Quiet
<1> SUFFICES ASSUME IInv, Pass PROVE IInv' /\ Quiet
  OBVIOUS
<1>1. /\ Executing(Ops) /\ GoOn(NextInstr)
      /\ UNCHANGED <<body, classVars, methodVars, instances, crashed>>
  BY DEF Pass
<1>2. stack' \in Seq(Frame) /\ StackInv' /\ BegunKept /\ Quiet
  BY <1>1, ExecutingFacts, GoOnKeeps DEF IInv
<1> QED
  BY <1>1, <1>2, RestSame

(* A class that a method makes instances of has a constructor that the     *)
(* method calls, so the translation of the method initialized it.           *)
LEMMA NewIsNeeded ==
    ASSUME body \in Programs, NEW m \in Methods, NEW i \in DOMAIN body[m],
           body[m][i].op = "new"
    PROVE  body[m][i].arg \in Needed(m, Len(body[m]))
<1>1. PICK j \in DOMAIN body[m] : /\ body[m][j].op = "direct"
                                  /\ Owner[body[m][j].arg] = body[m][i].arg
  BY ProgramsAssumption DEF Lawful
<1>2. ClassNeeded(m, body[m][j]) = body[m][i].arg
  BY <1>1 DEF ClassNeeded
<1>3. j <= Len(body[m])
  BY <1>1, BodyFacts
<1>4. body[m][i].arg \in Classes
  BY InstrFacts
<1> QED
  BY <1>2, <1>3, <1>4, ClassesAssumption DEF Needed

LEMMA AllocateStep == IInv /\ Allocate => IInv' /\ Quiet
<1> SUFFICES ASSUME IInv, Allocate PROVE IInv' /\ Quiet
  OBVIOUS
<1> DEFINE ins == body[Top.who][Top.at]
           i   == [class |-> Arg, by |-> ins.op]
<1>1. /\ Executing({"new", "reflect"}) /\ GoOn(NextInstr)
      /\ instances' = instances \union {i}
      /\ UNCHANGED <<body, classVars, methodVars, crashed>>
  BY DEF Allocate
<1>2. /\ stack # <<>> /\ Top.pc = "run" /\ Top.who \in Methods
      /\ Top.at \in DOMAIN body[Top.who] /\ ins.op \in {"new", "reflect"}
  BY <1>1, ExecutingFacts
<1>3. stack' \in Seq(Frame) /\ StackInv' /\ BegunKept /\ Quiet
  BY <1>1, ExecutingFacts, GoOnKeeps DEF IInv
<1>4. Arg \in Classes
  BY <1>2, InstrFacts DEF IInv, TypeOK, Arg
<1>5. i.by = "new" => Begun(i.class)
  <2> SUFFICES ASSUME ins.op = "new" PROVE Begun(Arg)
    OBVIOUS
  <2>1. ins.arg \in Needed(Top.who, Len(body[Top.who]))
    BY <1>2, NewIsNeeded DEF IInv, TypeOK
  <2>2. ReliesOn(Top) = Needed(Top.who, Len(body[Top.who]))
    BY <1>2 DEF ReliesOn
  <2> QED
    BY <1>2, <2>1, <2>2, TopReady DEF IInv, Arg
<1> HIDE DEF i, ins
<1>6. i \in [class : Classes, by : {"vm", "new", "reflect"}]
  BY <1>2, <1>4 DEF i
<1>7. TypeOK'
  BY <1>1, <1>3, <1>6 DEF IInv, TypeOK, classVars, methodVars
<1>8. SlotsLeadToMethods' /\ CodeReady'
  BY <1>1, <1>3, MethodsSame DEF IInv
<1>9. InstancesInitialized'
  <2>1. \A j \in instances : j.class \in Classes /\ (j.by = "new" => Begun(j.class))
    BY DEF IInv, TypeOK, InstancesInitialized
  <2>2. i.class \in Classes
    BY <1>6
  <2> QED
    BY <1>1, <1>3, <1>5, <2>1, <2>2 DEF BegunKept, InstancesInitialized
<1> QED
  BY <1>3, <1>7, <1>8, <1>9 DEF IInv

LEMMA CallDirectStep == IInv /\ CallDirect => IInv' /\ Quiet
<1> SUFFICES ASSUME IInv, CallDirect PROVE IInv' /\ Quiet
  OBVIOUS
<1>1. /\ Executing({"direct"}) /\ Call(NextInstr, Entered(Arg, jitted[Arg]))
      /\ UNCHANGED <<body, classVars, methodVars, instances, crashed>>
  BY DEF CallDirect
<1>2. Arg \in Methods /\ jitted[Arg] \in {"stub", "code"}
  BY <1>1, ExecutingFacts, InstrFacts DEF IInv, TypeOK, Arg
<1>3. /\ Entered(Arg, jitted[Arg]) \in Frame /\ Entered(Arg, jitted[Arg]).pc \in {"jit", "run"}
      /\ \A c \in ReliesOn(Entered(Arg, jitted[Arg])) : Begun(c)
  BY <1>2, EnteredReady DEF IInv
<1>4. Entered(Arg, jitted[Arg]).pc \in Calls(NextInstr.pc) \ {"clinit", "complete"}
  BY <1>1, <1>3, ExecutingFacts DEF Calls
<1>5. stack' \in Seq(Frame) /\ StackInv' /\ BegunKept /\ Quiet
  BY <1>1, <1>3, <1>4, ExecutingFacts, CallKeeps DEF IInv
<1> QED
  BY <1>1, <1>5, RestSame

LEMMA CallVirtualStep == IInv /\ CallVirtual => IInv' /\ Quiet
<1> SUFFICES ASSUME IInv, CallVirtual PROVE IInv' /\ Quiet
  OBVIOUS
<1>1. PICK i \in instances :
        /\ Dispatch[i.class][Arg] # 0
        /\ Call(NextInstr, Entered(entry[i.class][Dispatch[i.class][Arg]].method,
                                   entry[i.class][Dispatch[i.class][Arg]].code))
  BY DEF CallVirtual
<1>2. /\ Executing({"virtual", "interface"})
      /\ UNCHANGED <<body, classVars, methodVars, instances, crashed>>
  BY DEF CallVirtual
<1> DEFINE s == Dispatch[i.class][Arg]
           e == entry[i.class][s]
           g == Entered(e.method, e.code)
<1>3. Arg \in Methods /\ i.class \in Classes
  BY <1>2, ExecutingFacts, InstrFacts DEF IInv, TypeOK, Arg
<1>4. s \in Slots /\ Table[i.class][s] \in Methods
  BY <1>1, <1>3, TablesAssumption, VtablesAssumption
<1> HIDE DEF s
<1>5. /\ e.method \in Methods /\ e.code \in {"stub", "code"}
      /\ e.code = "code" => jitted[e.method] = "code"
  BY <1>3, <1>4 DEF IInv, TypeOK, SlotsLeadToMethods
<1> HIDE DEF e
<1>6. /\ g \in Frame /\ g.pc \in {"jit", "run"} /\ \A c \in ReliesOn(g) : Begun(c)
  BY <1>5, EnteredReady DEF IInv
<1>7. Call(NextInstr, g)
  BY <1>1 DEF e, s
<1> HIDE DEF g
<1>8. g.pc \in Calls(NextInstr.pc) \ {"clinit", "complete"}
  BY <1>2, <1>6, ExecutingFacts DEF Calls
<1>9. stack' \in Seq(Frame) /\ StackInv' /\ BegunKept /\ Quiet
  BY <1>2, <1>6, <1>7, <1>8, ExecutingFacts, CallKeeps DEF IInv
<1> QED
  BY <1>2, <1>9, RestSame

LEMMA MethodReturnsStep == IInv /\ MethodReturns => IInv' /\ Quiet
<1> SUFFICES ASSUME IInv, MethodReturns PROVE IInv' /\ Quiet
  OBVIOUS
<1>1. /\ stack # <<>> /\ Top.pc = "run" /\ Return
      /\ UNCHANGED <<body, classVars, methodVars, instances, crashed>>
  BY AtFacts DEF MethodReturns, IInv
<1>2. stack' \in Seq(Frame) /\ StackInv' /\ BegunKept /\ Quiet
  BY <1>1, ReturnKeeps DEF IInv
<1> QED
  BY <1>1, <1>2, RestSame

(* Nothing but crashed changes, when nothing at all does and when the VM    *)
(* stops.                                                                   *)
LEMMA StopsStep ==
    ASSUME IInv, UNCHANGED <<body, classVars, methodVars, stack, instances>>,
           crashed' \in BOOLEAN
    PROVE  IInv'
<1>1. /\ body' = body /\ state' = state /\ flag' = flag /\ stack' = stack
      /\ mstate' = mstate /\ jitted' = jitted /\ entry' = entry /\ header' = header
      /\ instances' = instances
  BY DEF classVars, methodVars
<1>2. TypeOK'
  BY <1>1 DEF IInv, TypeOK
<1>3. InitFrames' = InitFrames /\ Indices' = Indices
  BY <1>1 DEF InitFrames, Indices
<1>4. InitsSame
  BY <1>1, <1>3 DEF InitsSame, classVars
<1>5. FlagOnStack' /\ FlagsEnd' /\ BegunKept
  BY <1>4, SameFlags DEF IInv, StackInv
<1>6. WellNested'
  BY <1>1 DEF IInv, StackInv, WellNested
<1>7. PromisesKept'
  <2> SUFFICES ASSUME NEW i \in Indices, NEW c, c \in ReliesOn(stack[i])'
               PROVE  Begun(c)' \/ Asked(i, c)'
    BY <1>3 DEF PromisesKept
  <2>1. c \in ReliesOn(stack[i])
    BY <1>1, SameReliance
  <2>2. stack[i] \in Frame
    BY ElementOf DEF IInv, TypeOK, Indices
  <2>3. c \in Classes
    BY <2>1, <2>2, ReliesOnClasses DEF IInv, TypeOK
  <2> QED
    BY <1>1, <1>5, <2>1, <2>3 DEF IInv, StackInv, PromisesKept, BegunKept, Asked
<1>8. SlotsLeadToMethods' /\ CodeReady'
  BY <1>1, <1>5, MethodsSame DEF IInv, methodVars
<1>9. InstancesInitialized'
  BY <1>1, <1>5, InstancesSame DEF IInv
<1> QED
  BY <1>2, <1>5, <1>6, <1>7, <1>8, <1>9 DEF IInv, StackInv

-----------------------------------------------------------------------------
(* The steps of class_initialize that begin, go on with and end an          *)
(* initialization.                                                          *)

(* A class is initialized by one frame.                                     *)
LEMMA OneFrame ==
    ASSUME FlagOnStack, NEW c \in Classes, NEW i \in InitFrames, NEW j \in InitFrames,
           stack[i].who = c, stack[j].who = c
    PROVE  i = j
BY Zenon DEF FlagOnStack

(* The frame that begins to initialize c is the one new frame that does.    *)
LEMMA BeginFlags ==
    ASSUME TypeOK, FlagOnStack, FlagsEnd, stack # <<>>, BelowKept, NEW c \in Classes,
           Top.pc = "initialize", ~Settled(c),
           state' = [state EXCEPT ![c] = @ \union {"Initializing"}],
           flag' = [flag EXCEPT ![c] = TRUE],
           Len(stack') \in {Len(stack), Len(stack) + 1},
           stack'[Len(stack)] = FrameAt("clinit", c),
           Len(stack') > Len(stack) => stack'[Len(stack) + 1].pc = "initialize"
    PROVE  FlagOnStack' /\ FlagsEnd' /\ BegunKept /\ Begun(c)' /\ Begins(c)
<1> DEFINE n == Len(stack)
<1>1. n \in Nat \ {0} /\ n \in Indices'
  BY TopFacts DEF TypeOK, Indices
<1>2. stack'[n].pc = "clinit" /\ stack'[n].who = c
  BY DEF FrameAt
<1>3. \A i \in InitFrames : i \in 1..(n - 1)
  BY <1>1 DEF InitFrames, Indices, Top
<1>4. \A i \in 1..(n - 1) : stack'[i] = stack[i] /\ i \in Indices /\ i \in Indices'
  BY <1>1 DEF BelowKept, Indices
<1>5. \A i \in InitFrames' : i \in 1..(n - 1) \/ i = n
  BY <1>1 DEF InitFrames, Indices
<1>6. InitFrames' = InitFrames \union {n}
  BY <1>1, <1>2, <1>3, <1>4, <1>5 DEF InitFrames
<1>7. \A i \in InitFrames : stack'[i].who = stack[i].who /\ stack[i].who # c
  BY <1>3, <1>4 DEF FlagOnStack, Settled
<1>8. /\ flag'[c] = TRUE
      /\ \A d \in Classes : d # c => flag'[d] = flag[d] /\ state'[d] = state[d]
      /\ \A d \in Classes : "Initialized" \in state'[d] <=> "Initialized" \in state[d]
  BY DEF TypeOK
<1> HIDE DEF n
<1>9. \A d \in Classes : d # c => ((\E i \in InitFrames : stack[i].who = d)'
                                       <=> \E i \in InitFrames : stack[i].who = d)
  BY <1>2, <1>6, <1>7
<1>10. FlagOnStack'
  <2> SUFFICES ASSUME NEW d \in Classes
               PROVE  /\ flag'[d] = (\E i \in InitFrames : stack[i].who = d)'
                      /\ \A i, j \in InitFrames' :
                            stack'[i].who = d /\ stack'[j].who = d => i = j
    BY DEF FlagOnStack
  <2>1. CASE d = c
    <3>1. flag'[d] /\ (\E i \in InitFrames : stack[i].who = d)'
      BY <1>2, <1>6, <1>8, <2>1
    <3>2. flag'[d] = (\E i \in InitFrames : stack[i].who = d)'
      BY <1>8, <2>1, <3>1, Zenon
    <3> QED
      BY <1>6, <1>7, <2>1, <3>2
  <2>2. CASE d # c
    <3>1. flag'[d] = flag[d]
      BY <1>8, <2>2
    <3>2. flag'[d] = (\E i \in InitFrames : stack[i].who = d)'
      BY <1>9, <2>2, <3>1, Zenon DEF FlagOnStack
    <3>3. ASSUME NEW i \in InitFrames', NEW j \in InitFrames',
                 stack'[i].who = d, stack'[j].who = d
          PROVE  i = j
      <4>1. i \in InitFrames /\ j \in InitFrames /\ stack[i].who = d /\ stack[j].who = d
        BY <1>2, <1>6, <1>7, <2>2, <3>3
      <4> QED
        BY <4>1, OneFrame
    <3> QED
      BY <3>2, <3>3
  <2> QED
    BY <2>1, <2>2
<1>11. FlagsEnd'
  BY <1>8 DEF FlagsEnd, Settled
<1>12. Begun(c)'
  BY <1>2, <1>6 DEF Begun
<1>13. BegunKept
  BY <1>6, <1>7, <1>8 DEF Begun, BegunKept
<1>14. Begins(c)
  <2>1. Initialized' = Initialized
    BY <1>8 DEF Initialized
  <2>2. \A i \in InitFrames : i < n /\ stack'[i] = stack[i]
    BY <1>1, <1>3, <1>4
  <2> QED
    BY <1>6, <2>1, <2>2 DEF Begins, n
<1> QED
  BY <1>10, <1>11, <1>12, <1>13, <1>14

LEMMA InitializeBeginsStep ==
    IInv /\ InitializeBegins => IInv' /\ \E c \in Classes : Begins(c)
<1> SUFFICES ASSUME IInv, InitializeBegins PROVE IInv' /\ \E c \in Classes : Begins(c)
  OBVIOUS
<1>c. PICK c : c = Top.who
  OBVIOUS
<1> DEFINE f == FrameAt("clinit", c)
           g == FrameAt("initialize", Super[c])
<1>1. /\ stack # <<>> /\ Top.pc = "initialize" /\ Top \in Frame /\ Len(stack) \in Nat \ {0}
      /\ ~Settled(c)
      /\ state' = [state EXCEPT ![c] = @ \union {"Initializing"}]
      /\ flag' = [flag EXCEPT ![c] = TRUE]
      /\ IF Super[c] = NoClass THEN GoOn(f) ELSE Call(f, g)
      /\ UNCHANGED <<body, methodVars, instances, crashed>>
  BY <1>c, AtFacts DEF InitializeBegins, IInv
<1>2. c \in Classes /\ Super[c] \in Classes \union {NoClass}
  BY <1>c, <1>1, FrameFacts, ClassesAssumption
<1>3. f \in Frame /\ f.pc = "clinit" /\ f.who = c
  BY <1>2, FrameAtFacts
<1>4. ReliesOn(f) = {Super[c]} \ {NoClass}
  BY <1>3 DEF ReliesOn
<1>5. Super[c] # NoClass => g \in Frame /\ g.pc = "initialize" /\ g.who = Super[c]
  BY <1>2, FrameAtFacts
<1> HIDE DEF f, g
<1>6. /\ BelowKept /\ Len(stack') \in {Len(stack), Len(stack) + 1}
      /\ stack'[Len(stack)] = f
      /\ Super[c] = NoClass => Len(stack') = Len(stack)
      /\ Super[c] # NoClass => Len(stack') = Len(stack) + 1 /\ stack'[Len(stack) + 1] = g
  BY <1>1, <1>3, <1>5, GoOnStack, CallStack DEF IInv, TypeOK
<1>7. FlagOnStack' /\ FlagsEnd' /\ BegunKept /\ Begun(c)' /\ Begins(c)
  <2>1. stack'[Len(stack)] = FrameAt("clinit", c)
    BY <1>6 DEF f
  <2>2. Len(stack') > Len(stack) => stack'[Len(stack) + 1].pc = "initialize"
    BY <1>1, <1>5, <1>6
  <2> QED
    BY <1>1, <1>2, <1>6, <2>1, <2>2, BeginFlags, Zenon DEF IInv, StackInv
<1>8. WellNested'
  <2>1. Kind(stack'[Len(stack)].pc) = Kind(Top.pc)
    BY <1>1, <1>3, <1>6 DEF Kind
  <2>2. Len(stack') > Len(stack) => stack'[Len(stack) + 1].pc \in Calls(stack'[Len(stack)].pc)
    BY <1>1, <1>3, <1>5, <1>6 DEF Calls
  <2> QED
    BY <1>1, <1>6, <2>1, <2>2, NestedStep DEF IInv, StackInv
<1>9. PromisesKept'
  <2>1. \A d : Top.pc = "initialize" /\ Top.who = d => Begun(d)'
    BY <1>c, <1>7
  <2>2. ASSUME NEW i \in Indices', i >= Len(stack), NEW d, d \in ReliesOn(stack[i])'
        PROVE  Begun(d)' \/ Asked(i, d)'
    <3>1. CASE i = Len(stack)
      <4>1. d \in {Super[c]} \ {NoClass}
        BY <1>1, <1>4, <1>6, <2>2, <3>1, SameReliance
      <4>2. i < Len(stack') /\ stack'[i + 1] = g /\ d = Super[c]
        BY <1>1, <1>6, <3>1, <4>1
      <4> QED
        BY <4>2 DEF Asked, g, FrameAt
    <3>2. CASE i # Len(stack)
      <4>1. i = Len(stack) + 1 /\ Super[c] # NoClass
        BY <1>1, <1>6, <2>2, <3>2 DEF Indices
      <4>2. d \in ReliesOn(g)
        BY <1>1, <1>6, <2>2, <4>1, SameReliance
      <4> QED
        BY <1>5, <4>1, <4>2 DEF ReliesOn
    <3> QED
      BY <3>1, <3>2
  <2> QED
    BY <1>1, <1>6, <1>7, <2>1, <2>2, PromisesStep DEF IInv, StackInv
<1>10. TypeOK'
  <2>1. stack' \in Seq(Frame)
    BY <1>6 DEF BelowKept
  <2> QED
    BY <1>1, <1>2, <2>1 DEF IInv, TypeOK, methodVars
<1>11. SlotsLeadToMethods' /\ CodeReady'
  BY <1>1, <1>7, MethodsSame DEF IInv
<1>12. InstancesInitialized'
  BY <1>1, <1>7, InstancesSame DEF IInv
<1> QED
  BY <1>2, <1>7, <1>8, <1>9, <1>10, <1>11, <1>12 DEF IInv, StackInv

(* The frame of an initialization goes on to its initializer and to what    *)
(* comes after it.                                                          *)
LEMMA RunInitializerStep ==
    IInv /\ RunInitializer => IInv' /\ \E c \in Classes : Starts(c)
<1> SUFFICES ASSUME IInv, RunInitializer PROVE IInv' /\ \E c \in Classes : Starts(c)
  OBVIOUS
<1> DEFINE c == Top.who
           m == Clinit[c]
           f == FrameAt("complete", c)
           g == Entered(m, jitted[m])
           n == Len(stack)
<1>1. /\ stack # <<>> /\ Top.pc = "clinit" /\ Top \in Frame /\ n \in Nat \ {0}
      /\ IF m = NoMethod THEN GoOn(f) ELSE Call(f, g)
      /\ UNCHANGED <<body, classVars, methodVars, instances, crashed>>
  BY AtFacts DEF RunInitializer, IInv
<1>2. c \in Classes /\ m \in Methods \union {NoMethod}
  BY <1>1, FrameFacts, MethodsAssumption
<1>3. f \in Frame /\ f.pc = "complete" /\ f.who = c
  BY <1>2, FrameAtFacts
<1>4. m # NoMethod => /\ g \in Frame /\ g.pc \in {"jit", "run"}
                      /\ \A d \in ReliesOn(g) : Begun(d)
  <2> SUFFICES ASSUME m \in Methods PROVE /\ g \in Frame /\ g.pc \in {"jit", "run"}
                                          /\ \A d \in ReliesOn(g) : Begun(d)
    BY <1>2
  <2>1. jitted[m] \in {"stub", "code"}
    BY DEF IInv, TypeOK
  <2> QED
    BY <2>1, EnteredReady DEF IInv
<1> HIDE DEF f, g, m
<1>5. /\ BelowKept /\ Len(stack') \in {n, n + 1} /\ stack'[n] = f
      /\ m = NoMethod => Len(stack') = n
      /\ m # NoMethod => Len(stack') = n + 1 /\ stack'[n + 1] = g
  BY <1>1, <1>3, <1>4, GoOnStack, CallStack DEF IInv, TypeOK
<1>6. InitsSame /\ Starts(c)
  <2>1. n \in Indices' /\ n \in Indices /\ stack[n] = Top
    BY <1>1, <1>5 DEF Indices, Top
  <2>2. n \in InitFrames /\ n \in InitFrames'
    BY <1>1, <1>3, <1>5, <2>1 DEF InitFrames
  <2>3. \A i \in InitFrames : i \in 1..(n - 1) \/ i = n
    BY <1>1 DEF InitFrames, Indices
  <2>4. \A i \in InitFrames' : i \in 1..(n - 1) \/ i = n
    BY <1>1, <1>4, <1>5 DEF InitFrames, Indices
  <2>5. \A i \in 1..(n - 1) : stack'[i] = stack[i] /\ i \in Indices /\ i \in Indices'
    BY <1>1, <1>5 DEF BelowKept, Indices
  <2>6. InitFrames' = InitFrames
    BY <2>2, <2>3, <2>4, <2>5 DEF InitFrames
  <2>7. \A i \in InitFrames : stack'[i].who = stack[i].who
    BY <1>3, <1>5, <2>1, <2>3, <2>5
  <2>8. InitsSame
    BY <1>1, <2>6, <2>7 DEF InitsSame
  <2>9. \A i \in InitFrames \ {n} : i < n /\ stack'[i] = stack[i]
    BY <1>1, <2>3, <2>5
  <2>10. Initialized' = Initialized
    BY <1>1 DEF Initialized, classVars
  <2> QED
    BY <1>1, <1>5, <2>2, <2>6, <2>8, <2>9, <2>10 DEF Starts, InnermostIs, f
<1>7. FlagOnStack' /\ FlagsEnd' /\ BegunKept
  BY <1>6, SameFlags DEF IInv, StackInv
<1>8. WellNested'
  <2>1. Kind(stack'[n].pc) = Kind(Top.pc)
    BY <1>1, <1>3, <1>5 DEF Kind
  <2>2. Len(stack') > n => stack'[n + 1].pc \in Calls(stack'[n].pc)
    BY <1>1, <1>3, <1>4, <1>5 DEF Calls
  <2> QED
    BY <1>1, <1>5, <2>1, <2>2, NestedStep DEF IInv, StackInv
<1>9. PromisesKept'
  <2>1. ASSUME NEW i \in Indices', i >= n, NEW d, d \in ReliesOn(stack[i])'
        PROVE  Begun(d)' \/ Asked(i, d)'
    <3>1. CASE i = n
      <4>1. d \in ReliesOn(f)
        BY <1>1, <1>5, <2>1, <3>1, SameReliance
      <4> QED
        BY <1>3, <4>1 DEF ReliesOn
    <3>2. CASE i # n
      <4>1. i = n + 1 /\ m # NoMethod
        BY <1>1, <1>5, <2>1, <3>2 DEF Indices
      <4>2. d \in ReliesOn(g)
        BY <1>1, <1>5, <2>1, <4>1, SameReliance
      <4>3. d \in Classes /\ Begun(d)
        BY <1>4, <4>1, <4>2, ReliesOnClasses DEF IInv, TypeOK
      <4> QED
        BY <1>7, <4>3 DEF BegunKept
    <3> QED
      BY <3>1, <3>2
  <2> QED
    BY <1>1, <1>5, <1>7, <2>1, PromisesStep DEF IInv, StackInv
<1>10. stack' \in Seq(Frame) /\ StackInv'
  BY <1>5, <1>7, <1>8, <1>9 DEF BelowKept, StackInv
<1> QED
  BY <1>1, <1>2, <1>6, <1>7, <1>10, RestSame

(* The frame that ends an initialization was the only one of its class.     *)
LEMMA CompleteStep ==
    IInv /\ Complete => IInv' /\ \E c \in Classes : Finishes(c)
<1> SUFFICES ASSUME IInv, Complete PROVE IInv' /\ \E c \in Classes : Finishes(c)
  OBVIOUS
<1> DEFINE c == Top.who
           n == Len(stack)
<1>1. /\ stack # <<>> /\ Top.pc = "complete" /\ Top \in Frame /\ n \in Nat \ {0}
      /\ state' = [state EXCEPT ![c] = @ \union {"Initialized"}]
      /\ flag' = [flag EXCEPT ![c] = FALSE]
      /\ Return
      /\ UNCHANGED <<body, methodVars, instances, crashed>>
  BY AtFacts DEF Complete, IInv
<1>2. c \in Classes
  BY <1>1, FrameFacts
<1>3. BelowKept /\ Len(stack') = n - 1
  BY <1>1, ReturnStack DEF IInv, TypeOK
<1>4. n \in InitFrames /\ stack[n].who = c
  BY <1>1 DEF InitFrames, Indices, Top
<1>5. InitFrames' = InitFrames \ {n}
  <2>1. \A i \in 1..(n - 1) : stack'[i] = stack[i] /\ i \in Indices /\ i \in Indices' /\ i # n
    BY <1>1, <1>3 DEF BelowKept, Indices
  <2>2. \A i \in InitFrames \ {n} : i \in 1..(n - 1)
    BY <1>1 DEF InitFrames, Indices
  <2>3. \A i \in InitFrames' : i \in 1..(n - 1)
    BY <1>1, <1>3 DEF InitFrames, Indices
  <2> QED
    BY <2>1, <2>2, <2>3 DEF InitFrames
<1>6. \A i \in InitFrames' : stack'[i].who = stack[i].who
  BY <1>1, <1>3 DEF InitFrames, Indices, BelowKept
<1>7. \A i \in InitFrames' : stack[i].who # c
  BY <1>2, <1>4, <1>5, OneFrame DEF IInv, StackInv
<1>8. /\ flag'[c] = FALSE /\ "Initialized" \in state'[c]
      /\ \A d \in Classes : d # c => flag'[d] = flag[d] /\ state'[d] = state[d]
  BY <1>1, <1>2 DEF IInv, TypeOK
<1>17. Finishes(c)
  <2>1. \A i \in InitFrames \ {n} : i < n /\ stack'[i] = stack[i]
    BY <1>1, <1>3 DEF InitFrames, Indices, BelowKept
  <2>2. Initialized' = Initialized \union {c}
    BY <1>2, <1>8 DEF Initialized
  <2> QED
    BY <1>1, <1>4, <1>5, <2>1, <2>2 DEF Finishes, InnermostIs
<1> HIDE DEF c, n
<1>9. FlagOnStack'
  <2> SUFFICES ASSUME NEW d \in Classes
               PROVE  /\ flag'[d] = (\E i \in InitFrames : stack[i].who = d)'
                      /\ \A i, j \in InitFrames' :
                            stack'[i].who = d /\ stack'[j].who = d => i = j
    BY DEF FlagOnStack
  <2>1. ASSUME NEW i \in InitFrames', NEW j \in InitFrames',
               stack'[i].who = d, stack'[j].who = d
        PROVE  i = j
    <3>1. i \in InitFrames /\ j \in InitFrames /\ stack[i].who = d /\ stack[j].who = d
      BY <1>5, <1>6, <2>1
    <3> QED
      BY <3>1, OneFrame DEF IInv, StackInv
  <2>2. CASE d = c
    <3>1. ~ (\E i \in InitFrames : stack[i].who = d)'
      BY <1>6, <1>7, <2>2
    <3>2. flag'[d] = (\E i \in InitFrames : stack[i].who = d)'
      BY <1>8, <2>2, <3>1, Zenon
    <3> QED
      BY <2>1, <3>2
  <2>3. CASE d # c
    <3>1. (\E i \in InitFrames : stack[i].who = d)' <=> \E i \in InitFrames : stack[i].who = d
      BY <1>4, <1>5, <1>6, <2>3
    <3>2. flag'[d] = flag[d]
      BY <1>8, <2>3
    <3>3. flag'[d] = (\E i \in InitFrames : stack[i].who = d)'
      BY <3>1, <3>2, Zenon DEF IInv, StackInv, FlagOnStack
    <3> QED
      BY <2>1, <3>3
  <2> QED
    BY <2>2, <2>3
<1>10. FlagsEnd'
  BY <1>8 DEF IInv, StackInv, FlagsEnd
<1>11. BegunKept
  BY <1>4, <1>5, <1>6, <1>8 DEF BegunKept, Begun
<1>12. WellNested'
  BY <1>1, <1>3, NestedStep DEF IInv, StackInv, n
<1>13. PromisesKept'
  <2>1. \A i \in Indices' : ~(i >= n)
    BY <1>1, <1>3 DEF Indices
  <2> QED
    BY <1>1, <1>3, <1>11, <2>1, PromisesStep DEF IInv, StackInv, n
<1>14. TypeOK'
  <2>1. stack' \in Seq(Frame)
    BY <1>3 DEF BelowKept
  <2> QED
    BY <1>1, <1>2, <2>1 DEF IInv, TypeOK, methodVars
<1>15. SlotsLeadToMethods' /\ CodeReady'
  BY <1>1, <1>11, MethodsSame DEF IInv
<1>16. InstancesInitialized'
  BY <1>1, <1>11, InstancesSame DEF IInv
<1> QED
  BY <1>2, <1>17, <1>9, <1>10, <1>11, <1>12, <1>13, <1>14, <1>15, <1>16 DEF IInv, StackInv

-----------------------------------------------------------------------------
(* The invariant holds of every reachable state.                            *)

LEMMA InitInvariant == Init => IInv
<1> SUFFICES ASSUME Init PROVE IInv
  OBVIOUS
<1>1. /\ stack = <<FrameAt("jit", MainMethod)>> /\ FrameAt("jit", MainMethod) \in Frame
      /\ FrameAt("jit", MainMethod).pc = "jit"
  BY FrameAtFacts, MethodsAssumption DEF Init
<1>2. stack \in Seq(Frame) /\ Len(stack) = 1 /\ stack[1].pc = "jit"
  BY <1>1
<1>3. InitFrames = {} /\ 1..(Len(stack) - 1) = {}
  BY <1>2 DEF InitFrames, Indices
<1>4. TypeOK
  <2>1. entry \in [Classes -> [Slots -> [method : Methods \union {NoMethod},
                                         code : {"stub", "code"}]]]
    BY TablesAssumption DEF Init
  <2>2. instances \subseteq [class : Classes, by : {"vm", "new", "reflect"}]
    BY MethodsAssumption DEF Init
  <2>3. /\ body \in Programs /\ crashed \in BOOLEAN
        /\ state \in [Classes -> SUBSET {"Initializing", "Initialized"}]
        /\ flag \in [Classes -> BOOLEAN]
        /\ mstate \in [Methods -> {"NotCompiled", "BeingCompiled", "Compiled"}]
        /\ jitted \in [Methods -> {"stub", "code"}]
        /\ header \in [Classes -> {"header", "code"}]
    BY DEF Init
  <2> QED
    BY <1>2, <2>1, <2>2, <2>3 DEF TypeOK
<1>5. StackInv
  <2>1. \A c \in Classes : flag[c] = FALSE /\ ~ \E i \in InitFrames : stack[i].who = c
    BY <1>3 DEF Init
  <2>2. \A c \in Classes : flag[c] = (\E i \in InitFrames : stack[i].who = c)
    BY <2>1, Zenon
  <2>3. FlagOnStack /\ FlagsEnd /\ WellNested
    BY <1>3, <2>1, <2>2 DEF FlagOnStack, FlagsEnd, WellNested
  <2>4. PromisesKept
    BY <1>2 DEF PromisesKept, Indices, ReliesOn
  <2> QED
    BY <2>3, <2>4 DEF StackInv
<1>6. SlotsLeadToMethods
  BY DEF Init, SlotsLeadToMethods
<1>7. CodeReady /\ InstancesInitialized
  BY DEF Init, CodeReady, InstancesInitialized
<1> QED
  BY <1>4, <1>5, <1>6, <1>7 DEF IInv

LEMMA StepInvariant == IInv /\ [Next]_vars => IInv'
<1> SUFFICES ASSUME IInv, [Next]_vars PROVE IInv'
  OBVIOUS
<1>1. ASSUME UNCHANGED vars PROVE IInv'
  BY <1>1, StopsStep DEF vars, IInv, TypeOK
<1>2. CASE JitFails
  BY <1>2, StopsStep DEF JitFails
<1> QED
  BY <1>1, <1>2, InitializeReturnsStep, InitializeBeginsStep, RunInitializerStep,
     CompleteStep, JitReturnsStep, JitBeginsStep, TranslateStep, JitEndsStep,
     PassStep, AllocateStep, CallDirectStep, CallVirtualStep, MethodReturnsStep
  DEF Next, Initializing, Compiling, Running

THEOREM Invariance == Spec => []IInv
BY InitInvariant, StepInvariant, PTL DEF Spec

(* Every frame of the native stack is one of class_initialize for a class,  *)
(* or of jit_a_method or compiled code for a method, whatever vtable slot,   *)
(* jitted_code or stub it was reached through.                              *)
THEOREM TypeCorrectness == Spec => []TypeOK
<1>1. IInv => TypeOK
  BY DEF IInv
<1> QED
  BY <1>1, Invariance, PTL

(* initilizing_flag is set exactly while one frame, and only one, is        *)
(* initializing the class, so class_initialize may take it for "this thread *)
(* is at it".                                                               *)
THEOREM FlagsTellOfFrames == Spec => []FlagOnStack
<1>1. IInv => FlagOnStack
  BY DEF IInv, StackInv
<1> QED
  BY <1>1, Invariance, PTL

(* However the initializers, the translations they start and the code that  *)
(* is entered through them nest, compiled code runs only in a begun class,   *)
(* and every field access, direct call and new of it finds its class begun. *)
THEOREM NothingUsedBeforeInitialized == Spec => []InitializedBeforeUse
<1>1. ASSUME IInv PROVE InitializedBeforeUse
  <2>1. ASSUME NEW f \in Frames, f.pc = "run"
        PROVE  /\ f.who \in Methods /\ f.at \in Nat \ {0}
               /\ \A c \in Needed(f.who, Len(body[f.who])) : Begun(c)
    <3>1. PICK i \in Indices : f = stack[i]
      BY <2>1 DEF Frames
    <3>2. f \in Frame /\ stack \in Seq(Frame)
      BY <1>1, <3>1, ElementOf DEF IInv, TypeOK, Indices
    <3>3. ReliesOn(f) = Needed(f.who, Len(body[f.who]))
      BY <2>1 DEF ReliesOn
    <3>4. ASSUME NEW c, Asked(i, c) PROVE FALSE
      <4>1. i \in 1..(Len(stack) - 1) /\ stack[i + 1].pc = "initialize"
        BY <3>2, <3>4 DEF Asked, FrameAt, Indices
      <4> QED
        BY <1>1, <2>1, <3>1, <4>1 DEF IInv, StackInv, WellNested, Calls
    <3>5. \A c \in ReliesOn(f) : Begun(c)
      BY <1>1, <3>1, <3>4 DEF IInv, StackInv, PromisesKept
    <3> QED
      BY <2>1, <3>2, <3>3, <3>5, FrameFacts
  <2>2. CodeRunsInitialized
    BY <2>1 DEF CodeRunsInitialized, Needed
  <2>3. AccessesInitialized
    <3> SUFFICES ASSUME NEW f \in Frames, f.pc = "run", NEW i \in f.at..Len(body[f.who]),
                        body[f.who][i].op \in {"field", "direct"}
                 PROVE  Begun(ClassNeeded(f.who, body[f.who][i]))
      BY DEF AccessesInitialized, ClassNeeded
    <3>1. i \in DOMAIN body[f.who] /\ i <= Len(body[f.who])
      BY <1>1, <2>1, BodyFacts DEF IInv, TypeOK
    <3>2. ClassNeeded(f.who, body[f.who][i]) \in Classes
      BY <1>1, <2>1, <3>1, InstrFacts, MethodsAssumption DEF IInv, TypeOK, ClassNeeded
    <3> QED
      BY <2>1, <3>1, <3>2, ClassesAssumption DEF Needed
  <2> QED
    BY <1>1, <2>2, <2>3 DEF IInv, InitializedBeforeUse
<1> QED
  BY <1>1, Invariance, PTL

(* method_update_vtable only ever writes the slot that prepare_methods gave *)
(* to the method, and the code a slot leads to exists.                      *)
THEOREM SlotsAreRight == Spec => []SlotsLeadToMethods
<1>1. IInv => SlotsLeadToMethods
  BY DEF IInv
<1> QED
  BY <1>1, Invariance, PTL

-----------------------------------------------------------------------------
(* ClassInit implements InitLifecycle.                                      *)

(* The state of InitLifecycle, by the frames that initialize.               *)
IsActive(c)  == \E i \in InitFrames : stack[i].who = c
IsStarted(c) == \E i \in InitFrames : stack[i].pc = "complete" /\ stack[i].who = c

LEMMA MappedState ==
    /\ OnStack({"clinit", "complete"}) = {c \in Classes : IsActive(c)}
    /\ OnStack({"complete"}) = {c \in Classes : IsStarted(c)}
BY DEF OnStack, Frames, InitFrames, IsActive, IsStarted

LEMMA MappedNext ==
    /\ OnStack({"clinit", "complete"})' = {c \in Classes : IsActive(c)'}
    /\ OnStack({"complete"})' = {c \in Classes : IsStarted(c)'}
BY DEF OnStack, Frames, InitFrames, IsActive, IsStarted

LEMMA Unmoved ==
    ASSUME Initialized' = Initialized,
           \A c \in Classes : IsActive(c)' <=> IsActive(c),
           \A c \in Classes : IsStarted(c)' <=> IsStarted(c),
           \A c, d \in Classes : Encloses(c, d)' <=> Encloses(c, d)
    PROVE  UNCHANGED Lifecycle!lifecycleVars
<1>1. OnStack({"clinit", "complete"})' = OnStack({"clinit", "complete"})
  BY MappedState, MappedNext
<1>2. OnStack({"complete"})' = OnStack({"complete"})
  BY MappedState, MappedNext
<1>3. {p \in Classes \X Classes : Encloses(p[1], p[2])}'
        = {p \in Classes \X Classes : Encloses(p[1], p[2])}
  OBVIOUS
<1> QED
  BY <1>1, <1>2, <1>3 DEF Lifecycle!lifecycleVars

LEMMA QuietUnmoved == Quiet => UNCHANGED Lifecycle!lifecycleVars
<1> SUFFICES ASSUME Quiet PROVE UNCHANGED Lifecycle!lifecycleVars
  OBVIOUS
<1>1. /\ InitFrames' = InitFrames /\ state' = state
      /\ \A i \in InitFrames : stack'[i] = stack[i]
  BY DEF Quiet, InitsSame, classVars
<1>2. Initialized' = Initialized
  BY <1>1 DEF Initialized
<1>3. \A c \in Classes : (IsActive(c)' <=> IsActive(c)) /\ (IsStarted(c)' <=> IsStarted(c))
  BY <1>1 DEF IsActive, IsStarted
<1>4. \A c, d \in Classes : Encloses(c, d)' <=> Encloses(c, d)
  BY <1>1 DEF Encloses
<1> QED
  BY <1>2, <1>3, <1>4, Unmoved

LEMMA BeginsMapped ==
    ASSUME IInv, NEW c \in Classes, Begins(c)
    PROVE  Lifecycle!Begin(c)
<1> DEFINE n == Len(stack)
<1>1. /\ ~Settled(c) /\ Initialized' = Initialized /\ InitFrames' = InitFrames \union {n}
      /\ stack'[n].pc = "clinit" /\ stack'[n].who = c
      /\ \A i \in InitFrames : i < n /\ i # n /\ stack'[i] = stack[i]
  BY DEF Begins, FrameAt, InitFrames, Indices, IInv, TypeOK
<1>2. InitFrames \subseteq Int /\ n \in Int
  BY DEF InitFrames, Indices, IInv, TypeOK
<1> HIDE DEF n
<1>3. c \notin Initialized /\ ~IsActive(c)
  BY <1>1 DEF Settled, Initialized, IsActive, IInv, StackInv, FlagOnStack
<1>4. \A d \in Classes : IsActive(d)' <=> IsActive(d) \/ d = c
  BY <1>1 DEF IsActive
<1>5. \A d \in Classes : IsStarted(d)' <=> IsStarted(d)
  BY <1>1 DEF IsStarted
<1>6. \A a, d \in Classes : Encloses(a, d)' <=> Encloses(a, d) \/ (IsActive(a) /\ d = c)
  BY <1>1, <1>2 DEF Encloses, IsActive
<1>7. OnStack({"clinit", "complete"})' = OnStack({"clinit", "complete"}) \union {c}
  BY <1>4, MappedState, MappedNext
<1>8. OnStack({"complete"})' = OnStack({"complete"})
  BY <1>5, MappedState, MappedNext
<1>9. {p \in Classes \X Classes : Encloses(p[1], p[2])}'
        = {p \in Classes \X Classes : Encloses(p[1], p[2])}
            \union (OnStack({"clinit", "complete"}) \X {c})
  BY <1>6, MappedState
<1>10. c \notin Initialized \union OnStack({"clinit", "complete"})
  BY <1>3, MappedState
<1> QED
  BY <1>1, <1>7, <1>8, <1>9, <1>10 DEF Lifecycle!Begin

(* The class of the innermost initialization encloses no other.             *)
LEMMA InnermostMapped ==
    ASSUME IInv, NEW c \in Classes, NEW pc, InnermostIs(pc, c)
    PROVE  /\ Lifecycle!Innermost(c) /\ IsActive(c)
           /\ \A d \in Classes : ~Encloses(c, d)
<1>1. /\ Len(stack) \in InitFrames /\ stack[Len(stack)].who = c
      /\ \A i \in InitFrames : i <= Len(stack)
      /\ InitFrames \subseteq Int /\ Len(stack) \in Int
  BY DEF InnermostIs, Top, InitFrames, Indices, IInv, TypeOK
<1>2. IsActive(c)
  BY <1>1 DEF IsActive
<1>3. \A i \in InitFrames : stack[i].who = c => i = Len(stack)
  BY <1>1, OneFrame DEF IInv, StackInv
<1>4. \A d \in Classes : ~Encloses(c, d)
  BY <1>1, <1>3 DEF Encloses
<1>5. c \in OnStack({"clinit", "complete"})
  BY <1>2, MappedState
<1>6. \A d : <<c, d>> \notin {p \in Classes \X Classes : Encloses(p[1], p[2])}
  BY <1>4
<1> QED
  BY <1>2, <1>4, <1>5, <1>6 DEF Lifecycle!Innermost

LEMMA StartsMapped ==
    ASSUME IInv, NEW c \in Classes, Starts(c)
    PROVE  Lifecycle!Start(c)
<1> DEFINE n == Len(stack)
<1>1. /\ n \in InitFrames /\ stack[n].pc = "clinit" /\ stack[n].who = c
      /\ \A i \in InitFrames \ {n} : stack'[i] = stack[i]
      /\ Initialized' = Initialized /\ InitFrames' = InitFrames
      /\ stack'[n].pc = "complete" /\ stack'[n].who = c
      /\ stack # <<>> /\ Top.pc = "clinit" /\ Top.who = c
  BY DEF Starts, InnermostIs, Top, FrameAt, InitFrames, Indices, IInv, TypeOK
<1>2. Lifecycle!Innermost(c)
  BY InnermostMapped DEF Starts
<1> HIDE DEF n
<1>3. ~IsStarted(c)
  BY <1>1, OneFrame DEF IsStarted, IInv, StackInv
<1>4. c \notin Initialized
  <2>1. \E i \in InitFrames : stack[i].who = c
    BY <1>1
  <2>2. flag[c] = TRUE
    BY <2>1, Zenon DEF IInv, StackInv, FlagOnStack
  <2> QED
    BY <2>2 DEF IInv, StackInv, FlagsEnd, Initialized
<1>5. Super[c] \in {NoClass} \union Initialized \union OnStack({"clinit", "complete"})
  <2>1. ReliesOn(Top) = {Super[c]} \ {NoClass}
    BY <1>1 DEF ReliesOn
  <2>2. \A d \in ReliesOn(Top) : Begun(d)
    BY <1>1, TopReady DEF IInv
  <2>3. Super[c] \in Classes \union {NoClass}
    BY ClassesAssumption
  <2> QED
    BY <2>1, <2>2, <2>3, MappedState DEF Begun, Initialized, IsActive
<1>6. \A d \in Classes : IsActive(d)' <=> IsActive(d)
  BY <1>1 DEF IsActive
<1>7. \A d \in Classes : IsStarted(d)' <=> IsStarted(d) \/ d = c
  BY <1>1 DEF IsStarted
<1>8. \A a, d \in Classes : Encloses(a, d)' <=> Encloses(a, d)
  <2>1. \A i \in InitFrames : stack'[i].who = stack[i].who
    BY <1>1
  <2> QED
    BY <1>1, <2>1 DEF Encloses
<1>9. OnStack({"clinit", "complete"})' = OnStack({"clinit", "complete"})
  BY <1>6, MappedState, MappedNext
<1>10. OnStack({"complete"})' = OnStack({"complete"}) \union {c}
  BY <1>7, MappedState, MappedNext
<1>11. {p \in Classes \X Classes : Encloses(p[1], p[2])}'
        = {p \in Classes \X Classes : Encloses(p[1], p[2])}
  BY <1>8
<1>12. c \notin OnStack({"complete"})
  BY <1>3, MappedState
<1> QED
  BY <1>1, <1>2, <1>4, <1>5, <1>9, <1>10, <1>11, <1>12 DEF Lifecycle!Start

LEMMA FinishesMapped ==
    ASSUME IInv, NEW c \in Classes, Finishes(c)
    PROVE  Lifecycle!Finish(c)
<1> DEFINE n == Len(stack)
<1>1. /\ n \in InitFrames /\ stack[n].pc = "complete" /\ stack[n].who = c
      /\ \A i \in InitFrames \ {n} : stack'[i] = stack[i]
      /\ Initialized' = Initialized \union {c} /\ InitFrames' = InitFrames \ {n}
  BY DEF Finishes, InnermostIs, Top
<1>2. Lifecycle!Innermost(c) /\ \A d \in Classes : ~Encloses(c, d)
  BY InnermostMapped DEF Finishes
<1> HIDE DEF n
<1>3. \A i \in InitFrames : stack[i].who = c => i = n
  BY <1>1, OneFrame DEF IInv, StackInv
<1>4. IsStarted(c)
  BY <1>1 DEF IsStarted
<1>5. \A d \in Classes : IsActive(d)' <=> IsActive(d) /\ d # c
  BY <1>1, <1>3 DEF IsActive
<1>6. \A d \in Classes : IsStarted(d)' <=> IsStarted(d) /\ d # c
  BY <1>1, <1>3 DEF IsStarted
<1>7. \A a, d \in Classes : Encloses(a, d)' <=> Encloses(a, d) /\ d # c
  <2> SUFFICES ASSUME NEW a \in Classes, NEW d \in Classes
               PROVE  Encloses(a, d)' <=> Encloses(a, d) /\ d # c
    OBVIOUS
  <2>1. Encloses(a, d)' => Encloses(a, d) /\ d # c
    BY <1>1, <1>3 DEF Encloses
  <2>2. ASSUME Encloses(a, d), d # c PROVE Encloses(a, d)'
    <3>1. PICK i \in InitFrames, j \in InitFrames : i < j /\ stack[i].who = a /\ stack[j].who = d
      BY <2>2 DEF Encloses
    <3>2. a # c
      BY <1>2, <2>2
    <3>3. i \in InitFrames' /\ j \in InitFrames' /\ stack'[i] = stack[i] /\ stack'[j] = stack[j]
      BY <1>1, <2>2, <3>1, <3>2
    <3> QED
      BY <3>1, <3>3 DEF Encloses
  <2> QED
    BY <2>1, <2>2
<1>8. \A a, d \in Classes : Encloses(a, d) => IsActive(a)
  BY DEF Encloses, IsActive
<1>9. OnStack({"clinit", "complete"})' = OnStack({"clinit", "complete"}) \ {c}
  BY <1>5, MappedState, MappedNext
<1>10. (Initialized \union OnStack({"complete"}))' = Initialized \union OnStack({"complete"})
  BY <1>1, <1>4, <1>6, MappedState, MappedNext
<1>11. {p \in Classes \X Classes : Encloses(p[1], p[2])}'
        = {p \in Classes \X Classes : Encloses(p[1], p[2])}
            \ (OnStack({"clinit", "complete"}) \X {c})
  BY <1>7, <1>8, MappedState
<1>12. c \in OnStack({"complete"})
  BY <1>4, MappedState
<1> QED
  BY <1>1, <1>2, <1>9, <1>10, <1>11, <1>12 DEF Lifecycle!Finish

LEMMA StepMapped ==
    IInv /\ [Next]_vars => [Lifecycle!LifecycleNext]_Lifecycle!lifecycleVars
<1> SUFFICES ASSUME IInv, [Next]_vars
             PROVE  [Lifecycle!LifecycleNext]_Lifecycle!lifecycleVars
  OBVIOUS
<1>1. CASE UNCHANGED <<body, classVars, methodVars, stack, instances>>
  <2>1. Quiet
    BY <1>1 DEF Quiet, InitsSame, InitFrames, Indices, classVars
  <2> QED
    BY <2>1, QuietUnmoved
<1>2. CASE InitializeBegins
  BY <1>2, InitializeBeginsStep, BeginsMapped DEF Lifecycle!LifecycleNext
<1>3. CASE RunInitializer
  BY <1>3, RunInitializerStep, StartsMapped DEF Lifecycle!LifecycleNext
<1>4. CASE Complete
  BY <1>4, CompleteStep, FinishesMapped DEF Lifecycle!LifecycleNext
<1>5. ASSUME Quiet PROVE [Lifecycle!LifecycleNext]_Lifecycle!lifecycleVars
  BY <1>5, QuietUnmoved
<1>6. UNCHANGED vars => UNCHANGED <<body, classVars, methodVars, stack, instances>>
  BY DEF vars
<1>7. JitFails => UNCHANGED <<body, classVars, methodVars, stack, instances>>
  BY DEF JitFails
<1> QED
  BY <1>1, <1>2, <1>3, <1>4, <1>5, <1>6, <1>7, InitializeReturnsStep, JitReturnsStep,
     JitBeginsStep, TranslateStep, JitEndsStep, PassStep, AllocateStep, CallDirectStep,
     CallVirtualStep, MethodReturnsStep
  DEF Next, Initializing, Compiling, Running

(* Through whatever stubs, translations and calls class_initialize is       *)
(* reached, it initializes each class at most once, nests the              *)
(* initializations, and starts an initializer after the superclass began.   *)
THEOREM ImplementsInitLifecycle == Spec => ImplementsLifecycle
<1>1. Init => Lifecycle!LifecycleInit
  <2> SUFFICES ASSUME Init PROVE Lifecycle!LifecycleInit
    OBVIOUS
  <2>1. Len(stack) = 1 /\ stack[1].pc = "jit"
    BY FrameAtFacts, MethodsAssumption DEF Init
  <2>2. InitFrames = {}
    BY <2>1 DEF InitFrames, Indices
  <2>3. OnStack({"clinit", "complete"}) = {} /\ OnStack({"complete"}) = {}
    BY <2>2, MappedState DEF IsActive, IsStarted
  <2>4. {p \in Classes \X Classes : Encloses(p[1], p[2])} = {}
    BY <2>2 DEF Encloses
  <2>5. Initialized = {}
    BY DEF Init, Initialized
  <2> QED
    BY <2>3, <2>4, <2>5 DEF Lifecycle!LifecycleInit
<1> QED
  BY <1>1, StepMapped, Invariance, PTL DEF Spec, ImplementsLifecycle, Lifecycle!LifecycleSpec

=============================================================================
