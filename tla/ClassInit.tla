------------------------------ MODULE ClassInit ------------------------------
(***************************************************************************)
(* Class initialization and lazy compilation.  Every method starts as a    *)
(* compile-me stub; the first call of it runs jit_a_method, which          *)
(* initializes the owner and translates the body; the translation itself   *)
(* initializes every class the body touches; an initializer is a Java      *)
(* method, so it is called through its own stub.  class_initialize,        *)
(* jit_a_method and compiled code therefore call one another to any depth  *)
(* on one native stack, with half-initialized classes and half-compiled    *)
(* methods in the frames below.  A step is the code a frame runs between   *)
(* two such calls.                                                         *)
(***************************************************************************)
EXTENDS Naturals, Sequences

CONSTANTS
    Classes,
    NoClass,        \* the super_class of java/lang/Object
    Super,          \* super_class
    Methods,
    NoMethod,       \* the clinit of a class that has no initializer
    Owner,          \* owner_class of each method
    Clinit,         \* the clinit of each class
    Natives,        \* the native methods
    Bound,          \* the native methods that builtin_natives lists
    Slots,          \* the slots of a vtable; 0 is the class header
    Slot,           \* the slot kmethod->offset leads to; 0 if static
    Table,          \* vtable_info: the method in each slot of each class
    Dispatch,       \* the slot of a receiver's class that a virtual or an
                    \* interface call of a method goes through; 0 if none
    Programs,       \* the programs: a body for each method
    Looping,        \* those whose methods call themselves
    MainMethod,     \* main of the application class
    MirrorClass,    \* java/lang/Class, which class objects are instances of
    MaxDepth        \* bound: frames the native stack has room for

(* field: get or put of a field; direct: invokestatic or invokespecial;    *)
(* reflect: what the native Class.newInstance does.                         *)
Ops == {"field", "direct", "virtual", "interface", "new", "reflect"}
Instr == [op : {"field", "new", "reflect"}, arg : Classes]
           \union
         [op : {"direct", "virtual", "interface"}, arg : Methods]

ASSUME ClassesAssumption ==
    /\ NoClass \notin Classes
    /\ Super \in [Classes -> Classes \union {NoClass}]

ASSUME MethodsAssumption ==
    /\ NoMethod \notin Methods
    /\ Classes \intersect Methods = {}
    /\ Owner \in [Methods -> Classes]
    /\ Clinit \in [Classes -> Methods \union {NoMethod}]
    /\ Bound \subseteq Natives /\ Natives \subseteq Methods
    /\ MainMethod \in Methods /\ MirrorClass \in Classes

ASSUME TablesAssumption ==
    /\ Slots \subseteq Nat \ {0}
    /\ Slot \in [Methods -> Slots \union {0}]
    /\ Table \in [Classes -> [Slots -> Methods \union {NoMethod}]]
    /\ Dispatch \in [Classes -> [Methods -> Slots \union {0}]]

(* What prepare_methods leaves: the owner of an instance method has it at  *)
(* its offset, and the slot a receiver is asked for holds a method.         *)
ASSUME VtablesAssumption ==
    /\ \A m \in Methods : Slot[m] # 0 => Table[Owner[m]][Slot[m]] = m
    /\ \A c \in Classes, m \in Methods :
          Dispatch[c][m] # 0 => Table[c][Dispatch[c][m]] \in Methods

(* A native method here only makes instances by reflection; javac follows  *)
(* new with a call of a constructor of the class, in the same method.       *)
Lawful(p) ==
    \A m \in Methods : \A i \in DOMAIN p[m] :
        /\ m \in Natives => p[m][i].op = "reflect"
        /\ p[m][i].op = "new" =>
             \E j \in DOMAIN p[m] : /\ i < j /\ p[m][j].op = "direct"
                                    /\ Owner[p[m][j].arg] = p[m][i].arg

ASSUME ProgramsAssumption ==
    /\ Programs \subseteq [Methods -> Seq(Instr)]
    /\ \A p \in Programs : Lawful(p)
    /\ Looping \subseteq Programs

VARIABLES
    body,           \* byte_code of each method, fixed for a run
    state,          \* the bits of kclass->state class_initialize writes
    flag,           \* kclass->initilizing_flag
    mstate,         \* kmethod->state
    jitted,         \* what kmethod->jitted_code holds
    entry,          \* the vtable of each class, collocated with the class
    header,         \* the object header of each korp_class
    stack,          \* the native stack, the innermost frame last
    instances,      \* history: the classes objects were made of, and how
    crashed         \* an assert(0) was reached

classVars  == <<state, flag>>
methodVars == <<mstate, jitted, entry, header>>
vars == <<body, classVars, methodVars, stack, instances, crashed>>

(* initialize, clinit, complete are places in class_initialize, before its *)
(* tests, after the superclass, and after the initializer; jit, translate  *)
(* are places in jit_a_method; run is compiled code.                        *)
Frame == [pc : {"initialize", "clinit", "complete"}, who : Classes, at : {1}]
           \union
         [pc : {"jit", "translate", "run"}, who : Methods, at : Nat \ {0}]

FrameAt(pc, who) == [pc |-> pc, who |-> who, at |-> 1]

Top    == stack[Len(stack)]
Below  == SubSeq(stack, 1, Len(stack) - 1)
At(pc) == ~crashed /\ stack # <<>> /\ Top.pc = pc
Room   == Len(stack) < MaxDepth

(* Native code that returns, goes on, or goes on into a call. *)
Return      == stack' = Below
GoOn(f)     == stack' = Append(Below, f)
Call(f, g)  == stack' = Below \o <<f, g>>

(* What a caller jumps to: the method's code, or its compile-me stub. *)
Entered(m, code) == FrameAt(IF code = "stub" THEN "jit" ELSE "run", m)

-----------------------------------------------------------------------------
(* class_initialize                                                         *)

(* Mutations: a class being initialized is not told from one that is not;  *)
(* the superclass is not initialized; a complete class keeps its flag.      *)
OnlyInitialized(c) == "Initialized" \in state[c]
BeginNoSuper ==
    /\ At("initialize") /\ "Initialized" \notin state[Top.who] /\ ~flag[Top.who]
    /\ state' = [state EXCEPT ![Top.who] = @ \union {"Initializing"}]
    /\ flag' = [flag EXCEPT ![Top.who] = TRUE]
    /\ GoOn(FrameAt("clinit", Top.who))
    /\ UNCHANGED <<body, methodVars, instances, crashed>>
CompleteNoReset ==
    /\ At("complete")
    /\ state' = [state EXCEPT ![Top.who] = @ \union {"Initialized"}]
    /\ Return
    /\ UNCHANGED <<body, flag, methodVars, instances, crashed>>
Settled(c) == flag[c] \/ "Initialized" \in state[c]

(* The class is initialized or is being initialized by a frame below. *)
InitializeReturns ==
    /\ At("initialize") /\ Settled(Top.who)
    /\ Return
    /\ UNCHANGED <<body, classVars, methodVars, instances, crashed>>

(* The test of the superclass compares the whole state word, which has     *)
(* other bits too, so the call is made whatever the superclass's state.    *)
InitializeBegins ==
    /\ At("initialize") /\ ~Settled(Top.who)
    /\ state' = [state EXCEPT ![Top.who] = @ \union {"Initializing"}]
    /\ flag' = [flag EXCEPT ![Top.who] = TRUE]
    /\ IF Super[Top.who] = NoClass
       THEN GoOn(FrameAt("clinit", Top.who))
       ELSE Room /\ Call(FrameAt("clinit", Top.who),
                         FrameAt("initialize", Super[Top.who]))
    /\ UNCHANGED <<body, methodVars, instances, crashed>>

(* execute_class_initializer. *)
RunInitializer ==
    /\ At("clinit")
    /\ IF Clinit[Top.who] = NoMethod
       THEN GoOn(FrameAt("complete", Top.who))
       ELSE Room /\ Call(FrameAt("complete", Top.who),
                         Entered(Clinit[Top.who], jitted[Clinit[Top.who]]))
    /\ UNCHANGED <<body, classVars, methodVars, instances, crashed>>

(* get_last_exception never reports one, so the completion is graceful. *)
Complete ==
    /\ At("complete")
    /\ state' = [state EXCEPT ![Top.who] = @ \union {"Initialized"}]
    /\ flag' = [flag EXCEPT ![Top.who] = FALSE]
    /\ Return
    /\ UNCHANGED <<body, methodVars, instances, crashed>>

-----------------------------------------------------------------------------
(* jit_a_method                                                             *)

(* Mutations: a field access initializes the current class; the compiled   *)
(* entry goes into the vtable of every class; a direct call compiles its   *)
(* target at once.                                                          *)
FieldsOwn(m, ins) ==
    CASE ins.op \in {"field", "interface"} -> Owner[m]
      [] ins.op \in {"direct", "virtual"} -> Owner[ins.arg]
      [] OTHER -> NoClass

UpdateEveryVtable(m) ==
    /\ entry' = [c \in Classes |->
                   IF Slot[m] = 0 THEN entry[c]
                   ELSE [entry[c] EXCEPT ![Slot[m]] = [method |-> m, code |-> "code"]]]
    /\ UNCHANGED header

(* A method that is already compiled, reached through a stub that a        *)
(* subclass's vtable still holds: the stub jumps to the code.               *)
JitReturns ==
    /\ At("jit") /\ mstate[Top.who] = "Compiled"
    /\ GoOn(FrameAt("run", Top.who))
    /\ UNCHANGED <<body, classVars, methodVars, instances, crashed>>

(* The comments here call compilation exclusive, but only MS_Compiled is    *)
(* tested: a method that is being compiled is compiled again.               *)
JitBegins ==
    /\ At("jit") /\ mstate[Top.who] # "Compiled" /\ Room
    /\ mstate' = [mstate EXCEPT ![Top.who] = "BeingCompiled"]
    /\ Call(FrameAt("translate", Top.who), FrameAt("initialize", Owner[Top.who]))
    /\ UNCHANGED <<body, classVars, jitted, entry, header, instances, crashed>>

(* The class that select_code initializes while it translates an           *)
(* instruction of m.  invokeinterface names the owner of m; new names none.*)
ClassNeeded(m, ins) ==
    CASE ins.op = "field"     -> ins.arg
      [] ins.op \in {"direct", "virtual"} -> Owner[ins.arg]
      [] ins.op = "interface" -> Owner[m]
      [] OTHER -> NoClass

Callee(m, ins) == FrameAt("initialize", ClassNeeded(m, ins))

Translating == At("translate") /\ Top.who \notin Natives
Translated  == Translating /\ Top.at > Len(body[Top.who])

Translate ==
    /\ Translating /\ ~Translated
    /\ LET ins  == body[Top.who][Top.at]
           next == [Top EXCEPT !.at = @ + 1]
       IN  IF ClassNeeded(Top.who, ins) = NoClass
           THEN GoOn(next)
           ELSE Room /\ Call(next, Callee(Top.who, ins))
    /\ UNCHANGED <<body, classVars, methodVars, instances, crashed>>

(* method_update_vtable writes at kmethod->offset from the owner, which is *)
(* a slot of its vtable for an instance method.  The offset of a static    *)
(* method is 0, the header of the korp_class.                               *)
UpdateVtable(m) ==
    IF Slot[m] = 0
    THEN /\ header' = [header EXCEPT ![Owner[m]] = "code"]
         /\ UNCHANGED entry
    ELSE /\ entry' = [entry EXCEPT ![Owner[m]][Slot[m]] =
                        [method |-> m, code |-> "code"]]
         /\ UNCHANGED header

(* The new code, or the wrapper of a native method, is installed, and the  *)
(* stub that called jit_a_method jumps to it.                               *)
JitEnds ==
    /\ \/ Translated
       \/ At("translate") /\ Top.who \in Bound
    /\ jitted' = [jitted EXCEPT ![Top.who] = "code"]
    /\ UpdateVtable(Top.who)
    /\ mstate' = [mstate EXCEPT ![Top.who] = "Compiled"]
    /\ GoOn(FrameAt("run", Top.who))
    /\ UNCHANGED <<body, classVars, instances, crashed>>

(* UnsatisfiedLinkError: throw_exception_name_native is assert(0). *)
JitFails ==
    /\ At("translate") /\ Top.who \in Natives \ Bound
    /\ crashed' = TRUE
    /\ UNCHANGED <<body, classVars, methodVars, stack, instances>>

-----------------------------------------------------------------------------
(* Compiled code                                                            *)

Executing(ops) == At("run") /\ Top.at <= Len(body[Top.who])
                            /\ body[Top.who][Top.at].op \in ops
NextInstr == [Top EXCEPT !.at = @ + 1]
Arg   == body[Top.who][Top.at].arg

(* The instruction is on a path the method does not take, or is a field    *)
(* access, which changes nothing here.                                      *)
Pass ==
    /\ Executing(Ops)
    /\ GoOn(NextInstr)
    /\ UNCHANGED <<body, classVars, methodVars, instances, crashed>>

Allocate ==
    /\ Executing({"new", "reflect"})
    /\ instances' = instances \union {[class |-> Arg, by |-> body[Top.who][Top.at].op]}
    /\ GoOn(NextInstr)
    /\ UNCHANGED <<body, classVars, methodVars, crashed>>

(* The call reads jitted_code when it is executed. *)
CallDirect ==
    /\ Executing({"direct"}) /\ Room
    /\ Call(NextInstr, Entered(Arg, jitted[Arg]))
    /\ UNCHANGED <<body, classVars, methodVars, instances, crashed>>

(* The call reads the slot of the receiver's class when it is executed. *)
CallVirtual ==
    /\ Executing({"virtual", "interface"}) /\ Room
    /\ \E i \in instances :
         /\ Dispatch[i.class][Arg] # 0
         /\ LET e == entry[i.class][Dispatch[i.class][Arg]]
            IN  Call(NextInstr, Entered(e.method, e.code))
    /\ UNCHANGED <<body, classVars, methodVars, instances, crashed>>

MethodReturns ==
    /\ At("run") /\ Top.at > Len(body[Top.who])
    /\ Return
    /\ UNCHANGED <<body, classVars, methodVars, instances, crashed>>

-----------------------------------------------------------------------------
(* prepare_methods leaves every slot with the stub of its method, and      *)
(* run_java_main has called the stub of main; the only instances so far are*)
(* the class objects, of java/lang/Class.                                   *)
Init ==
    /\ body \in Programs
    /\ state = [c \in Classes |-> {}]
    /\ flag = [c \in Classes |-> FALSE]
    /\ mstate = [m \in Methods |-> "NotCompiled"]
    /\ jitted = [m \in Methods |-> "stub"]
    /\ entry = [c \in Classes |-> [s \in Slots |-> [method |-> Table[c][s], code |-> "stub"]]]
    /\ header = [c \in Classes |-> "header"]
    /\ stack = <<FrameAt("jit", MainMethod)>>
    /\ instances = {[class |-> MirrorClass, by |-> "vm"]}
    /\ crashed = FALSE

Initializing == InitializeReturns \/ InitializeBegins \/ RunInitializer \/ Complete
Compiling    == JitReturns \/ JitBegins \/ Translate \/ JitEnds \/ JitFails
Running      == Pass \/ Allocate \/ CallDirect \/ CallVirtual \/ MethodReturns

Next == Initializing \/ Compiling \/ Running

Spec     == Init /\ [][Next]_vars
(* The one native thread keeps running. *)
FairSpec == Spec /\ WF_vars(Next)

-----------------------------------------------------------------------------
(* Properties                                                               *)

Indices == 1..Len(stack)
Frames  == {stack[i] : i \in Indices}

(* The frames that are initializing a class, and the classes. *)
InitFrames   == {i \in Indices : stack[i].pc \in {"clinit", "complete"}}
Begun(c)     == "Initialized" \in state[c] \/ \E i \in InitFrames : stack[i].who = c

TypeOK ==
    /\ body \in Programs
    /\ state \in [Classes -> SUBSET {"Initializing", "Initialized"}]
    /\ flag \in [Classes -> BOOLEAN]
    /\ mstate \in [Methods -> {"NotCompiled", "BeingCompiled", "Compiled"}]
    /\ jitted \in [Methods -> {"stub", "code"}]
    /\ entry \in [Classes -> [Slots -> [method : Methods \union {NoMethod},
                                         code : {"stub", "code"}]]]
    /\ header \in [Classes -> {"header", "code"}]
    /\ stack \in Seq(Frame)
    /\ instances \subseteq [class : Classes, by : {"vm", "new", "reflect"}]
    /\ crashed \in BOOLEAN

(* initilizing_flag stands for the thread class_initialize no longer has:  *)
(* it is set exactly while one frame of the stack, and only one, is        *)
(* initializing the class.                                                  *)
FlagOnStack ==
    \A c \in Classes :
        /\ flag[c] = (\E i \in InitFrames : stack[i].who = c)
        /\ \A i, j \in InitFrames : stack[i].who = c /\ stack[j].who = c => i = j

(* Compiled code runs only in a class that is initialized, or whose        *)
(* initialization waits in a frame of the stack, by whichever of the       *)
(* stub, jitted_code and a vtable slot the code was reached.                *)
CodeRunsInitialized ==
    \A f \in Frames : f.pc = "run" => Begun(Owner[f.who])

(* Translation initializes ahead of execution: every field access and      *)
(* direct call that a running method has left, on whatever path, finds its *)
(* class initialized or being initialized; compiled code does not check.    *)
AccessesInitialized ==
    \A f \in Frames : f.pc = "run" =>
        \A i \in f.at..Len(body[f.who]) :
            /\ body[f.who][i].op = "field"  => Begun(body[f.who][i].arg)
            /\ body[f.who][i].op = "direct" => Begun(Owner[body[f.who][i].arg])

(* new initializes nothing and gc_new_java_object does not look: the call  *)
(* of the constructor in the same method must have initialized the class,  *)
(* when the method was translated.  Class.newInstance gives no such         *)
(* assurance and is left out.                                               *)
InstancesInitialized ==
    \A i \in instances : i.by = "new" => Begun(i.class)

(* Whatever compiled code relies on without a check. *)
InitializedBeforeUse ==
    CodeRunsInitialized /\ AccessesInitialized /\ InstancesInitialized

(* A vtable slot leads to the method that prepare_methods selected for it, *)
(* and its compiled code is entered only once there is some.  A subclass   *)
(* that shares an inherited method keeps the stub.  A static method has    *)
(* the offset 0, and its entry replaces the header of its class, which      *)
(* nothing else does.                                                       *)
SlotsLeadToMethods ==
    /\ \A c \in Classes, s \in Slots :
          /\ entry[c][s].method = Table[c][s]
          /\ entry[c][s].code = "code" =>
                Table[c][s] \in Methods /\ jitted[Table[c][s]] = "code"
    /\ \A c \in Classes :
          header[c] = "code" <=>
              \E m \in Methods : Owner[m] = c /\ Slot[m] = 0 /\ jitted[m] = "code"

(* The initializations nest as those of InitLifecycle do: none begins      *)
(* twice, an initializer runs once and after the superclass was begun, and *)
(* the one that ends is the one that began last.                            *)
Initialized == {c \in Classes : "Initialized" \in state[c]}
OnStack(pcs) == {c \in Classes : \E f \in Frames : f.pc \in pcs /\ f.who = c}
Encloses(c, d) ==
    \E i, j \in InitFrames : i < j /\ stack[i].who = c /\ stack[j].who = d

Lifecycle == INSTANCE InitLifecycle WITH
    active  <- OnStack({"clinit", "complete"}),
    within  <- {p \in Classes \X Classes : Encloses(p[1], p[2])},
    started <- Initialized \union OnStack({"complete"}),
    done    <- Initialized

ImplementsLifecycle == Lifecycle!LifecycleSpec

(* A program whose methods do not call themselves ends, or the VM stops on *)
(* an assertion: the classes' mutual initialization, and the translations  *)
(* that start one another through it, do not go on for ever.                *)
Termination == body \notin Looping => <>(stack = <<>> \/ crashed)

=============================================================================
