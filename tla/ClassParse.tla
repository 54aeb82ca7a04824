----------------------------- MODULE ClassParse -----------------------------
(***************************************************************************)
(* class_parse: a class file becomes the constant pool and the members of  *)
(* a korp_class.  The file is read from front to back, without going back: *)
(* every count and every length in it decides how the rest is understood.  *)
(* Each number of the file is one cell here, whatever its width, and       *)
(* lengths count cells.                                                    *)
(***************************************************************************)
EXTENDS Integers, SequencesExt

CONSTANTS
    Inputs,         \* the files there may be, with what they were made from
    Str,            \* the characters of the names that the parser knows
    JncFields,      \* kenv->jnc_fields: the fields the VM adds to classes
    MaxLength,      \* one more than the longest array of bytes: the VM header keeps
                    \* 15 bits of a length
    MaxRefs,        \* one more than the longest array of references: its size, four
                    \* bytes for each and the header, is kept in 16 bits
    Magic           \* CLASSFILE_MAGIC

Known == {"Code", "Exceptions", "LineNumberTable", "LocalVariableTable", "SourceFile",
          "InnerClasses", "ConstantVlaue", "clinit", "J", "F", "D", "I", "S", "Z", "B", "C"}

Member == [modifier : Nat, name : Seq(Nat), descriptor : Seq(Nat)]

ASSUME InputsAssumption ==
    /\ \A input \in Inputs :
          /\ input.cells \in Seq(Nat)
          /\ input.name \in Seq(Nat)
    /\ \A k \in Known : Str[k] \in Seq(Nat)
    /\ \A c \in DOMAIN JncFields : JncFields[c] \in Seq(Member)
    /\ MaxLength \in Nat /\ MaxRefs \in Nat

(* korp_cpool_tag *)
Utf8     == 1
Integer  == 3
Float    == 4
Long     == 5
Double   == 6
Class    == 7
String   == 8
Fieldref == 9
Methodref == 10
InterfaceMethodref == 11
NameAndType == 12

Refs      == {Fieldref, Methodref, InterfaceMethodref}
Resolved  == 128        \* RESOLVED_MASK
Kind(tag) == tag % 16   \* TAG_MASK
None      == <<0>>      \* NULL for a name: no character is 0

VARIABLES
    file,           \* the one of Inputs that is being parsed
    pos,            \* the cells that have been read
    pc,             \* what comes next in the file
    next,           \* the next slot of the constant pool
    size,           \* cp_size
    tags,           \* cpool->value[0], a tag for each slot
    slots,          \* the other elements of cpool
    left,           \* members and attributes still to come
    member,         \* the field or method that is being read
    kclass,         \* the korp_class
    out             \* "parsing", "accepted", "refused", or "stray": went on with
                    \* what lies behind an array

vars == <<file, pos, pc, next, size, tags, slots, left, member, kclass, out>>
pool == <<next, size, tags, slots>>

At(k)   == file.cells[pos + k]
Fits(k) == pos + k <= Len(file.cells)

NoMember == [modifier |-> 0, name |-> None, descriptor |-> None, constval |-> <<>>,
             code |-> <<>>, stack |-> 0, locals |-> 0, handlers |-> <<>>,
             lines |-> <<>>, variables |-> <<>>, exceptions |-> <<>>,
             codes |-> 0]   \* history: how many Code attributes it has had
NewClass == [modifier |-> 0, super |-> None, intfs |-> <<>>, fields |-> <<>>,
             methods |-> <<>>, source |-> None, clinit |-> 0]

Init ==
    /\ file \in Inputs
    /\ pos = 0 /\ pc = "header" /\ out = "parsing"
    /\ next = 1 /\ size = 0 /\ tags = <<>> /\ slots = <<>>
    /\ left = [members |-> 0, attrs |-> 0, codeattrs |-> 0]
    /\ member = NoMember
    /\ kclass = NewClass

-----------------------------------------------------------------------------
(* A step ends the parsing with false, or reads beyond an array, or goes on. *)

Worst(vs) == IF "bad" \in vs THEN "bad" ELSE IF "stray" \in vs THEN "stray" ELSE "ok"

(* What is behind an array may look right or wrong. *)
Stop(verdict) ==
    /\ \/ verdict \in {"bad", "stray"} /\ out' = "refused"
       \/ verdict = "stray" /\ out' = "stray"
    /\ UNCHANGED <<file, pos, pc, pool, left, member, kclass>>

Stage(p) == pc = p /\ out = "parsing"

Go(p, n) ==
    /\ pc' = p
    /\ pos' = pos + n
    /\ UNCHANGED <<file, out>>

NonNull(v) == IF v = "null" THEN "bad" ELSE v

(* cp_class_read_name: the slot after the last one is looked at, too. *)
ClassAt(i) ==
    CASE i > size -> "bad"
      [] i = 0    -> "null"
      [] i = size /\ i > 0 -> "stray"
      [] OTHER    -> IF tags[i] = Class THEN "ok" ELSE "bad"

(* cp_utf8_read_string *)
StringAt(i) ==
    CASE i > size -> "bad"
      [] i = 0    -> "null"
      [] i = size /\ i > 0 -> "stray"
      [] OTHER    -> IF Kind(tags[i]) = Utf8 THEN "ok" ELSE "bad"

Name(i) == IF i = 0 THEN None ELSE slots[i]

(* A table of rows of w cells whose first cell is cell k. *)
Row(k, w, r)  == [c \in 1..w |-> At(k + w * (r - 1) + c - 1)]
Rows(k, w, n) == [r \in 1..n |-> Row(k, w, r)]

(* new_vm_array: an array of n bytes, or of n references, gets less room than *)
(* it is then filled with when its length or its size is cut off.            *)
AllocBytes(n) == IF n < MaxLength THEN "ok" ELSE "stray"
AllocRefs(n)  == IF n < MaxRefs THEN "ok" ELSE "stray"

-----------------------------------------------------------------------------
(* The constant pool                                                        *)

ReadHeader ==
    /\ Stage("header")
    /\ LET v == IF ~Fits(4) THEN "bad"
                ELSE IF At(1) # Magic \/ At(3) \notin {45, 46} THEN "bad"
                ELSE Worst({AllocBytes(At(4)), AllocRefs(At(4))})
       IN  \/ Stop(v)
           \/ /\ v = "ok"
              /\ size' = At(4)
              /\ tags' = [i \in 0..Max({0, At(4) - 1}) |-> 0]
              /\ slots' = [i \in DOMAIN tags' |-> <<>>]
              /\ Go("pool", 4)
              /\ UNCHANGED <<next, left, member, kclass>>

(* How many numbers follow the tag. *)
Width(tag) == CASE tag \in {Class, String, Integer, Float} -> 1
                [] tag \in Refs \union {NameAndType, Long, Double} -> 2
                [] OTHER -> 0

(* Mutation: a long takes one slot. *)
WideNever(tag) == 1

Wide(tag) == IF tag \in {Long, Double} THEN 2 ELSE 1

EntryText == [k \in 1..At(2) |-> At(2 + k)]

(* A text is copied into the array of the string pool with a 0 behind it. *)
EntryVerdict ==
    IF ~Fits(1) THEN "bad"
    ELSE CASE At(1) = Utf8 -> IF Fits(2) /\ Fits(2 + At(2)) /\ \A k \in 1..At(2) : At(2 + k) # 0
                              THEN AllocBytes(At(2) + 1) ELSE "bad"
           [] Width(At(1)) > 0 -> IF ~Fits(1 + Width(At(1))) THEN "bad"
                                  ELSE IF next + Wide(At(1)) > size THEN "stray" ELSE "ok"
           [] OTHER -> "bad"

ReadEntry ==
    /\ Stage("pool") /\ next < size
    /\ \/ Stop(EntryVerdict)
       \/ /\ EntryVerdict = "ok"
          /\ LET tag  == At(1)
                 item == IF tag = Utf8 THEN EntryText ELSE [k \in 1..Width(tag) |-> At(1 + k)]
                 here == next..(next + Wide(tag) - 1)
             IN  /\ tags' = [i \in DOMAIN tags |-> IF i \in here THEN tag ELSE tags[i]]
                 /\ slots' = [i \in DOMAIN slots |-> IF i \in here THEN item ELSE slots[i]]
                 /\ next' = next + Wide(tag)
                 /\ Go("pool", IF tag = Utf8 THEN 2 + At(2) ELSE 1 + Width(tag))
          /\ UNCHANGED <<size, left, member, kclass>>

EndOfPool ==
    /\ Stage("pool") /\ next >= size
    /\ next' = 1
    /\ Go("check", 0)
    /\ UNCHANGED <<size, tags, slots, left, member, kclass>>

(* Whether slot i has tags of these kinds; nothing keeps i within the pool. *)
Checked(i, ok) == IF i >= size THEN "stray" ELSE IF ok THEN "ok" ELSE "bad"
IsUtf8(i)      == Checked(i, i < size /\ Kind(tags[i]) = Utf8)
IsClass(i)     == Checked(i, i < size /\ tags[i] = Class)
IsNameType(i)  == Checked(i, i < size /\ Kind(tags[i]) = NameAndType)

(* Mutation: the name of a NameAndType is not looked at, either. *)
EntryAgreesLoosely ==
    LET tag == tags[next]  item == slots[next] IN
    CASE tag \in {Class, String} -> IsUtf8(item[1])
      [] tag \in Refs            -> Worst({IsClass(item[1]), IsNameType(item[2])})
      [] tag = NameAndType       -> Worst({Checked(item[1], TRUE), Checked(item[2], TRUE)})
      [] OTHER                   -> "ok"

(* The descriptor of a NameAndType is not checked: its name is, twice. *)
EntryAgrees ==
    LET tag == tags[next]  item == slots[next] IN
    CASE tag \in {Class, String} -> IsUtf8(item[1])
      [] tag \in Refs            -> Worst({IsClass(item[1]), IsNameType(item[2])})
      [] tag = NameAndType       -> Worst({IsUtf8(item[1]), Checked(item[2], TRUE)})
      [] OTHER                   -> "ok"

(* Entries that name a string get the string in place of its index. *)
CheckEntry ==
    /\ Stage("check") /\ next < size
    /\ LET tag == tags[next]  item == slots[next] IN
       \/ Stop(EntryAgrees)
       \/ /\ EntryAgrees = "ok"
          /\ slots' = [slots EXCEPT ![next] =
                CASE tag \in {Class, String} -> slots[item[1]]
                  [] tag = NameAndType       -> <<slots[item[1]], slots[item[2]]>>
                  [] OTHER                   -> @]
          /\ tags' = [tags EXCEPT ![next] = IF tag \in {String, NameAndType}
                                            THEN @ + Resolved ELSE @]
          /\ next' = next + 1
          /\ Go("check", 0)
          /\ UNCHANGED <<size, left, member, kclass>>

EndOfCheck ==
    /\ Stage("check") /\ next >= size
    /\ Go("class", 0)
    /\ UNCHANGED <<pool, left, member, kclass>>

-----------------------------------------------------------------------------
(* The class and its interfaces                                             *)

ThisClass(i) ==
    LET v == NonNull(ClassAt(i))
    IN  IF v = "ok" /\ slots[i] # file.name THEN "bad" ELSE v

SuperClass(i) == IF ClassAt(i) = "null" THEN "ok" ELSE ClassAt(i)

ReadClass ==
    /\ Stage("class")
    /\ LET v == IF Fits(3) THEN Worst({ThisClass(At(2)), SuperClass(At(3))}) ELSE "bad"
       IN  \/ Stop(v)
           \/ /\ v = "ok"
              /\ kclass' = [kclass EXCEPT !.modifier = At(1), !.super = Name(At(3))]
              /\ Go("interfaces", 3)
              /\ UNCHANGED <<pool, left, member>>

(* A count and as many names of classes. *)
ClassNames ==
    IF ~Fits(1) THEN "bad" ELSE IF ~Fits(1 + At(1)) THEN "bad"
    ELSE Worst({AllocRefs(At(1))} \union {NonNull(ClassAt(At(1 + r))) : r \in 1..At(1)})

ReadInterfaces ==
    /\ Stage("interfaces")
    /\ \/ Stop(ClassNames)
       \/ /\ ClassNames = "ok"
          /\ kclass' = [kclass EXCEPT !.intfs = [r \in 1..At(1) |-> slots[At(1 + r)]]]
          /\ Go("fields", 1 + At(1))
          /\ UNCHANGED <<pool, left, member>>

-----------------------------------------------------------------------------
(* Members                                                                  *)

(* The count of fields or methods; more of them may be added. *)
ReadCount(stage, each, more) ==
    /\ Stage(stage)
    /\ LET v == IF Fits(1) THEN AllocRefs(At(1) + more) ELSE "bad"
       IN  \/ Stop(v)
           \/ /\ v = "ok"
              /\ left' = [left EXCEPT !.members = At(1)]
              /\ Go(each, 1)
              /\ UNCHANGED <<pool, member, kclass>>

(* parse_class_member, and the count of the attributes behind it. *)
ReadMember(stage, attrs) ==
    /\ Stage(stage) /\ left.members > 0
    /\ LET v == IF Fits(4) THEN Worst({NonNull(StringAt(At(2))), NonNull(StringAt(At(3)))})
                ELSE "bad"
       IN  \/ Stop(v)
           \/ /\ v = "ok"
              /\ member' = [NoMember EXCEPT !.modifier = At(1), !.name = slots[At(2)],
                                            !.descriptor = slots[At(3)]]
              /\ left' = [left EXCEPT !.members = @ - 1, !.attrs = At(4)]
              /\ Go(attrs, 4)
              /\ UNCHANGED <<pool, kclass>>

(* The name and the length in front of every attribute. *)
AttrHead    == IF Fits(2) THEN NonNull(StringAt(At(1))) ELSE "bad"
AttrName    == slots[At(1)]

(* Mutation: what is skipped need not be there. *)
AttrAnyLength == IF Fits(2) THEN NonNull(StringAt(At(1))) ELSE "bad"

AttrUnknown == IF AttrHead # "ok" THEN AttrHead ELSE IF Fits(2 + At(2)) THEN "ok" ELSE "bad"

Skip == 2 + At(2)

Static(m) == (m.modifier \div 8) % 2 = 1      \* MOD_STATIC

(* class_parse.cpp:499 looks for "ConstantVlaue" under the comment "parse     *)
(* field attribute: ConstantValue": of a file that spells the name as the     *)
(* format does, no constant is read, and the fields start out as 0.           *)
IsConstant == AttrHead = "ok" /\ Static(member) /\ AttrName = Str.ConstantVlaue

(* The first characters of the types a constant may have: what follows them *)
(* in a descriptor is not looked at.  TAG_String never matches, for strings are marked as resolved  *)
(* by now.                                                                   *)
TypesOf(tag) == CASE tag = Long    -> {Str.J}
                  [] tag = Float   -> {Str.F}
                  [] tag = Double  -> {Str.D}
                  [] tag = Integer -> {Str.I, Str.S, Str.Z, Str.B, Str.C}
                  [] OTHER         -> {}

ConstantVerdict ==
    IF ~Fits(3) \/ At(2) # 1 THEN "bad"
    ELSE IF At(3) > size THEN "bad"
    ELSE IF At(3) = size THEN "stray"
    ELSE IF SubSeq(member.descriptor, 1, 1) \in TypesOf(tags[At(3)]) THEN "ok" ELSE "bad"

FieldAttr ==
    /\ Stage("fieldattr") /\ left.attrs > 0
    /\ LET v == IF IsConstant THEN ConstantVerdict ELSE AttrUnknown
       IN  \/ Stop(v)
           \/ /\ v = "ok"
              /\ member' = IF IsConstant THEN [member EXCEPT !.constval = slots[At(3)]] ELSE member
              /\ left' = [left EXCEPT !.attrs = @ - 1]
              /\ Go("fieldattr", IF IsConstant THEN 3 ELSE Skip)
              /\ UNCHANGED <<pool, kclass>>

EndOfField ==
    /\ Stage("fieldattr") /\ left.attrs = 0
    /\ kclass' = [kclass EXCEPT !.fields = Append(@, member)]
    /\ Go("field", 0)
    /\ UNCHANGED <<pool, left, member>>

(* Fields the VM needs in some classes come behind those of the file. *)
Jnc == IF file.name \in DOMAIN JncFields THEN JncFields[file.name] ELSE <<>>

EndOfFields ==
    /\ Stage("field") /\ left.members = 0
    /\ kclass' = [kclass EXCEPT !.fields = @ \o
            [j \in DOMAIN Jnc |-> [NoMember EXCEPT !.modifier   = Jnc[j].modifier,
                                                  !.name       = Jnc[j].name,
                                                  !.descriptor = Jnc[j].descriptor]]]
    /\ Go("methods", 0)
    /\ UNCHANGED <<pool, left, member>>

-----------------------------------------------------------------------------
(* Code                                                                     *)

(* Where the handlers of a Code attribute are, and how many. *)
HandlersAt  == 6 + At(5)
Handlers    == Rows(HandlersAt + 1, 4, At(HandlersAt))
CodeEnd     == HandlersAt + 4 * At(HandlersAt) + 1

(* start_pc, end_pc, handler_pc, class_type_index: only the range is checked. *)
HandlerOk(h, length) == h[1] <= h[2] /\ h[1] <= length /\ h[2] <= length

CodeVerdict ==
    IF ~Fits(5) THEN "bad" ELSE IF ~Fits(HandlersAt) THEN "bad" ELSE IF ~Fits(CodeEnd) THEN "bad"
    ELSE Worst({AllocBytes(At(5)), AllocRefs(At(HandlersAt))} \union
               {IF HandlerOk(Handlers[r], At(5)) THEN "ok" ELSE "bad" : r \in DOMAIN Handlers})

IsCode       == AttrHead = "ok" /\ AttrName = Str.Code
IsExceptions == AttrHead = "ok" /\ AttrName = Str.Exceptions

(* parse_handlers returns early when the table is empty: the handlers, line   *)
(* numbers and variables of a Code attribute before this one stay.           *)
ReadCode ==
    /\ Stage("methodattr") /\ left.attrs > 0 /\ IsCode
    /\ \/ Stop(CodeVerdict)
       \/ /\ CodeVerdict = "ok"
          /\ member' = [member EXCEPT !.stack = At(3), !.locals = At(4),
                                      !.code = [k \in 1..At(5) |-> At(5 + k)],
                                      !.handlers = IF At(HandlersAt) = 0 THEN @ ELSE Handlers,
                                      !.codes = @ + 1]
          /\ left' = [left EXCEPT !.codeattrs = At(CodeEnd)]
          /\ Go("codeattr", CodeEnd)
          /\ UNCHANGED <<pool, kclass>>

(* The attributes of Code: line numbers and local variables. *)
TableEnd(w) == 3 + w * At(3)
Table(w)    == Rows(4, w, At(3))

LineVerdict ==
    IF ~Fits(3) THEN "bad" ELSE IF ~Fits(TableEnd(2)) THEN "bad"
    ELSE Worst({AllocRefs(At(3))} \union
               {IF Table(2)[r][1] > Len(member.code) THEN "bad" ELSE "ok" : r \in DOMAIN Table(2)})

(* start_pc, length, name, descriptor, index *)
VariableOk(v) ==
    IF v[1] + v[2] > Len(member.code) \/ v[5] > member.locals THEN "bad"
    ELSE Worst({NonNull(StringAt(v[3])), NonNull(StringAt(v[4]))})

VariableVerdict ==
    IF ~Fits(3) THEN "bad" ELSE IF ~Fits(TableEnd(5)) THEN "bad"
    ELSE Worst({AllocRefs(At(3))} \union {VariableOk(Table(5)[r]) : r \in DOMAIN Table(5)})

Variables == [r \in 1..At(3) |-> LET v == Table(5)[r]
                                 IN  <<v[1], v[2], slots[v[3]], slots[v[4]], v[5]>>]

CodeAttr(is, verdict, table, end) ==
    /\ Stage("codeattr") /\ left.codeattrs > 0 /\ is
    /\ \/ Stop(verdict)
       \/ /\ verdict = "ok"
          /\ member' = table
          /\ left' = [left EXCEPT !.codeattrs = @ - 1]
          /\ Go("codeattr", end)
          /\ UNCHANGED <<pool, kclass>>

IsLines     == AttrHead = "ok" /\ AttrName = Str.LineNumberTable
IsVariables == AttrHead = "ok" /\ AttrName = Str.LocalVariableTable

ReadLines     == CodeAttr(IsLines, LineVerdict, [member EXCEPT !.lines = Table(2)], TableEnd(2))
ReadVariables == CodeAttr(IsVariables, VariableVerdict,
                          [member EXCEPT !.variables = Variables], TableEnd(5))
SkipCodeAttr  == CodeAttr(~IsLines /\ ~IsVariables, AttrUnknown, member, Skip)

EndOfCode ==
    /\ Stage("codeattr") /\ left.codeattrs = 0
    /\ left' = [left EXCEPT !.attrs = @ - 1]
    /\ Go("methodattr", 0)
    /\ UNCHANGED <<pool, member, kclass>>

(* parse_exceptions; cell 3 is its count. *)
ExceptionVerdict ==
    IF ~Fits(3) THEN "bad" ELSE IF ~Fits(3 + At(3)) THEN "bad"
    ELSE Worst({AllocRefs(At(3))} \union {NonNull(ClassAt(At(3 + r))) : r \in 1..At(3)})

MethodAttr ==
    /\ Stage("methodattr") /\ left.attrs > 0 /\ ~IsCode
    /\ LET v == IF IsExceptions THEN ExceptionVerdict ELSE AttrUnknown
       IN  \/ Stop(v)
           \/ /\ v = "ok"
              /\ member' = IF IsExceptions
                           THEN [member EXCEPT !.exceptions = [r \in 1..At(3) |-> slots[At(3 + r)]]]
                           ELSE member
              /\ left' = [left EXCEPT !.attrs = @ - 1]
              /\ Go("methodattr", IF IsExceptions THEN 3 + At(3) ELSE Skip)
              /\ UNCHANGED <<pool, kclass>>

(* is_init and is_clinit follow from the name, is_finalize is never set. *)
EndOfMethod ==
    /\ Stage("methodattr") /\ left.attrs = 0
    /\ kclass' = [kclass EXCEPT !.methods = Append(@, member),
                                !.clinit = IF member.name = Str.clinit
                                           THEN Len(kclass.methods) + 1 ELSE @]
    /\ Go("method", 0)
    /\ UNCHANGED <<pool, left, member>>

EndOfMethods ==
    /\ Stage("method") /\ left.members = 0
    /\ LET v == IF Fits(1) THEN "ok" ELSE "bad"
       IN  \/ Stop(v)
           \/ /\ v = "ok"
              /\ left' = [left EXCEPT !.attrs = At(1)]
              /\ Go("attr", 1)
              /\ UNCHANGED <<pool, member, kclass>>

-----------------------------------------------------------------------------
(* The attributes of the class                                              *)

IsSource == AttrHead = "ok" /\ AttrName = Str.SourceFile
IsInner  == AttrHead = "ok" /\ AttrName = Str.InnerClasses

(* inner class, outer class, name, modifier: any of the names may be absent, *)
(* and what is read is not kept.                                             *)
InnerOk(r) == Worst({ClassAt(r[1]), ClassAt(r[2]), StringAt(r[3])})

InnerVerdict ==
    IF ~Fits(3) THEN "bad" ELSE IF ~Fits(TableEnd(4)) THEN "bad"
    ELSE Worst({AllocRefs(At(3))} \union {InnerOk(Table(4)[r]) : r \in DOMAIN Table(4)})

SourceVerdict == IF Fits(3) THEN NonNull(StringAt(At(3))) ELSE "bad"

ClassAttr ==
    /\ Stage("attr") /\ left.attrs > 0
    /\ LET v == IF IsSource THEN SourceVerdict ELSE IF IsInner THEN InnerVerdict ELSE AttrUnknown
       IN  \/ Stop(v)
           \/ /\ v = "ok"
              /\ kclass' = IF IsSource THEN [kclass EXCEPT !.source = slots[At(3)]] ELSE kclass
              /\ left' = [left EXCEPT !.attrs = @ - 1]
              /\ Go("attr", IF IsSource THEN 3 ELSE IF IsInner THEN TableEnd(4) ELSE Skip)
              /\ UNCHANGED <<pool, member>>

Accept ==
    /\ Stage("attr") /\ left.attrs = 0
    /\ out' = "accepted"
    /\ UNCHANGED <<file, pos, pc, pool, left, member, kclass>>

ReadFieldCount  == ReadCount("fields", "field", Len(Jnc))
ReadField       == ReadMember("field", "fieldattr")
ReadMethodCount == ReadCount("methods", "method", 0)
ReadMethod      == ReadMember("method", "methodattr")

Next ==
    \/ ReadHeader \/ ReadEntry \/ EndOfPool \/ CheckEntry \/ EndOfCheck
    \/ ReadClass \/ ReadInterfaces
    \/ ReadFieldCount \/ ReadField \/ FieldAttr \/ EndOfField \/ EndOfFields
    \/ ReadMethodCount \/ ReadMethod \/ ReadCode \/ MethodAttr \/ EndOfMethod \/ EndOfMethods
    \/ ReadLines \/ ReadVariables \/ SkipCodeAttr \/ EndOfCode
    \/ ClassAttr \/ Accept

(* class_parse is one call: it runs until it returns. *)
Spec == Init /\ [][Next]_vars /\ WF_vars(Next)

-----------------------------------------------------------------------------
(* Properties                                                               *)

(* A file that was written from a class is read as that class, wherever its *)
(* constants stand in the pool and however its attributes are arranged, and *)
(* nothing of the file is left (class_parse).  Of a field that came with no *)
(* constant under the name the code looks for, the value is left open: the  *)
(* comments at class_parse.cpp:489 and 508 say that a ConstantValue is      *)
(* kept, and the code does not keep it.                                     *)
SameValue(given, field) == IF given = <<>> THEN [field EXCEPT !.constval = <<>>] ELSE field

SameClass(c, given) ==
    /\ Len(c.fields) = Len(given.fields)
    /\ c = [given EXCEPT !.fields = c.fields]
    /\ \A i \in DOMAIN c.fields :
          SameValue(given.fields[i].constval, c.fields[i]) = given.fields[i]

ReadsBack ==
    (file.kind = "written" /\ out # "parsing") =>
        /\ out = "accepted"
        /\ pos = Len(file.cells)
        /\ SameClass(kclass, file.class)
        /\ \A i \in DOMAIN file.slots : slots[i] = file.slots[i]

(* A file that ends too soon is refused, wherever it was cut (readbytes). *)
CutsRefused == file.kind = "cut" => out \in {"parsing", "refused"}

(* What is accepted hangs together, however the file was damaged: every     *)
(* entry of the pool was checked against entries of the kind it needs, and  *)
(* the tables of every method stay within its code and its locals           *)
(* (parse_constant_pool, parse_code).  The descriptor of a NameAndType and  *)
(* the class of a handler are not checked; and nothing says that a method   *)
(* has one Code attribute, so that the tables of the first stay with the    *)
(* code of the second, which may be shorter.                                *)
Texts == {slots[i] : i \in {j \in 1..(size - 1) : tags[j] = Utf8}}

NamesHold(m) ==
    /\ {m.name, m.descriptor} \union ToSet(m.exceptions) \subseteq Texts
    /\ \A r \in DOMAIN m.variables : {m.variables[r][3], m.variables[r][4]} \subseteq Texts

TablesHold(m) ==
    /\ \A r \in DOMAIN m.handlers : /\ m.handlers[r][1] <= m.handlers[r][2]
                                    /\ m.handlers[r][2] <= Len(m.code)
    /\ \A r \in DOMAIN m.lines : m.lines[r][1] <= Len(m.code)
    /\ \A r \in DOMAIN m.variables : /\ m.variables[r][1] + m.variables[r][2] <= Len(m.code)
                                     /\ m.variables[r][5] <= m.locals

MethodHolds(m) == NamesHold(m) /\ (m.codes <= 1 => TablesHold(m))

PoolHolds(i) ==
    CASE Kind(tags[i]) \in {Class, String} -> slots[i] \in Texts
      [] Kind(tags[i]) = NameAndType       -> slots[i][1] \in Texts
      [] tags[i] \in Refs -> /\ tags[slots[i][1]] = Class
                             /\ Kind(tags[slots[i][2]]) = NameAndType
      [] OTHER -> TRUE

AcceptedHolds ==
    out = "accepted" =>
        /\ \A i \in 1..(size - 1) : PoolHolds(i)
        /\ {kclass.super} \union ToSet(kclass.intfs) \subseteq Texts \union {None}
        /\ \A m \in ToSet(kclass.methods) : MethodHolds(m)

=============================================================================
