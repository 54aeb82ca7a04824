-------------------------- MODULE ClassParseProofs --------------------------
(* What an accepted class file is known to be, for every file: the class is *)
(* well typed, and what was accepted hangs together.                        *)
EXTENDS ClassParse, TLAPS

Text     == Seq(Nat)
Numbers  == {Integer, Float, Long, Double}
Plain    == Numbers \union Refs \union {Utf8, Class}
RawTags  == Plain \union {String, NameAndType}
DoneTags == Plain \union {String + Resolved, NameAndType + Resolved}

(* What is read before the class itself, and after it. *)
Early == {"header", "pool", "check", "class"}
Late  == {"interfaces", "fields", "field", "fieldattr", "methods", "method",
          "methodattr", "codeattr", "attr"}

(* A korp_method and a korp_class. *)
MemberType ==
    [modifier : Nat, name : Text, descriptor : Text, constval : Text,
     code : Text, stack : Nat, locals : Nat, handlers : Seq(Text), lines : Seq(Text),
     variables : Seq(Nat \X Nat \X Text \X Text \X Nat), exceptions : Seq(Text), codes : Nat]
ClassType ==
    [modifier : Nat, super : Text, intfs : Seq(Text), fields : Seq(MemberType),
     methods : Seq(MemberType), source : Text, clinit : Nat]

LastSlot == IF size = 0 THEN 0 ELSE size - 1

(* The variables have their types; the pool has its slots once it was made. *)
TypeOK ==
    /\ file \in Inputs /\ pos \in Nat
    /\ pc \in Early \union Late
    /\ out \in {"parsing", "accepted", "refused", "stray"}
    /\ next \in Nat \ {0} /\ size \in Nat
    /\ left \in [members : Nat, attrs : Nat, codeattrs : Nat]
    /\ member \in MemberType /\ kclass \in ClassType
    /\ pc # "header" => /\ tags \in [0..LastSlot -> Nat] /\ DOMAIN slots = 0..LastSlot
                        /\ tags[0] = 0

(* An entry as it stands in the file, and an entry that was checked. *)
Valued(i) == tags[i] \in Numbers \union {Utf8} => slots[i] \in Text

RawEntry(i) ==
    /\ tags[i] \in RawTags /\ Valued(i)
    /\ tags[i] \in {Class, String} => slots[i][1] \in Nat
    /\ tags[i] \in Refs \union {NameAndType} => slots[i][1] \in Nat /\ slots[i][2] \in Nat

DoneEntry(i) ==
    /\ tags[i] \in DoneTags /\ Valued(i) /\ PoolHolds(i)
    /\ tags[i] \in Refs => {slots[i][1], slots[i][2]} \subseteq 1..(size - 1)

PoolInv ==
    /\ pc \in {"header"} => next = 1 /\ size = 0
    /\ pc \in {"pool", "check"} => next = 1 \/ next <= size
    /\ pc = "pool"  => \A i \in 1..(next - 1) : RawEntry(i)
    /\ pc = "check" => /\ \A i \in 1..(next - 1) : DoneEntry(i)
                       /\ \A i \in next..(size - 1) : RawEntry(i)
    /\ pc \in Late \union {"class"} => \A i \in 1..(size - 1) : DoneEntry(i)

(* The class so far. *)
ClassInv ==
    /\ pc \in Early => kclass = NewClass
    /\ {kclass.super} \union ToSet(kclass.intfs) \subseteq Texts \union {None}
    /\ \A m \in ToSet(kclass.methods) : MethodHolds(m)

(* The method that is being read: without a Code attribute it has no tables. *)
MemberInv ==
    /\ member.codes = 0 => member.handlers = <<>> /\ member.lines = <<>> /\ member.variables = <<>>
    /\ pc \in {"methodattr", "codeattr"} => MethodHolds(member)
    /\ pc = "codeattr" => member.codes > 0 /\ left.attrs > 0

Inv == TypeOK /\ PoolInv /\ ClassInv /\ MemberInv /\ (out = "accepted" => pc = "attr")

-----------------------------------------------------------------------------
(* Reading the file                                                         *)

(* A cell that is in the file is a number. *)
LEMMA CellIsNat ==
  ASSUME TypeOK, NEW n \in Nat, Fits(n)
  PROVE  \A k \in 1..n : Fits(k) /\ At(k) \in Nat
<1>1. file.cells \in Seq(Nat) BY InputsAssumption DEF TypeOK
<1>2. TAKE k \in 1..n
<1>3. k \in Nat /\ pos \in Nat /\ pos + n <= Len(file.cells) /\ Len(file.cells) \in Nat
  BY <1>1 DEF TypeOK, Fits
<1>4. pos + k \in 1..Len(file.cells) BY <1>3
<1> QED BY <1>1, <1>3, <1>4 DEF At, Fits

(* Every verdict of a step that goes on is ok. *)
LEMMA WorstIsOk ==
  ASSUME NEW vs, Worst(vs) = "ok"
  PROVE  "bad" \notin vs /\ "stray" \notin vs
  BY DEF Worst

LEMMA RowsType ==
  ASSUME TypeOK, NEW k \in Nat \ {0}, NEW w \in Nat, NEW n \in Nat,
         NEW e, e = k + w * n - 1, Fits(e)
  PROVE  \A rows : rows = Rows(k, w, n) =>
             /\ rows \in Seq(Text) /\ DOMAIN rows = 1..n
             /\ \A r \in 1..n : \A c \in 1..w : rows[r][c] \in Nat
<1>1. k + w * n - 1 \in Nat OBVIOUS
<1>2. ASSUME NEW r \in 1..n PROVE Row(k, w, r) \in [1..w -> Nat]
  <2>1. ASSUME NEW c \in 1..w PROVE k + w * (r - 1) + c - 1 \in 1..(k + w * n - 1)
    <3>1. w * (r - 1) \in Nat /\ w * (r - 1) + w = w * r /\ w * r <= w * n OBVIOUS
    <3> QED BY <3>1
  <2> QED BY <2>1, <1>1, CellIsNat DEF Row
<1>3. Rows(k, w, n) \in [1..n -> Text]
  BY <1>2 DEF Rows, Text
<1> QED BY <1>2, <1>3 DEF Rows

-----------------------------------------------------------------------------
(* The tags                                                                 *)

LEMMA TagFacts ==
  /\ \A t \in Plain : Kind(t) = t
  /\ \A t \in RawTags : Kind(t) = t
  /\ Kind(String + Resolved) = String /\ Kind(NameAndType + Resolved) = NameAndType
  /\ Kind(0) = 0
  BY DEF Plain, RawTags, Numbers, Refs, Kind, Resolved, Utf8, Integer, Float, Long, Double, Class,
         String, Fieldref, Methodref, InterfaceMethodref, NameAndType

(* What a checked entry is, kind by kind; and the same of the next state. *)
LEMMA PoolHoldsIs ==
  ASSUME NEW i, tags[i] \in DoneTags
  PROVE  PoolHolds(i) <=>
           /\ tags[i] \in {Class, String + Resolved} => slots[i] \in Texts
           /\ tags[i] = NameAndType + Resolved => slots[i][1] \in Texts
           /\ tags[i] \in Refs => /\ tags[slots[i][1]] = Class
                                 /\ Kind(tags[slots[i][2]]) = NameAndType
<1> DEFINE t == tags[i]
<1>1. CASE t \in Plain
  <2>1. Kind(t) = t BY <1>1, TagFacts
  <2> QED BY <1>1, <2>1 DEF PoolHolds, Plain, Numbers, Refs, Utf8, Integer, Float, Long, Double,
          Class, String, Fieldref, Methodref, InterfaceMethodref, NameAndType, Resolved
<1>2. CASE t = String + Resolved
  <2>1. Kind(t) = String BY <1>2, TagFacts
  <2> QED BY <1>2, <2>1 DEF PoolHolds, Refs, Class, String, Fieldref, Methodref,
          InterfaceMethodref, NameAndType, Resolved
<1>3. CASE t = NameAndType + Resolved
  <2>1. Kind(t) = NameAndType BY <1>3, TagFacts
  <2> QED BY <1>3, <2>1 DEF PoolHolds, Refs, Class, String, Fieldref, Methodref,
          InterfaceMethodref, NameAndType, Resolved
<1> QED BY <1>1, <1>2, <1>3 DEF DoneTags

LEMMA PoolHoldsIsNext ==
  ASSUME NEW i, tags'[i] \in DoneTags
  PROVE  PoolHolds(i)' <=>
           /\ tags'[i] \in {Class, String + Resolved} => slots'[i] \in Texts'
           /\ tags'[i] = NameAndType + Resolved => slots'[i][1] \in Texts'
           /\ tags'[i] \in Refs => /\ tags'[slots'[i][1]] = Class
                                 /\ Kind(tags'[slots'[i][2]]) = NameAndType
<1> DEFINE t == tags'[i]
<1>1. CASE t \in Plain
  <2>1. Kind(t) = t BY <1>1, TagFacts
  <2> QED BY <1>1, <2>1 DEF PoolHolds, Plain, Numbers, Refs, Utf8, Integer, Float, Long, Double,
          Class, String, Fieldref, Methodref, InterfaceMethodref, NameAndType, Resolved
<1>2. CASE t = String + Resolved
  <2>1. Kind(t) = String BY <1>2, TagFacts
  <2> QED BY <1>2, <2>1 DEF PoolHolds, Refs, Class, String, Fieldref, Methodref,
          InterfaceMethodref, NameAndType, Resolved
<1>3. CASE t = NameAndType + Resolved
  <2>1. Kind(t) = NameAndType BY <1>3, TagFacts
  <2> QED BY <1>3, <2>1 DEF PoolHolds, Refs, Class, String, Fieldref, Methodref,
          InterfaceMethodref, NameAndType, Resolved
<1> QED BY <1>1, <1>2, <1>3 DEF DoneTags

(* Once the pool was checked, what is read as a name is a text of the pool. *)
LEMMA NamesAreTexts ==
  ASSUME TypeOK, PoolInv, pc \in Late \union {"class"}, NEW i \in Nat
  PROVE  /\ ClassAt(i) = "ok" => slots[i] \in Texts
         /\ StringAt(i) = "ok" => slots[i] \in Texts
<1>1. ASSUME i \in 1..(size - 1), tags[i] = Class PROVE slots[i] \in Texts
  <2>1. PoolHolds(i) /\ tags[i] \in DoneTags BY <1>1 DEF PoolInv, DoneEntry
  <2> QED BY <1>1, <2>1, PoolHoldsIs
<1>2. ASSUME i \in 1..(size - 1), Kind(tags[i]) = Utf8 PROVE slots[i] \in Texts
  <2>1. tags[i] \in DoneTags BY <1>2 DEF PoolInv, DoneEntry
  <2>2. tags[i] = Utf8
    BY <2>1, <1>2, TagFacts DEF DoneTags, Plain, Utf8, String, NameAndType
  <2> QED BY <1>2, <2>2 DEF Texts
<1>3. ClassAt(i) = "ok" => i \in 1..(size - 1) /\ tags[i] = Class
  BY DEF ClassAt, TypeOK
<1>4. StringAt(i) = "ok" => i \in 1..(size - 1) /\ Kind(tags[i]) = Utf8
  BY DEF StringAt, TypeOK
<1> QED BY <1>1, <1>2, <1>3, <1>4

LEMMA TextsType ==
  ASSUME TypeOK, PoolInv, pc \in Late \union {"class"}
  PROVE  Texts \subseteq Text
  BY DEF PoolInv, DoneEntry, Valued, Texts

-----------------------------------------------------------------------------
(* Steps that leave the pool alone                                          *)

LEMMA PoolStays ==
  ASSUME UNCHANGED pool
  PROVE  /\ Texts' = Texts /\ LastSlot' = LastSlot
         /\ \A i : (RawEntry(i)' <=> RawEntry(i)) /\ (DoneEntry(i)' <=> DoneEntry(i))
         /\ \A m : MethodHolds(m)' <=> MethodHolds(m)
<1>1. Texts' = Texts BY DEF pool, Texts
<1>2. \A i : PoolHolds(i)' <=> PoolHolds(i) BY <1>1 DEF pool, PoolHolds
<1>3. \A i : (RawEntry(i)' <=> RawEntry(i)) /\ (DoneEntry(i)' <=> DoneEntry(i))
  BY <1>2 DEF pool, RawEntry, DoneEntry, Valued
<1>4. \A m : MethodHolds(m)' <=> MethodHolds(m)
  BY <1>1 DEF MethodHolds, NamesHold, TablesHold
<1> QED BY <1>1, <1>3, <1>4 DEF pool, LastSlot

(* A step behind the pool, as far as it has to be shown anew. *)
LEMMA LateStep ==
  ASSUME Inv, UNCHANGED <<file, pool>>,
         pc \in Late \union {"class"}, pc' \in Late, pos' \in Nat,
         out' = "parsing" \/ (out' = "accepted" /\ pc' = "attr"),
         left' \in [members : Nat, attrs : Nat, codeattrs : Nat],
         member' = member \/
            /\ member' \in MemberType
            /\ member'.codes = 0 =>
                  member'.handlers = <<>> /\ member'.lines = <<>> /\ member'.variables = <<>>,
         pc' \in {"methodattr", "codeattr"} => MethodHolds(member'),
         pc' = "codeattr" => member'.codes > 0 /\ left'.attrs > 0,
         kclass' = kclass \/
            /\ kclass' \in ClassType
            /\ {kclass'.super} \union ToSet(kclass'.intfs) \subseteq Texts \union {None}
            /\ \A m \in ToSet(kclass'.methods) : MethodHolds(m)
  PROVE  Inv'
<1>0. UNCHANGED pool BY DEF pool
<1>1. TypeOK'
  <2>1. pc # "header" /\ pc' # "header" BY DEF Late
  <2> QED BY <2>1, <1>0, PoolStays DEF Inv, TypeOK, pool
<1>2. PoolInv'
  <2>1. pc' \notin Early BY DEF Late, Early
  <2>2. \A i \in 1..(size - 1) : DoneEntry(i) BY DEF Inv, PoolInv
  <2>3. \A i \in 1..(size' - 1) : DoneEntry(i)' BY <2>2, <1>0, PoolStays DEF pool
  <2> QED BY <2>1, <2>3 DEF PoolInv, Early
<1>3. ClassInv'
  <2>1. pc' \notin Early BY DEF Late, Early
  <2>2. Texts' = Texts /\ \A m : MethodHolds(m)' <=> MethodHolds(m) BY <1>0, PoolStays
  <2>3. {kclass'.super} \union ToSet(kclass'.intfs) \subseteq Texts' \union {None}
    BY <2>2 DEF Inv, ClassInv
  <2>4. \A m \in ToSet(kclass'.methods) : MethodHolds(m)
    BY DEF Inv, ClassInv
  <2> QED BY <2>1, <2>2, <2>3, <2>4 DEF ClassInv
<1>4. MemberInv'
  <2>1. \A m : MethodHolds(m)' <=> MethodHolds(m) BY <1>0, PoolStays
  <2>2. MethodHolds(member') => MethodHolds(member)'
    BY <1>0, PoolStays DEF MethodHolds, NamesHold, TablesHold
  <2> QED BY <2>2 DEF Inv, MemberInv
<1> QED BY <1>1, <1>2, <1>3, <1>4 DEF Inv

(* A parsing that ends leaves everything where it is. *)
LEMMA StopStep ==
  ASSUME Inv, NEW v, Stop(v)
  PROVE  Inv'
<1>1. UNCHANGED <<file, pos, pc, pool, left, member, kclass>> /\ out' \in {"refused", "stray"}
  BY DEF Stop
<1>2. UNCHANGED pool BY <1>1
<1>3. Texts' = Texts /\ LastSlot' = LastSlot BY <1>2, PoolStays
<1>4. TypeOK' BY <1>1, <1>3 DEF Inv, TypeOK, pool
<1>5. PoolInv' BY <1>1, <1>2, PoolStays DEF Inv, PoolInv, pool
<1>6. ClassInv' BY <1>1, <1>2, <1>3, PoolStays DEF Inv, ClassInv
<1>7. MemberInv'
  BY <1>1, <1>3 DEF Inv, MemberInv, MethodHolds, NamesHold, TablesHold
<1> QED BY <1>1, <1>4, <1>5, <1>6, <1>7 DEF Inv

-----------------------------------------------------------------------------
(* The beginning, and the steps through the pool                            *)

LEMMA EmptyTypes == NoMember \in MemberType /\ NewClass \in ClassType
<1>1. None \in Text /\ \A S : <<>> \in Seq(S) BY DEF None, Text
<1> QED BY <1>1 DEF NoMember, NewClass, MemberType, ClassType, Text

LEMMA NoMemberHolds ==
  /\ NoMember.codes = 0 /\ NoMember.handlers = <<>> /\ NoMember.lines = <<>>
  /\ NoMember.variables = <<>> /\ NoMember.exceptions = <<>>
  BY DEF NoMember

LEMMA NewClassHolds ==
  /\ {NewClass.super} \union ToSet(NewClass.intfs) \subseteq Texts \union {None}
  /\ \A m \in ToSet(NewClass.methods) : MethodHolds(m)
<1>1. ToSet(<<>>) = {} BY DEF ToSet
<1> QED BY <1>1 DEF NewClass

LEMMA InitInv == Init => Inv
<1> SUFFICES ASSUME Init PROVE Inv OBVIOUS
<1>1. TypeOK BY EmptyTypes DEF Init, TypeOK, Early, Late
<1>2. PoolInv BY DEF Init, PoolInv, Late
<1>3. ClassInv BY NewClassHolds DEF Init, ClassInv
<1>4. MemberInv BY NoMemberHolds DEF Init, MemberInv
<1> QED BY <1>1, <1>2, <1>3, <1>4 DEF Init, Inv

(* The two variables of the class and the member before the class is read. *)
LEMMA EarlyStep ==
  ASSUME Inv, pc \in Early, pc' \in Early, UNCHANGED <<left, member, kclass, file>>,
         pos' \in Nat, out' = "parsing", TypeOK', PoolInv'
  PROVE  Inv'
<1>1. kclass' = NewClass BY DEF Inv, ClassInv
<1>2. ClassInv' 
  <2>1. ToSet(<<>>) = {} BY DEF ToSet
  <2> QED BY <1>1, <2>1 DEF ClassInv, NewClass
<1>3. MemberInv' BY DEF Inv, MemberInv, Early
<1> QED BY <1>2, <1>3 DEF Inv

LEMMA LastOfMax ==
  ASSUME NEW n \in Nat
  PROVE  Max({0, n - 1}) = IF n = 0 THEN 0 ELSE n - 1
<1> DEFINE m == IF n = 0 THEN 0 ELSE n - 1
           S == {0, n - 1}
<1>1. m \in S /\ \A y \in S : m >= y OBVIOUS
<1>2. \A x \in S : (\A y \in S : x >= y) => x = m BY <1>1
<1>3. Max(S) \in S /\ \A y \in S : Max(S) >= y BY <1>1 DEF Max
<1> QED BY <1>2, <1>3

LEMMA HeaderInv == ASSUME Inv, ReadHeader PROVE Inv'
<1>1. CASE \E v : Stop(v) BY <1>1, StopStep
<1>2. CASE ~ \E v : Stop(v)
  <2>1. Fits(4) /\ size' = At(4) /\ tags' = [i \in 0..Max({0, At(4) - 1}) |-> 0]
        /\ slots' = [i \in DOMAIN tags' |-> <<>>] /\ Go("pool", 4)
        /\ UNCHANGED <<next, left, member, kclass>> /\ Stage("header")
    BY <1>2 DEF ReadHeader
  <2>2. PICK n : n = At(4) OBVIOUS
  <2>3. n \in Nat /\ pos \in Nat BY <2>1, <2>2, CellIsNat DEF Inv, TypeOK
  <2>4. tags' \in [0..LastSlot' -> Nat] /\ DOMAIN slots' = 0..LastSlot' /\ tags'[0] = 0
    <3>1. LastSlot' = Max({0, n - 1}) /\ LastSlot' \in Nat
      BY <2>1, <2>2, <2>3, LastOfMax DEF LastSlot
    <3> QED BY <2>1, <2>2, <3>1
  <2>5. pc = "header" /\ out = "parsing" /\ pc' = "pool" /\ pos' = pos + 4
        /\ UNCHANGED <<file, out>> BY <2>1 DEF Stage, Go
  <2>6. TypeOK' BY <2>1, <2>2, <2>3, <2>4, <2>5 DEF Inv, TypeOK, Early
  <2>7. next' = 1 BY <2>1, <2>5 DEF Inv, PoolInv
  <2>8. PoolInv' BY <2>5, <2>7 DEF PoolInv, Late
  <2> QED BY <2>1, <2>3, <2>5, <2>6, <2>8, EarlyStep DEF Early
<1> QED BY <1>1, <1>2

LEMMA TextOfRow ==
  ASSUME NEW n \in Nat, NEW f \in [1..n -> Nat]
  PROVE  f \in Text
  BY DEF Text

(* An entry that fits the file and the pool. *)
LEMMA EntryFacts ==
  ASSUME Inv, pc = "pool", next < size, EntryVerdict = "ok",
         NEW tag, tag = At(1), NEW item,
         item = IF tag = Utf8 THEN EntryText ELSE [k \in 1..Width(tag) |-> At(1 + k)]
  PROVE  /\ tag \in RawTags /\ Wide(tag) \in 1..2 /\ next + Wide(tag) <= size
         /\ tag \in Numbers \union {Utf8} => item \in Text
         /\ tag \in {Class, String} => item[1] \in Nat
         /\ tag \in Refs \union {NameAndType} => item[1] \in Nat /\ item[2] \in Nat
         /\ (IF tag = Utf8 THEN 2 + At(2) ELSE 1 + Width(tag)) \in Nat
<1>1. Fits(1) /\ next \in Nat /\ size \in Nat BY DEF EntryVerdict, Inv, TypeOK
<1>2. tag \in Nat BY <1>1, CellIsNat DEF Inv
<1>3. Wide(tag) \in 1..2 BY DEF Wide
<1>4. CASE tag = Utf8
  <2>1. Fits(2) /\ Fits(2 + At(2)) BY <1>1, <1>4 DEF EntryVerdict, Utf8, Width, Class, String, Integer,
          Float, Refs, Fieldref, Methodref, InterfaceMethodref, NameAndType, Long, Double
  <2>2. At(2) \in Nat BY <2>1, CellIsNat DEF Inv
  <2>3. PICK n : n = At(2) OBVIOUS
  <2>4. \A k \in 1..(2 + n) : At(k) \in Nat BY <2>1, <2>2, <2>3, CellIsNat DEF Inv
  <2>5. EntryText \in [1..n -> Nat] BY <2>2, <2>3, <2>4 DEF EntryText
  <2>6. item \in Text BY <1>4, <2>2, <2>3, <2>5 DEF Text
  <2>7. Wide(tag) = 1 BY <1>4 DEF Wide, Utf8, Long, Double
  <2> QED BY <1>1, <1>4, <2>2, <2>6, <2>7
        DEF RawTags, Plain, Numbers, Utf8, Class, String, Refs, NameAndType, Fieldref, Methodref,
            InterfaceMethodref
<1>5. CASE tag # Utf8
  <2>1. Width(tag) > 0 /\ Fits(1 + Width(tag)) /\ ~(next + Wide(tag) > size)
    BY <1>1, <1>5 DEF EntryVerdict
  <2>2. \/ tag \in {Class, String, Integer, Float} /\ Width(tag) = 1
        \/ tag \in Refs \union {NameAndType, Long, Double} /\ Width(tag) = 2
    BY <2>1 DEF Width, Class, String, Integer, Float, Refs, Fieldref, Methodref,
                InterfaceMethodref, NameAndType, Long, Double
  <2>3. PICK w : w = Width(tag) OBVIOUS
  <2>4. w \in 1..2 BY <2>2, <2>3
  <2>5. \A k \in 1..(1 + w) : At(k) \in Nat BY <2>1, <2>3, <2>4, CellIsNat DEF Inv
  <2>6. item = [k \in 1..w |-> At(1 + k)] BY <1>5, <2>3
  <2>7. \A k \in 1..w : item[k] \in Nat
    <3>1. TAKE k \in 1..w
    <3>2. 1 + k \in 1..(1 + w) BY <2>4
    <3>3. At(1 + k) \in Nat BY <3>2, <2>5
    <3> QED BY <3>3, <2>6
  <2>8. item \in Text
    <3>1. w \in Nat BY <2>4
    <3>2. item \in [1..w -> Nat] BY <2>6, <2>7
    <3> QED BY <3>1, <3>2, TextOfRow
  <2>9. item[1] \in Nat BY <2>4, <2>7
  <2>10. tag \in Refs \union {NameAndType} => w = 2
    BY <2>2, <2>3 DEF Class, String, Integer, Float, Refs, Fieldref, Methodref,
                InterfaceMethodref, NameAndType
  <2>11. tag \in Refs \union {NameAndType} => item[2] \in Nat
    <3>1. w = 2 => 2 \in 1..w BY <2>4
    <3> QED BY <2>7, <2>10, <3>1
  <2>12. tag \in RawTags BY <2>2 DEF RawTags, Plain, Numbers
  <2> QED BY <1>1, <1>3, <1>5, <2>1, <2>3, <2>4, <2>8, <2>9, <2>11, <2>12
<1> QED BY <1>4, <1>5

LEMMA EntryInv == ASSUME Inv, ReadEntry PROVE Inv'
<1>1. CASE \E v : Stop(v) BY <1>1, StopStep
<1>2. CASE ~ \E v : Stop(v)
  <2>1. /\ Stage("pool") /\ next < size /\ EntryVerdict = "ok"
        /\ UNCHANGED <<size, left, member, kclass>>
    BY <1>2 DEF ReadEntry
  <2>2. PICK tag : tag = At(1) OBVIOUS
  <2>3. PICK item : item = IF tag = Utf8 THEN EntryText ELSE [k \in 1..Width(tag) |-> At(1 + k)]
    OBVIOUS
  <2>4. PICK w : w = Wide(tag) OBVIOUS
  <2>5. PICK n : n = IF tag = Utf8 THEN 2 + At(2) ELSE 1 + Width(tag) OBVIOUS
  <2>6. /\ tags' = [i \in DOMAIN tags |-> IF i \in next..(next + w - 1) THEN tag ELSE tags[i]]
        /\ slots' = [i \in DOMAIN slots |-> IF i \in next..(next + w - 1) THEN item ELSE slots[i]]
        /\ next' = next + w /\ Go("pool", n)
    BY <1>2, <2>2, <2>3, <2>4, <2>5 DEF ReadEntry
  <2>7. pc = "pool" /\ pc' = "pool" /\ out = "parsing" /\ UNCHANGED <<file, out>> /\ pos' = pos + n
    BY <2>1, <2>6 DEF Stage, Go
  <2>8. /\ tag \in RawTags /\ w \in 1..2 /\ next + w <= size
        /\ tag \in Numbers \union {Utf8} => item \in Text
        /\ tag \in {Class, String} => item[1] \in Nat
        /\ tag \in Refs \union {NameAndType} => item[1] \in Nat /\ item[2] \in Nat
        /\ n \in Nat
    BY <2>1, <2>2, <2>3, <2>4, <2>5, <2>7, EntryFacts
  <2>9. /\ tags \in [0..LastSlot -> Nat] /\ DOMAIN slots = 0..LastSlot /\ tags[0] = 0
        /\ size \in Nat /\ next \in Nat \ {0} /\ pos \in Nat /\ LastSlot' = LastSlot
        /\ LastSlot = size - 1
    BY <2>1, <2>7 DEF Inv, TypeOK, LastSlot
  <2>10. tag \in Nat
    BY <2>8 DEF RawTags, Plain, Numbers, Refs, Utf8, Integer, Float, Long, Double, Class,
         String, Fieldref, Methodref, InterfaceMethodref, NameAndType
  <2>11. TypeOK'
    <3>1. tags' \in [0..LastSlot' -> Nat] /\ DOMAIN slots' = 0..LastSlot'
      BY <2>6, <2>9, <2>10
    <3>2. tags'[0] = 0 BY <2>6, <2>8, <2>9
    <3>3. next' \in Nat \ {0} /\ pos' \in Nat BY <2>6, <2>7, <2>8, <2>9
    <3> QED BY <2>1, <2>7, <3>1, <3>2, <3>3 DEF Inv, TypeOK
  <2>12. ASSUME NEW i \in 1..(next' - 1) PROVE RawEntry(i)'
    <3>1. i \in 0..LastSlot /\ i \in Nat BY <2>6, <2>8, <2>9
    <3>2. CASE i < next
      <4>1. RawEntry(i) BY <2>7, <2>9, <3>1, <3>2, <2>12 DEF Inv, PoolInv
      <4>2. tags'[i] = tags[i] /\ slots'[i] = slots[i] BY <2>6, <2>9, <3>1, <3>2
      <4> QED BY <4>1, <4>2 DEF RawEntry, Valued
    <3>3. CASE ~(i < next)
      <4>1. tags'[i] = tag /\ slots'[i] = item BY <2>6, <2>8, <2>9, <3>1, <3>3
      <4> QED BY <4>1, <2>8 DEF RawEntry, Valued
    <3> QED BY <3>2, <3>3
  <2>13. PoolInv' BY <2>1, <2>6, <2>7, <2>8, <2>12 DEF PoolInv, Late
  <2> QED BY <2>1, <2>7, <2>8, <2>9, <2>11, <2>13, EarlyStep DEF Early
<1> QED BY <1>1, <1>2

LEMMA EndOfPoolInv == ASSUME Inv, EndOfPool PROVE Inv'
<1>1. /\ pc = "pool" /\ pc' = "check" /\ out' = "parsing" /\ pos' = pos + 0 /\ file' = file
      /\ next >= size /\ next' = 1 /\ UNCHANGED <<size, tags, slots, left, member, kclass>>
  BY DEF EndOfPool, Stage, Go
<1>2. pos' \in Nat BY <1>1 DEF Inv, TypeOK
<1>3. TypeOK' BY <1>1, <1>2 DEF Inv, TypeOK, Early, LastSlot
<1>4. \A i \in 1..(size - 1) : RawEntry(i)' <=> RawEntry(i)
  BY <1>1 DEF RawEntry, Valued
<1>5. \A i \in 1..(size - 1) : RawEntry(i) BY <1>1 DEF Inv, PoolInv, TypeOK
<1>6. PoolInv' BY <1>1, <1>4, <1>5 DEF PoolInv, Late
<1> QED BY <1>1, <1>2, <1>3, <1>6, EarlyStep DEF Early

LEMMA EndOfCheckInv == ASSUME Inv, EndOfCheck PROVE Inv'
<1>1. /\ pc = "check" /\ pc' = "class" /\ out' = "parsing" /\ pos' = pos + 0 /\ file' = file
      /\ next >= size /\ UNCHANGED <<pool, left, member, kclass>>
  BY DEF EndOfCheck, Stage, Go
<1>2. pos' \in Nat BY <1>1 DEF Inv, TypeOK
<1>3. TypeOK' BY <1>1, <1>2, PoolStays DEF Inv, TypeOK, Early, pool
<1>4. \A i \in 1..(size - 1) : DoneEntry(i) BY <1>1 DEF Inv, PoolInv, TypeOK
<1>5. \A i \in 1..(size' - 1) : DoneEntry(i)' BY <1>1, <1>4, PoolStays DEF pool
<1>6. PoolInv' BY <1>1, <1>5 DEF PoolInv
<1> QED BY <1>1, <1>2, <1>3, <1>6, EarlyStep DEF Early

(* What the checking of an entry is told by the entries it names. *)
LEMMA CheckedFacts ==
  ASSUME NEW i
  PROVE  /\ IsUtf8(i) = "ok" => i < size /\ Kind(tags[i]) = Utf8
         /\ IsClass(i) = "ok" => i < size /\ tags[i] = Class
         /\ IsNameType(i) = "ok" => i < size /\ Kind(tags[i]) = NameAndType
  BY DEF IsUtf8, IsClass, IsNameType, Checked

LEMMA AgreesFacts ==
  ASSUME EntryAgrees = "ok", tags[next] \in RawTags
  PROVE  /\ tags[next] \in {Class, String, NameAndType} =>
               slots[next][1] < size /\ Kind(tags[slots[next][1]]) = Utf8
         /\ tags[next] \in Refs =>
               /\ slots[next][1] < size /\ tags[slots[next][1]] = Class
               /\ slots[next][2] < size /\ Kind(tags[slots[next][2]]) = NameAndType
<1> USE DEF Class, String, NameAndType, Refs, Fieldref, Methodref, InterfaceMethodref
<1>1. CASE tags[next] \in {Class, String}
  <2>1. IsUtf8(slots[next][1]) = "ok" BY <1>1 DEF EntryAgrees
  <2> QED BY <1>1, <2>1, CheckedFacts
<1>2. CASE tags[next] = NameAndType
  <2>1. Worst({IsUtf8(slots[next][1]), Checked(slots[next][2], TRUE)}) = "ok"
    BY <1>2 DEF EntryAgrees
  <2>2. IsUtf8(slots[next][1]) \in {"ok", "bad", "stray"} BY DEF IsUtf8, Checked
  <2>3. IsUtf8(slots[next][1]) = "ok" BY <2>1, <2>2, WorstIsOk
  <2> QED BY <1>2, <2>3, CheckedFacts
<1>3. CASE tags[next] \in Refs
  <2>1. Worst({IsClass(slots[next][1]), IsNameType(slots[next][2])}) = "ok"
    BY <1>3 DEF EntryAgrees
  <2>2. IsClass(slots[next][1]) \in {"ok", "bad", "stray"} BY DEF IsClass, Checked
  <2>3. IsNameType(slots[next][2]) \in {"ok", "bad", "stray"} BY DEF IsNameType, Checked
  <2>4. IsClass(slots[next][1]) = "ok" /\ IsNameType(slots[next][2]) = "ok"
    BY <2>1, <2>2, <2>3, WorstIsOk
  <2> QED BY <1>3, <2>4, CheckedFacts
<1> QED BY <1>1, <1>2, <1>3

LEMMA CheckInv == ASSUME Inv, CheckEntry PROVE Inv'
<1>1. CASE \E v : Stop(v) BY <1>1, StopStep
<1>2. CASE ~ \E v : Stop(v)
  <2>1. /\ Stage("check") /\ next < size /\ EntryAgrees = "ok" /\ next' = next + 1
        /\ Go("check", 0) /\ UNCHANGED <<size, left, member, kclass>>
    BY <1>2 DEF CheckEntry
  <2>2. PICK tag : tag = tags[next] OBVIOUS
  <2>3. PICK item : item = slots[next] OBVIOUS
  <2>4. PICK new : new = CASE tag \in {Class, String} -> slots[item[1]]
                           [] tag = NameAndType -> <<slots[item[1]], slots[item[2]]>>
                           [] OTHER -> item
    OBVIOUS
  <2>5. PICK mark : mark = IF tag \in {String, NameAndType} THEN tag + Resolved ELSE tag
    OBVIOUS
  <2>6. slots' = [slots EXCEPT ![next] = new] /\ tags' = [tags EXCEPT ![next] = mark]
    BY <1>2, <2>2, <2>3, <2>4, <2>5 DEF CheckEntry
  <2>7. pc = "check" /\ pc' = "check" /\ out = "parsing" /\ UNCHANGED <<file, out>> /\ pos' = pos
    BY <2>1 DEF Stage, Go, Inv, TypeOK
  <2>8. /\ tags \in [0..LastSlot -> Nat] /\ DOMAIN slots = 0..LastSlot /\ tags[0] = 0
        /\ size \in Nat /\ next \in Nat \ {0} /\ pos \in Nat /\ LastSlot' = LastSlot
        /\ LastSlot = size - 1 /\ next \in 1..(size - 1)
    BY <2>1, <2>7 DEF Inv, TypeOK, LastSlot
  <2>9. RawEntry(next) BY <2>7, <2>8 DEF Inv, PoolInv
  <2>10. tag \in RawTags BY <2>2, <2>9 DEF RawEntry
  <2>11. /\ tag \in {Class, String} => mark \in {Class, String + Resolved} /\ new = slots[item[1]]
         /\ tag = NameAndType => mark = NameAndType + Resolved /\ new[1] = slots[item[1]]
         /\ tag \in Plain => mark = tag
         /\ tag \in Plain \ {Class} => new = item
         /\ mark \in DoneTags /\ mark \in Nat
         /\ mark = Class <=> tag = Class
         /\ mark = Utf8 <=> tag = Utf8
    BY <2>4, <2>5, <2>10 DEF DoneTags, RawTags, Plain, Numbers, Refs, Utf8, Integer, Float, Long,
         Double, Class, String, Fieldref, Methodref, InterfaceMethodref, NameAndType, Resolved
  <2>12. Kind(mark) = Kind(tag)
    BY <2>5, <2>10, TagFacts
  <2>13. \A j \in 0..(size - 1) : j # next => tags'[j] = tags[j] /\ slots'[j] = slots[j]
    BY <2>6, <2>8
  <2>14. tags'[next] = mark /\ slots'[next] = new BY <2>6, <2>8
  <2>15. \A j \in 0..(size - 1) : /\ tags'[j] = Class <=> tags[j] = Class
                                  /\ tags'[j] = Utf8 <=> tags[j] = Utf8
                                  /\ Kind(tags'[j]) = Kind(tags[j])
                                  /\ tags[j] = Utf8 => slots'[j] = slots[j]
    <3>1. tag = Utf8 => new = item
      BY <2>11 DEF Plain, Numbers, Utf8, Class
    <3> QED BY <2>2, <2>3, <2>11, <2>12, <2>13, <2>14, <3>1
  <2>16. Texts' = Texts BY <2>1, <2>8, <2>15 DEF Texts
  <2>17. TypeOK'
    <3>1. tags' \in [0..LastSlot' -> Nat] /\ DOMAIN slots' = 0..LastSlot' BY <2>6, <2>8, <2>11
    <3>2. tags'[0] = 0 BY <2>8, <2>13
    <3>3. next' \in Nat \ {0} BY <2>1, <2>8
    <3> QED BY <2>1, <2>7, <3>1, <3>2, <3>3 DEF Inv, TypeOK
  <2>18. ASSUME NEW j \in 0..(size - 1), Kind(tags[j]) = Utf8 PROVE slots[j] \in Texts
    <3>1. j # 0 BY <2>8, <2>18, TagFacts DEF Utf8
    <3>2. j \in 1..(size - 1) BY <2>8, <3>1
    <3>3. RawEntry(j) \/ DoneEntry(j) BY <2>7, <2>8, <3>2 DEF Inv, PoolInv
    <3>4. tags[j] \in RawTags \union DoneTags BY <3>3 DEF RawEntry, DoneEntry
    <3>5. tags[j] = Utf8
      BY <3>4, <2>18, TagFacts DEF DoneTags, RawTags, Plain, Utf8, String, NameAndType
    <3> QED BY <3>2, <3>5 DEF Texts
  <2>19. /\ tag \in {Class, String, NameAndType} => item[1] \in 0..(size - 1)
                                                    /\ slots[item[1]] \in Texts
         /\ tag \in Refs => /\ item[1] \in 1..(size - 1) /\ tags[item[1]] = Class
                            /\ item[2] \in 1..(size - 1) /\ Kind(tags[item[2]]) = NameAndType
    <3>1. /\ tag \in {Class, String, NameAndType} => item[1] < size /\ Kind(tags[item[1]]) = Utf8
          /\ tag \in Refs =>
               /\ item[1] < size /\ tags[item[1]] = Class
               /\ item[2] < size /\ Kind(tags[item[2]]) = NameAndType
      BY <2>1, <2>2, <2>3, <2>10, AgreesFacts
    <3>2. /\ tag \in {Class, String, NameAndType} => item[1] \in Nat
          /\ tag \in Refs => item[1] \in Nat /\ item[2] \in Nat
      BY <2>2, <2>3, <2>9 DEF RawEntry
    <3>3. tag \in {Class, String, NameAndType} => slots[item[1]] \in Texts
      BY <3>1, <3>2, <2>18, <2>8
    <3>4. tag \in Refs => item[1] # 0 /\ item[2] # 0
      BY <3>1, <2>8, TagFacts DEF Class, NameAndType
    <3> QED BY <3>1, <3>2, <3>3, <3>4, <2>8
  <2>20. ASSUME NEW i, i = next PROVE DoneEntry(i)'
    <3>1. tags'[i] = mark /\ slots'[i] = new BY <2>14, <2>20
    <3>2. Valued(i)'
      <4>1. mark \in Numbers \union {Utf8} => tag \in Numbers \union {Utf8} /\ mark = tag /\ new = item
        BY <2>5, <2>10, <2>11 DEF RawTags, Plain, Numbers, Refs, Utf8, Integer, Float, Long, Double,
             Class, String, Fieldref, Methodref, InterfaceMethodref, NameAndType, Resolved
      <4>2. tag \in Numbers \union {Utf8} => item \in Text BY <2>2, <2>3, <2>9 DEF RawEntry, Valued
      <4> QED BY <3>1, <4>1, <4>2 DEF Valued
    <3>3. /\ mark \in {Class, String + Resolved} => tag \in {Class, String}
          /\ mark = NameAndType + Resolved => tag = NameAndType
          /\ mark \in Refs => tag \in Refs /\ new = item
      BY <2>5, <2>10, <2>11 DEF RawTags, Plain, Numbers, Refs, Utf8, Integer, Float, Long, Double,
             Class, String, Fieldref, Methodref, InterfaceMethodref, NameAndType, Resolved
    <3>4. mark \in Refs => /\ {new[1], new[2]} \subseteq 1..(size - 1)
                           /\ tags'[new[1]] = Class /\ Kind(tags'[new[2]]) = NameAndType
      BY <3>3, <2>8, <2>15, <2>19
    <3>5. /\ mark \in {Class, String + Resolved} => new \in Texts'
          /\ mark = NameAndType + Resolved => new[1] \in Texts'
      BY <3>3, <2>11, <2>16, <2>19
    <3>6. tags'[i] \in DoneTags BY <3>1, <2>11
    <3>7. PoolHolds(i)' BY <3>1, <3>4, <3>5, <3>6, PoolHoldsIsNext
    <3> QED BY <3>1, <3>2, <3>4, <3>6, <3>7, <2>1 DEF DoneEntry
  <2>21. ASSUME NEW i \in 1..(size - 1), i < next PROVE DoneEntry(i)'
    <3>1. DoneEntry(i) BY <2>7, <2>8, <2>21 DEF Inv, PoolInv
    <3>2. tags'[i] = tags[i] /\ slots'[i] = slots[i] BY <2>13, <2>21, <2>8
    <3>3. Valued(i)' BY <3>1, <3>2 DEF DoneEntry, Valued
    <3>4. tags[i] \in DoneTags BY <3>1 DEF DoneEntry
    <3>5. PoolHolds(i) BY <3>1 DEF DoneEntry
    <3>6. tags[i] \in Refs => {slots[i][1], slots[i][2]} \subseteq 1..(size - 1)
      BY <3>1 DEF DoneEntry
    <3>7. PoolHolds(i)'
      <4>1. /\ tags[i] \in {Class, String + Resolved} => slots[i] \in Texts
            /\ tags[i] = NameAndType + Resolved => slots[i][1] \in Texts
            /\ tags[i] \in Refs => /\ tags[slots[i][1]] = Class
                                  /\ Kind(tags[slots[i][2]]) = NameAndType
        BY <3>4, <3>5, PoolHoldsIs
      <4>2. tags[i] \in Refs => /\ tags'[slots[i][1]] = Class
                               /\ Kind(tags'[slots[i][2]]) = NameAndType
        BY <4>1, <3>6, <2>8, <2>15
      <4>3. tags'[i] \in DoneTags BY <3>2, <3>4
      <4> QED BY <3>2, <4>1, <4>2, <4>3, <2>16, PoolHoldsIsNext
    <3> QED BY <3>2, <3>3, <3>4, <3>6, <3>7, <2>1 DEF DoneEntry
  <2>22. ASSUME NEW i \in 1..(size - 1), i > next PROVE RawEntry(i)'
    <3>1. RawEntry(i) BY <2>7, <2>8, <2>22 DEF Inv, PoolInv
    <3>2. tags'[i] = tags[i] /\ slots'[i] = slots[i] BY <2>13, <2>22, <2>8
    <3> QED BY <3>1, <3>2 DEF RawEntry, Valued
  <2>23. PoolInv'
    <3>1. next' = next + 1 /\ size' = size BY <2>1
    <3>2. \A i \in 1..(next' - 1) : DoneEntry(i)'
      <4>1. TAKE i \in 1..(next' - 1)
      <4>2. i \in 1..(size - 1) /\ (i < next \/ i = next) BY <2>8, <3>1
      <4> QED BY <4>2, <2>20, <2>21
    <3>3. \A i \in next'..(size' - 1) : RawEntry(i)'
      <4>1. TAKE i \in next'..(size' - 1)
      <4>2. i \in 1..(size - 1) /\ i > next BY <2>8, <3>1
      <4> QED BY <4>2, <2>22
    <3>4. next' <= size' BY <2>8, <3>1
    <3> QED BY <2>7, <3>2, <3>3, <3>4 DEF PoolInv, Late
  <2> QED BY <2>1, <2>7, <2>8, <2>17, <2>23, EarlyStep DEF Early
<1> QED BY <1>1, <1>2

-----------------------------------------------------------------------------
(* The class and its interfaces                                             *)

LEMMA ClassInvStep == ASSUME Inv, ReadClass PROVE Inv'
<1>1. CASE \E v : Stop(v) BY <1>1, StopStep
<1>2. CASE ~ \E v : Stop(v)
  <2>1. /\ Stage("class") /\ Fits(3) /\ Worst({ThisClass(At(2)), SuperClass(At(3))}) = "ok"
        /\ kclass' = [kclass EXCEPT !.modifier = At(1), !.super = Name(At(3))]
        /\ Go("interfaces", 3) /\ UNCHANGED <<pool, left, member>>
    BY <1>2 DEF ReadClass
  <2>2. pc = "class" /\ pc' = "interfaces" /\ out' = "parsing" /\ file' = file /\ pos' = pos + 3
    BY <2>1 DEF Stage, Go
  <2>3. PICK m, i : m = At(1) /\ i = At(3) OBVIOUS
  <2>4. m \in Nat /\ i \in Nat /\ pos' \in Nat BY <2>1, <2>2, <2>3, CellIsNat DEF Inv, TypeOK
  <2>5. Name(i) \in Texts \union {None}
    <3>1. SuperClass(i) \in {"ok", "bad", "stray"} /\ SuperClass(i) # "bad" /\ SuperClass(i) # "stray"
      BY <2>1, <2>3, WorstIsOk DEF SuperClass, ClassAt
    <3>2. i # 0 => ClassAt(i) = "ok" BY <3>1, <2>4 DEF SuperClass, ClassAt, Inv, TypeOK
    <3>3. i # 0 => slots[i] \in Texts BY <2>2, <2>4, <3>2, NamesAreTexts DEF Inv
    <3> QED BY <3>3 DEF Name
  <2>6. Name(i) \in Text
    <3>1. Texts \subseteq Text BY <2>2, TextsType DEF Inv
    <3>2. None \in Text BY DEF None, Text
    <3> QED BY <2>5, <3>1, <3>2
  <2>7. kclass = NewClass /\ kclass \in ClassType BY <2>2 DEF Inv, ClassInv, TypeOK, Early
  <2>8. kclass' \in ClassType BY <2>1, <2>3, <2>4, <2>6, <2>7 DEF ClassType
  <2>9. kclass'.super = Name(i) /\ kclass'.intfs = kclass.intfs /\ kclass'.methods = kclass.methods
    BY <2>1, <2>3, <2>7 DEF ClassType
  <2>10. {kclass'.super} \union ToSet(kclass'.intfs) \subseteq Texts \union {None}
    BY <2>5, <2>9 DEF Inv, ClassInv
  <2>11. \A x \in ToSet(kclass'.methods) : MethodHolds(x) BY <2>9 DEF Inv, ClassInv
  <2> QED BY <2>1, <2>2, <2>4, <2>8, <2>10, <2>11, LateStep DEF Late, Inv, TypeOK
<1> QED BY <1>1, <1>2

LEMMA RowOf ==
  ASSUME NEW n \in Nat, NEW T, NEW f \in [1..n -> T]
  PROVE  f \in Seq(T) /\ ToSet(f) \subseteq T
  BY DEF ToSet

(* A name of a class that is there, in cell c. *)
LEMMA NameCell ==
  ASSUME Inv, pc \in Late, NEW n \in Nat, Fits(n), NEW c \in 1..n,
         NonNull(ClassAt(At(c))) = "ok"
  PROVE  slots[At(c)] \in Texts
<1>1. At(c) \in Nat BY CellIsNat DEF Inv
<1>2. PICK i : i = At(c) OBVIOUS
<1>3. ClassAt(i) = "ok" BY <1>2 DEF NonNull
<1> QED BY <1>1, <1>2, <1>3, NamesAreTexts DEF Inv

(* What holds of the texts of the pool holds of a row of them. *)
LEMMA TextRow ==
  ASSUME Inv, pc \in Late, NEW n \in Nat, NEW f \in [1..n -> Texts]
  PROVE  f \in Seq(Text) /\ ToSet(f) \subseteq Texts
<1>1. Texts \subseteq Text BY TextsType DEF Inv
<1>2. f \in [1..n -> Text] BY <1>1
<1> QED BY <1>2, RowOf

LEMMA InterfacesInv == ASSUME Inv, ReadInterfaces PROVE Inv'
<1>1. CASE \E v : Stop(v) BY <1>1, StopStep
<1>2. CASE ~ \E v : Stop(v)
  <2>1. PICK n : n = At(1) OBVIOUS
  <2>2. /\ Stage("interfaces") /\ ClassNames = "ok" /\ UNCHANGED <<pool, left, member>>
        /\ kclass' = [kclass EXCEPT !.intfs = [r \in 1..n |-> slots[At(1 + r)]]]
        /\ Go("fields", 1 + n)
    BY <1>2, <2>1 DEF ReadInterfaces
  <2>3. pc = "interfaces" /\ pc' = "fields" /\ out' = "parsing" /\ file' = file /\ pos' = pos + (1 + n)
    BY <2>2 DEF Stage, Go
  <2>4. Fits(1) /\ Fits(1 + n)
        /\ Worst({AllocRefs(n)} \union {NonNull(ClassAt(At(1 + r))) : r \in 1..n}) = "ok"
    BY <2>1, <2>2 DEF ClassNames
  <2>5. n \in Nat /\ pos' \in Nat BY <2>1, <2>3, <2>4, CellIsNat DEF Inv, TypeOK
  <2>6. \A i : NonNull(ClassAt(i)) \in {"ok", "bad", "stray"} BY DEF NonNull, ClassAt
  <2>7. \A r \in 1..n : NonNull(ClassAt(At(1 + r))) = "ok" BY <2>4, <2>6, WorstIsOk
  <2>8. /\ [r \in 1..n |-> slots[At(1 + r)]] \in Seq(Text)
        /\ ToSet([r \in 1..n |-> slots[At(1 + r)]]) \subseteq Texts
    <3>1. pc \in Late BY <2>3 DEF Late
    <3>2. \A r \in 1..n : slots[At(1 + r)] \in Texts
      <4>1. TAKE r \in 1..n
      <4>2. 1 + n \in Nat /\ 1 + r \in 1..(1 + n) BY <2>5
      <4>3. PICK c : c = 1 + r OBVIOUS
      <4> QED BY <3>1, <2>4, <2>7, <4>2, <4>3, NameCell
    <3>3. PICK f : f = [r \in 1..n |-> slots[At(1 + r)]] OBVIOUS
    <3>4. f \in [1..n -> Texts] BY <3>2, <3>3
    <3> QED BY <3>1, <3>3, <3>4, <2>5, TextRow
  <2>9. kclass \in ClassType BY DEF Inv, TypeOK
  <2>10. kclass' \in ClassType BY <2>2, <2>8, <2>9 DEF ClassType
  <2>11. kclass'.super = kclass.super /\ kclass'.methods = kclass.methods
         /\ kclass'.intfs = [r \in 1..n |-> slots[At(1 + r)]]
    BY <2>2, <2>9 DEF ClassType
  <2>12. {kclass'.super} \union ToSet(kclass'.intfs) \subseteq Texts \union {None}
    BY <2>8, <2>11 DEF Inv, ClassInv
  <2>13. \A x \in ToSet(kclass'.methods) : MethodHolds(x) BY <2>11 DEF Inv, ClassInv
  <2> QED BY <2>2, <2>3, <2>5, <2>10, <2>12, <2>13, LateStep DEF Late, Inv, TypeOK
<1> QED BY <1>1, <1>2

-----------------------------------------------------------------------------
(* Members                                                                  *)

LEMMA CountInv ==
  ASSUME Inv, NEW stage \in {"fields", "methods"}, NEW each \in {"field", "method"}, NEW more,
         ReadCount(stage, each, more)
  PROVE  Inv'
<1>1. CASE \E v : Stop(v) BY <1>1, StopStep
<1>2. CASE ~ \E v : Stop(v)
  <2>1. PICK n : n = At(1) OBVIOUS
  <2>2. /\ Stage(stage) /\ Fits(1) /\ UNCHANGED <<pool, member, kclass>>
        /\ left' = [left EXCEPT !.members = n] /\ Go(each, 1)
    BY <1>2, <2>1 DEF ReadCount
  <2>3. pc = stage /\ pc' = each /\ out' = "parsing" /\ file' = file /\ pos' = pos + 1
    BY <2>2 DEF Stage, Go
  <2>4. n \in Nat /\ pos' \in Nat BY <2>1, <2>2, <2>3, CellIsNat DEF Inv, TypeOK
  <2>5. left' \in [members : Nat, attrs : Nat, codeattrs : Nat] BY <2>2, <2>4 DEF Inv, TypeOK
  <2> QED BY <2>2, <2>3, <2>4, <2>5, LateStep DEF Late
<1> QED BY <1>1, <1>2

Started(mod, name, descriptor) ==
    [NoMember EXCEPT !.modifier = mod, !.name = name, !.descriptor = descriptor]

(* A member begins without tables; its name and its type are texts. *)
LEMMA NewMember ==
  ASSUME Inv, pc \in Late, NEW mod \in Nat, NEW name \in Texts, NEW descriptor \in Texts,
         NEW m, m = Started(mod, name, descriptor)
  PROVE  /\ m \in MemberType /\ MethodHolds(m)
         /\ m.handlers = <<>> /\ m.lines = <<>> /\ m.variables = <<>>
<1>1. m \in MemberType
  <2>1. Texts \subseteq Text BY TextsType DEF Inv
  <2> QED BY <2>1, EmptyTypes DEF MemberType, Started
<1>2. /\ m.name = name /\ m.descriptor = descriptor /\ m.exceptions = <<>>
      /\ m.handlers = <<>> /\ m.lines = <<>> /\ m.variables = <<>>
  BY DEF NoMember, Started
<1>3. ToSet(<<>>) = {} /\ DOMAIN <<>> = {} BY DEF ToSet
<1>4. MethodHolds(m) BY <1>2, <1>3 DEF MethodHolds, NamesHold, TablesHold
<1> QED BY <1>1, <1>2, <1>4

LEMMA MemberStep ==
  ASSUME Inv, NEW stage \in {"field", "method"}, NEW attrs \in {"fieldattr", "methodattr"},
         ReadMember(stage, attrs)
  PROVE  Inv'
<1>1. CASE \E v : Stop(v) BY <1>1, StopStep
<1>2. CASE ~ \E v : Stop(v)
  <2>1. PICK mod, i, j, n : mod = At(1) /\ i = At(2) /\ j = At(3) /\ n = At(4) OBVIOUS
  <2>2. /\ Stage(stage) /\ left.members > 0 /\ Fits(4) /\ UNCHANGED <<pool, kclass>>
        /\ Worst({NonNull(StringAt(i)), NonNull(StringAt(j))}) = "ok"
        /\ member' = [NoMember EXCEPT !.modifier = mod, !.name = slots[i], !.descriptor = slots[j]]
        /\ left' = [left EXCEPT !.members = @ - 1, !.attrs = n] /\ Go(attrs, 4)
    BY <1>2, <2>1 DEF ReadMember
  <2>3. pc = stage /\ pc' = attrs /\ out' = "parsing" /\ file' = file /\ pos' = pos + 4
    BY <2>2 DEF Stage, Go
  <2>4. mod \in Nat /\ i \in Nat /\ j \in Nat /\ n \in Nat /\ pos' \in Nat
    BY <2>1, <2>2, <2>3, CellIsNat DEF Inv, TypeOK
  <2>5. left' \in [members : Nat, attrs : Nat, codeattrs : Nat]
    <3>1. left \in [members : Nat, attrs : Nat, codeattrs : Nat] BY DEF Inv, TypeOK
    <3>2. left.members - 1 \in Nat BY <2>2, <3>1
    <3> QED BY <2>2, <2>4, <3>1, <3>2
  <2>6. \A k : NonNull(StringAt(k)) \in {"ok", "bad", "stray"} BY DEF NonNull, StringAt
  <2>7. NonNull(StringAt(i)) = "ok" /\ NonNull(StringAt(j)) = "ok" BY <2>2, <2>6, WorstIsOk
  <2>8. StringAt(i) = "ok" /\ StringAt(j) = "ok" BY <2>7 DEF NonNull
  <2>9. pc \in Late BY <2>3 DEF Late
  <2>10. slots[i] \in Texts /\ slots[j] \in Texts BY <2>4, <2>8, <2>9, NamesAreTexts DEF Inv
  <2>11. PICK m : m = member' OBVIOUS
  <2>12. /\ m \in MemberType /\ MethodHolds(m)
         /\ m.handlers = <<>> /\ m.lines = <<>> /\ m.variables = <<>>
    <3>1. PICK name, descriptor : name = slots[i] /\ descriptor = slots[j] OBVIOUS
    <3>2. m = Started(mod, name, descriptor) BY <2>2, <2>11, <3>1 DEF Started
    <3> QED BY <2>4, <2>9, <2>10, <3>1, <3>2, NewMember
  <2>13. pc' # "codeattr" /\ pc' \in Late BY <2>3 DEF Late
  <2> QED BY <2>2, <2>3, <2>4, <2>5, <2>9, <2>11, <2>12, <2>13, LateStep
<1> QED BY <1>1, <1>2

(* An attribute that is skipped is there. *)
LEMMA SkipFacts ==
  ASSUME Inv, AttrUnknown = "ok"
  PROVE  Skip \in Nat
<1>1. Fits(2) BY DEF AttrUnknown, AttrHead
<1>2. At(2) \in Nat BY <1>1, CellIsNat DEF Inv
<1> QED BY <1>2 DEF Skip

(* One attribute fewer. *)
LEMMA OneLess ==
  ASSUME Inv
  PROVE  /\ left.attrs > 0 => [left EXCEPT !.attrs = @ - 1]
                                 \in [members : Nat, attrs : Nat, codeattrs : Nat]
         /\ left.codeattrs > 0 => [left EXCEPT !.codeattrs = @ - 1]
                                 \in [members : Nat, attrs : Nat, codeattrs : Nat]
<1>1. left \in [members : Nat, attrs : Nat, codeattrs : Nat] BY DEF Inv, TypeOK
<1>2. left.attrs > 0 => left.attrs - 1 \in Nat BY <1>1
<1>3. left.codeattrs > 0 => left.codeattrs - 1 \in Nat BY <1>1
<1> QED BY <1>1, <1>2, <1>3

LEMMA FieldAttrInv == ASSUME Inv, FieldAttr PROVE Inv'
<1>1. CASE \E v : Stop(v) BY <1>1, StopStep
<1>2. CASE ~ \E v : Stop(v)
  <2>1. /\ Stage("fieldattr") /\ left.attrs > 0 /\ UNCHANGED <<pool, kclass>>
        /\ left' = [left EXCEPT !.attrs = @ - 1]
        /\ member' = IF IsConstant THEN [member EXCEPT !.constval = slots[At(3)]] ELSE member
        /\ Go("fieldattr", IF IsConstant THEN 3 ELSE Skip)
        /\ (IF IsConstant THEN ConstantVerdict ELSE AttrUnknown) = "ok"
    BY <1>2 DEF FieldAttr
  <2>2. PICK n : n = IF IsConstant THEN 3 ELSE Skip OBVIOUS
  <2>3. pc = "fieldattr" /\ pc' = "fieldattr" /\ out' = "parsing" /\ file' = file /\ pos' = pos + n
    BY <2>1, <2>2 DEF Stage, Go
  <2>4. n \in Nat /\ pos' \in Nat BY <2>1, <2>2, <2>3, SkipFacts DEF Inv, TypeOK
  <2>5. left' \in [members : Nat, attrs : Nat, codeattrs : Nat] BY <2>1, OneLess
  <2>6. PICK i : i = At(3) OBVIOUS
  <2>7. ASSUME IsConstant PROVE slots[i] \in Text
    <3>1. Fits(3) /\ ~(i > size) /\ i # size /\ SubSeq(member.descriptor, 1, 1) \in TypesOf(tags[i])
      BY <2>1, <2>6, <2>7 DEF ConstantVerdict
    <3>2. i \in Nat /\ i < size BY <3>1, <2>6, CellIsNat DEF Inv, TypeOK
    <3>3. tags[i] \in Numbers BY <3>1 DEF TypesOf, Numbers
    <3>4. tags[0] = 0 BY <2>3 DEF Inv, TypeOK
    <3>5. i \in 1..(size - 1)
      BY <3>2, <3>3, <3>4 DEF Numbers, Integer, Float, Long, Double, Inv, TypeOK
    <3> QED BY <3>3, <3>5, <2>3 DEF Inv, PoolInv, DoneEntry, Valued, Late
  <2>8. member' = member \/
            /\ member' \in MemberType
            /\ member'.codes = 0 =>
                  member'.handlers = <<>> /\ member'.lines = <<>> /\ member'.variables = <<>>
    <3>1. member \in MemberType BY DEF Inv, TypeOK
    <3>2. CASE IsConstant
      <4>1. member' = [member EXCEPT !.constval = slots[i]] BY <2>1, <2>6, <3>2
      <4>2. member' \in MemberType BY <4>1, <3>1, <3>2, <2>7 DEF MemberType
      <4>3. /\ member'.codes = member.codes /\ member'.handlers = member.handlers
            /\ member'.lines = member.lines /\ member'.variables = member.variables
        BY <4>1, <3>1 DEF MemberType
      <4> QED BY <4>2, <4>3 DEF Inv, MemberInv
    <3> QED BY <3>2, <2>1
  <2> QED BY <2>1, <2>3, <2>4, <2>5, <2>8, LateStep DEF Late
<1> QED BY <1>1, <1>2

LEMMA AppendOf ==
  ASSUME NEW T, NEW s \in Seq(T), NEW e \in T
  PROVE  Append(s, e) \in Seq(T) /\ ToSet(Append(s, e)) = ToSet(s) \union {e}
<1>1. Append(s, e) \in Seq(T) /\ Len(s) \in Nat OBVIOUS
<1>2. DOMAIN Append(s, e) = 1..(Len(s) + 1) /\ DOMAIN s = 1..Len(s) OBVIOUS
<1>3. \A k \in 1..Len(s) : Append(s, e)[k] = s[k] OBVIOUS
<1>4. Append(s, e)[Len(s) + 1] = e OBVIOUS
<1>5. 1..(Len(s) + 1) = 1..Len(s) \union {Len(s) + 1} BY <1>1
<1> QED BY <1>1, <1>2, <1>3, <1>4, <1>5 DEF ToSet

LEMMA EndOfFieldInv == ASSUME Inv, EndOfField PROVE Inv'
<1>1. /\ pc = "fieldattr" /\ pc' = "field" /\ out' = "parsing" /\ file' = file /\ pos' = pos + 0
      /\ kclass' = [kclass EXCEPT !.fields = Append(@, member)] /\ UNCHANGED <<pool, left, member>>
  BY DEF EndOfField, Stage, Go
<1>2. kclass \in ClassType /\ member \in MemberType /\ pos' \in Nat
      /\ left' \in [members : Nat, attrs : Nat, codeattrs : Nat]
  BY <1>1 DEF Inv, TypeOK
<1>3. Append(kclass.fields, member) \in Seq(MemberType) BY <1>2, AppendOf DEF ClassType
<1>4. kclass' \in ClassType BY <1>1, <1>2, <1>3 DEF ClassType
<1>5. kclass'.super = kclass.super /\ kclass'.intfs = kclass.intfs /\ kclass'.methods = kclass.methods
  BY <1>1, <1>2 DEF ClassType
<1>6. /\ {kclass'.super} \union ToSet(kclass'.intfs) \subseteq Texts \union {None}
      /\ \A m \in ToSet(kclass'.methods) : MethodHolds(m)
  BY <1>5 DEF Inv, ClassInv
<1> QED BY <1>1, <1>2, <1>4, <1>6, LateStep DEF Late

(* The fields that the VM adds are well typed. *)
LEMMA JncType ==
  [j \in DOMAIN Jnc |-> [NoMember EXCEPT !.modifier   = Jnc[j].modifier,
                                              !.name       = Jnc[j].name,
                                              !.descriptor = Jnc[j].descriptor]] \in Seq(MemberType)
<1>1. PICK jnc : jnc = Jnc OBVIOUS
<1>2. jnc \in Seq(Member) BY <1>1, InputsAssumption DEF Jnc
<1>3. ASSUME NEW j \in DOMAIN jnc
      PROVE  [NoMember EXCEPT !.modifier = jnc[j].modifier, !.name = jnc[j].name,
                              !.descriptor = jnc[j].descriptor] \in MemberType
  <2>1. jnc[j] \in Member BY <1>2
  <2>2. jnc[j].modifier \in Nat /\ jnc[j].name \in Text /\ jnc[j].descriptor \in Text
    BY <2>1 DEF Member, Text
  <2> QED BY <2>2, EmptyTypes DEF MemberType
<1>4. DOMAIN jnc = 1..Len(jnc) /\ Len(jnc) \in Nat BY <1>2
<1>5. PICK f : f = [j \in DOMAIN jnc |-> [NoMember EXCEPT !.modifier = jnc[j].modifier,
                            !.name = jnc[j].name, !.descriptor = jnc[j].descriptor]] OBVIOUS
<1>6. f \in [1..Len(jnc) -> MemberType] BY <1>3, <1>4, <1>5
<1>7. f \in Seq(MemberType) BY <1>4, <1>6, RowOf
<1> QED BY <1>1, <1>5, <1>7

LEMMA EndOfFieldsInv == ASSUME Inv, EndOfFields PROVE Inv'
<1>1. PICK more : more = [j \in DOMAIN Jnc |-> [NoMember EXCEPT !.modifier   = Jnc[j].modifier,
                                              !.name       = Jnc[j].name,
                                              !.descriptor = Jnc[j].descriptor]] OBVIOUS
<1>2. /\ pc = "field" /\ pc' = "methods" /\ out' = "parsing" /\ file' = file /\ pos' = pos + 0
      /\ kclass' = [kclass EXCEPT !.fields = @ \o more] /\ UNCHANGED <<pool, left, member>>
  BY <1>1 DEF EndOfFields, Stage, Go
<1>3. kclass \in ClassType /\ pos' \in Nat
      /\ left' \in [members : Nat, attrs : Nat, codeattrs : Nat]
  BY <1>2 DEF Inv, TypeOK
<1>4. more \in Seq(MemberType) BY <1>1, JncType
<1>5. kclass.fields \o more \in Seq(MemberType) BY <1>3, <1>4 DEF ClassType
<1>6. kclass' \in ClassType BY <1>2, <1>3, <1>5 DEF ClassType
<1>7. kclass'.super = kclass.super /\ kclass'.intfs = kclass.intfs /\ kclass'.methods = kclass.methods
  BY <1>2, <1>3 DEF ClassType
<1>8. /\ {kclass'.super} \union ToSet(kclass'.intfs) \subseteq Texts \union {None}
      /\ \A m \in ToSet(kclass'.methods) : MethodHolds(m)
  BY <1>7 DEF Inv, ClassInv
<1> QED BY <1>2, <1>3, <1>6, <1>8, LateStep DEF Late

-----------------------------------------------------------------------------
(* Code                                                                     *)

(* The last cell of a table. *)
LastCell(q, w, n) == q + w * n - 1

(* A table of rows of w cells that is in the file. *)
LEMMA TableFacts ==
  ASSUME Inv, NEW q \in Nat \ {0}, NEW w \in Nat, NEW n \in Nat, NEW e, e = LastCell(q, w, n),
         NEW end \in Nat, Fits(end), e <= end, NEW rows, rows = Rows(q, w, n)
  PROVE  /\ rows \in Seq(Text) /\ DOMAIN rows = 1..n
         /\ \A r \in 1..n : \A c \in 1..w : rows[r][c] \in Nat
<1>3. w * n \in Nat OBVIOUS
<1>4. e = q + w * n - 1 BY DEF LastCell
<1>7. e \in 1..end \/ e = 0 BY <1>3, <1>4
<1>5. Fits(e)
  <2>1. CASE e = 0
    <3>1. pos + end <= Len(file.cells) /\ pos \in Nat /\ Len(file.cells) \in Nat
      BY InputsAssumption DEF Fits, Inv, TypeOK
    <3> QED BY <2>1, <3>1 DEF Fits
  <2>2. CASE e \in 1..end BY <2>2, CellIsNat DEF Inv
  <2> QED BY <1>7, <2>1, <2>2
<1>6. TypeOK BY DEF Inv
<1> QED BY <1>4, <1>5, <1>6, RowsType

LEMMA HandlerRows ==
  ASSUME Inv, NEW p \in Nat, NEW h \in Nat, NEW end, Fits(end), end = p + 4 * h + 1,
         NEW q, q = p + 1, NEW rows, rows = Rows(q, 4, h)
  PROVE  /\ end \in Nat /\ At(end) \in Nat /\ rows \in Seq(Text) /\ DOMAIN rows = 1..h
         /\ \A r \in 1..h : \A c \in 1..4 : rows[r][c] \in Nat
<1>1. end \in Nat /\ end \in 1..end OBVIOUS
<1>2. At(end) \in Nat BY <1>1, CellIsNat DEF Inv
<1>3. PICK e : e = LastCell(q, 4, h) OBVIOUS
<1>4. q \in Nat \ {0} /\ 4 \in Nat /\ e <= end BY <1>1, <1>3 DEF LastCell
<1>5. /\ rows \in Seq(Text) /\ DOMAIN rows = 1..h
      /\ \A r \in 1..h : \A c \in 1..4 : rows[r][c] \in Nat
  BY <1>1, <1>3, <1>4, TableFacts
<1> QED BY <1>1, <1>2, <1>5

LEMMA CodeFacts ==
  ASSUME Inv, CodeVerdict = "ok"
  PROVE  \A l, p, h, rows :
            (l = At(5) /\ p = HandlersAt /\ h = At(p) /\ rows = Rows(p + 1, 4, h)) =>
              /\ {l, p, h, CodeEnd, At(3), At(4), At(CodeEnd)} \subseteq Nat
              /\ [k \in 1..l |-> At(5 + k)] \in [1..l -> Nat]
              /\ rows \in Seq(Text) /\ DOMAIN rows = 1..h
              /\ \A r \in 1..h : rows[r][1] <= rows[r][2] /\ rows[r][2] <= l
<1>1. SUFFICES ASSUME NEW l, NEW p, NEW h, NEW rows, l = At(5), p = HandlersAt, h = At(p),
                      rows = Rows(p + 1, 4, h)
      PROVE  /\ {l, p, h, CodeEnd, At(3), At(4), At(CodeEnd)} \subseteq Nat
             /\ [k \in 1..l |-> At(5 + k)] \in [1..l -> Nat]
             /\ rows \in Seq(Text) /\ DOMAIN rows = 1..h
             /\ \A r \in 1..h : rows[r][1] <= rows[r][2] /\ rows[r][2] <= l
  OBVIOUS
<1>2. PICK end : end = CodeEnd OBVIOUS
<1>3. Fits(5) /\ Fits(p) /\ Fits(end) /\ p = 6 + l /\ end = p + 4 * h + 1
  BY <1>1, <1>2 DEF CodeVerdict, HandlersAt, CodeEnd
<1>4. Handlers = rows BY <1>1 DEF Handlers
<1>5. Worst({AllocBytes(l), AllocRefs(h)} \union
            {IF HandlerOk(rows[r], l) THEN "ok" ELSE "bad" : r \in DOMAIN rows}) = "ok"
  BY <1>1, <1>4 DEF CodeVerdict
<1>6. At(3) \in Nat /\ At(4) \in Nat /\ At(5) \in Nat BY <1>3, CellIsNat DEF Inv
<1>7. l \in Nat /\ p \in Nat BY <1>1, <1>3, <1>6
<1>8. p \in 1..p BY <1>3, <1>7
<1>9. At(p) \in Nat BY <1>3, <1>7, <1>8, CellIsNat DEF Inv
<1>10. h \in Nat BY <1>1, <1>9
<1>11. [k \in 1..l |-> At(5 + k)] \in [1..l -> Nat]
  <2>1. ASSUME NEW k \in 1..l PROVE At(5 + k) \in Nat
    <3>1. 5 + k \in 1..p BY <1>3, <1>7
    <3> QED BY <3>1, <1>3, <1>7, CellIsNat DEF Inv
  <2> QED BY <2>1
<1>12. /\ end \in Nat /\ At(end) \in Nat /\ rows \in Seq(Text) /\ DOMAIN rows = 1..h
       /\ \A r \in 1..h : \A c \in 1..4 : rows[r][c] \in Nat
  <2>1. PICK q : q = p + 1 OBVIOUS
  <2>2. rows = Rows(q, 4, h) BY <1>1, <2>1
  <2>3. p \in Nat /\ Fits(end) /\ end = p + 4 * h + 1 BY <1>3, <1>7
  <2> QED BY <1>10, <2>1, <2>2, <2>3, HandlerRows
<1>13. ASSUME NEW r \in 1..h PROVE rows[r][1] <= rows[r][2] /\ rows[r][2] <= l
  <2>1. r \in DOMAIN rows BY <1>12
  <2>2. HandlerOk(rows[r], l) BY <1>5, <2>1, WorstIsOk
  <2> QED BY <2>2 DEF HandlerOk
<1> QED BY <1>2, <1>6, <1>7, <1>10, <1>11, <1>12, <1>13

LEMMA ReadCodeInv == ASSUME Inv, ReadCode PROVE Inv'
<1>1. CASE \E v : Stop(v) BY <1>1, StopStep
<1>2. CASE ~ \E v : Stop(v)
  <2>1. PICK l, p : l = At(5) /\ p = HandlersAt OBVIOUS
  <2>2. PICK h : h = At(p) OBVIOUS
  <2>3. PICK rows : rows = Rows(p + 1, 4, h) OBVIOUS
  <2>4. PICK code : code = [k \in 1..l |-> At(5 + k)] OBVIOUS
  <2>5. PICK e, stack, locals, n : e = CodeEnd /\ stack = At(3) /\ locals = At(4) /\ n = At(e) OBVIOUS
  <2>6. /\ Stage("methodattr") /\ CodeVerdict = "ok" /\ UNCHANGED <<pool, kclass>> /\ Go("codeattr", e)
        /\ left.attrs > 0 /\ left' = [left EXCEPT !.codeattrs = n]
        /\ member' = [member EXCEPT !.stack = stack, !.locals = locals, !.code = code,
                            !.handlers = IF h = 0 THEN @ ELSE rows, !.codes = @ + 1]
    BY <1>2, <2>1, <2>2, <2>3, <2>4, <2>5 DEF ReadCode, Handlers
  <2>7. /\ l \in Nat /\ h \in Nat /\ e \in Nat /\ stack \in Nat /\ locals \in Nat /\ n \in Nat
        /\ code \in [1..l -> Nat] /\ rows \in Seq(Text) /\ DOMAIN rows = 1..h
        /\ \A r \in 1..h : rows[r][1] <= rows[r][2] /\ rows[r][2] <= l
    BY <2>1, <2>2, <2>3, <2>4, <2>5, <2>6, CodeFacts
  <2>8. pc = "methodattr" /\ pc' = "codeattr" /\ out' = "parsing" /\ file' = file /\ pos' = pos + e
    BY <2>6 DEF Stage, Go
  <2>9. pos' \in Nat /\ left' \in [members : Nat, attrs : Nat, codeattrs : Nat]
    BY <2>6, <2>7, <2>8 DEF Inv, TypeOK
  <2>10. member \in MemberType BY DEF Inv, TypeOK
  <2>11. code \in Text /\ Len(code) = l BY <2>7 DEF Text
  <2>12. member.codes + 1 \in Nat /\ member.codes + 1 > 0 /\ member.codes \in Nat
    BY <2>10 DEF MemberType
  <2>13. (IF h = 0 THEN member.handlers ELSE rows) \in Seq(Text) BY <2>7, <2>10 DEF MemberType
  <2>14. member' \in MemberType BY <2>6, <2>7, <2>10, <2>11, <2>12, <2>13 DEF MemberType
  <2>15. PICK m : m = member' OBVIOUS
  <2>16. /\ m.name = member.name /\ m.descriptor = member.descriptor
         /\ m.exceptions = member.exceptions /\ m.variables = member.variables
         /\ m.lines = member.lines /\ m.code = code /\ m.codes = member.codes + 1
         /\ m.handlers = IF h = 0 THEN member.handlers ELSE rows
    BY <2>6, <2>10, <2>15 DEF MemberType
  <2>17. NamesHold(m)
    <3>1. NamesHold(member) BY <2>8 DEF Inv, MemberInv, MethodHolds
    <3> QED BY <2>16, <3>1 DEF NamesHold
  <2>18. ASSUME m.codes <= 1 PROVE TablesHold(m)
    <3>1. member.codes = 0 BY <2>12, <2>16, <2>18
    <3>2. member.handlers = <<>> /\ m.lines = <<>> /\ m.variables = <<>>
      BY <2>16, <3>1 DEF Inv, MemberInv
    <3>3. DOMAIN <<>> = {} OBVIOUS
    <3>4. \A r \in DOMAIN m.handlers : m.handlers[r][1] <= m.handlers[r][2]
                                       /\ m.handlers[r][2] <= Len(m.code)
      BY <2>7, <2>11, <2>16, <3>2, <3>3
    <3> QED BY <3>2, <3>3, <3>4 DEF TablesHold
  <2>19. MethodHolds(m) BY <2>17, <2>18 DEF MethodHolds
  <2>20. m.codes # 0 /\ m.codes > 0 /\ left'.attrs > 0
    BY <2>6, <2>12, <2>16 DEF Inv, TypeOK
  <2> QED BY <2>6, <2>8, <2>9, <2>14, <2>15, <2>19, <2>20, LateStep DEF Late
<1> QED BY <1>1, <1>2

(* The tables in the attributes of Code. *)
LEMMA AttrTable ==
  ASSUME Inv, NEW w \in Nat, Fits(3), Fits(TableEnd(w))
  PROVE  \A n, rows : (n = At(3) /\ rows = Table(w)) =>
            /\ n \in Nat /\ TableEnd(w) \in Nat
            /\ rows \in Seq(Text) /\ DOMAIN rows = 1..n
            /\ \A r \in 1..n : \A c \in 1..w : rows[r][c] \in Nat
<1>1. SUFFICES ASSUME NEW n, NEW rows, n = At(3), rows = Table(w)
      PROVE  /\ n \in Nat /\ TableEnd(w) \in Nat
             /\ rows \in Seq(Text) /\ DOMAIN rows = 1..n
             /\ \A r \in 1..n : \A c \in 1..w : rows[r][c] \in Nat
  OBVIOUS
<1>2. At(3) \in Nat BY CellIsNat DEF Inv
<1>3. n \in Nat BY <1>1, <1>2
<1>4. PICK q, e : q = 4 /\ e = TableEnd(w) OBVIOUS
<1>5. e = 3 + w * n /\ rows = Rows(q, w, n) BY <1>1, <1>4 DEF TableEnd, Table
<1>6. w * n \in Nat BY <1>3
<1>7. q \in Nat \ {0} /\ e \in Nat /\ e = LastCell(q, w, n) /\ e <= e
  BY <1>4, <1>5, <1>6 DEF LastCell
<1>8. Fits(e) /\ rows = Rows(q, w, n) BY <1>4, <1>5
<1>9. /\ rows \in Seq(Text) /\ DOMAIN rows = 1..n
      /\ \A r \in 1..n : \A c \in 1..w : rows[r][c] \in Nat
  BY <1>3, <1>7, <1>8, TableFacts
<1> QED BY <1>3, <1>4, <1>7, <1>9

(* A step through the attributes of Code keeps what holds of the method. *)
LEMMA CodeAttrStep ==
  ASSUME Inv, pc = "codeattr", pc' = "codeattr", out' = "parsing", left.codeattrs > 0,
         left' = [left EXCEPT !.codeattrs = @ - 1], UNCHANGED <<file, pool, kclass>>,
         NEW end \in Nat, pos' = pos + end,
         NEW m \in MemberType, member' = m, m.codes = member.codes, MethodHolds(m)
  PROVE  Inv'
<1>1. pos' \in Nat /\ left' \in [members : Nat, attrs : Nat, codeattrs : Nat]
  BY OneLess DEF Inv, TypeOK
<1>2. member.codes > 0 /\ member.codes \in Nat BY DEF Inv, MemberInv, TypeOK, MemberType
<1>3. m.codes # 0 /\ m.codes > 0 /\ left'.attrs > 0 BY <1>2 DEF Inv, MemberInv, TypeOK
<1> QED BY <1>1, <1>3, LateStep DEF Late

LEMMA LinesInv == ASSUME Inv, ReadLines PROVE Inv'
<1>1. CASE \E v : Stop(v) BY <1>1, StopStep
<1>2. CASE ~ \E v : Stop(v)
  <2>1. PICK n, rows, end : n = At(3) /\ rows = Table(2) /\ end = TableEnd(2) OBVIOUS
  <2>2. /\ Stage("codeattr") /\ left.codeattrs > 0 /\ LineVerdict = "ok" /\ UNCHANGED <<pool, kclass>>
        /\ left' = [left EXCEPT !.codeattrs = @ - 1] /\ Go("codeattr", end)
        /\ member' = [member EXCEPT !.lines = rows]
    BY <1>2, <2>1 DEF ReadLines, CodeAttr
  <2>3. /\ Fits(3) /\ Fits(TableEnd(2))
        /\ Worst({AllocRefs(n)} \union {IF rows[r][1] > Len(member.code) THEN "bad" ELSE "ok" :
                                      r \in DOMAIN rows}) = "ok"
    BY <2>1, <2>2 DEF LineVerdict
  <2>4. /\ n \in Nat /\ end \in Nat /\ rows \in Seq(Text) /\ DOMAIN rows = 1..n
        /\ \A r \in 1..n : \A c \in 1..2 : rows[r][c] \in Nat
    BY <2>1, <2>3, AttrTable
  <2>5. member \in MemberType /\ Len(member.code) \in Nat BY DEF Inv, TypeOK, MemberType, Text
  <2>6. \A r \in DOMAIN rows : rows[r][1] <= Len(member.code)
    <3>1. TAKE r \in DOMAIN rows
    <3>2. ~(rows[r][1] > Len(member.code)) BY <2>3, WorstIsOk
    <3> QED BY <2>4, <2>5, <3>2
  <2>7. PICK m : m = member' OBVIOUS
  <2>8. m \in MemberType BY <2>2, <2>4, <2>5, <2>7 DEF MemberType
  <2>9. /\ m.name = member.name /\ m.descriptor = member.descriptor /\ m.codes = member.codes
        /\ m.exceptions = member.exceptions /\ m.variables = member.variables
        /\ m.lines = rows /\ m.code = member.code /\ m.handlers = member.handlers
        /\ m.locals = member.locals
    BY <2>2, <2>5, <2>7 DEF MemberType
  <2>10. pc = "codeattr" /\ pc' = "codeattr" /\ out' = "parsing" /\ file' = file /\ pos' = pos + end
    BY <2>2 DEF Stage, Go
  <2>11. MethodHolds(m)
    <3>1. MethodHolds(member) BY <2>10 DEF Inv, MemberInv
    <3> QED BY <2>6, <2>9, <3>1 DEF MethodHolds, NamesHold, TablesHold
  <2> QED BY <2>2, <2>4, <2>7, <2>8, <2>9, <2>10, <2>11, CodeAttrStep
<1> QED BY <1>1, <1>2

LEMMA VariablesInv == ASSUME Inv, ReadVariables PROVE Inv'
<1>1. CASE \E v : Stop(v) BY <1>1, StopStep
<1>2. CASE ~ \E v : Stop(v)
  <2>1. PICK n, rows, end : n = At(3) /\ rows = Table(5) /\ end = TableEnd(5) OBVIOUS
  <2>2. PICK vars1 : vars1 = Variables OBVIOUS
  <2>3. /\ Stage("codeattr") /\ left.codeattrs > 0 /\ VariableVerdict = "ok"
        /\ left' = [left EXCEPT !.codeattrs = @ - 1] /\ Go("codeattr", end)
        /\ member' = [member EXCEPT !.variables = vars1] /\ UNCHANGED <<pool, kclass>>
    BY <1>2, <2>1, <2>2 DEF ReadVariables, CodeAttr
  <2>4. pc = "codeattr" /\ pc' = "codeattr" /\ out' = "parsing" /\ file' = file /\ pos' = pos + end
    BY <2>3 DEF Stage, Go
  <2>5. /\ Fits(3) /\ Fits(TableEnd(5))
        /\ Worst({AllocRefs(n)} \union {VariableOk(rows[r]) : r \in DOMAIN rows}) = "ok"
    BY <2>1, <2>3 DEF VariableVerdict
  <2>6. /\ n \in Nat /\ end \in Nat /\ rows \in Seq(Text) /\ DOMAIN rows = 1..n
        /\ \A r \in 1..n : \A c \in 1..5 : rows[r][c] \in Nat
    BY <2>1, <2>5, AttrTable
  <2>7. /\ member \in MemberType /\ Len(member.code) \in Nat /\ member.locals \in Nat
    BY DEF Inv, TypeOK, MemberType, Text
  <2>8. ASSUME NEW r \in 1..n
        PROVE  /\ rows[r][1] + rows[r][2] <= Len(member.code) /\ rows[r][5] <= member.locals
               /\ slots[rows[r][3]] \in Texts /\ slots[rows[r][4]] \in Texts
    <3>1. PICK v : v = rows[r] OBVIOUS
    <3>2. v[1] \in Nat /\ v[2] \in Nat /\ v[3] \in Nat /\ v[4] \in Nat /\ v[5] \in Nat
      BY <2>6, <3>1
    <3>3. \A i : NonNull(StringAt(i)) \in {"ok", "bad", "stray"} BY DEF NonNull, StringAt
    <3>4. VariableOk(v) # "bad" /\ VariableOk(v) # "stray" BY <2>5, <2>6, <3>1, WorstIsOk
    <3>5. /\ ~(v[1] + v[2] > Len(member.code)) /\ ~(v[5] > member.locals)
          /\ Worst({NonNull(StringAt(v[3])), NonNull(StringAt(v[4]))}) \notin {"bad", "stray"}
      BY <3>4 DEF VariableOk
    <3>6. Worst({NonNull(StringAt(v[3])), NonNull(StringAt(v[4]))}) = "ok"
      BY <3>5 DEF Worst
    <3>7. NonNull(StringAt(v[3])) = "ok" /\ NonNull(StringAt(v[4])) = "ok"
      BY <3>3, <3>6, WorstIsOk
    <3>8. StringAt(v[3]) = "ok" /\ StringAt(v[4]) = "ok" BY <3>7 DEF NonNull
    <3>9. slots[v[3]] \in Texts /\ slots[v[4]] \in Texts
      BY <2>4, <3>2, <3>8, NamesAreTexts DEF Inv, Late
    <3>10. v[1] + v[2] <= Len(member.code) /\ v[5] <= member.locals BY <2>7, <3>2, <3>5
    <3> QED BY <3>1, <3>9, <3>10
  <2>9. DOMAIN vars1 = 1..n /\ vars1 = [r \in 1..n |-> vars1[r]]
    BY <2>1, <2>2 DEF Variables
  <2>10. \A r \in 1..n : vars1[r] = <<rows[r][1], rows[r][2], slots[rows[r][3]],
                                      slots[rows[r][4]], rows[r][5]>>
    BY <2>1, <2>2 DEF Variables
  <2>11. \A r \in 1..n : vars1[r] \in Nat \X Nat \X Text \X Text \X Nat
    <3>1. TAKE r \in 1..n
    <3>2. Texts \subseteq Text BY <2>4, TextsType DEF Inv, Late
    <3>3. slots[rows[r][3]] \in Text /\ slots[rows[r][4]] \in Text BY <2>8, <3>2
    <3>4. rows[r][1] \in Nat /\ rows[r][2] \in Nat /\ rows[r][5] \in Nat BY <2>6
    <3> QED BY <2>10, <3>3, <3>4
  <2>12. vars1 \in Seq(Nat \X Nat \X Text \X Text \X Nat)
    <3>1. vars1 \in [1..n -> Nat \X Nat \X Text \X Text \X Nat] BY <2>9, <2>11
    <3> QED BY <2>6, <3>1, RowOf
  <2>13. PICK m : m = member' OBVIOUS
  <2>14. m \in MemberType BY <2>3, <2>7, <2>12, <2>13 DEF MemberType
  <2>15. /\ m.name = member.name /\ m.descriptor = member.descriptor /\ m.codes = member.codes
         /\ m.exceptions = member.exceptions /\ m.variables = vars1
         /\ m.lines = member.lines /\ m.code = member.code /\ m.handlers = member.handlers
         /\ m.locals = member.locals
    BY <2>3, <2>7, <2>13 DEF MemberType
  <2>16. MethodHolds(m)
    <3>1. MethodHolds(member) BY <2>4 DEF Inv, MemberInv
    <3>2. \A r \in DOMAIN vars1 : /\ {vars1[r][3], vars1[r][4]} \subseteq Texts
                                  /\ vars1[r][1] + vars1[r][2] <= Len(m.code)
                                  /\ vars1[r][5] <= m.locals
      BY <2>8, <2>9, <2>10, <2>15
    <3> QED BY <2>15, <3>1, <3>2 DEF MethodHolds, NamesHold, TablesHold
  <2> QED BY <2>3, <2>4, <2>6, <2>13, <2>14, <2>15, <2>16, CodeAttrStep
<1> QED BY <1>1, <1>2

LEMMA SkipCodeInv == ASSUME Inv, SkipCodeAttr PROVE Inv'
<1>1. CASE \E v : Stop(v) BY <1>1, StopStep
<1>2. CASE ~ \E v : Stop(v)
  <2>1. PICK n : n = Skip OBVIOUS
  <2>2. /\ Stage("codeattr") /\ left.codeattrs > 0 /\ AttrUnknown = "ok" /\ UNCHANGED <<pool, kclass>>
        /\ left' = [left EXCEPT !.codeattrs = @ - 1] /\ Go("codeattr", n) /\ member' = member
    BY <1>2, <2>1 DEF SkipCodeAttr, CodeAttr
  <2>3. pc = "codeattr" /\ pc' = "codeattr" /\ out' = "parsing" /\ file' = file /\ pos' = pos + n
    BY <2>2 DEF Stage, Go
  <2>4. n \in Nat /\ member \in MemberType /\ MethodHolds(member)
    BY <2>1, <2>2, <2>3, SkipFacts DEF Inv, TypeOK, MemberInv
  <2>5. PICK m : m = member' OBVIOUS
  <2> QED BY <2>2, <2>3, <2>4, <2>5, CodeAttrStep
<1> QED BY <1>1, <1>2

LEMMA EndOfCodeInv == ASSUME Inv, EndOfCode PROVE Inv'
<1>1. /\ pc = "codeattr" /\ pc' = "methodattr" /\ out' = "parsing" /\ file' = file /\ pos' = pos + 0
      /\ left' = [left EXCEPT !.attrs = @ - 1] /\ UNCHANGED <<pool, member, kclass>>
  BY DEF EndOfCode, Stage, Go
<1>2. left.attrs > 0 /\ MethodHolds(member) BY <1>1 DEF Inv, MemberInv
<1>3. pos' \in Nat /\ left' \in [members : Nat, attrs : Nat, codeattrs : Nat]
  BY <1>1, <1>2, OneLess DEF Inv, TypeOK
<1>4. MethodHolds(member') BY <1>1, <1>2
<1> QED BY <1>1, <1>3, <1>4, LateStep DEF Late

LEMMA MethodAttrInv == ASSUME Inv, MethodAttr PROVE Inv'
<1>1. CASE \E v : Stop(v) BY <1>1, StopStep
<1>2. CASE ~ \E v : Stop(v)
  <2>1. PICK n : n = At(3) OBVIOUS
  <2>2. PICK thrown : thrown = [r \in 1..n |-> slots[At(3 + r)]] OBVIOUS
  <2>3. PICK end : end = IF IsExceptions THEN 3 + n ELSE Skip OBVIOUS
  <2>4. /\ Stage("methodattr") /\ left.attrs > 0 /\ UNCHANGED <<pool, kclass>>
        /\ (IF IsExceptions THEN ExceptionVerdict ELSE AttrUnknown) = "ok"
        /\ member' = IF IsExceptions THEN [member EXCEPT !.exceptions = thrown] ELSE member
        /\ left' = [left EXCEPT !.attrs = @ - 1] /\ Go("methodattr", end)
    BY <1>2, <2>1, <2>2, <2>3 DEF MethodAttr
  <2>5. /\ pc = "methodattr" /\ pc' = "methodattr" /\ out' = "parsing" /\ file' = file
        /\ pos' = pos + end /\ pc \in Late
    BY <2>4 DEF Stage, Go, Late
  <2>6. MethodHolds(member) /\ member \in MemberType BY <2>5 DEF Inv, MemberInv, TypeOK
  <2>7. left' \in [members : Nat, attrs : Nat, codeattrs : Nat] BY <2>4, OneLess
  <2>8. CASE ~IsExceptions
    <3>1. end \in Nat /\ member' = member BY <2>3, <2>4, <2>8, SkipFacts
    <3>2. pos' \in Nat BY <2>5, <3>1 DEF Inv, TypeOK
    <3>3. MethodHolds(member') BY <2>6, <3>1
    <3> QED BY <2>4, <2>5, <2>7, <3>1, <3>2, <3>3, LateStep
  <2>9. CASE IsExceptions
    <3>1. /\ Fits(3) /\ Fits(3 + n)
          /\ Worst({AllocRefs(n)} \union {NonNull(ClassAt(At(3 + r))) : r \in 1..n}) = "ok"
      BY <2>1, <2>4, <2>9 DEF ExceptionVerdict
    <3>2. At(3) \in Nat BY <3>1, CellIsNat DEF Inv
    <3>3. n \in Nat /\ end = 3 + n BY <2>1, <2>3, <2>9, <3>2
    <3>4. end \in Nat /\ Fits(end) BY <3>1, <3>3
    <3>5. pos' \in Nat BY <2>5, <3>4 DEF Inv, TypeOK
    <3>6. \A r \in 1..n : slots[At(3 + r)] \in Texts
      <4>1. TAKE r \in 1..n
      <4>2. NonNull(ClassAt(At(3 + r))) \in {"ok", "bad", "stray"} BY DEF NonNull, ClassAt
      <4>3. NonNull(ClassAt(At(3 + r))) = "ok" BY <3>1, <4>2, WorstIsOk
      <4>4. PICK c : c = 3 + r OBVIOUS
      <4>5. c \in 1..end BY <3>3, <4>4
      <4>6. NonNull(ClassAt(At(c))) = "ok" BY <4>3, <4>4
      <4>7. slots[At(c)] \in Texts BY <2>5, <3>4, <4>5, <4>6, NameCell
      <4> QED BY <4>4, <4>7
    <3>7. thrown \in [1..n -> Texts] BY <2>2, <3>6
    <3>8. thrown \in Seq(Text) /\ ToSet(thrown) \subseteq Texts BY <2>5, <3>3, <3>7, TextRow
    <3>9. PICK m : m = member' OBVIOUS
    <3>10. m = [member EXCEPT !.exceptions = thrown] BY <2>4, <2>9, <3>9
    <3>11. m \in MemberType BY <2>6, <3>8, <3>10 DEF MemberType
    <3>12. /\ m.name = member.name /\ m.descriptor = member.descriptor /\ m.codes = member.codes
           /\ m.exceptions = thrown /\ m.variables = member.variables
           /\ m.lines = member.lines /\ m.code = member.code /\ m.handlers = member.handlers
           /\ m.locals = member.locals
      BY <2>6, <3>10 DEF MemberType
    <3>13. MethodHolds(m) BY <2>6, <3>8, <3>12 DEF MethodHolds, NamesHold, TablesHold
    <3>14. m.codes = 0 => m.handlers = <<>> /\ m.lines = <<>> /\ m.variables = <<>>
      BY <3>12 DEF Inv, MemberInv
    <3> QED BY <2>4, <2>5, <2>7, <3>5, <3>9, <3>11, <3>13, <3>14, LateStep
  <2> QED BY <2>8, <2>9
<1> QED BY <1>1, <1>2

LEMMA EndOfMethodInv == ASSUME Inv, EndOfMethod PROVE Inv'
<1>1. PICK c : c = IF member.name = Str.clinit THEN Len(kclass.methods) + 1 ELSE kclass.clinit
  OBVIOUS
<1>2. /\ pc = "methodattr" /\ pc' = "method" /\ out' = "parsing" /\ file' = file /\ pos' = pos + 0
      /\ kclass' = [kclass EXCEPT !.methods = Append(@, member), !.clinit = c]
      /\ UNCHANGED <<pool, left, member>>
  BY <1>1 DEF EndOfMethod, Stage, Go
<1>3. kclass \in ClassType /\ member \in MemberType /\ pos' \in Nat
      /\ left' \in [members : Nat, attrs : Nat, codeattrs : Nat]
  BY <1>2 DEF Inv, TypeOK
<1>4. kclass.methods \in Seq(MemberType) /\ kclass.clinit \in Nat BY <1>3 DEF ClassType
<1>5. /\ Append(kclass.methods, member) \in Seq(MemberType)
      /\ ToSet(Append(kclass.methods, member)) = ToSet(kclass.methods) \union {member}
  BY <1>3, <1>4, AppendOf
<1>6. Len(kclass.methods) \in Nat BY <1>4
<1>7. c \in Nat BY <1>1, <1>4, <1>6
<1>8. kclass' \in ClassType BY <1>2, <1>3, <1>5, <1>7 DEF ClassType
<1>9. kclass'.super = kclass.super /\ kclass'.intfs = kclass.intfs
      /\ kclass'.methods = Append(kclass.methods, member)
  BY <1>2, <1>3 DEF ClassType
<1>10. MethodHolds(member) BY <1>2 DEF Inv, MemberInv
<1>11. /\ {kclass'.super} \union ToSet(kclass'.intfs) \subseteq Texts \union {None}
       /\ \A m \in ToSet(kclass'.methods) : MethodHolds(m)
  BY <1>5, <1>9, <1>10 DEF Inv, ClassInv
<1> QED BY <1>2, <1>3, <1>8, <1>11, LateStep DEF Late

LEMMA EndOfMethodsInv == ASSUME Inv, EndOfMethods PROVE Inv'
<1>1. CASE \E v : Stop(v) BY <1>1, StopStep
<1>2. CASE ~ \E v : Stop(v)
  <2>1. PICK n : n = At(1) OBVIOUS
  <2>2. /\ Stage("method") /\ Fits(1) /\ UNCHANGED <<pool, member, kclass>>
        /\ left' = [left EXCEPT !.attrs = n] /\ Go("attr", 1)
    BY <1>2, <2>1 DEF EndOfMethods
  <2>3. pc = "method" /\ pc' = "attr" /\ out' = "parsing" /\ file' = file /\ pos' = pos + 1
    BY <2>2 DEF Stage, Go
  <2>4. n \in Nat /\ pos' \in Nat BY <2>1, <2>2, <2>3, CellIsNat DEF Inv, TypeOK
  <2>5. left' \in [members : Nat, attrs : Nat, codeattrs : Nat] BY <2>2, <2>4 DEF Inv, TypeOK
  <2> QED BY <2>2, <2>3, <2>4, <2>5, LateStep DEF Late
<1> QED BY <1>1, <1>2

-----------------------------------------------------------------------------
(* The attributes of the class                                              *)

LEMMA ClassAttrInv == ASSUME Inv, ClassAttr PROVE Inv'
<1>1. CASE \E v : Stop(v) BY <1>1, StopStep
<1>2. CASE ~ \E v : Stop(v)
  <2>1. PICK i : i = At(3) OBVIOUS
  <2>2. PICK end : end = IF IsSource THEN 3 ELSE IF IsInner THEN TableEnd(4) ELSE Skip OBVIOUS
  <2>3. /\ Stage("attr") /\ left.attrs > 0 /\ UNCHANGED <<pool, member>>
        /\ (IF IsSource THEN SourceVerdict ELSE IF IsInner THEN InnerVerdict ELSE AttrUnknown) = "ok"
        /\ kclass' = IF IsSource THEN [kclass EXCEPT !.source = slots[i]] ELSE kclass
        /\ left' = [left EXCEPT !.attrs = @ - 1] /\ Go("attr", end)
    BY <1>2, <2>1, <2>2 DEF ClassAttr
  <2>4. /\ pc = "attr" /\ pc' = "attr" /\ out' = "parsing" /\ file' = file /\ pos' = pos + end
        /\ pc \in Late
    BY <2>3 DEF Stage, Go, Late
  <2>5. left' \in [members : Nat, attrs : Nat, codeattrs : Nat] BY <2>3, OneLess
  <2>6. end \in Nat
    <3>1. CASE IsSource BY <2>2, <3>1
    <3>2. CASE ~IsSource /\ IsInner
      <4>1. Fits(3) /\ Fits(TableEnd(4)) BY <2>3, <3>2 DEF InnerVerdict
      <4>2. PICK n, rows : n = At(3) /\ rows = Table(4) OBVIOUS
      <4>3. TableEnd(4) \in Nat BY <4>1, <4>2, AttrTable
      <4> QED BY <2>2, <3>2, <4>3
    <3>3. CASE ~IsSource /\ ~IsInner BY <2>2, <2>3, <3>3, SkipFacts
    <3> QED BY <3>1, <3>2, <3>3
  <2>7. pos' \in Nat BY <2>4, <2>6 DEF Inv, TypeOK
  <2>8. CASE ~IsSource BY <2>3, <2>4, <2>5, <2>7, <2>8, LateStep
  <2>9. CASE IsSource
    <3>1. Fits(3) /\ NonNull(StringAt(i)) = "ok" BY <2>1, <2>3, <2>9 DEF SourceVerdict
    <3>2. At(3) \in Nat BY <3>1, CellIsNat DEF Inv
    <3>3. i \in Nat /\ StringAt(i) = "ok" BY <2>1, <3>1, <3>2 DEF NonNull
    <3>4. slots[i] \in Texts /\ Texts \subseteq Text
      BY <2>4, <3>3, NamesAreTexts, TextsType DEF Inv
    <3>5. kclass \in ClassType BY DEF Inv, TypeOK
    <3>6. kclass' \in ClassType BY <2>3, <2>9, <3>4, <3>5 DEF ClassType
    <3>7. kclass'.super = kclass.super /\ kclass'.intfs = kclass.intfs
          /\ kclass'.methods = kclass.methods
      BY <2>3, <2>9, <3>5 DEF ClassType
    <3>8. /\ {kclass'.super} \union ToSet(kclass'.intfs) \subseteq Texts \union {None}
          /\ \A m \in ToSet(kclass'.methods) : MethodHolds(m)
      BY <3>7 DEF Inv, ClassInv
    <3> QED BY <2>3, <2>4, <2>5, <2>7, <3>6, <3>8, LateStep
  <2> QED BY <2>8, <2>9
<1> QED BY <1>1, <1>2

LEMMA AcceptInv == ASSUME Inv, Accept PROVE Inv'
<1>1. /\ pc = "attr" /\ pc' = "attr" /\ out' = "accepted"
      /\ UNCHANGED <<file, pos, pool, left, member, kclass>>
  BY DEF Accept, Stage
<1>2. pos' \in Nat /\ left' \in [members : Nat, attrs : Nat, codeattrs : Nat]
  BY <1>1 DEF Inv, TypeOK
<1> QED BY <1>1, <1>2, LateStep DEF Late

-----------------------------------------------------------------------------
(* The theorems                                                             *)

LEMMA NextInv == Inv /\ [Next]_vars => Inv'
<1> SUFFICES ASSUME Inv, [Next]_vars PROVE Inv' OBVIOUS
<1>1. CASE ReadHeader BY <1>1, HeaderInv
<1>2. CASE ReadEntry BY <1>2, EntryInv
<1>3. CASE EndOfPool BY <1>3, EndOfPoolInv
<1>4. CASE CheckEntry BY <1>4, CheckInv
<1>5. CASE EndOfCheck BY <1>5, EndOfCheckInv
<1>6. CASE ReadClass BY <1>6, ClassInvStep
<1>7. CASE ReadInterfaces BY <1>7, InterfacesInv
<1>8. CASE ReadFieldCount \/ ReadMethodCount
  BY <1>8, CountInv DEF ReadFieldCount, ReadMethodCount
<1>9. CASE ReadField \/ ReadMethod BY <1>9, MemberStep DEF ReadField, ReadMethod
<1>10. CASE FieldAttr BY <1>10, FieldAttrInv
<1>11. CASE EndOfField BY <1>11, EndOfFieldInv
<1>12. CASE EndOfFields BY <1>12, EndOfFieldsInv
<1>13. CASE ReadCode BY <1>13, ReadCodeInv
<1>14. CASE MethodAttr BY <1>14, MethodAttrInv
<1>15. CASE EndOfMethod BY <1>15, EndOfMethodInv
<1>16. CASE EndOfMethods BY <1>16, EndOfMethodsInv
<1>17. CASE ReadLines BY <1>17, LinesInv
<1>18. CASE ReadVariables BY <1>18, VariablesInv
<1>19. CASE SkipCodeAttr BY <1>19, SkipCodeInv
<1>20. CASE EndOfCode BY <1>20, EndOfCodeInv
<1>21. CASE ClassAttr BY <1>21, ClassAttrInv
<1>22. CASE Accept BY <1>22, AcceptInv
<1>23. CASE UNCHANGED vars
  <2>1. UNCHANGED <<file, pos, pc, pool, left, member, kclass, out>> BY <1>23 DEF vars, pool
  <2>2. UNCHANGED pool BY <2>1
  <2>3. Texts' = Texts /\ LastSlot' = LastSlot BY <2>2, PoolStays
  <2>4. TypeOK' BY <2>1, <2>3 DEF Inv, TypeOK, pool
  <2>5. PoolInv' BY <2>1, <2>2, PoolStays DEF Inv, PoolInv, pool
  <2>6. ClassInv' BY <2>1, <2>2, <2>3, PoolStays DEF Inv, ClassInv
  <2>7. MemberInv' BY <2>1, <2>3 DEF Inv, MemberInv, MethodHolds, NamesHold, TablesHold
  <2> QED BY <2>1, <2>4, <2>5, <2>6, <2>7 DEF Inv
<1> QED BY <1>1, <1>2, <1>3, <1>4, <1>5, <1>6, <1>7, <1>8, <1>9, <1>10, <1>11, <1>12, <1>13,
           <1>14, <1>15, <1>16, <1>17, <1>18, <1>19, <1>20, <1>21, <1>22, <1>23 DEF Next

(* Whatever the file says, what the parser builds is a well-typed class, and *)
(* the pool has a tag for each of its slots (class_parse).                   *)
THEOREM ParsedClassIsTyped == Spec => []TypeOK
<1>1. Inv => TypeOK BY DEF Inv
<1> QED BY <1>1, InitInv, NextInv, PTL DEF Spec

(* What is accepted hangs together, for every file there may be: the entries *)
(* of the pool name entries of the kinds they need, the names of the class   *)
(* and of its methods are texts of the pool, and the tables of a method with *)
(* one Code attribute stay within its code (class_parse).                    *)
THEOREM AcceptedHangsTogether == Spec => []AcceptedHolds
<1>1. Inv => AcceptedHolds
  <2> SUFFICES ASSUME Inv, out = "accepted"
               PROVE  /\ \A i \in 1..(size - 1) : PoolHolds(i)
                      /\ {kclass.super} \union ToSet(kclass.intfs) \subseteq Texts \union {None}
                      /\ \A m \in ToSet(kclass.methods) : MethodHolds(m)
    BY DEF AcceptedHolds
  <2>1. pc = "attr" BY DEF Inv
  <2>2. \A i \in 1..(size - 1) : PoolHolds(i) BY <2>1 DEF Inv, PoolInv, DoneEntry, Late
  <2> QED BY <2>2 DEF Inv, ClassInv
<1> QED BY <1>1, InitInv, NextInv, PTL DEF Spec
=============================================================================
