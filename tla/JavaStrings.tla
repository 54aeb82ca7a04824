---------------------------- MODULE JavaStrings ----------------------------
(***************************************************************************)
(* Strings: the pool of native strings, the Java strings they are interned *)
(* as, and the native methods of String, StringBuffer and System that read *)
(* and write the character arrays behind them.  Who shares an array with   *)
(* whom is what matters: Java strings are constants, string buffers write. *)
(*                                                                         *)
(* Characters are numbers, and so are the bytes of native strings.  An     *)
(* action is one call by the Java program, or the translation of an ldc.   *)
(***************************************************************************)
EXTENDS JavaHeap, SequencesExt

CONSTANTS
    Literals,       \* the texts of the string constants of the program
    Keys,           \* the properties System.getProperty0 knows: text to text
    Capacities,     \* of the string buffers the program makes
    Ranges,         \* offsets and lengths the program passes to arraycopy
    MaxInt,         \* the largest int
    HashSize,       \* HASH_TABLE_SIZE
    PackRoom,       \* bytes that new_kstring_from_jarray has for the packed text
    MaxCalls        \* bound: the calls that are looked at

Character == 0..65535      \* uint16

ASSUME ProgramAssumption ==
    /\ IsFiniteSet(Literals) /\ Literals \subseteq Seq(Character)
    /\ \A key \in DOMAIN Keys : Keys[key] \in Seq(Character)
    /\ Capacities \subseteq Nat \X Nat
    /\ Ranges \subseteq Int \X Int \X Int
    /\ MaxInt \in Nat /\ HashSize \in Nat \ {0} /\ PackRoom \in Nat

VARIABLES
    heap,           \* with the string pool: bucket[i] is a chain of strings
    bufs,           \* the string buffers of the program
    own,            \* the other arrays of the program
    said,           \* history: the text each string and buffer was given
    results,        \* history: the interned strings the program was given
    status,         \* "running", "thrown", "stray"
    calls           \* how many calls have been made

vars == <<heap, bufs, own, said, results, status, calls>>

-----------------------------------------------------------------------------
(* Native strings are in UTF-8, where 0 takes two bytes.                    *)

Utf8(ch) ==
    CASE ch = 0     -> <<192, 128>>
      [] ch \in 1..127 -> <<ch>>
      [] ch \in 128..2047 -> <<192 + ch \div 64, 128 + (ch % 64)>>
      [] OTHER      -> <<224 + ch \div 4096, 128 + ((ch \div 64) % 64), 128 + (ch % 64)>>

PackUtf8(text) == FlattenSeq([i \in DOMAIN text |-> Utf8(text[i])])

(* The bytes of a character, told by its first. *)
Width(byte) == IF byte < 128 THEN 1 ELSE IF (byte \div 32) % 2 = 1 THEN 3 ELSE 2

UnpackUtf8(bytes) ==
    LET from[n \in 1..(Len(bytes) + 3)] ==
          IF n > Len(bytes) THEN <<>>
          ELSE LET x == bytes[n]  w == Width(x)
                   y == bytes[n + 1] % 64
               IN  <<CASE w = 1 -> x
                       [] w = 2 -> (x % 32) * 64 + y
                       [] w = 3 -> (x % 16) * 4096 + y * 64 + (bytes[n + 2] % 64)>>
                   \o from[n + w]
    IN  from[1]

(* get_chars_hash *)
Hash(bytes) ==
    FoldLeft(LAMBDA key, c : ((key + c) * 2) % 65536, 0, bytes) % HashSize

-----------------------------------------------------------------------------
(* string_pool_lookup.  Operators that answer with an object give the heap  *)
(* and the object; such an answer, x, is what the next one starts from.     *)

EntrySize == 12
StringSize == 16
CharSize  == 2

Answer(h, r) == [heap |-> h, ref |-> r]
Made(h)      == Answer(h, Newest(h))

ASSUME EntryAssumption == EntrySize < 2^LengthBits

Matching(h, bytes) ==
    {k \in DOMAIN h.bucket[Hash(bytes)] : Obj(h, h.bucket[Hash(bytes)][k]).bytes = bytes}

Entered(x, bytes) ==
    Answer([NewVmObject(x.heap, EntrySize, [is |-> "entry"])
               EXCEPT !.bucket[Hash(bytes)] = <<x.ref>> \o @], x.ref)

(* Mutation: the new string has no room for the zero behind it. *)
LookupNoEnd(h, bytes) ==
    IF Matching(h, bytes) # {}
    THEN Answer(h, h.bucket[Hash(bytes)][Min(Matching(h, bytes))])
    ELSE Entered(Made(NewVmArray(h, Len(bytes), 1,
                                 [is |-> "kstring", bytes |-> bytes, intern |-> 0])), bytes)

Lookup(h, bytes) ==
    IF Matching(h, bytes) # {}
    THEN Answer(h, h.bucket[Hash(bytes)][Min(Matching(h, bytes))])
    ELSE Entered(Made(NewVmArray(h, Len(bytes) + 1, 1,
                                 [is |-> "kstring", bytes |-> bytes, intern |-> 0])), bytes)

Chars(h, len, slots) == NewJavaArray(h, len, CharSize, [is |-> "chars", slots |-> slots])

(* new_jarray_from_kstring: the array of the interned string, if there is one. *)
CharsOf(h, text) == Made(Chars(h, Len(text), text))

Jarray(x) ==
    IF Obj(x.heap, x.ref).intern # 0
    THEN Answer(x.heap, Obj(x.heap, Obj(x.heap, x.ref).intern).value)
    ELSE CharsOf(x.heap, UnpackUtf8(Obj(x.heap, x.ref).bytes))

NewString(h, value, offset, count) ==
    NewJavaObject(h, StringSize,
                  [is |-> "String", value |-> value, offset |-> offset, count |-> count])

WholeString(x) == Made(NewString(x.heap, x.ref, 0, Len(Obj(x.heap, x.ref).slots)))

InternedAs(k, x) ==
    Answer(Put(x.heap, k, [Obj(x.heap, k) EXCEPT !.intern = x.ref]), x.ref)

(* get_jstring_from_kstring.  Mutation: the string is not interned. *)
JstringUninterned(x) == WholeString(Jarray(x))

Jstring(x) ==
    IF Obj(x.heap, x.ref).intern # 0 THEN Answer(x.heap, Obj(x.heap, x.ref).intern)
    ELSE InternedAs(x.ref, WholeString(Jarray(x)))

Interned(h, bytes) == Jstring(Lookup(h, bytes))

(* get_kstring_from_jstring: all of the array, whatever part is the string's. *)
KstringOf(x)      == Answer(Jstring(x).heap, x.ref)
Packs(h, bytes)   == Lookup([h EXCEPT !.ok = @ /\ Len(bytes) < PackRoom], bytes)
Kstring(h, s)     == KstringOf(Packs(h, PackUtf8(Obj(h, Obj(h, s).value).slots)))

-----------------------------------------------------------------------------
(* The native methods                                                       *)

Slots(h, r) == Obj(h, Obj(h, r).value).slots

Content(h, r) ==
    LET o == Obj(h, r)
    IN  IF o.is = "String" THEN SubSeq(Slots(h, r), o.offset + 1, o.offset + o.count)
        ELSE SubSeq(Slots(h, r), 1, o.count)

(* java_lang_String_equals.  Mutation: offsets are not looked at. *)
EqualsFromStart(h, s, t) ==
    \/ s = t
    \/ /\ Obj(h, s).count = Obj(h, t).count
       /\ \A i \in 1..Obj(h, s).count : Slots(h, s)[i] = Slots(h, t)[i]

Equals(h, s, t) ==
    \/ s = t
    \/ /\ Obj(h, s).count = Obj(h, t).count
       /\ \A i \in 1..Obj(h, s).count :
             Slots(h, s)[Obj(h, s).offset + i] = Slots(h, t)[Obj(h, t).offset + i]

(* charAt and indexOf look at the array from its beginning to its end.      *)
CharAt(h, s, index) == Slots(h, s)[index + 1]

(* indexOf_II takes from only to find that it lies beyond the array.        *)
Least(at) == CHOOSE i \in at : \A j \in at : i <= j
Where(slots, ch) == {i \in DOMAIN slots : slots[i] = ch}

IndexOf(h, s, ch, from) ==
    IF from > Len(Slots(h, s)) \/ Where(Slots(h, s), ch) = {} THEN -1
    ELSE Least(Where(Slots(h, s), ch)) - 1

(* memcpy and memmove of n characters, both sides zero-based. *)
Copied(from, so, to, do, n) ==
    [i \in DOMAIN to |-> IF i - do \in 1..n THEN from[so + i - do] ELSE to[i]]

SetSlots(h, a, slots) == Put(h, a, [Obj(h, a) EXCEPT !.slots = slots])

Null  == <<110, 117>>      \* "null", cut short
Filler(n) == [i \in 1..n |-> 97]

(* A larger array is had from a native string of as many letters a. *)
MovedTo(h, b, x) ==
    Answer(Put(SetSlots(x.heap, x.ref, Copied(Slots(h, b), 0, Obj(x.heap, x.ref).slots, 0,
                                              Len(Slots(h, b)))),
               b, [Obj(h, b) EXCEPT !.value = x.ref]),
           x.ref)

Grow(h, b, count) == MovedTo(h, b, Jarray(Lookup(h, Filler(2 * count))))

(* java_lang_StringBuffer_append; s = 0 is null. *)
Written(h, b, s, x) ==
    SetSlots(x.heap, x.ref, Copied(Slots(x.heap, s), Obj(h, s).offset, Obj(x.heap, x.ref).slots,
                                   Obj(h, b).count, Obj(h, s).count))

SetCount(h, b, count) == Put(h, b, [Obj(h, b) EXCEPT !.count = count])

AppendString(h, b, s, count) ==
    SetCount(Written(h, b, s, IF count >= Len(Slots(h, b)) THEN Grow(h, b, count)
                              ELSE Answer(h, Obj(h, b).value)),
             b, count)

AppendAnswer(b, x) ==
    AppendString(x.heap, b, x.ref, Obj(x.heap, x.ref).count + Obj(x.heap, b).count)

Appended(h, b, s) == AppendAnswer(b, IF s = 0 THEN Interned(h, Null) ELSE Answer(h, s))

(* java_lang_StringBuffer_toString: an object is made and forgotten. *)
Packed(h, b) == PackUtf8(Content(h, b))

SharedBy(o, x) ==
    IF Obj(x.heap, x.ref).intern # 0 THEN Answer(x.heap, Obj(x.heap, x.ref).intern)
    ELSE InternedAs(x.ref, Made(NewString(x.heap, o.value, 0, o.count)))

(* Mutation: the interned string gets the array of the buffer. *)
StringedSharing(h, b) == SharedBy(Obj(h, b), Lookup(h, Packed(h, b)))

Stringed(h, b) ==
    Interned(NewJavaObject(h, StringSize, [is |-> "lost"]), Packed(h, b))

(* Two bytes for each character are kept for the packed text and its end. *)
PackedFits(h, b) == Len(Packed(h, b)) + 1 <= 2 * Obj(h, b).count

(* java_lang_System_arraycopy, for arrays of characters and other values. *)
Wrap(n) == IF n > MaxInt THEN n - 2 * (MaxInt + 1) ELSE n

CopyThrows(h, a, b, so, do, n) ==
    \/ Obj(h, a).is # Obj(h, b).is
    \/ so < 0 \/ do < 0 \/ n < 0
    \/ n > 0 /\ (Wrap(so + n) > Len(Obj(h, a).slots) \/ Wrap(do + n) > Len(Obj(h, b).slots))

CopyOutside(h, a, b, so, do, n) ==
    n > 0 /\ (so + n > Len(Obj(h, a).slots) \/ do + n > Len(Obj(h, b).slots))

(* Mutation: the elements are copied one by one, from the first on. *)
ArrayCopiedForward(h, a, b, so, do, n) ==
    SetSlots(h, b, FoldLeft(LAMBDA slots, i : [slots EXCEPT ![do + i] = IF a = b THEN slots[so + i]
                                                               ELSE Obj(h, a).slots[so + i]],
                            Obj(h, b).slots, [i \in 1..n |-> i]))

ArrayCopied(h, a, b, so, do, n) ==
    SetSlots(h, b, Copied(Obj(h, a).slots, so, Obj(h, b).slots, do, n))

-----------------------------------------------------------------------------
(* The program                                                              *)

(* A letter-a string the program was given lends its array to buffers. *)
Lent(h, a) ==
    \E r \in Ref(h) : /\ Obj(h, r).is = "kstring" /\ Obj(h, r).intern # 0
                      /\ Obj(h, r).bytes = Filler(Len(Obj(h, r).bytes))
                      /\ Obj(h, Obj(h, r).intern).value = a
Tainted(r) == Lent(heap, Obj(heap, r).value)
Text(r)    == IF Tainted(r) THEN Content(heap, r) ELSE said[r]

Strings == {r \in DOMAIN said : Obj(heap, r).is = "String"}

Running == status = "running" /\ calls < MaxCalls

Do(h) ==
    /\ heap' = h
    /\ status' = IF h.ok THEN status ELSE "stray"
    /\ calls' = calls + 1

(* The program has the string r, and should have this text. *)
Told(texts, r, text) ==
    IF r \in DOMAIN texts THEN texts
    ELSE [q \in DOMAIN texts \union {r} |-> IF q = r THEN text ELSE texts[q]]

Give(r, text) ==
    /\ results' = results \union {[ref |-> r, text |-> text]}
    /\ said' = Told(said, r, text)

(* It gets the answer x. *)
Gets(x, text) == Do(x.heap) /\ Give(x.ref, text)

(* The code generator makes the string of a constant part of the code. *)
Ldc(text) ==
    /\ Running
    /\ Gets(Interned(heap, PackUtf8(text)), text)
    /\ UNCHANGED <<bufs, own>>

(* String.substring, in Java: the new string shares the array. *)
Substring(s, from) ==
    /\ Running /\ from < Obj(heap, s).count
    /\ LET o == Obj(heap, s)
           h == NewString(heap, o.value, o.offset + from, o.count - from)
       IN  /\ Do(h)
           /\ said' = Told(said, Newest(h), SubSeq(Text(s), from + 1, o.count))
    /\ UNCHANGED <<bufs, own, results>>

StringBufferAppend(b, s) ==
    /\ Running
    /\ Do(Appended(heap, b, s))
    /\ said' = [said EXCEPT ![b] = Text(b) \o (IF s = 0 THEN Null ELSE Text(s))]
    /\ UNCHANGED <<bufs, own, results>>

StringBufferToString(b) ==
    /\ Running
    /\ \/ Gets(Stringed(heap, b), Text(b))
       \/ /\ ~PackedFits(heap, b)
          /\ status' = "stray"
          /\ calls' = calls + 1
          /\ UNCHANGED <<heap, said, results>>
    /\ UNCHANGED <<bufs, own>>

(* StringBuffer.insert at the front, in Java, when there is room. *)
StringBufferInsert(b, s) ==
    LET v == Obj(heap, b).value
        n == Obj(heap, s).count
        c == Obj(heap, b).count
    IN  /\ Running /\ n > 0
        /\ n + c <= Len(Slots(heap, b))
        /\ ~CopyThrows(heap, v, v, 0, n, c)
        /\ Do(SetCount(ArrayCopied(ArrayCopied(heap, v, v, 0, n, c), Obj(heap, s).value, v,
                                   Obj(heap, s).offset, 0, n), b, n + c))
        /\ said' = [said EXCEPT ![b] = Text(s) \o Text(b)]
        /\ UNCHANGED <<bufs, own, results>>

(* arraycopy between arrays of the program. *)
SystemArraycopy(a, b, so, do, n) ==
    /\ Running
    /\ \/ /\ CopyThrows(heap, a, b, so, do, n)
          /\ status' = "thrown"
          /\ calls' = calls + 1
          /\ UNCHANGED heap
       \/ /\ ~CopyThrows(heap, a, b, so, do, n)
          /\ Do(IF CopyOutside(heap, a, b, so, do, n) THEN [heap EXCEPT !.ok = FALSE]
                ELSE ArrayCopied(heap, a, b, so, do, n))
    /\ UNCHANGED <<bufs, own, said, results>>

(* Class.forName up to the call of load_class, with / for each dot. *)
Slashed(bytes) == [i \in DOMAIN bytes |-> IF bytes[i] = 46 THEN 47 ELSE bytes[i]]

SlashedName(x) == Lookup(x.heap, Slashed(Obj(x.heap, x.ref).bytes))

ClassForName(s) ==
    /\ Running
    /\ Do(SlashedName(Kstring(heap, s)).heap)
    /\ UNCHANGED <<bufs, own, said, results>>

KeyOf(x) == UnpackUtf8(Obj(x.heap, x.ref).bytes)

Property(x, key) ==
    \/ /\ key \in DOMAIN Keys
       /\ Gets(Interned(x.heap, PackUtf8(Keys[key])), Keys[key])
    \/ /\ key \notin DOMAIN Keys
       /\ status' = "thrown"
       /\ calls' = calls + 1
       /\ UNCHANGED <<heap, said, results>>

SystemGetProperty(s) ==
    /\ Running
    /\ LET x == Kstring(heap, s) IN Property(x, KeyOf(x))
    /\ UNCHANGED <<bufs, own>>

EmptyHeap == [mem |-> 0, objs |-> <<>>, ok |-> TRUE,
              bucket |-> [i \in 0..(HashSize - 1) |-> <<>>]]

(* The class files of the program are read, their constants in the pool. *)
LiteralsHeap ==
    FoldLeft(LAMBDA h, text : Lookup(h, PackUtf8(text)).heap, EmptyHeap, SetToSeq(Literals))

(* new StringBuffer(c) *)
Buffer(h, c) ==
    NewJavaObject(Chars(h, c, [k \in 1..c |-> 0]), StringSize,
                  [is |-> "StringBuffer", value |-> Newest(h) + 1, count |-> 0])

Init ==
    /\ \E cs \in Capacities :
         LET a  == Chars(LiteralsHeap, 3, <<97, 98, 0>>)
             i  == NewJavaArray(a, 2, 4, [is |-> "ints", slots |-> <<1, 2>>])
             b1 == Buffer(i, cs[1])
             b2 == Buffer(b1, cs[2])
         IN  /\ heap = b2
             /\ own = {Newest(a), Newest(i)}
             /\ bufs = {Newest(b1), Newest(b2)}
    /\ said = [b \in bufs |-> <<>>]
    /\ results = {}
    /\ status = IF heap.ok THEN "running" ELSE "stray"
    /\ calls = 0

Next ==
    \/ \E text \in Literals : Ldc(text)
    \/ \E s \in Strings :
         \/ \E n \in 1..2 : Substring(s, n)
         \/ ClassForName(s)
         \/ SystemGetProperty(s)
    \/ \E b \in bufs :
         \/ \E s \in Strings \union {0} : StringBufferAppend(b, s)
         \/ \E s \in Strings : StringBufferInsert(b, s)
         \/ StringBufferToString(b)
    \/ \E a, b \in own, r \in Ranges : SystemArraycopy(a, b, r[1], r[2], r[3])

Spec == Init /\ [][Next]_vars

-----------------------------------------------------------------------------
(* Properties                                                               *)

Trusted == status # "stray"

(* A Java string is a constant: whatever is appended to whichever buffer,   *)
(* what the program was given keeps its text, an interned string as well as *)
(* a part of another (new_jarray_from_kstring and append decide who writes  *)
(* to which array).  Left out are strings of nothing but a, whose array     *)
(* append takes for a new one.                                              *)
StringsKeepTheirText ==
    Trusted => /\ \A s \in Strings : ~Tainted(s) => Content(heap, s) = said[s]
               /\ \A x \in results : ~Tainted(x.ref) => Content(heap, x.ref) = x.text

(* A buffer holds what was appended and inserted, in that order, however    *)
(* often it had to grow (java_lang_StringBuffer_append).  Nothing is said   *)
(* of a buffer whose array is also that of an interned string of nothing    *)
(* but a: append has taken it for a new one, and others write to it too.    *)
BuffersHoldTheirText ==
    Trusted => \A b \in bufs : ~Tainted(b) => Content(heap, b) = said[b]

(* Equal constants, and the results of toString, are one object wherever    *)
(* they come from: compiled code compares references (kstring->intern), and *)
(* each text is in the pool once.                                           *)
OneStringPerText ==
    Trusted => /\ \A x, y \in results : x.text = y.text => x.ref = y.ref
               /\ \A i \in DOMAIN heap.bucket : IsInjective(
                     [k \in DOMAIN heap.bucket[i] |-> Obj(heap, heap.bucket[i][k]).bytes])

(* equals compares texts.  charAt and indexOf see the text of a string      *)
(* that has its array for itself (they take no account of the offset):      *)
(* indexOf(c, from) is the first place at from or behind it where c stands, *)
(* and -1 where it stands nowhere.  Left out is the search, within the      *)
(* string, for a character that stands before from as well:                 *)
(* indexOf_II then answers with a place before from.                        *)
Whole(s) == Obj(heap, s).offset = 0 /\ Obj(heap, s).count = Len(Slots(heap, s))

From(text, ch, from) == {i \in Where(text, ch) : i > from}

FirstFrom(text, ch, from) ==
    IF From(text, ch, from) = {} THEN -1 ELSE Least(From(text, ch, from)) - 1

ReadersSeeTheText ==
    Trusted =>
        /\ \A s, t \in Strings : Equals(heap, s, t) <=> Content(heap, s) = Content(heap, t)
        /\ \A s \in Strings : Whole(s) =>
              LET text == Text(s) IN
              /\ \A i \in DOMAIN text : CharAt(heap, s, i - 1) = text[i]
              /\ \A ch \in ToSet(text) \union {0}, from \in -1..(Len(text) + 2) :
                    \/ IndexOf(heap, s, ch, from) = FirstFrom(text, ch, from)
                    \/ from <= Len(text) /\ \E i \in Where(text, ch) : i <= from

(* Objects never overlap, and each has the room its users take it to have:  *)
(* native strings with the zero behind them, arrays with all their          *)
(* elements (get_vm_object_size, gc_new_vm_object, gc_new_java_array and    *)
(* the sizes their callers compute).  Left out are native strings whose     *)
(* length or size the header cannot tell.                                   *)
Room(o) ==
    CASE o.is = "kstring" -> ArrayOverhead + Len(o.bytes) + 1
      [] o.is = "chars"   -> ArrayOverhead + CharSize * Len(o.slots)
      [] o.is = "ints"    -> ArrayOverhead + 4 * Len(o.slots)
      [] o.is = "entry"   -> EntrySize
      [] OTHER            -> StringSize

TooLong(o) ==
    o.is = "kstring" /\ (Len(o.bytes) + 1 >= 2^LengthBits \/ Room(o) >= 2^SizeBits)

Enough(o, size) == TooLong(o) \/ Room(o) <= size

ObjectsApart ==
    /\ Apart(heap)
    /\ \A r \in Ref(heap) : Enough(Obj(heap, r), heap.objs[r].size)
    /\ Trusted => heap.mem <= HeapSize

=============================================================================
