---------------------------- MODULE MCNativeCode ----------------------------
(***************************************************************************)
(* Four methods that C calls, with prefixes that make stacks of many       *)
(* shapes; five that they call, compiled or native, and a class hierarchy  *)
(* with an overridden and an inherited method.                             *)
(***************************************************************************)
EXTENDS NativeCode

Static(num, args, ret, locals, stack, bodies) ==
    [name |-> "s", num |-> num, static |-> TRUE, native |-> FALSE, args |-> args, ret |-> ret,
     class |-> "S", offset |-> 0, locals |-> locals, stack |-> stack, bodies |-> bodies]

Instance(num, name, class, args, ret, bodies) ==
    [name |-> name, num |-> num, static |-> FALSE, native |-> FALSE, args |-> args, ret |-> ret,
     class |-> class, offset |-> 12, locals |-> Len(args) + 1, stack |-> 3, bodies |-> bodies]

Native(mt) == [mt EXCEPT !.native = TRUE]

Long == <<-7, 3>>           \* low, high

MCMethods ==
    [intMain  |-> Static(0, <<"I", "A">>, "I", 3, 6, {<<>>}),
     longMain |-> Static(1, <<"I", "A">>, "J", 4, 4, {<<>>}),
     refMain  |-> Static(2, <<"I", "A">>, "A", 2, 3, {<<>>}),
     voidMain |-> Static(3, <<"I", "A">>, "V", 2, 5, {<<>>}),
     add      |-> Static(4, <<"I", "I">>, "I", 2, 2, {<<<<"ILOAD", 0>>, <<"ILOAD", 1>>, <<"ISUB", 0>>>>}),
     big      |-> Static(5, <<"I">>, "J", 36, 4,
                         {<<<<"ILOAD", 0>>, <<"ISTORE", 35>>, <<"LDC2_W", Long>>>>,
                          <<<<"LDC2_W", Long>>, <<"LSTORE", 33>>, <<"LLOAD", 33>>>>}),
     aM       |-> Instance(6, "m", "A", <<"I">>, "I", {<<<<"ALOAD", 0>>, <<"GETFIELD", "i">>>>}),
     bM       |-> Instance(7, "m", "B", <<"I">>, "I", {<<<<"ILOAD", 1>>>>}),
     iM       |-> Instance(8, "m", "I", <<"I">>, "I", {}),
     setUp    |-> Instance(9, "u", "A", <<>>, "V", {<<<<"ALOAD", 0>>, <<"ICONST", 9>>, <<"PUTFIELD", "i">>>>}),
     byLong   |-> Static(10, <<"J">>, "V", 2, 2, {<<>>}),
     five     |-> Native(Static(11, <<"I", "A", "I", "I", "I">>, "I", 5, 0, {})),
     nativeM  |-> Native(Instance(12, "n", "A", <<"I">>, "I", {}))]

MCClassAt == [A |-> 128, B |-> 144, C |-> 160, S |-> 176, I |-> 180, int |-> 184, char |-> 188,
              byte |-> 192, short |-> 196, long |-> 200]

MCFields == [r |-> [type |-> "A", offset |-> 4], b |-> [type |-> "B", offset |-> 8],
             j |-> [type |-> "J", offset |-> 9], c |-> [type |-> "C", offset |-> 17],
             i |-> [type |-> "I", offset |-> 19], k |-> [type |-> "I", offset |-> 23]]

MCStatics == [r |-> [type |-> "A", addr |-> 204], i |-> [type |-> "I", addr |-> 208],
              b |-> [type |-> "B", addr |-> 212], c |-> [type |-> "C", addr |-> 214],
              j |-> [type |-> "J", addr |-> 216]]
MCStaticValues == [r |-> 240, i |-> -2, b |-> 5, c |-> 40000, j |-> Long]

MCInstanceSize == [A |-> 23, B |-> 27, C |-> 23]
MCSupers == [A |-> {"A", "I"}, B |-> {"B", "A", "I"}, C |-> {"C", "A", "I"},
             int |-> {}, char |-> {}, byte |-> {}, short |-> {}, long |-> {}]
MCVtable == [A |-> 12 :> "aM", B |-> 12 :> "bM", C |-> 12 :> "aM"]

Values(k) == [r |-> 263, b |-> 6, j |-> Long, c |-> 65000, i |-> -100000 - k]

MCObjects ==
    240 :> [cls |-> "A", elem |-> "none", val |-> Values(0)]
    @@ 263 :> [cls |-> "B", elem |-> "none", val |-> [k |-> 4] @@ [Values(1) EXCEPT !.b = -6]]
    @@ 290 :> [cls |-> "C", elem |-> "none", val |-> Values(2)]
    @@ 313 :> [cls |-> "int", elem |-> "I", val |-> <<11, -12>>]
    @@ 329 :> [cls |-> "char", elem |-> "C", val |-> <<65, 60000>>]
    @@ 341 :> [cls |-> "byte", elem |-> "B", val |-> <<7, -8>>]
    @@ 351 :> [cls |-> "long", elem |-> "J", val |-> <<Long>>]

FromC(method, i, a, todo) ==
    [method |-> method, args |-> <<Word("I", i), Word("A", a)>>, todo |-> todo]

I0 == <<"ILOAD", 0>>
A1 == <<"ALOAD", 1>>
L2 == <<"LDC2_W", Long>>

MCMains ==
    {FromC("intMain", 3, r, <<>>) : r \in {0, 240}}
    \union {FromC("intMain", i, 240, todo) :
              i \in {-7},
              todo \in {<<<<"JSR", 0>>, <<"ASTORE", 2>>>>, <<A1, I0>>, <<I0, A1, A1>>, <<I0, I0, A1, I0>>, <<L2, I0>>, <<L2, L2>>,
                        <<A1, L2>>, <<A1, I0, A1, I0>>}}
    \union {FromC("intMain", MinInt, 0, <<I0, <<"LDC", n>>>>) : n \in {-1, 0, 5, 256}}
    \union {FromC("intMain", i, a, <<A1, I0>>) : i \in {1, 2}, a \in {313, 329, 341}}
    \union {FromC("intMain", 1, a, <<A1, I0, <<"LDC", 70129>>>>) : a \in {313, 329, 341}}
    \union {FromC("intMain", 0, 351, todo) : todo \in {<<A1, I0>>, <<A1, I0, L2>>}}
    \union {FromC("intMain", 1, 240, <<A1, I0, A1, I0, I0, I0>>)}
    \union {FromC("intMain", 8, a, <<A1, I0>>) : a \in {263, 290}}
    \union {FromC("longMain", 8, 263, <<L2, <<"LSTORE", 2>>, I0>>),
            FromC("refMain", 1, 263, <<A1>>),
            FromC("voidMain", 5, 263, <<A1, I0, A1, I0, I0>>)}

MCCandidates ==
    {<<"ICONST", -1>>, <<"LCONST", 1>>, <<"ACONST_NULL", 0>>, <<"FCONST", 0>>, <<"FCONST", 1>>, <<"DCONST", 1>>, <<"BIPUSH", 100>>,
     <<"BIPUSH", -3>>, <<"LDC", 70000>>, <<"LDC_STRING", 240>>, L2,
     I0, A1, <<"ILOAD", 35>>, <<"LLOAD", 2>>, <<"ISTORE", 2>>, <<"ASTORE", 1>>, <<"LSTORE", 1>>,
     <<"IINC", <<0, -1>>>>,
     <<"IF", "lt">>, <<"IF", "gt">>, <<"IF_ICMP", "lt">>, <<"IF_ICMP", "ge">>, <<"IF_ACMP", "eq">>,
     <<"IFNULL", "ne">>, <<"GOTO", "always">>,
     <<"NEW", "B">>, <<"NEWARRAY", "int">>, <<"ARRAYLENGTH", 0>>, <<"CHECKCAST", "B">>,
     <<"MONITORENTER", 0>>, <<"MONITOREXIT", 0>>, <<"ATHROW", 0>>, <<"NOP", 0>>, <<"LADD", 0>>,
     <<"JSR", 0>>, <<"RET", 2>>,
     <<"INVOKEVIRTUAL", "aM">>, <<"INVOKEINTERFACE", "iM">>, <<"INVOKESPECIAL", "setUp">>,
     <<"INVOKESTATIC", "add">>, <<"INVOKESTATIC", "big">>, <<"INVOKESTATIC", "byLong">>,
     <<"INVOKESTATIC", "five">>, <<"INVOKESPECIAL", "nativeM">>}
    \union {<<op, 0>> : op \in Shuffles \union Arith \union DOMAIN Elements \union DOMAIN Returns}
    \union {<<op, f>> : op \in {"GETFIELD", "PUTFIELD"}, f \in DOMAIN MCFields}
    \union {<<op, f>> : op \in {"GETSTATIC", "PUTSTATIC"}, f \in DOMAIN MCStatics}
=============================================================================
