------------------------- MODULE JavaStringsProofs -------------------------
(***************************************************************************)
(* The heap, the string pool and the strings of a program, for every       *)
(* program, heap and choice of sizes: proofs about JavaHeap and            *)
(* JavaStrings.                                                            *)
(***************************************************************************)
EXTENDS JavaStrings, FiniteSetTheorems, SequenceTheorems, TLAPS

-----------------------------------------------------------------------------
(* Numbers and recursion: a statement about all numbers up to some bound is *)
(* shown by the least for which it would be wrong.                          *)

LEMMA LeastOf ==
    ASSUME NEW some, some \subseteq Nat, some # {}
    PROVE  Min(some) \in some /\ \A k \in some : Min(some) <= k
<1>1. \E x \in some : \A y \in some : ~(<<y, x>> \in OpToRel(<, Nat))
  BY NatLessThanWellFounded, WFMin
<1>2. PICK x \in some : \A y \in some : ~(<<y, x>> \in OpToRel(<, Nat))
  BY <1>1
<1>3. \A y \in some : ~(y < x)
  BY <1>2 DEF OpToRel
<1>4. \A y \in some : x <= y
  BY <1>3
<1>5. QED
  BY <1>4 DEF Min

LEMMA GreatestOf ==
    ASSUME NEW n \in Nat, NEW some \in SUBSET (1 .. n), some # {}
    PROVE  Max(some) \in some /\ \A k \in some : k <= Max(some)
<1> DEFINE from == {n - k : k \in some}
<1>1. from \subseteq Nat /\ from # {}
  <2>1. \A k \in some : k \in Nat /\ k <= n
    OBVIOUS
  <2>2. \A k \in some : n - k \in Nat
    BY <2>1
  <2>3. QED
    BY <2>2
<1>2. PICK k \in some : Min(from) = n - k
  BY <1>1, LeastOf
<1>3. \A l \in some : n - k <= n - l
  BY <1>1, <1>2, LeastOf
<1> HIDE DEF from
<1>4. \A l \in some : k >= l
  BY <1>3
<1>5. \E x \in some : \A y \in some : x >= y
  BY <1>4
<1>6. Max(some) \in some /\ \A y \in some : Max(some) >= y
  BY <1>5 DEF Max
<1>7. QED
  BY <1>6

(* What is done with each number in turn can be done.                      *)
Iterates(A, n, a, F) ==
    \E f \in [0 .. n -> A] : f[0] = a /\ \A i \in 1 .. n : f[i] = F[i][f[i - 1]]

LEMMA Iteration ==
    ASSUME NEW A, NEW n \in Nat, NEW a \in A, NEW F \in [1 .. n -> [A -> A]]
    PROVE  Iterates(A, n, a, F)
<1> DEFINE Upto(m) == \E f \in [0 .. m -> A] : f[0] = a /\ \A i \in 1 .. m : f[i] = F[i][f[i - 1]]
           missing == {m \in 0 .. n : ~Upto(m)}
<1>1. SUFFICES ASSUME missing # {} PROVE FALSE
  <2>1. missing = {} => Upto(n)
    BY n \in 0 .. n
  <2>2. QED
    BY <2>1 DEF Iterates
<1>2. PICK m \in missing : \A k \in missing : m <= k
  <2>1. missing \subseteq Nat
    OBVIOUS
  <2>2. QED
    BY <1>1, <2>1, LeastOf
<1>3. m # 0
  <2>1. Upto(0)
    <3>1. [i \in 0 .. 0 |-> a] \in [0 .. 0 -> A]
      OBVIOUS
    <3>2. 1 .. 0 = {} /\ [i \in 0 .. 0 |-> a][0] = a
      OBVIOUS
    <3>3. QED
      BY <3>1, <3>2
  <2>2. QED
    BY <2>1
<1>4. m - 1 \in 0 .. n /\ m \in 1 .. n /\ m \in Nat /\ ~(m <= m - 1)
  BY <1>3
<1>5. Upto(m - 1)
  BY <1>2, <1>4
<1>6. PICK f \in [0 .. (m - 1) -> A] : f[0] = a /\ \A i \in 1 .. (m - 1) : f[i] = F[i][f[i - 1]]
  BY <1>5
<1> DEFINE g == [i \in 0 .. m |-> IF i = m THEN F[m][f[m - 1]] ELSE f[i]]
<1> HIDE DEF missing
<1>7. f[m - 1] \in A /\ F[m][f[m - 1]] \in A
  BY <1>4
<1>8. \A i \in 0 .. m : i # m => i \in 0 .. (m - 1)
  BY <1>4
<1>9. g \in [0 .. m -> A]
  BY <1>6, <1>7, <1>8
<1>10. g[0] = a
  BY <1>4, <1>6
<1>11. ASSUME NEW i \in 1 .. m
       PROVE  g[i] = F[i][g[i - 1]]
  <2>1. i - 1 \in 0 .. m /\ i - 1 # m /\ i \in 0 .. m
    BY <1>4
  <2>2. g[i - 1] = f[i - 1]
    BY <2>1
  <2>3. CASE i = m
    BY <2>1, <2>2, <2>3
  <2>4. CASE i # m
    BY <1>4, <1>6, <2>1, <2>2, <2>4
  <2>5. QED
    BY <2>3, <2>4
<1> HIDE DEF g
<1>12. Upto(m)
  BY <1>9, <1>10, <1>11
<1>13. QED
  BY <1>4, <1>12 DEF missing

LEMMA WithoutGreatest ==
    ASSUME NEW i \in Nat, NEW some \in SUBSET (1 .. i), some # {}
    PROVE  /\ Max(some) \in 1 .. i
           /\ some \ {Max(some)} \in SUBSET (1 .. i)
           /\ i # 0 /\ some \ {Max(some)} \in SUBSET (1 .. i - 1)
<1>1. Max(some) \in some /\ \A k \in some : k <= Max(some)
  BY GreatestOf
<1>2. Max(some) \in 1 .. i /\ i # 0
  <2>1. Max(some) \in 1 .. i
    BY <1>1
  <2>2. 1 .. 0 = {}
    OBVIOUS
  <2>3. QED
    BY <2>1, <2>2
<1>3. \A k \in some : k # Max(some) => k \in 1 .. i - 1
  <2>1. SUFFICES ASSUME NEW k \in some, k # Max(some) PROVE k \in 1 .. i - 1
    OBVIOUS
  <2>2. k \in 1 .. i /\ k <= Max(some) /\ Max(some) \in Nat /\ Max(some) <= i
    BY <1>1, <1>2
  <2>3. QED
    BY <2>1, <2>2
<1>4. QED
  BY <1>2, <1>3

(* The recursion of a fold over a sequence of length n, from its end.      *)
Recurs(A, n, base, G) ==
    \E f \in [SUBSET (1 .. n) -> A] :
        f = [some \in SUBSET (1 .. n) |->
               IF some = {} THEN base ELSE G[Max(some)][f[some \ {Max(some)}]]]

LEMMA Recursion ==
    ASSUME NEW A, NEW n \in Nat, NEW base \in A, NEW G \in [1 .. n -> [A -> A]]
    PROVE  Recurs(A, n, base, G)
<1> DEFINE B == [SUBSET (1 .. n) -> A]
           step(t) == [some \in SUBSET (1 .. n) |->
                         IF some = {} THEN base ELSE G[Max(some)][t[some \ {Max(some)}]]]
           F == [i \in 1 .. n + 1 |-> [t \in B |-> step(t)]]
           t0 == [some \in SUBSET (1 .. n) |-> base]
<1>2. ASSUME NEW t \in B PROVE step(t) \in B
  <2> SUFFICES ASSUME NEW some \in SUBSET (1 .. n)
               PROVE  (IF some = {} THEN base ELSE G[Max(some)][t[some \ {Max(some)}]]) \in A
    OBVIOUS
  <2>1. CASE some # {}
    <3>1. Max(some) \in 1 .. n /\ some \ {Max(some)} \in SUBSET (1 .. n)
      BY <2>1, WithoutGreatest
    <3>2. t[some \ {Max(some)}] \in A
      BY <3>1
    <3>3. QED
      BY <2>1, <3>1, <3>2
  <2>2. CASE some = {}
    BY <2>2
  <2>3. QED
    BY <2>1, <2>2
<1>3. F \in [1 .. n + 1 -> [B -> B]] /\ t0 \in B
  <2> HIDE DEF B, step
  <2>1. F \in [1 .. n + 1 -> [B -> B]]
    BY <1>2
  <2>2. QED
    BY <2>1 DEF B
<1>4. PICK f \in [0 .. n + 1 -> B] : f[0] = t0 /\ \A i \in 1 .. n + 1 : f[i] = F[i][f[i - 1]]
  <2> HIDE DEF B, F, t0
  <2>1. Iterates(B, n + 1, t0, F)
    BY <1>3, Iteration
  <2>2. QED
    BY <2>1 DEF Iterates
<1>5. \A i \in 1 .. n + 1 : f[i] = step(f[i - 1])
  <2> SUFFICES ASSUME NEW i \in 1 .. n + 1 PROVE f[i] = step(f[i - 1])
    OBVIOUS
  <2> HIDE DEF B, step
  <2>1. i - 1 \in 0 .. n + 1
    OBVIOUS
  <2>2. f[i - 1] \in B
    BY <1>4, <2>1
  <2>3. QED
    BY <1>4, <2>2
<1> DEFINE Settled(i) == \A some \in SUBSET (1 .. i) : f[i + 1][some] = f[i][some]
           missing == {i \in 0 .. n : ~Settled(i)}
<1>6. missing = {}
  <2>1. SUFFICES ASSUME missing # {} PROVE FALSE
    OBVIOUS
  <2>2. PICK i \in missing : \A k \in missing : i <= k
    <3>1. missing \subseteq Nat
      OBVIOUS
    <3>2. QED
      BY <2>1, <3>1, LeastOf
  <2>3. i \in 0 .. n /\ i \in Nat /\ i + 1 \in 1 .. n + 1 /\ ~Settled(i)
    OBVIOUS
  <2>4. PICK some \in SUBSET (1 .. i) : f[i + 1][some] # f[i][some]
    BY <2>3
  <2>5. some \in SUBSET (1 .. n)
    BY <2>3
  <2>6. f[i + 1] = step(f[i])
    <3>1. i + 1 - 1 = i
      BY <2>3
    <3> HIDE DEF step
    <3>2. QED
      BY <1>5, <2>3, <3>1
  <2>7. CASE some = {}
    <3>1. f[i + 1][some] = base
      BY <2>5, <2>6, <2>7
    <3>2. f[i][some] = base
      <4>1. CASE i = 0
        BY <1>4, <2>5, <4>1
      <4>2. CASE i # 0
        <5>1. i \in 1 .. n + 1
          BY <2>3, <4>2
        <5>2. f[i] = step(f[i - 1])
          BY <1>5, <5>1
        <5>3. QED
          BY <2>5, <2>7, <5>2
      <4>3. QED
        BY <4>1, <4>2
    <3>3. QED
      BY <2>4, <3>1, <3>2
  <2>8. CASE some # {}
    <3> DEFINE rest == some \ {Max(some)}
    <3>1. i # 0 /\ rest \in SUBSET (1 .. i - 1)
      BY <2>3, <2>8, WithoutGreatest
    <3>2. i - 1 \in 0 .. n /\ ~(i <= i - 1) /\ i \in 1 .. n + 1
      BY <2>3, <3>1
    <3>3. Settled(i - 1)
      BY <2>2, <3>2
    <3>4. f[i][rest] = f[i - 1][rest]
      <4>1. (i - 1) + 1 = i
        BY <2>3
      <4>2. QED
        BY <3>1, <3>3, <4>1
    <3>5. f[i] = step(f[i - 1])
      BY <1>5, <3>2
    <3>6. f[i + 1][some] = G[Max(some)][f[i][rest]]
      BY <2>5, <2>6, <2>8
    <3>7. f[i][some] = G[Max(some)][f[i - 1][rest]]
      BY <2>5, <2>8, <3>5
    <3>8. QED
      BY <2>4, <3>4, <3>6, <3>7
  <2>9. QED
    BY <2>7, <2>8
<1>7. f[n + 1] = step(f[n]) /\ f[n] \in B /\ f[n + 1] \in B
  <2>1. n + 1 \in 1 .. n + 1 /\ n + 1 - 1 = n /\ n \in 0 .. n + 1 /\ n + 1 \in 0 .. n + 1
    OBVIOUS
  <2> HIDE DEF B, step
  <2>2. QED
    BY <1>4, <1>5, <2>1
<1>8. \A some \in SUBSET (1 .. n) : f[n + 1][some] = f[n][some]
  <2>1. n \in 0 .. n
    OBVIOUS
  <2>2. QED
    BY <1>6, <2>1
<1>9. f[n] = f[n + 1]
  BY <1>7, <1>8
<1>10. QED
  BY <1>7, <1>9 DEF Recurs

LEMMA FoldStays ==
    ASSUME NEW A, NEW n \in Nat, NEW f, f[{}] \in A,
           \A some \in SUBSET (1 .. n) :
               some # {} /\ f[some \ {Max(some)}] \in A => f[some] \in A
    PROVE  f[1 .. n] \in A
<1> DEFINE Stays(i) == \A some \in SUBSET (1 .. i) : f[some] \in A
           missing  == {i \in 0 .. n : ~Stays(i)}
<1>1. SUFFICES ASSUME missing # {} PROVE FALSE
  <2>1. missing = {} => Stays(n)
    BY n \in 0 .. n
  <2>2. QED
    BY <2>1
<1>2. PICK i \in missing : \A k \in missing : i <= k
  <2>1. missing \subseteq Nat
    OBVIOUS
  <2>2. QED
    BY <1>1, <2>1, LeastOf
<1>3. i \in 0 .. n /\ i \in Nat
  OBVIOUS
<1>4. PICK some \in SUBSET (1 .. i) : f[some] \notin A
  BY <1>2
<1>5. some # {}
  BY <1>4
<1>6. i # 0 /\ some \ {Max(some)} \in SUBSET (1 .. i - 1)
  BY <1>3, <1>5, WithoutGreatest
<1>7. i - 1 \in 0 .. n /\ ~(i <= i - 1)
  BY <1>3, <1>6
<1>8. f[some \ {Max(some)}] \in A
  BY <1>2, <1>6, <1>7
<1>9. some \in SUBSET (1 .. n)
  BY <1>3
<1>10. QED
  BY <1>4, <1>5, <1>8, <1>9

LEMMA FlattenDefined ==
    ASSUME NEW X, NEW seqs \in Seq(Seq(X)), Len(seqs) > 0
    PROVE  \E f : f = [i \in 1 .. Len(seqs) |-> IF i = 1 THEN seqs[i] ELSE f[i - 1] \o seqs[i]]
<1> DEFINE n == Len(seqs)
           A == Seq(X)
           F == [i \in 1 .. n |-> [x \in A |-> x \o seqs[i]]]
<1>1. n \in Nat /\ \A i \in 1 .. n : seqs[i] \in A
  OBVIOUS
<1>2. \A i \in 1 .. n : \A x \in A : x \o seqs[i] \in A
  BY <1>1
<1>3. F \in [1 .. n -> [A -> A]]
  BY <1>2
<1>4. << >> \in A
  OBVIOUS
<1>5. PICK f \in [0 .. n -> A] : f[0] = << >> /\ \A i \in 1 .. n : f[i] = F[i][f[i - 1]]
  <2>1. PICK a \in A : a = << >>
    BY <1>4
  <2> HIDE DEF n, A, F
  <2>2. Iterates(A, n, a, F)
    BY <1>1, <1>3, Iteration
  <2>3. QED
    BY <2>1, <2>2 DEF Iterates
<1>6. ASSUME NEW i \in 1 .. n
      PROVE  f[i] = IF i = 1 THEN seqs[i] ELSE f[i - 1] \o seqs[i]
  <2>1. f[i] = f[i - 1] \o seqs[i]
    <3>1. i - 1 \in 0 .. n
      BY <1>1
    <3>2. f[i - 1] \in A
      BY <1>5, <3>1
    <3>3. QED
      BY <1>5, <3>2
  <2>2. << >> \o seqs[1] = seqs[1]
    BY <1>1
  <2>3. CASE i = 1
    <3>1. i - 1 = 0
      BY <2>3
    <3>2. QED
      BY <1>5, <2>1, <2>2, <2>3, <3>1
  <2>4. QED
    BY <2>1, <2>3
<1> DEFINE g == [i \in 1 .. n |-> f[i]]
<1>7. g = [i \in 1 .. n |-> IF i = 1 THEN seqs[i] ELSE g[i - 1] \o seqs[i]]
  <2>1. \A i \in 1 .. n : i # 1 => i - 1 \in 1 .. n
    BY <1>1
  <2>2. \A i \in 1 .. n : i # 1 => g[i - 1] = f[i - 1]
    BY <2>1
  <2>3. QED
    BY <1>6, <2>2
<1>8. QED
  BY <1>7

(* Each step of the flattening appends a sequence to those before it.      *)
Flattens(seqs, X, flat) ==
    /\ FlattenSeq(seqs) = flat[Len(seqs)]
    /\ \A i \in 1 .. Len(seqs) :
          /\ flat[i] \in Seq(X)
          /\ flat[i] = IF i = 1 THEN seqs[i] ELSE flat[i - 1] \o seqs[i]

LEMMA FlattenFolds ==
    ASSUME NEW X, NEW seqs \in Seq(Seq(X)), Len(seqs) > 0
    PROVE  \E flat : Flattens(seqs, X, flat)
<1> DEFINE n == Len(seqs)
           body(f) == [i \in 1 .. n |-> IF i = 1 THEN seqs[i] ELSE f[i - 1] \o seqs[i]]
           flat == CHOOSE f : f = body(f)
<1>1. n \in Nat /\ n # 0 /\ \A i \in 1 .. n : seqs[i] \in Seq(X)
  OBVIOUS
<1>2. FlattenSeq(seqs) = flat[n]
  BY <1>1 DEF FlattenSeq
<1>3. flat = body(flat)
  <2>1. \E f : f = body(f)
    BY FlattenDefined
  <2> HIDE DEF body
  <2>2. QED
    BY <2>1, Zenon DEF flat
<1> HIDE DEF flat
<1>4. \A i \in 1 .. n : flat[i] = IF i = 1 THEN seqs[i] ELSE flat[i - 1] \o seqs[i]
  BY <1>3
<1> DEFINE missing == {i \in 1 .. n : flat[i] \notin Seq(X)}
<1>5. missing = {}
  <2>1. SUFFICES ASSUME missing # {} PROVE FALSE
    OBVIOUS
  <2>2. PICK i \in missing : \A k \in missing : i <= k
    <3>1. missing \subseteq Nat
      OBVIOUS
    <3>2. QED
      BY <2>1, <3>1, LeastOf
  <2>3. i # 1
    BY <1>1, <1>4
  <2>4. i - 1 \in 1 .. n /\ ~(i <= i - 1)
    BY <2>3
  <2>5. flat[i - 1] \in Seq(X)
    BY <2>2, <2>4
  <2>6. flat[i] \in Seq(X)
    <3>1. i \in 1 .. n /\ seqs[i] \in Seq(X)
      BY <1>1
    <3>2. flat[i] = flat[i - 1] \o seqs[i]
      BY <1>4, <2>3, <3>1
    <3>3. QED
      BY <2>5, <3>1, <3>2
  <2>7. QED
    BY <2>6
<1>6. \A i \in 1 .. n : flat[i] \in Seq(X)
  BY <1>5
<1>7. Flattens(seqs, X, flat)
  BY <1>2, <1>4, <1>6 DEF Flattens
<1>8. QED
  BY <1>7

-----------------------------------------------------------------------------
(* The heap                                                                *)

(* What every allocation starts from and leaves.  A heap may have fields   *)
(* besides these; objects are any things.                                  *)
HeapInv(h, Things) ==
    /\ {"mem", "objs", "ok"} \subseteq DOMAIN h
    /\ h.mem \in Nat
    /\ h.objs \in Seq([from : Nat, size : Nat, obj : Things])
    /\ Apart(h)

(* What no allocation does: to move an object that is there.               *)
Stay(h, k) ==
    /\ Len(h.objs) <= Len(k.objs)
    /\ \A r \in Ref(h) : k.objs[r] = h.objs[r]

(* The newest object begins behind all that were there before.             *)
Fresh(h, k) ==
    /\ Len(k.objs) = Len(h.objs) + 1
    /\ k.objs[Newest(k)].from >= h.mem

LEMMA AlignedUp ==
    ASSUME NEW m \in Nat
    PROVE  Aligned(m) \in Nat /\ Aligned(m) >= m /\ Aligned(m) % 4 = 0
BY DEF Aligned

LEMMA ElementOf ==
    ASSUME NEW S, NEW s \in Seq(S), NEW n \in 1 .. Len(s)
    PROVE  s[n] \in S
OBVIOUS

LEMMA PlacesAreNumbers ==
    ASSUME NEW Things, NEW h, HeapInv(h, Things), NEW r \in Ref(h)
    PROVE  h.objs[r].from \in Nat /\ h.objs[r].size \in Nat
<1> DEFINE Places == [from : Nat, size : Nat, obj : Things]
<1>1. h.objs \in Seq(Places)
  BY DEF HeapInv
<1>2. DOMAIN h.objs = 1 .. Len(h.objs)
  BY <1>1
<1>3. h.objs[r] \in Places
  <2> HIDE DEF Places
  <2>1. QED
    BY <1>1, <1>2, ElementOf DEF Ref
<1>4. QED
  BY <1>3

(* The step that all allocations are made of.                              *)
LEMMA PlaceKeeps ==
    ASSUME NEW Things, NEW h, HeapInv(h, Things),
           NEW from \in Nat, NEW size \in Nat, NEW need \in Nat, NEW obj \in Things,
           from >= h.mem
    PROVE  LET k == Place(h, from, size, need, obj) IN
           HeapInv(k, Things) /\ Stay(h, k) /\ Fresh(h, k)
<1> DEFINE k == Place(h, from, size, need, obj)
           new == [from |-> from, size |-> size, obj |-> obj]
<1>1. /\ DOMAIN k = DOMAIN h
      /\ k.mem = from + size
      /\ k.objs = Append(h.objs, new)
  BY DEF Place, HeapInv
<1> HIDE DEF k
<1>2. /\ h.objs \in Seq([from : Nat, size : Nat, obj : Things])
      /\ new \in [from : Nat, size : Nat, obj : Things]
      /\ h.mem \in Nat
  BY DEF HeapInv
<1> HIDE DEF new
<1>3. /\ k.objs \in Seq([from : Nat, size : Nat, obj : Things])
      /\ Len(k.objs) = Len(h.objs) + 1
      /\ Len(h.objs) \in Nat
      /\ \A r \in 1 .. Len(h.objs) : k.objs[r] = h.objs[r]
      /\ k.objs[Len(h.objs) + 1] = new
  BY <1>1, <1>2
<1>4. DOMAIN h.objs = 1 .. Len(h.objs) /\ DOMAIN k.objs = 1 .. Len(k.objs)
  BY <1>2, <1>3
<1>5. \A r \in 1 .. Len(h.objs) : h.objs[r].from \in Nat /\ h.objs[r].size \in Nat
  BY <1>4, PlacesAreNumbers DEF Ref
<1>6. new.from = from /\ new.size = size
  BY DEF new
<1>7. Apart(k)
  <2>1. ASSUME NEW r \in Ref(k) PROVE k.objs[r].from + k.objs[r].size <= k.mem
    <3>1. CASE r \in 1 .. Len(h.objs)
      <4>1. h.objs[r].from + h.objs[r].size <= h.mem
        BY <3>1, <1>4 DEF HeapInv, Apart, Ref
      <4>2. k.objs[r] = h.objs[r] /\ h.objs[r].from \in Nat /\ h.objs[r].size \in Nat
        BY <3>1, <1>3, <1>5
      <4>3. h.mem <= k.mem /\ h.mem \in Nat /\ k.mem \in Nat
        BY <1>1, <1>2
      <4>4. QED
        BY <4>1, <4>2, <4>3
    <3>2. CASE r = Len(h.objs) + 1
      BY <3>2, <1>1, <1>3, <1>6
    <3>3. QED
      BY <3>1, <3>2, <1>3, <1>4 DEF Ref
  <2>2. ASSUME NEW r \in Ref(k), NEW q \in Ref(k), r < q
        PROVE  k.objs[r].from + k.objs[r].size <= k.objs[q].from
    <3>1. CASE q \in 1 .. Len(h.objs)
      <4>1. r \in 1 .. Len(h.objs)
        BY <3>1, <2>2, <1>3, <1>4 DEF Ref
      <4>2. h.objs[r].from + h.objs[r].size <= h.objs[q].from
        BY <4>1, <3>1, <2>2, <1>4 DEF HeapInv, Apart, Ref
      <4>3. QED
        BY <4>1, <4>2, <3>1, <1>3
    <3>2. CASE q = Len(h.objs) + 1
      <4>1. r \in 1 .. Len(h.objs)
        BY <3>2, <2>2, <1>3, <1>4 DEF Ref
      <4>2. h.objs[r].from + h.objs[r].size <= h.mem
        BY <4>1, <1>4 DEF HeapInv, Apart, Ref
      <4>3. k.objs[r] = h.objs[r] /\ h.objs[r].from \in Nat /\ h.objs[r].size \in Nat
        BY <4>1, <1>3, <1>5
      <4>4. k.objs[q].from = from /\ h.mem \in Nat
        BY <3>2, <1>2, <1>3, <1>6
      <4>5. QED
        BY <4>2, <4>3, <4>4
    <3>3. QED
      BY <3>1, <3>2, <1>3, <1>4 DEF Ref
  <2>3. QED
    BY <2>1, <2>2 DEF Apart
<1>8. HeapInv(k, Things)
  BY <1>1, <1>2, <1>3, <1>7 DEF HeapInv
<1>9. Stay(h, k) /\ Fresh(h, k)
  <2>1. Stay(h, k)
    BY <1>3, <1>4 DEF Stay, Ref
  <2>2. k.objs[Newest(k)] = new
    BY <1>3 DEF Newest
  <2>3. QED
    BY <2>1, <2>2, <1>3, <1>6 DEF Fresh
<1>10. QED
  BY <1>8, <1>9 DEF k

(* Whatever is allocated, by whichever of the functions of                 *)
(* gc/object_create.cpp, lies behind everything that was allocated before  *)
(* it, moves none of it, and leaves the heap ready for the next; this      *)
(* holds for every size, be it what was asked for or what the narrow       *)
(* fields of a header made of it.                                          *)
THEOREM AllocationKeepsApart ==
    ASSUME NEW Things, NEW h, HeapInv(h, Things), NEW obj \in Things,
           NEW size \in Nat, NEW need \in Nat, NEW len \in Nat, NEW elem \in Nat
    PROVE  \A k \in {NewJavaObject(h, size, obj), NewJavaArray(h, len, elem, obj),
                     NewVm(h, size, need, obj)} :
              HeapInv(k, Things) /\ Stay(h, k) /\ Fresh(h, k)
<1>1. h.mem \in Nat
  BY DEF HeapInv
<1>2. LET k == NewJavaObject(h, size, obj) IN HeapInv(k, Things) /\ Stay(h, k) /\ Fresh(h, k)
  BY <1>1, PlaceKeeps DEF NewJavaObject
<1>3. LET k == NewJavaArray(h, len, elem, obj) IN HeapInv(k, Things) /\ Stay(h, k) /\ Fresh(h, k)
  <2>1. ArrayOverhead + elem * len \in Nat
    BY DEF ArrayOverhead
  <2>2. QED
    BY <1>1, <2>1, PlaceKeeps DEF NewJavaArray
<1>4. LET k == NewVm(h, size, need, obj) IN HeapInv(k, Things) /\ Stay(h, k) /\ Fresh(h, k)
  BY <1>1, AlignedUp, PlaceKeeps DEF NewVm
<1>5. QED
  BY <1>2, <1>3, <1>4

(* A write to an object of a heap in which all sizes were right lands in   *)
(* no other object.                                                        *)
THEOREM WritesStayInside ==
    ASSUME NEW Things, NEW h, HeapInv(h, Things),
           NEW r \in Ref(h), NEW q \in Ref(h), r # q,
           NEW i \in 0 .. h.objs[r].size - 1, NEW j \in 0 .. h.objs[q].size - 1
    PROVE  h.objs[r].from + i # h.objs[q].from + j
<1>1. DOMAIN h.objs = 1 .. Len(h.objs) /\ Len(h.objs) \in Nat
  BY DEF HeapInv
<1>2. /\ h.objs[r].from \in Nat /\ h.objs[r].size \in Nat
      /\ h.objs[q].from \in Nat /\ h.objs[q].size \in Nat
  BY PlacesAreNumbers
<1>3. r < q => h.objs[r].from + h.objs[r].size <= h.objs[q].from
  BY DEF HeapInv, Apart
<1>4. q < r => h.objs[q].from + h.objs[q].size <= h.objs[r].from
  BY DEF HeapInv, Apart
<1>5. r < q \/ q < r
  BY <1>1 DEF Ref
<1>6. QED
  BY <1>2, <1>3, <1>4, <1>5

-----------------------------------------------------------------------------
(* UTF-8                                                                    *)

(* The character that begins at this byte. *)
ValueAt(bytes, n) ==
    LET x == bytes[n]  w == Width(x)
        y == bytes[n + 1] % 64
    IN  CASE w = 1 -> x
          [] w = 2 -> (x % 32) * 64 + y
          [] w = 3 -> (x % 16) * 4096 + y * 64 + (bytes[n + 2] % 64)

LEMMA WidthIn ==
    ASSUME NEW byte
    PROVE  Width(byte) \in 1 .. 3
BY DEF Width

(* A recursion that goes one to three places on comes to an end.            *)
Unwinds(L, v, w) ==
    \E f : f = [n \in 1 .. (L + 3) |-> IF n > L THEN <<>> ELSE <<v[n]>> \o f[n + w[n]]]

LEMMA Unwinding ==
    ASSUME NEW L \in Nat, NEW X, NEW v \in [1 .. L -> X], NEW w \in [1 .. L -> 1 .. 3]
    PROVE  Unwinds(L, v, w)
<1> DEFINE Onward(m) == (L + 1 - m) .. (L + 3)
           Right(f, m) == \A n \in Onward(m) :
                             f[n] = IF n > L THEN <<>> ELSE <<v[n]>> \o f[n + w[n]]
           Upto(m) == \E f \in [Onward(m) -> Seq(X)] : Right(f, m)
           missing == {m \in 0 .. L : ~Upto(m)}
<1>1. Upto(0)
  <2>1. PICK f \in [Onward(0) -> Seq(X)] : f = [n \in Onward(0) |-> << >>]
    <3>1. << >> \in Seq(X)
      OBVIOUS
    <3>2. QED
      BY <3>1
  <2>2. Right(f, 0)
    BY <2>1
  <2>3. QED
    BY <2>1, <2>2
<1>2. missing = {}
  <2>1. SUFFICES ASSUME missing # {} PROVE FALSE
    OBVIOUS
  <2>2. PICK m \in missing : \A k \in missing : m <= k
    <3>1. missing \subseteq Nat
      OBVIOUS
    <3>2. QED
      BY <2>1, <3>1, LeastOf
  <2>3. m \in 1 .. L /\ m - 1 \in 0 .. L /\ ~(m <= m - 1)
    BY <1>1, <2>2
  <2>4. PICK f \in [Onward(m - 1) -> Seq(X)] : Right(f, m - 1)
    BY <2>2, <2>3
  <2> DEFINE n0 == L + 1 - m
             g == [n \in Onward(m) |-> IF n = n0 THEN <<v[n0]>> \o f[n0 + w[n0]] ELSE f[n]]
  <2>5. n0 \in 1 .. L /\ w[n0] \in 1 .. 3
    BY <2>3
  <2>6. n0 + w[n0] \in Onward(m - 1) /\ v[n0] \in X
    BY <2>3, <2>5
  <2>7. \A n \in Onward(m) : n # n0 => n \in Onward(m - 1)
    BY <2>3
  <2>8. g \in [Onward(m) -> Seq(X)]
    <3>1. f[n0 + w[n0]] \in Seq(X)
      BY <2>4, <2>6
    <3>2. <<v[n0]>> \in Seq(X)
      BY <2>6
    <3>3. <<v[n0]>> \o f[n0 + w[n0]] \in Seq(X)
      BY <3>1, <3>2
    <3> HIDE DEF n0, Last
    <3>4. QED
      BY <2>4, <2>7, <3>3
  <2>9. Right(g, m)
    <3> SUFFICES ASSUME NEW n \in Onward(m)
                 PROVE  g[n] = IF n > L THEN <<>> ELSE <<v[n]>> \o g[n + w[n]]
      OBVIOUS
    <3>1. CASE n = n0
      <4>1. n0 + w[n0] \in Onward(m) /\ n0 + w[n0] # n0 /\ ~(n0 > L)
        BY <2>3, <2>5
      <4>2. g[n0 + w[n0]] = f[n0 + w[n0]]
        BY <4>1
      <4>3. QED
        BY <3>1, <4>1, <4>2
    <3>2. CASE n # n0
      <4>1. n \in Onward(m - 1)
        BY <2>7, <3>2
      <4>2. f[n] = IF n > L THEN <<>> ELSE <<v[n]>> \o f[n + w[n]]
        BY <2>4, <4>1
      <4>3. ~(n > L) => n + w[n] \in Onward(m) /\ n + w[n] # n0
        <5>1. n \in Nat /\ n >= n0 + 1 /\ n0 \in Nat \ {0}
          BY <2>3, <3>2
        <5>2. SUFFICES ASSUME ~(n > L) PROVE n + w[n] \in Onward(m) /\ n + w[n] # n0
          OBVIOUS
        <5>3. w[n] \in 1 .. 3
          BY <5>1, <5>2
        <5>4. QED
          BY <2>3, <5>1, <5>2, <5>3
      <4>4. ~(n > L) => g[n + w[n]] = f[n + w[n]]
        BY <4>3
      <4>5. g[n] = f[n]
        BY <3>2
      <4>6. QED
        BY <4>2, <4>4, <4>5
    <3>3. QED
      BY <3>1, <3>2
  <2>10. QED
    BY <2>2, <2>8, <2>9
<1>3. Upto(L)
  <2>1. L \in 0 .. L
    OBVIOUS
  <2>2. QED
    BY <1>2, <2>1
<1>4. PICK f \in [Onward(L) -> Seq(X)] : Right(f, L)
  BY <1>3
<1>5. Onward(L) = 1 .. (L + 3)
  OBVIOUS
<1>6. f = [n \in 1 .. (L + 3) |-> f[n]]
  BY <1>4, <1>5
<1>7. f = [n \in 1 .. (L + 3) |-> IF n > L THEN <<>> ELSE <<v[n]>> \o f[n + w[n]]]
  BY <1>4, <1>5, <1>6
<1>8. QED
  BY <1>7 DEF Unwinds

(* From each byte on: the character there, and those from the next on.      *)
Unpacks(bytes, from) ==
    /\ UnpackUtf8(bytes) = from[1]
    /\ \A n \in 1 .. (Len(bytes) + 3) :
          from[n] = IF n > Len(bytes) THEN <<>>
                    ELSE <<ValueAt(bytes, n)>> \o from[n + Width(bytes[n])]

LEMMA UnpackUnwinds ==
    ASSUME NEW bytes \in Seq(Nat)
    PROVE  \E from : Unpacks(bytes, from)
<1> DEFINE L == Len(bytes)
           body(f) == [n \in 1 .. (L + 3) |->
                         IF n > L THEN <<>>
                         ELSE LET x == bytes[n]  w == Width(x)
                                  y == bytes[n + 1] % 64
                              IN  <<CASE w = 1 -> x
                                      [] w = 2 -> (x % 32) * 64 + y
                                      [] w = 3 -> (x % 16) * 4096 + y * 64 + (bytes[n + 2] % 64)>>
                                  \o f[n + w]]
           plain(f) == [n \in 1 .. (L + 3) |->
                          IF n > L THEN <<>> ELSE <<ValueAt(bytes, n)>> \o f[n + Width(bytes[n])]]
           from == CHOOSE f : f = body(f)
           X == {ValueAt(bytes, n) : n \in 1 .. L}
           v == [n \in 1 .. L |-> ValueAt(bytes, n)]
           w == [n \in 1 .. L |-> Width(bytes[n])]
<1>1. L \in Nat
  OBVIOUS
<1>2. UnpackUtf8(bytes) = from[1]
  BY DEF UnpackUtf8
<1>3. ASSUME NEW f PROVE body(f) = plain(f)
  BY DEF ValueAt
<1>4. v \in [1 .. L -> X] /\ w \in [1 .. L -> 1 .. 3]
  BY WidthIn
<1>5. PICK f : f = [n \in 1 .. (L + 3) |-> IF n > L THEN <<>> ELSE <<v[n]>> \o f[n + w[n]]]
  <2> HIDE DEF v, w, X, L
  <2>1. Unwinds(L, v, w)
    BY <1>1, <1>4, Unwinding
  <2>2. QED
    BY <2>1 DEF Unwinds
<1>6. f = plain(f)
  <2>1. \A n \in 1 .. (L + 3) : ~(n > L) => n \in 1 .. L
    BY <1>1
  <2>2. \A n \in 1 .. L : v[n] = ValueAt(bytes, n) /\ w[n] = Width(bytes[n])
    OBVIOUS
  <2> HIDE DEF v, w, L
  <2>3. QED
    BY <1>5, <2>1, <2>2
<1>7. from = body(from)
  <2>1. \E g : g = body(g)
    BY <1>3, <1>6
  <2> HIDE DEF body
  <2>2. QED
    BY <2>1, Zenon DEF from
<1>8. from = plain(from)
  BY <1>3, <1>7
<1> HIDE DEF from
<1>9. Unpacks(bytes, from)
  BY <1>2, <1>8 DEF Unpacks
<1>10. QED
  BY <1>9

LEMMA Utf8Forms ==
    ASSUME NEW ch \in Nat
    PROVE  /\ ch = 0 => Utf8(ch) = <<192, 128>>
           /\ ch > 0 /\ ch < 128 => Utf8(ch) = <<ch>>
           /\ ch >= 128 /\ ch < 2048 =>
                Utf8(ch) = <<192 + ch \div 64, 128 + (ch % 64)>>
           /\ ch >= 2048 =>
                Utf8(ch) = <<224 + ch \div 4096, 128 + ((ch \div 64) % 64), 128 + (ch % 64)>>
<1>1. ch = 0 => Utf8(ch) = <<192, 128>>
  <2>1. 0 \notin 1 .. 127 /\ 0 \notin 128 .. 2047
    OBVIOUS
  <2>2. QED
    BY <2>1 DEF Utf8
<1>2. ch > 0 /\ ch < 128 => Utf8(ch) = <<ch>>
  <2>1. ch > 0 /\ ch < 128 => ch # 0 /\ ch \in 1 .. 127
    OBVIOUS
  <2>2. ch < 128 => ch \notin 128 .. 2047
    OBVIOUS
  <2>3. QED
    BY <2>1, <2>2 DEF Utf8
<1>3. ch >= 128 /\ ch < 2048 => Utf8(ch) = <<192 + ch \div 64, 128 + (ch % 64)>>
  <2> DEFINE S == 1 .. 127
             T == 128 .. 2047
  <2>0. SUFFICES ASSUME ch >= 128, ch < 2048
                 PROVE  Utf8(ch) = <<192 + ch \div 64, 128 + (ch % 64)>>
    OBVIOUS
  <2>1. ch # 0
    BY <2>0
  <2>2. ch \in T
    BY <2>0
  <2>3. ch \notin S
    BY <2>0
  <2>4. Utf8(ch) = CASE ch = 0 -> <<192, 128>>
                     [] ch \in S -> <<ch>>
                     [] ch \in T -> <<192 + ch \div 64, 128 + (ch % 64)>>
                     [] OTHER -> <<224 + ch \div 4096, 128 + ((ch \div 64) % 64), 128 + (ch % 64)>>
    BY DEF Utf8
  <2> HIDE DEF S, T
  <2>5. QED
    BY <2>1, <2>2, <2>3, <2>4
<1>4. ch >= 2048 =>
        Utf8(ch) = <<224 + ch \div 4096, 128 + ((ch \div 64) % 64), 128 + (ch % 64)>>
  <2>1. ch >= 2048 => ch # 0
    OBVIOUS
  <2>2. ch >= 2048 => ch \notin 1 .. 127
    OBVIOUS
  <2>3. ch >= 2048 => ch \notin 128 .. 2047
    OBVIOUS
  <2>4. QED
    BY <2>1, <2>2, <2>3 DEF Utf8
<1>5. QED
  BY <1>1, <1>2, <1>3, <1>4

LEMMA CharacterIs ==
    ASSUME NEW ch \in Character
    PROVE  /\ ch \in Nat /\ ch < 65536
           /\ \/ ch = 0
              \/ ch > 0 /\ ch < 128
              \/ ch >= 128 /\ ch < 2048
              \/ ch >= 2048
<1>1. ch \in Nat /\ ch < 65536
  BY DEF Character
<1>2. QED
  BY <1>1

LEMMA Utf8In ==
    ASSUME NEW ch \in Character
    PROVE  Utf8(ch) \in Seq(Nat) /\ Len(Utf8(ch)) \in Nat /\ Len(Utf8(ch)) >= 1
<1>0. ch \in Nat
  BY CharacterIs
<1>1. CASE ch = 0
  <2>1. Utf8(ch) = <<192, 128>>
    BY <1>0, <1>1, Utf8Forms
  <2>2. QED
    BY <2>1
<1>2. CASE ch > 0 /\ ch < 128
  <2>1. Utf8(ch) = <<ch>>
    BY <1>0, <1>2, Utf8Forms
  <2>2. QED
    BY <1>0, <2>1
<1>3. CASE ch >= 128 /\ ch < 2048
  <2> DEFINE x == 192 + ch \div 64
             y == 128 + (ch % 64)
  <2>1. Utf8(ch) = <<x, y>>
    BY <1>0, <1>3, Utf8Forms
  <2>2. x \in Nat /\ y \in Nat
    BY <1>0
  <2> HIDE DEF x, y
  <2>3. QED
    BY <2>1, <2>2
<1>4. CASE ch >= 2048
  <2> DEFINE x == 224 + ch \div 4096
             y == 128 + ((ch \div 64) % 64)
             z == 128 + (ch % 64)
  <2>1. Utf8(ch) = <<x, y, z>>
    BY <1>0, <1>4, Utf8Forms
  <2>2. x \in Nat /\ y \in Nat /\ z \in Nat
    BY <1>0
  <2> HIDE DEF x, y, z
  <2>3. QED
    BY <2>1, <2>2
<1>5. QED
  BY <1>1, <1>2, <1>3, <1>4, CharacterIs

(* The first byte of a character tells how many there are. *)
LEMMA Widths ==
    ASSUME NEW x \in Nat
    PROVE  /\ x < 128 => Width(x) = 1
           /\ x >= 192 /\ x < 224 => Width(x) = 2
           /\ x >= 224 /\ x < 240 => Width(x) = 3
<1>1. x < 128 => Width(x) = 1
  BY DEF Width
<1>2. x >= 192 /\ x < 224 => x \div 32 = 6 /\ ~(x < 128)
  OBVIOUS
<1>3. x >= 224 /\ x < 240 => x \div 32 = 7 /\ ~(x < 128)
  OBVIOUS
<1>4. 6 % 2 = 0 /\ 7 % 2 = 1
  OBVIOUS
<1>5. x >= 192 /\ x < 224 => Width(x) = 2
  BY <1>2, <1>4 DEF Width
<1>6. x >= 224 /\ x < 240 => Width(x) = 3
  BY <1>3, <1>4 DEF Width
<1>7. QED
  BY <1>1, <1>5, <1>6

LEMMA TwoBytes ==
    ASSUME NEW ch \in Nat, ch >= 128, ch < 2048
    PROVE  LET x == 192 + ch \div 64
               y == 128 + (ch % 64)
           IN  /\ x \in Nat /\ x >= 192 /\ x < 224 /\ y \in Nat
               /\ (x % 32) * 64 + (y % 64) = ch
<1>1. PICK h \in Nat, l \in Nat : h = ch \div 64 /\ l = ch % 64
  OBVIOUS
<1>2. ch = 64 * h + l /\ l < 64 /\ h < 32
  BY <1>1
<1>3. (192 + h) % 32 = h
  BY <1>2
<1>4. (128 + l) % 64 = l
  BY <1>2
<1>5. 192 + h \in Nat /\ 192 + h >= 192 /\ 192 + h < 224 /\ 128 + l \in Nat
  BY <1>2
<1>6. h * 64 + l = ch
  BY <1>2
<1>7. QED
  BY <1>1, <1>3, <1>4, <1>5, <1>6

LEMMA ThreeBytes ==
    ASSUME NEW ch \in Nat, ch >= 2048, ch < 65536
    PROVE  LET x == 224 + ch \div 4096
               y == 128 + ((ch \div 64) % 64)
               z == 128 + (ch % 64)
           IN  /\ x \in Nat /\ x >= 224 /\ x < 240 /\ y \in Nat /\ z \in Nat
               /\ (x % 16) * 4096 + (y % 64) * 64 + (z % 64) = ch
<1>1. PICK q \in Nat, l \in Nat : q = ch \div 64 /\ l = ch % 64
  OBVIOUS
<1>2. PICK h \in Nat, m \in Nat : h = q \div 64 /\ m = q % 64
  OBVIOUS
<1>3. ch = 64 * q + l /\ l < 64 /\ q = 64 * h + m /\ m < 64
  BY <1>1, <1>2
<1>4. ch \div 4096 = h
  BY <1>3
<1>5. h < 16
  BY <1>3
<1>6. (224 + h) % 16 = h
  BY <1>5
<1>7. (128 + m) % 64 = m
  BY <1>3
<1>8. (128 + l) % 64 = l
  BY <1>3
<1>9. h * 4096 + m * 64 + l = ch
  BY <1>3
<1>10. 224 + h \in Nat /\ 224 + h >= 224 /\ 224 + h < 240 /\ 128 + m \in Nat /\ 128 + l \in Nat
  BY <1>5
<1>11. QED
  BY <1>1, <1>2, <1>4, <1>6, <1>7, <1>8, <1>9, <1>10

(* The bytes of a character are read as this character. *)
LEMMA CharacterReads ==
    ASSUME NEW ch \in Character, NEW bytes, NEW n \in Nat,
           \A j \in 1 .. Len(Utf8(ch)) : bytes[n + j] = Utf8(ch)[j]
    PROVE  Width(bytes[n + 1]) = Len(Utf8(ch)) /\ ValueAt(bytes, n + 1) = ch
<1>0. ch \in Nat /\ ch < 65536 /\ (n + 1) + 1 = n + 2 /\ (n + 1) + 2 = n + 3
  BY CharacterIs
<1>1. CASE ch = 0
  <2>1. Utf8(ch) = <<192, 128>>
    BY <1>0, <1>1, Utf8Forms
  <2>2. bytes[n + 1] = 192 /\ bytes[n + 2] = 128
    BY <2>1
  <2>3. Width(192) = 2 /\ Len(Utf8(ch)) = 2
    BY <2>1, Widths
  <2>4. (192 % 32) * 64 + (128 % 64) = 0
    OBVIOUS
  <2>5. ValueAt(bytes, n + 1) = (192 % 32) * 64 + (128 % 64)
    BY <1>0, <2>2, <2>3 DEF ValueAt
  <2>6. QED
    BY <1>1, <2>2, <2>3, <2>4, <2>5
<1>2. CASE ch > 0 /\ ch < 128
  <2>1. Utf8(ch) = <<ch>>
    BY <1>0, <1>2, Utf8Forms
  <2>2. bytes[n + 1] = ch
    BY <2>1
  <2>3. Width(ch) = 1 /\ Len(Utf8(ch)) = 1
    BY <1>0, <1>2, <2>1, Widths
  <2>4. QED
    BY <2>2, <2>3 DEF ValueAt
<1>3. CASE ch >= 128 /\ ch < 2048
  <2>1. PICK x, y : x = 192 + ch \div 64 /\ y = 128 + (ch % 64)
    OBVIOUS
  <2>2. Utf8(ch) = <<x, y>>
    BY <1>0, <1>3, <2>1, Utf8Forms
  <2>3. x \in Nat /\ x >= 192 /\ x < 224 /\ (x % 32) * 64 + (y % 64) = ch
    BY <1>0, <1>3, <2>1, TwoBytes
  <2>4. bytes[n + 1] = x /\ bytes[n + 2] = y
    BY <2>2
  <2>5. Width(x) = 2 /\ Len(Utf8(ch)) = 2
    BY <2>2, <2>3, Widths
  <2>6. ValueAt(bytes, n + 1) = (x % 32) * 64 + (y % 64)
    BY <1>0, <2>4, <2>5 DEF ValueAt
  <2>7. QED
    BY <2>3, <2>4, <2>5, <2>6
<1>4. CASE ch >= 2048
  <2>1. PICK x, y, z : /\ x = 224 + ch \div 4096
                       /\ y = 128 + ((ch \div 64) % 64)
                       /\ z = 128 + (ch % 64)
    OBVIOUS
  <2>2. Utf8(ch) = <<x, y, z>>
    BY <1>0, <1>4, <2>1, Utf8Forms
  <2>3. /\ x \in Nat /\ x >= 224 /\ x < 240
        /\ (x % 16) * 4096 + (y % 64) * 64 + (z % 64) = ch
    BY <1>0, <1>4, <2>1, ThreeBytes
  <2>4. bytes[n + 1] = x /\ bytes[n + 2] = y /\ bytes[n + 3] = z
    BY <2>2
  <2>5. Width(x) = 3 /\ Len(Utf8(ch)) = 3
    BY <2>2, <2>3, Widths
  <2>6. ValueAt(bytes, n + 1) = (x % 16) * 4096 + (y % 64) * 64 + (z % 64)
    BY <1>0, <2>4, <2>5 DEF ValueAt
  <2>7. QED
    BY <2>3, <2>4, <2>5, <2>6
<1>5. QED
  BY <1>1, <1>2, <1>3, <1>4, CharacterIs

(* What is packed of the first k characters. *)
PackedTo(flat, k) == IF k = 0 THEN <<>> ELSE flat[k]

Packs0(t, flat) ==
    /\ PackUtf8(t) = PackedTo(flat, Len(t))
    /\ PackedTo(flat, 0) = <<>>
    /\ \A k \in 0 .. Len(t) : PackedTo(flat, k) \in Seq(Nat)
    /\ \A k \in 1 .. Len(t) : PackedTo(flat, k) = PackedTo(flat, k - 1) \o Utf8(t[k])

LEMMA PackFolds ==
    ASSUME NEW t \in Seq(Character)
    PROVE  \E flat : Packs0(t, flat)
<1> DEFINE seqs == [i \in DOMAIN t |-> Utf8(t[i])]
<1>1. PICK n \in Nat : n = Len(t) /\ DOMAIN t = 1 .. n
  OBVIOUS
<1>2. \A i \in 1 .. n : t[i] \in Character /\ Utf8(t[i]) \in Seq(Nat)
  BY <1>1, Utf8In
<1>3. seqs \in Seq(Seq(Nat)) /\ Len(seqs) = n /\ \A i \in 1 .. n : seqs[i] = Utf8(t[i])
  BY <1>1, <1>2
<1>4. PackUtf8(t) = FlattenSeq(seqs)
  BY DEF PackUtf8
<1> HIDE DEF seqs
<1>5. CASE n = 0
  <2>1. FlattenSeq(seqs) = << >>
    <3>1. seqs = << >>
      BY <1>3, <1>5
    <3>2. QED
      BY <1>3, <1>5, <3>1 DEF FlattenSeq
  <2>2. Packs0(t, << >>)
    BY <1>1, <1>4, <1>5, <2>1 DEF Packs0, PackedTo
  <2>3. QED
    BY <2>2
<1>6. CASE n # 0
  <2>1. PICK flat : Flattens(seqs, Nat, flat)
    <3>1. Len(seqs) > 0
      BY <1>3, <1>6
    <3>2. QED
      BY <1>3, <3>1, FlattenFolds
  <2>2. /\ FlattenSeq(seqs) = flat[n]
        /\ \A i \in 1 .. n : /\ flat[i] \in Seq(Nat)
                             /\ flat[i] = IF i = 1 THEN seqs[i] ELSE flat[i - 1] \o seqs[i]
    BY <1>3, <2>1 DEF Flattens
  <2>3. PackUtf8(t) = PackedTo(flat, n)
    BY <1>4, <1>6, <2>2 DEF PackedTo
  <2>4. ASSUME NEW k \in 0 .. n PROVE PackedTo(flat, k) \in Seq(Nat)
    <3>1. CASE k = 0
      BY <3>1 DEF PackedTo
    <3>2. CASE k # 0
      <4>1. k \in 1 .. n
        BY <3>2
      <4>2. QED
        BY <2>2, <3>2, <4>1 DEF PackedTo
    <3>3. QED
      BY <3>1, <3>2
  <2>5. ASSUME NEW k \in 1 .. n PROVE PackedTo(flat, k) = PackedTo(flat, k - 1) \o Utf8(t[k])
    <3>1. CASE k = 1
      <4>1. flat[1] = seqs[1] /\ seqs[1] = Utf8(t[1]) /\ Utf8(t[1]) \in Seq(Nat)
        BY <1>2, <1>3, <2>2, <3>1
      <4>2. << >> \o Utf8(t[1]) = Utf8(t[1])
        BY <4>1
      <4>3. QED
        BY <3>1, <4>1, <4>2 DEF PackedTo
    <3>2. CASE k # 1
      <4>1. k # 0 /\ k - 1 # 0
        BY <3>2
      <4>2. flat[k] = flat[k - 1] \o seqs[k] /\ seqs[k] = Utf8(t[k])
        BY <1>3, <2>2, <3>2
      <4>3. QED
        BY <4>1, <4>2 DEF PackedTo
    <3>3. QED
      BY <3>1, <3>2
  <2>6. PackedTo(flat, 0) = << >>
    BY DEF PackedTo
  <2>7. Packs0(t, flat)
    BY <1>1, <2>3, <2>4, <2>5, <2>6 DEF Packs0
  <2>8. QED
    BY <2>7
<1>7. QED
  BY <1>5, <1>6

LEMMA PackIn ==
    ASSUME NEW t \in Seq(Character)
    PROVE  PackUtf8(t) \in Seq(Nat)
<1>1. PICK flat : Packs0(t, flat)
  BY PackFolds
<1>2. Len(t) \in 0 .. Len(t)
  OBVIOUS
<1>3. QED
  BY <1>1, <1>2 DEF Packs0

Begins(bytes, p) == Len(p) <= Len(bytes) /\ \A j \in 1 .. Len(p) : bytes[j] = p[j]

(* What is unpacked behind p, where a character comes next. *)
LEMMA CharacterUnpacks ==
    ASSUME NEW bytes \in Seq(Nat), NEW from, Unpacks(bytes, from),
           NEW p \in Seq(Nat), NEW ch \in Character, Begins(bytes, p \o Utf8(ch))
    PROVE  /\ Begins(bytes, p)
           /\ from[Len(p) + 1] = <<ch>> \o from[Len(p \o Utf8(ch)) + 1]
<1>1. PICK u \in Seq(Nat) : u = Utf8(ch)
  BY Utf8In
<1>2. PICK a \in Nat, l \in Nat, L \in Nat : a = Len(p) /\ l = Len(u) /\ L = Len(bytes)
  OBVIOUS
<1>3. l >= 1
  BY <1>1, <1>2, Utf8In
<1>4. PICK q : q = p \o u
  OBVIOUS
<1>5. Len(q) = a + l /\ \A i \in 1 .. (a + l) : q[i] = IF i <= a THEN p[i] ELSE u[i - a]
  BY <1>2, <1>4, ConcatProperties
<1>6. a + l <= L /\ \A j \in 1 .. (a + l) : bytes[j] = q[j]
  BY <1>1, <1>2, <1>4, <1>5 DEF Begins
<1>7. \A j \in 1 .. l : bytes[a + j] = u[j]
  <2> SUFFICES ASSUME NEW j \in 1 .. l PROVE bytes[a + j] = u[j]
    OBVIOUS
  <2>1. a + j \in 1 .. (a + l) /\ ~(a + j <= a) /\ (a + j) - a = j
    OBVIOUS
  <2>2. QED
    BY <1>5, <1>6, <2>1
<1>8. Width(bytes[a + 1]) = l /\ ValueAt(bytes, a + 1) = ch
  <2>1. \A j \in 1 .. Len(Utf8(ch)) : bytes[a + j] = Utf8(ch)[j]
    BY <1>1, <1>2, <1>7
  <2>2. QED
    BY <1>1, <1>2, <2>1, CharacterReads
<1>9. a + 1 \in 1 .. (L + 3) /\ ~(a + 1 > L)
  BY <1>3, <1>6
<1>10. from[a + 1] = <<ch>> \o from[(a + 1) + l]
  BY <1>2, <1>8, <1>9 DEF Unpacks
<1>11. (a + 1) + l = (a + l) + 1
  OBVIOUS
<1>12. Begins(bytes, p)
  <2>1. a <= L /\ \A j \in 1 .. a : j \in 1 .. (a + l) /\ j <= a
    BY <1>6
  <2>2. \A j \in 1 .. a : bytes[j] = p[j]
    BY <1>5, <1>6, <2>1
  <2>3. QED
    BY <1>2, <2>1, <2>2 DEF Begins
<1>13. QED
  BY <1>1, <1>2, <1>4, <1>5, <1>10, <1>11, <1>12

(* A native string is read back as the text it was made from, whatever     *)
(* characters that has: 0 takes two bytes, and no byte of a character is   *)
(* taken for the first of another (utils.cpp, pack and unpack of UTF-8).   *)
THEOREM TextsSurviveUtf8 ==
    ASSUME NEW t \in Seq(Character)
    PROVE  UnpackUtf8(PackUtf8(t)) = t
<1>1. PICK flat : Packs0(t, flat)
  BY PackFolds
<1>2. PICK bytes \in Seq(Nat), n \in Nat, L \in Nat :
             bytes = PackUtf8(t) /\ n = Len(t) /\ L = Len(bytes)
  BY PackIn
<1>3. PICK from : Unpacks(bytes, from)
  BY UnpackUnwinds
<1> DEFINE pre(k) == PackedTo(flat, k)
           Read(k) == /\ Begins(bytes, pre(k))
                      /\ from[Len(pre(k)) + 1] = SubSeq(t, k + 1, n)
           missing == {m \in 0 .. n : ~Read(n - m)}
<1>4. /\ pre(n) = bytes /\ pre(0) = << >>
      /\ \A k \in 0 .. n : pre(k) \in Seq(Nat)
      /\ \A k \in 1 .. n : pre(k) = pre(k - 1) \o Utf8(t[k])
  BY <1>1, <1>2 DEF Packs0
<1> HIDE DEF pre
<1>5. Read(n)
  <2>1. from[L + 1] = << >>
    <3>1. L + 1 \in 1 .. (L + 3) /\ L + 1 > L
      OBVIOUS
    <3>2. QED
      BY <1>2, <1>3, <3>1 DEF Unpacks
  <2>2. SubSeq(t, n + 1, n) = << >>
    BY <1>2, SubSeqEmpty
  <2>3. Begins(bytes, bytes)
    BY DEF Begins
  <2>4. QED
    BY <1>2, <1>4, <2>1, <2>2, <2>3
<1>6. ASSUME NEW k \in 1 .. n, Read(k) PROVE Read(k - 1)
  <2>1. k - 1 \in 0 .. n /\ t[k] \in Character /\ (k - 1) + 1 = k
    BY <1>2
  <2>2. pre(k - 1) \in Seq(Nat) /\ pre(k) = pre(k - 1) \o Utf8(t[k])
    BY <1>4, <2>1
  <2>3. /\ Begins(bytes, pre(k - 1))
        /\ from[Len(pre(k - 1)) + 1] = <<t[k]>> \o from[Len(pre(k)) + 1]
    <3>1. PICK p \in Seq(Nat), ch \in Character : p = pre(k - 1) /\ ch = t[k]
      BY <2>1, <2>2
    <3>2. Begins(bytes, p \o Utf8(ch))
      BY <1>6, <2>2, <3>1
    <3>3. Begins(bytes, p) /\ from[Len(p) + 1] = <<ch>> \o from[Len(p \o Utf8(ch)) + 1]
      BY <1>3, <3>2, CharacterUnpacks
    <3>4. QED
      BY <2>2, <3>1, <3>3
  <2>4. SubSeq(t, k, n) = <<t[k]>> \o SubSeq(t, k + 1, n)
    BY <1>2, SubSeqRecursiveFirst
  <2>5. QED
    BY <1>6, <2>1, <2>3, <2>4
<1> HIDE DEF Read
<1>7. missing = {}
  <2>1. SUFFICES ASSUME missing # {} PROVE FALSE
    OBVIOUS
  <2>2. PICK m \in missing : \A l \in missing : m <= l
    <3>1. missing \subseteq Nat
      OBVIOUS
    <3>2. QED
      BY <2>1, <3>1, LeastOf
  <2>3. m \in 0 .. n /\ ~Read(n - m)
    OBVIOUS
  <2>4. m # 0
    <3>1. n - 0 = n
      OBVIOUS
    <3>2. QED
      BY <1>5, <2>3, <3>1
  <2>5. m - 1 \in 0 .. n /\ ~(m <= m - 1)
    BY <2>3, <2>4
  <2>6. Read(n - (m - 1))
    BY <2>2, <2>5
  <2>7. n - (m - 1) \in 1 .. n /\ (n - (m - 1)) - 1 = n - m
    BY <2>3, <2>4
  <2>8. Read(n - m)
    BY <1>6, <2>6, <2>7
  <2>9. QED
    BY <2>3, <2>8
<1>8. Read(0)
  <2>1. n \in 0 .. n /\ n - n = 0
    OBVIOUS
  <2>2. QED
    BY <1>7, <2>1
<1>9. from[1] = SubSeq(t, 1, n)
  <2>1. Len(<< >>) + 1 = 1 /\ 0 + 1 = 1
    OBVIOUS
  <2>2. QED
    BY <1>4, <1>8, <2>1 DEF Read
<1>10. SubSeq(t, 1, n) = t
  BY <1>2, SubSeqFull
<1>11. UnpackUtf8(bytes) = from[1]
  BY <1>3 DEF Unpacks
<1>12. QED
  BY <1>2, <1>9, <1>10, <1>11

(* A native string of letters a is what a text of as many is packed as.     *)
LEMMA FillerPacks ==
    ASSUME NEW n \in Nat
    PROVE  Filler(n) \in Seq(Character) /\ Len(Filler(n)) = n /\ PackUtf8(Filler(n)) = Filler(n)
<1>1. 97 \in Character
  BY DEF Character
<1>2. \A k \in Nat : Filler(k) \in Seq(Character) /\ Filler(k) \in Seq(Nat) /\ Len(Filler(k)) = k
  BY <1>1 DEF Filler
<1>3. PICK t \in Seq(Character) : t = Filler(n)
  BY <1>2
<1>4. Len(t) = n /\ \A i \in 1 .. n : t[i] = 97
  BY <1>2, <1>3 DEF Filler
<1>5. PICK flat : Packs0(t, flat)
  BY PackFolds
<1>6. Utf8(97) = <<97>>
  BY Utf8Forms
<1>7. /\ PackUtf8(t) = PackedTo(flat, n) /\ PackedTo(flat, 0) = << >>
      /\ \A k \in 1 .. n : PackedTo(flat, k) = PackedTo(flat, k - 1) \o <<97>>
  BY <1>4, <1>5, <1>6 DEF Packs0
<1>8. ASSUME NEW k \in Nat \ {0} PROVE Filler(k) = Filler(k - 1) \o <<97>>
  <2>1. PICK f \in Seq(Nat) : f = Filler(k - 1)
    BY <1>2
  <2>2. Len(f) = k - 1 /\ <<97>> \in Seq(Nat) /\ Len(<<97>>) = 1 /\ <<97>>[1] = 97
    BY <1>2, <2>1
  <2>3. PICK g \in Seq(Nat) : g = f \o <<97>>
    BY <2>2, ConcatProperties
  <2>4. Len(g) = k /\ \A i \in 1 .. k : g[i] = IF i <= k - 1 THEN f[i] ELSE <<97>>[i - (k - 1)]
    BY <2>2, <2>3, ConcatProperties
  <2>5. \A i \in 1 .. k : g[i] = 97
    <3> SUFFICES ASSUME NEW i \in 1 .. k PROVE g[i] = 97
      OBVIOUS
    <3>1. CASE i <= k - 1
      <4>1. i \in 1 .. (k - 1)
        BY <3>1
      <4>2. f[i] = 97
        BY <2>1, <4>1 DEF Filler
      <4>3. QED
        BY <2>4, <3>1, <4>2
    <3>2. CASE ~(i <= k - 1)
      <4>1. i - (k - 1) = 1
        BY <3>2
      <4>2. QED
        BY <2>2, <2>4, <3>2, <4>1
    <3>3. QED
      BY <3>1, <3>2
  <2>6. DOMAIN g = 1 .. k
    BY <2>4
  <2>7. g = [i \in 1 .. k |-> 97]
    BY <2>5, <2>6
  <2>8. QED
    BY <2>1, <2>3, <2>7 DEF Filler
<1> DEFINE missing == {k \in 0 .. n : PackedTo(flat, k) # Filler(k)}
<1>9. missing = {}
  <2>1. SUFFICES ASSUME missing # {} PROVE FALSE
    OBVIOUS
  <2>2. PICK m \in missing : \A l \in missing : m <= l
    <3>1. missing \subseteq Nat
      OBVIOUS
    <3>2. QED
      BY <2>1, <3>1, LeastOf
  <2>3. m # 0
    <3>1. Filler(0) = << >>
      BY DEF Filler
    <3>2. QED
      BY <1>7, <3>1
  <2>4. m \in 1 .. n /\ m - 1 \in 0 .. n /\ ~(m <= m - 1)
    BY <2>3
  <2>5. PackedTo(flat, m - 1) = Filler(m - 1)
    BY <2>2, <2>4
  <2>6. PackedTo(flat, m) = Filler(m)
    <3>1. m \in Nat \ {0}
      BY <2>4
    <3>2. Filler(m) = Filler(m - 1) \o <<97>>
      BY <1>8, <3>1
    <3>3. PackedTo(flat, m) = PackedTo(flat, m - 1) \o <<97>>
      BY <1>7, <2>4
    <3>4. QED
      BY <2>5, <3>2, <3>3
  <2>7. QED
    BY <2>6
<1>10. n \in 0 .. n
  OBVIOUS
<1>11. PackedTo(flat, n) = Filler(n)
  BY <1>9, <1>10
<1>12. QED
  BY <1>2, <1>3, <1>7, <1>11

(* get_chars_hash stays within the table. *)
LEMMA HashIn ==
    ASSUME NEW bytes \in Seq(Nat)
    PROVE  Hash(bytes) \in 0 .. (HashSize - 1)
<1> DEFINE N == Len(bytes)
           next(key, c) == ((key + c) * 2) % 65536
           body(f) == [some \in SUBSET (DOMAIN bytes) |->
                         IF some = {} THEN 0
                         ELSE next(f[some \ {Max(some)}], bytes[Max(some)])]
           iter == CHOOSE f : f = body(f)
           G    == [i \in 1 .. N |-> [a \in Nat |-> next(a, bytes[i])]]
<1>1. N \in Nat /\ DOMAIN bytes = 1 .. N /\ \A i \in 1 .. N : bytes[i] \in Nat
  OBVIOUS
<1>2. Hash(bytes) = iter[DOMAIN bytes] % HashSize
  BY DEF Hash, FoldLeft, MapThenFoldSet
<1>3. \A key \in Nat, c \in Nat : next(key, c) \in Nat
  OBVIOUS
<1> HIDE DEF next
<1>4. G \in [1 .. N -> [Nat -> Nat]]
  BY <1>1, <1>3
<1>5. Recurs(Nat, N, 0, G)
  <2> HIDE DEF N, G
  <2>1. QED
    BY <1>1, <1>4, Recursion
<1>6. PICK f \in [SUBSET (1 .. N) -> Nat] :
             f = [some \in SUBSET (1 .. N) |->
                    IF some = {} THEN 0 ELSE G[Max(some)][f[some \ {Max(some)}]]]
  <2> HIDE DEF N, G
  <2>1. QED
    BY <1>5 DEF Recurs
<1>7. ASSUME NEW some \in SUBSET (1 .. N), some # {}
      PROVE  G[Max(some)][f[some \ {Max(some)}]] = next(f[some \ {Max(some)}], bytes[Max(some)])
  <2>1. Max(some) \in 1 .. N /\ some \ {Max(some)} \in SUBSET (1 .. N)
    BY <1>1, <1>7, WithoutGreatest
  <2>2. f[some \ {Max(some)}] \in Nat
    BY <1>6, <2>1
  <2>3. QED
    BY <2>1, <2>2
<1>8. f = body(f)
  <2> HIDE DEF G
  <2>1. QED
    BY <1>1, <1>6, <1>7
<1>9. iter = body(iter)
  BY <1>8
<1> HIDE DEF iter
<1>10. iter[{}] \in Nat
  BY <1>9
<1>11. ASSUME NEW some \in SUBSET (1 .. N), some # {}, iter[some \ {Max(some)}] \in Nat
       PROVE  iter[some] \in Nat
  <2>1. iter[some] = next(iter[some \ {Max(some)}], bytes[Max(some)])
    BY <1>1, <1>9, <1>11
  <2>2. Max(some) \in 1 .. N
    BY <1>1, <1>11, WithoutGreatest
  <2>3. QED
    <3>1. bytes[Max(some)] \in Nat
      BY <1>1, <2>2
    <3>2. PICK a \in Nat, c \in Nat : a = iter[some \ {Max(some)}] /\ c = bytes[Max(some)]
      BY <1>11, <3>1
    <3>3. next(a, c) \in Nat
      BY <1>3
    <3>4. QED
      BY <2>1, <3>2, <3>3
<1>12. iter[1 .. N] \in Nat
  <2> HIDE DEF N
  <2>1. QED
    BY <1>1, <1>10, <1>11, FoldStays
<1>13. HashSize \in Nat \ {0}
  BY ProgramAssumption
<1>14. QED
  BY <1>1, <1>2, <1>12, <1>13

-----------------------------------------------------------------------------
(* What the heap of a program holds                                         *)

Thing ==
    [is : {"entry", "lost"}]
    \union [is : {"kstring"}, bytes : Seq(Nat), intern : Nat]
    \union [is : {"chars", "ints"}, slots : Seq(Character)]
    \union [is : {"String"}, value : Nat, offset : Nat, count : Nat]
    \union [is : {"StringBuffer"}, value : Nat, count : Nat]

(* Every object has the room that what it holds takes. *)
Covered(h) == \A r \in Ref(h) : Enough(Obj(h, r), h.objs[r].size)

Well(h) ==
    /\ HeapInv(h, Thing)
    /\ Covered(h)
    /\ "bucket" \in DOMAIN h
    /\ h.ok \in BOOLEAN
    /\ h.ok => h.mem <= HeapSize

Is(h, r, kind) == r \in Ref(h) /\ Obj(h, r).is = kind
HasArray(h, r) == Is(h, r, "String") \/ Is(h, r, "StringBuffer")
IsArray(h, r)  == Is(h, r, "chars") \/ Is(h, r, "ints")

LEMMA Things ==
    ASSUME NEW o \in Thing
    PROVE  /\ o.is \in {"entry", "lost", "kstring", "chars", "ints", "String", "StringBuffer"}
           /\ o.is = "kstring" => /\ o.bytes \in Seq(Nat) /\ o.intern \in Nat
                                  /\ o \in [is : {"kstring"}, bytes : Seq(Nat), intern : Nat]
           /\ o.is \in {"chars", "ints"} => /\ o.slots \in Seq(Character)
                                            /\ o \in [is : {"chars", "ints"}, slots : Seq(Character)]
           /\ o.is = "String" =>
                /\ o.value \in Nat /\ o.offset \in Nat /\ o.count \in Nat
                /\ o \in [is : {"String"}, value : Nat, offset : Nat, count : Nat]
           /\ o.is = "StringBuffer" =>
                /\ o.value \in Nat /\ o.count \in Nat
                /\ o \in [is : {"StringBuffer"}, value : Nat, count : Nat]
BY DEF Thing

LEMMA Rooms ==
    ASSUME NEW o
    PROVE  /\ o.is = "kstring" => Room(o) = ArrayOverhead + Len(o.bytes) + 1
           /\ o.is = "chars" => Room(o) = ArrayOverhead + CharSize * Len(o.slots)
           /\ o.is = "ints" => Room(o) = ArrayOverhead + 4 * Len(o.slots)
           /\ o.is = "entry" => Room(o) = EntrySize
           /\ o.is \in {"String", "StringBuffer", "lost"} => Room(o) = StringSize
BY DEF Room

(* Java objects that are no arrays are all of one size here. *)
LEMMA ObjectFits ==
    ASSUME NEW o, o.is \in {"String", "StringBuffer", "lost"}
    PROVE  Enough(o, StringSize)
BY Rooms DEF Enough, StringSize

LEMMA CharsFit ==
    ASSUME NEW o, o.is = "chars", o.slots \in Seq(Character)
    PROVE  Enough(o, ArrayOverhead + CharSize * Len(o.slots))
<1>1. PICK n \in Nat : n = Len(o.slots)
  OBVIOUS
<1>2. Room(o) = ArrayOverhead + CharSize * n
  BY <1>1, Rooms
<1>3. ArrayOverhead + CharSize * n <= ArrayOverhead + CharSize * n
  BY DEF ArrayOverhead, CharSize
<1>4. QED
  BY <1>1, <1>2, <1>3 DEF Enough

LEMMA References ==
    ASSUME NEW h, Well(h)
    PROVE  /\ Newest(h) \in Nat /\ Ref(h) = 1 .. Newest(h)
           /\ \A r \in Ref(h) : /\ Obj(h, r) \in Thing
                                /\ h.objs[r] \in [from : Nat, size : Nat, obj : Thing]
<1> DEFINE Spots == [from : Nat, size : Nat, obj : Thing]
<1>1. h.objs \in Seq(Spots)
  BY DEF Well, HeapInv
<1>2. \A s \in Spots : s.obj \in Thing
  OBVIOUS
<1> HIDE DEF Spots
<1>3. Newest(h) \in Nat /\ Ref(h) = 1 .. Newest(h)
  BY <1>1 DEF Newest, Ref
<1>4. \A r \in Ref(h) : h.objs[r] \in Spots
  BY <1>1, <1>3, ElementOf DEF Newest
<1>5. QED
  BY <1>2, <1>3, <1>4 DEF Obj, Spots

(* Numbers and powers *)
LEMMA Powers ==
    ASSUME NEW n \in Nat
    PROVE  2^n \in Nat \ {0}
<1>1. PICK S : S = 1 .. n
  OBVIOUS
<1>2. IsFiniteSet(S) /\ Cardinality(S) = n
  BY <1>1, FS_Interval
<1>3. IsFiniteSet(SUBSET S) /\ Cardinality(SUBSET S) = 2^n
  BY <1>2, FS_SUBSET
<1>4. SUBSET S # {}
  OBVIOUS
<1>5. QED
  BY <1>3, <1>4, FS_CardinalityType, FS_EmptySet

(* h and one object more. *)
Added(h, k, obj) ==
    /\ Newest(k) = Newest(h) + 1
    /\ Ref(k) = Ref(h) \union {Newest(k)}
    /\ Newest(k) \notin Ref(h)
    /\ Obj(k, Newest(k)) = obj
    /\ \A r \in Ref(h) : Obj(k, r) = Obj(h, r)
    /\ k.bucket = h.bucket

LEMMA PlaceAdds ==
    ASSUME NEW h, Well(h), NEW obj \in Thing,
           NEW from \in Nat, NEW size \in Nat, NEW need \in Nat, from >= h.mem,
           Enough(obj, size)
    PROVE  LET k == Place(h, from, size, need, obj) IN Well(k) /\ Added(h, k, obj)
<1> DEFINE k == Place(h, from, size, need, obj)
           new == [from |-> from, size |-> size, obj |-> obj]
<1>1. HeapInv(h, Thing) /\ "bucket" \in DOMAIN h /\ h.ok \in BOOLEAN /\ Covered(h)
  BY DEF Well
<1>2. HeapInv(k, Thing)
  BY <1>1, PlaceKeeps
<1>3. {"mem", "objs", "ok"} \subseteq DOMAIN h
  BY <1>1 DEF HeapInv
<1>4. /\ DOMAIN k = DOMAIN h /\ k.bucket = h.bucket
      /\ k.mem = from + size
      /\ k.objs = Append(h.objs, new)
      /\ k.ok = (h.ok /\ need <= size /\ from + size <= HeapSize)
  BY <1>1, <1>3 DEF Place
<1> HIDE DEF k
<1>5. PICK Spots : Spots = [from : Nat, size : Nat, obj : Thing]
  OBVIOUS
<1>6. /\ h.objs \in Seq(Spots) /\ k.objs \in Seq(Spots) /\ new \in Spots
      /\ Newest(h) \in Nat /\ Ref(h) = 1 .. Newest(h)
      /\ Newest(k) \in Nat /\ Ref(k) = 1 .. Newest(k)
  <2>1. h.objs \in Seq(Spots) /\ k.objs \in Seq(Spots) /\ new \in Spots
    BY <1>1, <1>2, <1>5 DEF HeapInv
  <2>2. QED
    BY <2>1 DEF Newest, Ref
<1>7. new.obj = obj /\ new.size = size
  OBVIOUS
<1> HIDE DEF new
<1>8. /\ Len(k.objs) = Len(h.objs) + 1
      /\ \A r \in 1 .. Len(h.objs) : k.objs[r] = h.objs[r]
      /\ k.objs[Len(h.objs) + 1] = new
  BY <1>4, <1>6, AppendProperties
<1>9. Newest(k) = Newest(h) + 1
  BY <1>8 DEF Newest
<1>10. Ref(k) = Ref(h) \union {Newest(k)} /\ Newest(k) \notin Ref(h)
  BY <1>6, <1>9
<1>11. Obj(k, Newest(k)) = obj /\ k.objs[Newest(k)].size = size
  BY <1>7, <1>8, <1>9 DEF Newest, Obj
<1>12. \A r \in Ref(h) : k.objs[r] = h.objs[r] /\ Obj(k, r) = Obj(h, r)
  BY <1>6, <1>8 DEF Newest, Obj
<1>13. Covered(k)
  BY <1>1, <1>10, <1>11, <1>12 DEF Covered
<1>14. Well(k)
  BY <1>1, <1>2, <1>4, <1>13 DEF Well
<1>15. QED
  BY <1>4, <1>9, <1>10, <1>11, <1>12, <1>14 DEF Added, k

(* All that gc/object_create.cpp makes is one object more.                  *)
LEMMA Allocates ==
    ASSUME NEW h, Well(h), NEW obj \in Thing,
           NEW size \in Nat, NEW len \in Nat, NEW elem \in Nat
    PROVE  /\ Enough(obj, size) =>
                LET k == NewJavaObject(h, size, obj) IN Well(k) /\ Added(h, k, obj)
           /\ Enough(obj, ArrayOverhead + elem * len) =>
                LET k == NewJavaArray(h, len, elem, obj) IN Well(k) /\ Added(h, k, obj)
           /\ Enough(obj, VmArraySize(len, elem)) =>
                LET k == NewVmArray(h, len, elem, obj) IN Well(k) /\ Added(h, k, obj)
           /\ Enough(obj, size % 2^LengthBits) =>
                LET k == NewVmObject(h, size, obj) IN Well(k) /\ Added(h, k, obj)
<1>1. h.mem \in Nat
  BY DEF Well, HeapInv
<1>2. PICK a \in Nat : a = Aligned(h.mem) /\ a >= h.mem
  BY <1>1, AlignedUp
<1>3. PICK need \in Nat : need = ArrayOverhead + elem * len
  BY DEF ArrayOverhead
<1>4. PICK vm \in Nat : vm = VmArraySize(len, elem)
  <2>1. PICK l \in Nat \ {0} : l = 2^LengthBits
    BY HeapAssumption, Powers
  <2>2. PICK w \in Nat \ {0} : w = 2^SizeBits
    BY HeapAssumption, Powers
  <2>3. PICK kept \in Nat : kept = (len % l)
    BY <2>1
  <2>4. PICK long \in Nat : long = elem * kept + ArrayOverhead
    BY <2>3 DEF ArrayOverhead
  <2>5. (long % w) \in Nat
    BY <2>2, <2>4
  <2>6. QED
    BY <2>1, <2>2, <2>3, <2>4, <2>5 DEF VmArraySize
<1>5. PICK cut \in Nat : cut = (size % 2^LengthBits)
  <2>1. PICK l \in Nat \ {0} : l = 2^LengthBits
    BY HeapAssumption, Powers
  <2>2. QED
    BY <2>1
<1>6. ASSUME Enough(obj, size)
      PROVE  LET k == NewJavaObject(h, size, obj) IN Well(k) /\ Added(h, k, obj)
  BY <1>1, <1>6, PlaceAdds DEF NewJavaObject
<1>7. ASSUME Enough(obj, ArrayOverhead + elem * len)
      PROVE  LET k == NewJavaArray(h, len, elem, obj) IN Well(k) /\ Added(h, k, obj)
  BY <1>1, <1>3, <1>7, PlaceAdds DEF NewJavaArray
<1>8. ASSUME Enough(obj, VmArraySize(len, elem))
      PROVE  LET k == NewVmArray(h, len, elem, obj) IN Well(k) /\ Added(h, k, obj)
  BY <1>2, <1>3, <1>4, <1>8, PlaceAdds DEF NewVmArray, NewVm
<1>9. ASSUME Enough(obj, size % 2^LengthBits)
      PROVE  LET k == NewVmObject(h, size, obj) IN Well(k) /\ Added(h, k, obj)
  <2>1. Enough(obj, cut)
    BY <1>5, <1>9
  <2>2. QED
    BY <1>2, <1>5, <2>1, PlaceAdds DEF NewVmObject, NewVm
<1>10. QED
  BY <1>6, <1>7, <1>8, <1>9

(* A write to an object changes no other.                                   *)
Changed(h, k, r, obj) ==
    /\ Newest(k) = Newest(h) /\ Ref(k) = Ref(h)
    /\ Obj(k, r) = obj
    /\ \A q \in Ref(h) : q # r => Obj(k, q) = Obj(h, q)
    /\ k.bucket = h.bucket /\ k.ok = h.ok

LEMMA PutChanges ==
    ASSUME NEW h, Well(h), NEW r \in Ref(h), NEW obj \in Thing,
           Room(obj) = Room(Obj(h, r)), TooLong(obj) = TooLong(Obj(h, r))
    PROVE  Well(Put(h, r, obj)) /\ Changed(h, Put(h, r, obj), r, obj)
<1> DEFINE k == Put(h, r, obj)
           Spots == [from : Nat, size : Nat, obj : Thing]
           new == [h.objs[r] EXCEPT !.obj = obj]
<1>1. /\ HeapInv(h, Thing) /\ "bucket" \in DOMAIN h /\ h.ok \in BOOLEAN /\ (h.ok => h.mem <= HeapSize)
      /\ Covered(h)
  BY DEF Well
<1>2. {"mem", "objs", "ok"} \subseteq DOMAIN h /\ h.objs \in Seq(Spots) /\ h.mem \in Nat /\ Apart(h)
  BY <1>1 DEF HeapInv
<1>3. /\ DOMAIN k = DOMAIN h /\ k.bucket = h.bucket /\ k.mem = h.mem /\ k.ok = h.ok
      /\ k.objs = [h.objs EXCEPT ![r] = new]
  BY <1>1, <1>2 DEF Put
<1>4. Newest(h) \in Nat /\ Ref(h) = 1 .. Newest(h) /\ \A q \in Ref(h) : h.objs[q] \in Spots
  BY References
<1>5. new \in Spots /\ new.obj = obj /\ new.from = h.objs[r].from /\ new.size = h.objs[r].size
  <2>1. h.objs[r] \in Spots
    BY <1>4
  <2>2. QED
    BY <2>1
<1> HIDE DEF k, new, Spots
<1>6. /\ k.objs \in Seq(Spots) /\ Len(k.objs) = Len(h.objs) /\ DOMAIN k.objs = DOMAIN h.objs
      /\ k.objs[r] = new
      /\ \A q \in Ref(h) : q # r => k.objs[q] = h.objs[q]
  BY <1>2, <1>3, <1>4, <1>5, ExceptSeq DEF Newest, Ref
<1>7. Changed(h, k, r, obj)
  BY <1>3, <1>5, <1>6 DEF Changed, Newest, Ref, Obj
<1>8. \A q \in Ref(h) : k.objs[q].from = h.objs[q].from /\ k.objs[q].size = h.objs[q].size
  BY <1>5, <1>6
<1>9. Apart(k)
  BY <1>2, <1>3, <1>6, <1>8 DEF Apart, Ref
<1>10. Covered(k)
  <2>1. \A q \in Ref(h) : Enough(Obj(h, q), h.objs[q].size)
    BY <1>1 DEF Covered
  <2>2. \A q \in Ref(h) : Enough(Obj(h, q), h.objs[q].size) => Enough(Obj(k, q), k.objs[q].size)
    BY <1>7, <1>8 DEF Changed, Enough
  <2>3. QED
    BY <1>7, <2>1, <2>2 DEF Covered, Changed
<1>11. Well(k)
  BY <1>1, <1>2, <1>3, <1>6, <1>9, <1>10 DEF Well, HeapInv, Spots
<1>12. QED
  BY <1>7, <1>11 DEF k

-----------------------------------------------------------------------------
(* What holds of the heap between two calls                                 *)

(* How far into its array a string or a buffer reaches. *)
End(o) == IF o.is = "String" THEN o.offset + o.count ELSE o.count

HoldsWell(h, r) ==
    /\ Is(h, Obj(h, r).value, "chars")
    /\ End(Obj(h, r)) <= Len(Slots(h, r))

(* Native strings that have a Java string. *)
IsInterned(h, r) == Is(h, r, "kstring") /\ Obj(h, r).intern # 0
InternValue(h, r) == Obj(h, Obj(h, r).intern).value

Canonical(bytes) == UnpackUtf8(bytes) \in Seq(Character) /\ PackUtf8(UnpackUtf8(bytes)) = bytes

OnlyA(bytes) == bytes = Filler(Len(bytes))

(* The Java string s stands for the text of these bytes, as long as nobody *)
(* could write to its array.                                               *)
StandsFor(h, s, bytes) ==
    /\ Is(h, s, "String") /\ Canonical(bytes)
    /\ Obj(h, s).offset = 0 /\ Obj(h, s).count = Len(Slots(h, s))
    /\ Obj(h, s).count = Len(UnpackUtf8(bytes))
    /\ OnlyA(bytes) \/ Slots(h, s) = UnpackUtf8(bytes)

Linked(h) ==
    /\ \A r \in Ref(h) : HasArray(h, r) => HoldsWell(h, r)
    /\ \A r \in Ref(h) : IsInterned(h, r) => StandsFor(h, Obj(h, r).intern, Obj(h, r).bytes)

(* No two native strings have the same array behind them. *)
Sole(h) ==
    \A r, q \in Ref(h) :
        IsInterned(h, r) /\ IsInterned(h, q) /\ InternValue(h, r) = InternValue(h, q) => r = q

(* A buffer shares its array with nobody, unless it is one of letters a. *)
Private(h) ==
    \A b, r \in Ref(h) :
        Is(h, b, "StringBuffer") /\ HasArray(h, r) /\ b # r /\ Obj(h, b).value = Obj(h, r).value
            => Lent(h, Obj(h, b).value)

(* The pool has every native string, each text once, in its chain. *)
Pool(h) ==
    /\ DOMAIN h.bucket = 0 .. (HashSize - 1)
    /\ \A i \in 0 .. (HashSize - 1) :
         /\ h.bucket[i] \in Seq(Ref(h))
         /\ \A n \in DOMAIN h.bucket[i] : /\ Is(h, h.bucket[i][n], "kstring")
                                          /\ Hash(Obj(h, h.bucket[i][n]).bytes) = i
         /\ \A n, m \in DOMAIN h.bucket[i] :
              Obj(h, h.bucket[i][n]).bytes = Obj(h, h.bucket[i][m]).bytes => n = m
    /\ \A r \in Ref(h) : Is(h, r, "kstring") =>
         \E n \in DOMAIN h.bucket[Hash(Obj(h, r).bytes)] : h.bucket[Hash(Obj(h, r).bytes)][n] = r

HeapOK(h) == Well(h) /\ Linked(h) /\ Sole(h) /\ Private(h) /\ Pool(h)

(* What the VM does to the objects that were there: it gives a native      *)
(* string its Java string, once.  What it makes has a new array, or is a   *)
(* string that shares the array of another string.                         *)
Keeps(h, k) ==
    /\ Ref(h) \subseteq Ref(k)
    /\ \A r \in Ref(h) : ~Is(h, r, "kstring") => Obj(k, r) = Obj(h, r)
    /\ \A r \in Ref(h) : Is(h, r, "kstring") =>
         /\ Is(k, r, "kstring") /\ Obj(k, r).bytes = Obj(h, r).bytes
         /\ IsInterned(h, r) => Obj(k, r).intern = Obj(h, r).intern
    /\ \A r \in Ref(k) : r \notin Ref(h) /\ HasArray(k, r) =>
         \/ Obj(k, r).value \notin Ref(h)
         \/ /\ Is(k, r, "String")
            /\ \E q \in Ref(h) : Is(h, q, "String") /\ Obj(k, r).value = Obj(h, q).value

LEMMA Lends ==
    ASSUME NEW h, NEW a
    PROVE  Lent(h, a) <=> \E r \in Ref(h) : /\ IsInterned(h, r) /\ OnlyA(Obj(h, r).bytes)
                                            /\ InternValue(h, r) = a
BY DEF Lent, IsInterned, OnlyA, InternValue, Is

(* The strings and buffers that were there are as they were. *)
LEMMA KeepsHolders ==
    ASSUME NEW h, NEW k, Keeps(h, k)
    PROVE  /\ \A r \in Ref(h), kind \in {"entry", "lost", "chars", "ints", "String", "StringBuffer"} :
                Is(h, r, kind) => Obj(k, r) = Obj(h, r) /\ Is(k, r, kind)
           /\ \A r \in Ref(h) : HasArray(h, r) => HasArray(k, r) /\ Obj(k, r) = Obj(h, r)
<1>1. \A r \in Ref(h), kind \in {"entry", "lost", "chars", "ints", "String", "StringBuffer"} :
         Is(h, r, kind) => Obj(k, r) = Obj(h, r) /\ Is(k, r, kind)
  BY DEF Keeps, Is
<1>2. QED
  BY <1>1 DEF HasArray, Is

LEMMA KeepsContent ==
    ASSUME NEW h, NEW k, Keeps(h, k), NEW r \in Ref(h), HasArray(h, r), HoldsWell(h, r)
    PROVE  /\ HasArray(k, r) /\ Obj(k, r) = Obj(h, r) /\ Slots(k, r) = Slots(h, r)
           /\ HoldsWell(k, r) /\ Content(k, r) = Content(h, r)
<1>1. HasArray(k, r) /\ Obj(k, r) = Obj(h, r)
  BY KeepsHolders
<1>2. Obj(h, r).value \in Ref(h) /\ Is(h, Obj(h, r).value, "chars")
  BY DEF HoldsWell, Is
<1>3. Obj(k, Obj(h, r).value) = Obj(h, Obj(h, r).value) /\ Is(k, Obj(h, r).value, "chars")
  BY <1>2, KeepsHolders
<1>4. Slots(k, r) = Slots(h, r)
  BY <1>1, <1>3 DEF Slots
<1>5. HoldsWell(k, r)
  BY <1>1, <1>3, <1>4 DEF HoldsWell
<1>6. Content(k, r) = Content(h, r)
  BY <1>1, <1>4 DEF Content
<1>7. QED
  BY <1>1, <1>4, <1>5, <1>6

LEMMA KeepsInterned ==
    ASSUME NEW h, NEW k, Keeps(h, k), Linked(h), NEW r \in Ref(h), IsInterned(h, r)
    PROVE  /\ r \in Ref(k) /\ IsInterned(k, r) /\ Obj(k, r).bytes = Obj(h, r).bytes
           /\ Obj(k, r).intern = Obj(h, r).intern /\ InternValue(k, r) = InternValue(h, r)
           /\ StandsFor(k, Obj(k, r).intern, Obj(k, r).bytes)
           /\ InternValue(h, r) \in Ref(h)
<1>1. /\ r \in Ref(k) /\ IsInterned(k, r) /\ Obj(k, r).bytes = Obj(h, r).bytes
      /\ Obj(k, r).intern = Obj(h, r).intern
  BY DEF Keeps, IsInterned, Is
<1>2. StandsFor(h, Obj(h, r).intern, Obj(h, r).bytes)
  BY DEF Linked
<1>3. PICK s \in Ref(h) : s = Obj(h, r).intern
  BY <1>2 DEF StandsFor, Is
<1>4. Is(h, s, "String") /\ HasArray(h, s)
  BY <1>2, <1>3 DEF StandsFor, HasArray
<1>5. HoldsWell(h, s)
  BY <1>4 DEF Linked
<1>6. Is(k, s, "String") /\ Obj(k, s) = Obj(h, s) /\ Slots(k, s) = Slots(h, s)
  BY <1>4, <1>5, KeepsContent, KeepsHolders
<1>7. StandsFor(k, s, Obj(h, r).bytes)
  BY <1>2, <1>3, <1>6 DEF StandsFor
<1>8. InternValue(k, r) = InternValue(h, r) /\ InternValue(h, r) \in Ref(h)
  BY <1>1, <1>3, <1>5, <1>6 DEF InternValue, HoldsWell, Is
<1>9. QED
  BY <1>1, <1>3, <1>7, <1>8

LEMMA KeepsLent ==
    ASSUME NEW h, NEW k, Keeps(h, k), Linked(h), NEW a, Lent(h, a)
    PROVE  Lent(k, a)
<1>1. PICK r \in Ref(h) : IsInterned(h, r) /\ OnlyA(Obj(h, r).bytes) /\ InternValue(h, r) = a
  BY Lends
<1>2. QED
  BY <1>1, KeepsInterned, Lends

LEMMA KeepsOn ==
    ASSUME NEW h, NEW k, NEW l, Keeps(h, k), Keeps(k, l)
    PROVE  Keeps(h, l)
<1>1. Ref(h) \subseteq Ref(l)
  BY DEF Keeps
<1>2. ASSUME NEW r \in Ref(h), ~Is(h, r, "kstring") PROVE Obj(l, r) = Obj(h, r)
  BY <1>2 DEF Keeps, Is
<1>3. ASSUME NEW r \in Ref(h), Is(h, r, "kstring")
      PROVE  /\ Is(l, r, "kstring") /\ Obj(l, r).bytes = Obj(h, r).bytes
             /\ IsInterned(h, r) => Obj(l, r).intern = Obj(h, r).intern
  BY <1>3 DEF Keeps, Is, IsInterned
<1>4. ASSUME NEW r \in Ref(l), r \notin Ref(h), HasArray(l, r), Obj(l, r).value \in Ref(h)
      PROVE  /\ Is(l, r, "String")
             /\ \E q \in Ref(h) : Is(h, q, "String") /\ Obj(l, r).value = Obj(h, q).value
  <2>1. CASE r \in Ref(k)
    <3>1. Obj(l, r) = Obj(k, r) /\ HasArray(k, r)
      BY <1>4, <2>1 DEF Keeps, HasArray, Is
    <3>2. Obj(k, r).value \in Ref(h)
      BY <1>4, <3>1
    <3>3. QED
      BY <1>4, <2>1, <3>1, <3>2 DEF Keeps, Is
  <2>2. CASE r \notin Ref(k)
    <3>1. Obj(l, r).value \in Ref(k)
      BY <1>4 DEF Keeps
    <3>2. /\ Is(l, r, "String")
          /\ \E q \in Ref(k) : Is(k, q, "String") /\ Obj(l, r).value = Obj(k, q).value
      BY <1>4, <2>2, <3>1 DEF Keeps
    <3>3. PICK q \in Ref(k) : Is(k, q, "String") /\ Obj(l, r).value = Obj(k, q).value
      BY <3>2
    <3>4. CASE q \in Ref(h)
      BY <3>2, <3>3, <3>4 DEF Keeps, Is
    <3>5. CASE q \notin Ref(h)
      BY <1>4, <3>2, <3>3, <3>5 DEF Keeps, HasArray
    <3>6. QED
      BY <3>4, <3>5
  <2>3. QED
    BY <2>1, <2>2
<1>5. QED
  BY <1>1, <1>2, <1>3, <1>4 DEF Keeps

(* What has to be shown of the objects that are new, and of the native     *)
(* strings that got their Java string just now.                            *)
NewIntern(h, k, r) == IsInterned(k, r) /\ ~(r \in Ref(h) /\ IsInterned(h, r))

LEMMA KeepsOK ==
    ASSUME NEW h, NEW k, HeapOK(h), Keeps(h, k), Well(k), Pool(k),
           \A r \in Ref(k) : r \notin Ref(h) /\ HasArray(k, r) => HoldsWell(k, r),
           \A r \in Ref(k) : r \notin Ref(h) /\ Is(k, r, "StringBuffer") =>
               \A q \in Ref(k) : HasArray(k, q) /\ q # r => Obj(k, q).value # Obj(k, r).value,
           \A r \in Ref(k) : NewIntern(h, k, r) =>
               /\ StandsFor(k, Obj(k, r).intern, Obj(k, r).bytes)
               /\ \A q \in Ref(k) : IsInterned(k, q) /\ q # r => InternValue(k, q) # InternValue(k, r)
    PROVE  HeapOK(k)
<1>1. Linked(h) /\ Sole(h) /\ Private(h)
  BY DEF HeapOK
<1>2. ASSUME NEW r \in Ref(k), HasArray(k, r) PROVE HoldsWell(k, r)
  <2>1. CASE r \in Ref(h)
    <3>1. HasArray(h, r)
      BY <1>2, <2>1 DEF Keeps, HasArray, Is
    <3>2. QED
      BY <1>1, <2>1, <3>1, KeepsContent DEF Linked
  <2>2. QED
    BY <1>2, <2>1
<1>3. ASSUME NEW r \in Ref(k), IsInterned(k, r)
      PROVE  StandsFor(k, Obj(k, r).intern, Obj(k, r).bytes)
  <2>1. CASE NewIntern(h, k, r)
    BY <2>1
  <2>2. CASE ~NewIntern(h, k, r)
    BY <1>1, <1>3, <2>2, KeepsInterned DEF NewIntern
  <2>3. QED
    BY <2>1, <2>2
<1>4. Sole(k)
  <2>1. SUFFICES ASSUME NEW r \in Ref(k), NEW q \in Ref(k), IsInterned(k, r), IsInterned(k, q),
                        InternValue(k, r) = InternValue(k, q)
                 PROVE  r = q
    BY DEF Sole
  <2>2. CASE NewIntern(h, k, r) \/ NewIntern(h, k, q)
    BY <2>1, <2>2
  <2>3. CASE ~NewIntern(h, k, r) /\ ~NewIntern(h, k, q)
    <3>1. r \in Ref(h) /\ q \in Ref(h) /\ IsInterned(h, r) /\ IsInterned(h, q)
      BY <2>1, <2>3 DEF NewIntern
    <3>2. InternValue(h, r) = InternValue(h, q)
      BY <1>1, <2>1, <3>1, KeepsInterned
    <3>3. QED
      BY <1>1, <3>1, <3>2 DEF Sole
  <2>4. QED
    BY <2>2, <2>3
<1>5. Private(k)
  <2>1. SUFFICES ASSUME NEW b \in Ref(k), NEW r \in Ref(k), Is(k, b, "StringBuffer"), HasArray(k, r),
                        b # r, Obj(k, b).value = Obj(k, r).value
                 PROVE  Lent(k, Obj(k, b).value)
    BY DEF Private
  <2>2. b \in Ref(h)
    BY <2>1
  <2>3. Is(h, b, "StringBuffer") /\ Obj(k, b) = Obj(h, b)
    BY <2>1, <2>2 DEF Keeps, Is
  <2>4. Obj(h, b).value \in Ref(h)
    BY <1>1, <2>2, <2>3 DEF Linked, HasArray, HoldsWell, Is
  <2>5. CASE r \in Ref(h)
    <3>1. HasArray(h, r) /\ Obj(k, r) = Obj(h, r)
      BY <2>1, <2>5 DEF Keeps, HasArray, Is
    <3>2. Lent(h, Obj(h, b).value)
      BY <1>1, <2>1, <2>2, <2>3, <2>5, <3>1 DEF Private
    <3>3. QED
      BY <1>1, <2>3, <3>2, KeepsLent
  <2>6. CASE r \notin Ref(h)
    <3>1. PICK q \in Ref(h) : Is(h, q, "String") /\ Obj(k, r).value = Obj(h, q).value
      BY <2>1, <2>3, <2>4, <2>6 DEF Keeps
    <3>2. q # b /\ HasArray(h, q)
      BY <2>3, <3>1 DEF Is, HasArray
    <3>3. Lent(h, Obj(h, b).value)
      BY <1>1, <2>1, <2>2, <2>3, <3>1, <3>2 DEF Private
    <3>4. QED
      BY <1>1, <2>3, <3>3, KeepsLent
  <2>7. QED
    BY <2>5, <2>6
<1>6. QED
  BY <1>2, <1>3, <1>4, <1>5 DEF HeapOK, Linked

(* The pool and the native strings are the same. *)
LEMMA PoolSame ==
    ASSUME NEW h, NEW k, Pool(h), Ref(h) \subseteq Ref(k), k.bucket = h.bucket,
           \A r \in Ref(h) : Is(h, r, "kstring") => Is(k, r, "kstring") /\ Obj(k, r).bytes = Obj(h, r).bytes,
           \A r \in Ref(k) : Is(k, r, "kstring") => Is(h, r, "kstring")
    PROVE  Pool(k)
<1>1. ASSUME NEW i \in 0 .. (HashSize - 1)
      PROVE  /\ k.bucket[i] \in Seq(Ref(k))
             /\ \A n \in DOMAIN k.bucket[i] : /\ Is(k, k.bucket[i][n], "kstring")
                                              /\ Hash(Obj(k, k.bucket[i][n]).bytes) = i
             /\ \A n, m \in DOMAIN k.bucket[i] :
                  Obj(k, k.bucket[i][n]).bytes = Obj(k, k.bucket[i][m]).bytes => n = m
  <2>1. PICK chain : chain = h.bucket[i] /\ chain = k.bucket[i]
    OBVIOUS
  <2>2. /\ chain \in Seq(Ref(h))
        /\ \A n \in DOMAIN chain : Is(h, chain[n], "kstring") /\ Hash(Obj(h, chain[n]).bytes) = i
        /\ \A n, m \in DOMAIN chain : Obj(h, chain[n]).bytes = Obj(h, chain[m]).bytes => n = m
    BY <2>1 DEF Pool
  <2>3. chain \in Seq(Ref(k))
    <3>1. PICK A, B : A = Ref(h) /\ B = Ref(k)
      OBVIOUS
    <3>2. A \subseteq B
      BY <3>1
    <3>3. QED
      BY <2>2, <3>1, <3>2
  <2>4. \A n \in DOMAIN chain : chain[n] \in Ref(h)
    BY <2>2 DEF Is
  <2>5. \A n \in DOMAIN chain : Is(k, chain[n], "kstring") /\ Obj(k, chain[n]).bytes = Obj(h, chain[n]).bytes
    BY <2>2, <2>4
  <2>6. QED
    BY <2>1, <2>2, <2>3, <2>5
<1>2. ASSUME NEW r \in Ref(k), Is(k, r, "kstring")
      PROVE  \E n \in DOMAIN k.bucket[Hash(Obj(k, r).bytes)] : k.bucket[Hash(Obj(k, r).bytes)][n] = r
  <2>1. r \in Ref(h) /\ Is(h, r, "kstring") /\ Obj(k, r).bytes = Obj(h, r).bytes
    BY <1>2 DEF Is
  <2>2. QED
    BY <2>1 DEF Pool
<1>3. QED
  BY <1>1, <1>2 DEF Pool

LEMMA PoolStays ==
    ASSUME NEW h, NEW k, Pool(h), Keeps(h, k), k.bucket = h.bucket,
           \A r \in Ref(k) : r \notin Ref(h) => ~Is(k, r, "kstring")
    PROVE  Pool(k)
<1>1. /\ Ref(h) \subseteq Ref(k)
      /\ \A r \in Ref(h) : Is(h, r, "kstring") => Is(k, r, "kstring") /\ Obj(k, r).bytes = Obj(h, r).bytes
      /\ \A r \in Ref(k) : Is(k, r, "kstring") => Is(h, r, "kstring")
  BY DEF Keeps, Is
<1>2. QED
  BY <1>1, PoolSame

(* An object that is not a string, and has no array. *)
LEMMA PlainAdded ==
    ASSUME NEW h, HeapOK(h), NEW k, Well(k), NEW obj, Added(h, k, obj),
           obj.is \in {"entry", "lost", "chars", "ints"}
    PROVE  HeapOK(k) /\ Keeps(h, k) /\ Is(k, Newest(k), obj.is)
<1>1. Keeps(h, k)
  BY DEF Added, Keeps, HasArray, Is, IsInterned
<1>2. Is(k, Newest(k), obj.is)
  BY DEF Added, Is
<1>3. \A r \in Ref(k) : r \notin Ref(h) => ~Is(k, r, "kstring") /\ ~HasArray(k, r) /\ ~Is(k, r, "StringBuffer")
  BY DEF Added, Is, HasArray
<1>4. \A r \in Ref(k) : ~NewIntern(h, k, r)
  BY <1>3 DEF Added, NewIntern, IsInterned, Is
<1>5. Pool(k)
  BY <1>1, <1>3, PoolStays DEF HeapOK, Added
<1>6. QED
  BY <1>1, <1>2, <1>3, <1>4, <1>5, KeepsOK

LEMMA ArrayMade ==
    ASSUME NEW h, HeapOK(h), NEW text \in Seq(Character)
    PROVE  LET x == CharsOf(h, text) IN
           /\ HeapOK(x.heap) /\ Keeps(h, x.heap)
           /\ x.ref = Newest(x.heap)
           /\ Added(h, x.heap, [is |-> "chars", slots |-> text])
<1> DEFINE obj == [is |-> "chars", slots |-> text]
           k == NewJavaArray(h, Len(text), CharSize, obj)
<1>1. obj \in Thing /\ obj.is = "chars"
  BY DEF Thing
<1>2. Well(h)
  BY DEF HeapOK
<1>3. Len(text) \in Nat /\ CharSize \in Nat /\ obj.slots = text
  BY DEF CharSize
<1> HIDE DEF obj
<1>4. Well(k) /\ Added(h, k, obj)
  <2>1. Enough(obj, ArrayOverhead + CharSize * Len(text))
    BY <1>1, <1>3, CharsFit
  <2>2. QED
    BY <1>1, <1>2, <1>3, <2>1, Allocates
<1>5. HeapOK(k) /\ Keeps(h, k)
  BY <1>1, <1>4, PlainAdded
<1>6. CharsOf(h, text) = [heap |-> k, ref |-> Newest(k)]
  BY DEF CharsOf, Chars, Made, Answer, obj
<1> HIDE DEF k
<1>7. QED
  BY <1>4, <1>5, <1>6 DEF obj

(* A Java string with an array of its own; only those that were interned   *)
(* before are interned.                                                    *)
OwnString(h, k, s, text) ==
    /\ HeapOK(k) /\ Keeps(h, k)
    /\ Is(k, s, "String")
    /\ Obj(k, s).offset = 0 /\ Obj(k, s).count = Len(text) /\ Slots(k, s) = text
    /\ \A r \in Ref(h) : Obj(k, r) = Obj(h, r)
    /\ \A q \in Ref(k) : IsInterned(k, q) => InternValue(k, q) # Obj(k, s).value

LEMMA FreshString ==
    ASSUME NEW h, HeapOK(h), NEW text \in Seq(Character)
    PROVE  LET x == WholeString(CharsOf(h, text)) IN OwnString(h, x.heap, x.ref, text)
<1> DEFINE y == CharsOf(h, text)
<1>1. PICK g : g = y.heap
  OBVIOUS
<1>2. PICK a : a = y.ref
  OBVIOUS
<1>3. /\ HeapOK(g) /\ Keeps(h, g) /\ a = Newest(g)
      /\ Added(h, g, [is |-> "chars", slots |-> text])
  BY <1>1, <1>2, ArrayMade
<1> DEFINE string == [is |-> "String", value |-> a, offset |-> 0, count |-> Len(text)]
           k == NewJavaObject(g, StringSize, string)
<1>4. Well(g) /\ Well(h)
  BY <1>3 DEF HeapOK
<1>5. a \in Nat /\ Len(text) \in Nat /\ StringSize \in Nat
  BY <1>3, <1>4, References DEF StringSize
<1>6. /\ string \in Thing /\ string.is = "String" /\ string.value = a
      /\ string.offset = 0 /\ string.count = Len(text)
  BY <1>5 DEF Thing
<1> HIDE DEF string
<1>7. Well(k) /\ Added(g, k, string)
  BY <1>4, <1>5, <1>6, ObjectFits, Allocates
<1> HIDE DEF k
<1>8. PICK s : s = Newest(k)
  OBVIOUS
<1>9. /\ Ref(k) = Ref(h) \union {a, s} /\ a \notin Ref(h) /\ s \notin Ref(h) /\ s # a
      /\ Obj(k, a) = [is |-> "chars", slots |-> text] /\ Obj(k, s) = string
      /\ \A r \in Ref(h) : Obj(k, r) = Obj(h, r)
      /\ k.bucket = h.bucket
  BY <1>3, <1>7, <1>8 DEF Added
<1>10. Is(k, a, "chars") /\ Obj(k, a).slots = text /\ Is(k, s, "String")
  BY <1>6, <1>9 DEF Is
<1>11. Slots(k, s) = text /\ HasArray(k, s) /\ Obj(k, s).value = a
  BY <1>6, <1>9, <1>10 DEF Slots, HasArray
<1>12. Keeps(h, k)
  BY <1>9, <1>10, <1>11 DEF Keeps, HasArray, Is, IsInterned
<1>13. HoldsWell(k, s)
  BY <1>5, <1>6, <1>9, <1>10, <1>11 DEF HoldsWell, End
<1>14. \A r \in Ref(k) : r \notin Ref(h) =>
          /\ ~Is(k, r, "kstring") /\ ~Is(k, r, "StringBuffer")
          /\ HasArray(k, r) => HoldsWell(k, r)
  BY <1>9, <1>10, <1>13 DEF Is, HasArray
<1>15. \A r \in Ref(k) : ~NewIntern(h, k, r)
  BY <1>9, <1>14 DEF NewIntern, IsInterned, Is
<1>16. Pool(k)
  BY <1>9, <1>12, <1>14, PoolStays DEF HeapOK
<1>17. HeapOK(k)
  BY <1>7, <1>12, <1>14, <1>15, <1>16, KeepsOK
<1>18. ASSUME NEW q \in Ref(k), IsInterned(k, q) PROVE InternValue(k, q) # a
  <2>1. q \in Ref(h) /\ IsInterned(h, q)
    BY <1>15, <1>18 DEF NewIntern
  <2>2. InternValue(k, q) \in Ref(h)
    BY <2>1, <1>12, KeepsInterned DEF HeapOK
  <2>3. QED
    BY <1>9, <2>2
<1>19. OwnString(h, k, s, text)
  BY <1>6, <1>9, <1>10, <1>11, <1>12, <1>17, <1>18 DEF OwnString
<1>20. Obj(g, a).slots = text
  BY <1>3 DEF Added
<1>21. WholeString(y) = [heap |-> k, ref |-> s]
  BY <1>1, <1>2, <1>8, <1>20 DEF WholeString, NewString, Made, Answer, k, string
<1>22. QED
  BY <1>19, <1>21

(* A string that shares the array of another. *)
LEMMA StringAdded ==
    ASSUME NEW h, HeapOK(h), NEW s, Is(h, s, "String"), NEW offset \in Nat, NEW count \in Nat,
           offset + count <= Len(Slots(h, s))
    PROVE  LET k == NewString(h, Obj(h, s).value, offset, count) IN
           /\ HeapOK(k) /\ Keeps(h, k)
           /\ Is(k, Newest(k), "String") /\ Slots(k, Newest(k)) = Slots(h, s)
           /\ Obj(k, Newest(k)).value = Obj(h, s).value
           /\ Obj(k, Newest(k)).offset = offset /\ Obj(k, Newest(k)).count = count
           /\ Newest(k) \notin Ref(h)
<1> DEFINE string == [is |-> "String", value |-> Obj(h, s).value, offset |-> offset, count |-> count]
           k == NewJavaObject(h, StringSize, string)
<1>1. Well(h) /\ s \in Ref(h) /\ HasArray(h, s)
  BY DEF HeapOK, Is, HasArray
<1>2. HoldsWell(h, s)
  BY <1>1 DEF HeapOK, Linked
<1>3. PICK a \in Ref(h) : a = Obj(h, s).value /\ Is(h, a, "chars")
  BY <1>2 DEF HoldsWell, Is
<1>4. a \in Nat /\ StringSize \in Nat
  BY <1>1, References DEF StringSize
<1>5. /\ string \in Thing /\ string.is = "String" /\ string.value = a
      /\ string.offset = offset /\ string.count = count
  BY <1>3, <1>4 DEF Thing
<1> HIDE DEF string
<1>6. Well(k) /\ Added(h, k, string)
  BY <1>1, <1>4, <1>5, ObjectFits, Allocates
<1> HIDE DEF k
<1>7. PICK n : n = Newest(k)
  OBVIOUS
<1>8. /\ Ref(k) = Ref(h) \union {n} /\ n \notin Ref(h) /\ Obj(k, n) = string
      /\ \A r \in Ref(h) : Obj(k, r) = Obj(h, r)
      /\ k.bucket = h.bucket
  BY <1>6, <1>7 DEF Added
<1>9. Is(k, n, "String") /\ Is(k, a, "chars")
  BY <1>3, <1>5, <1>8 DEF Is
<1>10. Slots(k, n) = Slots(h, s) /\ HasArray(k, n) /\ Obj(k, n).value = a
  BY <1>3, <1>5, <1>8, <1>9 DEF Slots, HasArray
<1>11. Keeps(h, k)
  BY <1>3, <1>8, <1>9, <1>10 DEF Keeps, HasArray, Is, IsInterned
<1>12. HoldsWell(k, n)
  BY <1>5, <1>8, <1>9, <1>10 DEF HoldsWell, End
<1>13. \A r \in Ref(k) : r \notin Ref(h) =>
          /\ ~Is(k, r, "kstring") /\ ~Is(k, r, "StringBuffer")
          /\ HasArray(k, r) => HoldsWell(k, r)
  BY <1>8, <1>9, <1>12 DEF Is, HasArray
<1>14. \A r \in Ref(k) : ~NewIntern(h, k, r)
  BY <1>8, <1>13 DEF NewIntern, IsInterned, Is
<1>15. Pool(k)
  BY <1>8, <1>11, <1>13, PoolStays DEF HeapOK
<1>16. HeapOK(k)
  BY <1>6, <1>11, <1>13, <1>14, <1>15, KeepsOK
<1>17. NewString(h, Obj(h, s).value, offset, count) = k
  BY DEF NewString, k, string
<1>18. QED
  BY <1>3, <1>5, <1>7, <1>8, <1>9, <1>10, <1>11, <1>16, <1>17

(* get_jstring_from_kstring: the native string remembers what was made. *)
LEMMA Interns ==
    ASSUME NEW h, HeapOK(h), NEW r, Is(h, r, "kstring"), ~IsInterned(h, r),
           NEW s, StandsFor(h, s, Obj(h, r).bytes),
           \A q \in Ref(h) : IsInterned(h, q) => InternValue(h, q) # Obj(h, s).value
    PROVE  LET k == InternedAs(r, Answer(h, s)).heap IN
           /\ HeapOK(k) /\ Keeps(h, k) /\ IsInterned(k, r) /\ Obj(k, r).intern = s
           /\ Obj(k, r).bytes = Obj(h, r).bytes
<1> DEFINE obj == [Obj(h, r) EXCEPT !.intern = s]
           k == Put(h, r, obj)
<1>1. Well(h) /\ r \in Ref(h) /\ s \in Ref(h) /\ Is(h, s, "String")
  BY DEF HeapOK, Is, StandsFor
<1>2. s \in Nat \ {0}
  BY <1>1, References
<1>3. Obj(h, r) \in [is : {"kstring"}, bytes : Seq(Nat), intern : Nat]
  BY <1>1, References, Things DEF Is
<1>4. /\ obj \in [is : {"kstring"}, bytes : Seq(Nat), intern : Nat]
      /\ obj.intern = s /\ obj.bytes = Obj(h, r).bytes /\ obj.is = "kstring"
  BY <1>2, <1>3
<1> HIDE DEF obj
<1>5. obj \in Thing
  BY <1>4 DEF Thing
<1>6. Well(k) /\ Changed(h, k, r, obj)
  <2>1. Obj(h, r).is = "kstring" /\ obj.is = "kstring" /\ obj.bytes = Obj(h, r).bytes
    BY <1>4 DEF Is
  <2>2. Room(obj) = Room(Obj(h, r))
    BY <2>1, Rooms
  <2>3. TooLong(obj) = TooLong(Obj(h, r))
    BY <2>1, <2>2 DEF TooLong
  <2>4. QED
    BY <1>1, <1>5, <2>2, <2>3, PutChanges
<1>7. InternedAs(r, Answer(h, s)).heap = k
  BY DEF InternedAs, Answer, k, obj
<1> HIDE DEF k
<1>8. /\ Ref(k) = Ref(h) /\ Obj(k, r) = obj /\ \A q \in Ref(h) : q # r => Obj(k, q) = Obj(h, q)
      /\ k.bucket = h.bucket
  BY <1>6 DEF Changed
<1>9. IsInterned(k, r) /\ Obj(k, r).intern = s /\ Obj(k, r).bytes = Obj(h, r).bytes
  BY <1>1, <1>2, <1>4, <1>8 DEF IsInterned, Is
<1>10. Keeps(h, k)
  BY <1>1, <1>4, <1>8 DEF Keeps, Is, IsInterned
<1>11. Pool(k)
  BY <1>8, <1>10, PoolStays DEF HeapOK
<1>12. \A q \in Ref(k) : q # r /\ IsInterned(k, q) => IsInterned(h, q)
  BY <1>8 DEF IsInterned, Is
<1>13. HasArray(h, s)
  BY <1>1 DEF HasArray
<1>14. HoldsWell(h, s)
  BY <1>1, <1>13 DEF HeapOK, Linked
<1>15. Obj(k, s) = Obj(h, s) /\ Slots(k, s) = Slots(h, s) /\ Is(k, s, "String")
  BY <1>1, <1>10, <1>13, <1>14, KeepsContent, KeepsHolders
<1>16. StandsFor(k, s, Obj(k, r).bytes)
  BY <1>9, <1>15 DEF StandsFor
<1>17. ASSUME NEW q \in Ref(k), IsInterned(k, q), q # r PROVE InternValue(k, q) # InternValue(k, r)
  <2>1. q \in Ref(h) /\ IsInterned(h, q)
    BY <1>8, <1>12, <1>17
  <2>2. InternValue(k, q) = InternValue(h, q)
    BY <1>10, <2>1, KeepsInterned DEF HeapOK
  <2>3. InternValue(k, r) = Obj(h, s).value
    BY <1>9, <1>15 DEF InternValue
  <2>4. QED
    BY <2>1, <2>2, <2>3
<1>18. \A q \in Ref(k) : NewIntern(h, k, q) => q = r
  BY <1>8, <1>12 DEF NewIntern
<1>19. HeapOK(k)
  <2>1. \A q \in Ref(k) : NewIntern(h, k, q) =>
               /\ StandsFor(k, Obj(k, q).intern, Obj(k, q).bytes)
               /\ \A p \in Ref(k) : IsInterned(k, p) /\ p # q => InternValue(k, p) # InternValue(k, q)
    BY <1>9, <1>16, <1>17, <1>18
  <2>2. QED
    BY <1>6, <1>8, <1>10, <1>11, <2>1, KeepsOK
<1>20. QED
  BY <1>7, <1>9, <1>10, <1>19

LEMMA Jstrings ==
    ASSUME NEW h, HeapOK(h), NEW r, Is(h, r, "kstring"), Canonical(Obj(h, r).bytes)
    PROVE  LET x == Jstring(Answer(h, r)) IN
           /\ HeapOK(x.heap) /\ Keeps(h, x.heap)
           /\ IsInterned(x.heap, r) /\ Obj(x.heap, r).intern = x.ref /\ x.ref # 0
           /\ Obj(x.heap, r).bytes = Obj(h, r).bytes
           /\ StandsFor(x.heap, x.ref, Obj(h, r).bytes)
<1>1. Answer(h, r).heap = h /\ Answer(h, r).ref = r /\ r \in Ref(h)
  BY DEF Answer, Is
<1>2. CASE IsInterned(h, r)
  <2>1. Jstring(Answer(h, r)) = [heap |-> h, ref |-> Obj(h, r).intern]
    BY <1>1, <1>2 DEF Jstring, IsInterned, Answer
  <2>2. Keeps(h, h)
    BY DEF Keeps, IsInterned, Is
  <2>3. StandsFor(h, Obj(h, r).intern, Obj(h, r).bytes)
    BY <1>1, <1>2 DEF HeapOK, Linked
  <2>4. QED
    BY <1>2, <2>1, <2>2, <2>3 DEF IsInterned
<1>3. CASE ~IsInterned(h, r)
  <2> DEFINE text == UnpackUtf8(Obj(h, r).bytes)
             y == WholeString(CharsOf(h, text))
  <2>1. Obj(h, r).intern = 0
    BY <1>3 DEF IsInterned
  <2>2. Jstring(Answer(h, r)) = InternedAs(r, y)
    BY <1>1, <2>1 DEF Jstring, Jarray
  <2>3. text \in Seq(Character)
    BY DEF Canonical
  <2>4. OwnString(h, y.heap, y.ref, text)
    BY <2>3, FreshString
  <2>5. PICK k, s : k = y.heap /\ s = y.ref
    OBVIOUS
  <2>6. y = Answer(k, s)
    BY <2>5 DEF WholeString, Made, Answer
  <2> HIDE DEF y
  <2>7. /\ HeapOK(k) /\ Keeps(h, k) /\ Is(k, s, "String")
        /\ Obj(k, s).offset = 0 /\ Obj(k, s).count = Len(text) /\ Slots(k, s) = text
        /\ Obj(k, r) = Obj(h, r)
        /\ \A q \in Ref(k) : IsInterned(k, q) => InternValue(k, q) # Obj(k, s).value
    BY <1>1, <2>4, <2>5 DEF OwnString
  <2>8. Is(k, r, "kstring") /\ ~IsInterned(k, r) /\ r \in Ref(k)
    BY <1>1, <2>1, <2>7 DEF Keeps, Is, IsInterned
  <2>9. StandsFor(k, s, Obj(k, r).bytes)
    BY <2>7 DEF StandsFor
  <2>10. PICK l : l = InternedAs(r, Answer(k, s)).heap
    OBVIOUS
  <2>11. HeapOK(l) /\ Keeps(k, l) /\ IsInterned(l, r) /\ Obj(l, r).intern = s /\ Obj(l, r).bytes = Obj(h, r).bytes
    BY <2>7, <2>8, <2>9, <2>10, Interns
  <2>12. InternedAs(r, Answer(k, s)) = [heap |-> l, ref |-> s]
    BY <2>10 DEF InternedAs, Answer
  <2>13. Keeps(h, l)
    BY <2>7, <2>11, KeepsOn
  <2>14. r \in Ref(l)
    BY <2>11 DEF IsInterned, Is
  <2>15. StandsFor(l, s, Obj(h, r).bytes) /\ s # 0
    BY <2>11, <2>14 DEF HeapOK, Linked, IsInterned
  <2>16. QED
    BY <2>2, <2>6, <2>11, <2>12, <2>13, <2>15
<1>4. QED
  BY <1>2, <1>3

(* string_pool_lookup *)
FoundString(h, x, bytes) ==
    /\ HeapOK(x.heap) /\ Keeps(h, x.heap)
    /\ Is(x.heap, x.ref, "kstring") /\ Obj(x.heap, x.ref).bytes = bytes

LEMMA LookupHits ==
    ASSUME NEW h, HeapOK(h), NEW bytes \in Seq(Nat), Matching(h, bytes) # {}
    PROVE  FoundString(h, Lookup(h, bytes), bytes)
<1>1. PICK i \in 0 .. (HashSize - 1) : i = Hash(bytes)
  BY HashIn
<1>2. PICK chain : chain = h.bucket[i]
  OBVIOUS
<1>3. chain \in Seq(Ref(h)) /\ \A n \in DOMAIN chain : Is(h, chain[n], "kstring")
  BY <1>2 DEF HeapOK, Pool
<1>4. PICK n : n = Min(Matching(h, bytes))
  OBVIOUS
<1>5. n \in Matching(h, bytes)
  <2>1. Matching(h, bytes) \subseteq Nat
    BY <1>1, <1>2, <1>3 DEF Matching
  <2>2. QED
    BY <1>4, <2>1, LeastOf
<1>6. n \in DOMAIN chain /\ Obj(h, chain[n]).bytes = bytes
  BY <1>1, <1>2, <1>5 DEF Matching
<1>7. Lookup(h, bytes) = [heap |-> h, ref |-> chain[n]]
  BY <1>1, <1>2, <1>4 DEF Lookup, Answer
<1>8. Keeps(h, h)
  BY DEF Keeps, IsInterned, Is
<1>9. QED
  BY <1>3, <1>6, <1>7, <1>8 DEF FoundString

(* What the header keeps of the size of a native string is enough for it,  *)
(* unless it is too long.                                                  *)
LEMMA StringFits ==
    ASSUME NEW o, o.is = "kstring", o.bytes \in Seq(Nat)
    PROVE  Enough(o, VmArraySize(Len(o.bytes) + 1, 1))
<1>1. PICK n \in Nat : n = Len(o.bytes)
  OBVIOUS
<1>2. PICK l \in Nat \ {0} : l = 2^LengthBits
  BY HeapAssumption, Powers
<1>3. PICK w \in Nat \ {0} : w = 2^SizeBits
  BY HeapAssumption, Powers
<1>4. PICK room \in Nat : room = Room(o) /\ room = n + 9
  BY <1>1, Rooms DEF ArrayOverhead
<1>5. CASE n + 1 >= l \/ room >= w
  BY <1>1, <1>2, <1>3, <1>4, <1>5 DEF Enough, TooLong
<1>6. CASE n + 1 < l /\ room < w
  <2>1. ((n + 1) % l) = n + 1 /\ ((n + 9) % w) = n + 9
    <3>1. \A a \in Nat, d \in Nat \ {0} : a < d => (a % d) = a
      OBVIOUS
    <3>2. n + 9 < w /\ n + 1 \in Nat /\ n + 9 \in Nat
      BY <1>4, <1>6
    <3>3. QED
      BY <1>2, <1>3, <1>6, <3>1, <3>2
  <2>2. 1 * (n + 1) + 8 = n + 9
    OBVIOUS
  <2>3. VmArraySize(n + 1, 1) = n + 9
    BY <1>2, <1>3, <2>1, <2>2 DEF VmArraySize, ArrayOverhead
  <2>4. QED
    BY <1>1, <1>4, <2>3 DEF Enough
<1>7. QED
  BY <1>2, <1>3, <1>5, <1>6

LEMMA EntryFits ==
    ASSUME NEW o, o.is = "entry"
    PROVE  Enough(o, EntrySize % 2^LengthBits)
<1>1. PICK l \in Nat \ {0} : l = 2^LengthBits
  BY HeapAssumption, Powers
<1>2. (EntrySize % l) = EntrySize
  BY <1>1, EntryAssumption DEF EntrySize
<1>3. QED
  BY <1>1, <1>2, Rooms DEF Enough, EntrySize

LEMMA LookupEnters ==
    ASSUME NEW h, HeapOK(h), NEW bytes \in Seq(Nat), Matching(h, bytes) = {}
    PROVE  FoundString(h, Lookup(h, bytes), bytes)
<1>1. PICK i \in 0 .. (HashSize - 1) : i = Hash(bytes)
  BY HashIn
<1> DEFINE string == [is |-> "kstring", bytes |-> bytes, intern |-> 0]
           entry  == [is |-> "entry"]
           g == NewVmArray(h, Len(bytes) + 1, 1, string)
           e == NewVmObject(g, EntrySize, entry)
           k == [e EXCEPT !.bucket[i] = <<Newest(g)>> \o @]
<1>2. Lookup(h, bytes) = [heap |-> k, ref |-> Newest(g)]
  BY <1>1 DEF Lookup, Entered, Made, Answer
<1>3. /\ string \in Thing /\ string.is = "kstring" /\ string.bytes = bytes /\ string.intern = 0
      /\ entry \in Thing /\ entry.is = "entry"
  BY DEF Thing
<1> HIDE DEF string, entry
<1>4. Well(h) /\ Pool(h) /\ Len(bytes) + 1 \in Nat /\ EntrySize \in Nat /\ 1 \in Nat
  BY DEF HeapOK, EntrySize
<1>5. Well(g) /\ Added(h, g, string)
  <2>1. Enough(string, VmArraySize(Len(bytes) + 1, 1))
    BY <1>3, StringFits
  <2>2. QED
    BY <1>3, <1>4, <2>1, Allocates
<1>6. Well(e) /\ Added(g, e, entry)
  <2> HIDE DEF g
  <2>1. QED
    BY <1>3, <1>4, <1>5, EntryFits, Allocates
<1> HIDE DEF g, e
<1>7. PICK r : r = Newest(g)
  OBVIOUS
<1>8. /\ k.objs = e.objs /\ k.mem = e.mem /\ k.ok = e.ok /\ DOMAIN k = DOMAIN e
      /\ k.bucket = [h.bucket EXCEPT ![i] = <<r>> \o @]
  <2>1. {"mem", "objs", "ok", "bucket"} \subseteq DOMAIN e
    BY <1>6 DEF Well, HeapInv
  <2>2. e.bucket = h.bucket
    BY <1>5, <1>6 DEF Added
  <2>3. QED
    BY <1>7, <2>1, <2>2
<1> HIDE DEF k
<1>9. Well(k)
  BY <1>6, <1>8 DEF Well, HeapInv, Covered, Apart, Ref, Obj
<1>10. Ref(k) = Ref(e) /\ \A q \in Ref(e) : Obj(k, q) = Obj(e, q)
  BY <1>8 DEF Ref, Obj
<1>11. PICK n : n = Newest(e)
  OBVIOUS
<1>12. /\ Ref(k) = Ref(h) \union {r, n} /\ r \notin Ref(h) /\ n \notin Ref(h) /\ n # r
       /\ Obj(k, r) = string /\ Obj(k, n) = entry
       /\ \A q \in Ref(h) : Obj(k, q) = Obj(h, q)
  BY <1>5, <1>6, <1>7, <1>10, <1>11 DEF Added
<1>13. Is(k, r, "kstring") /\ Obj(k, r).bytes = bytes /\ ~IsInterned(k, r)
  BY <1>3, <1>12 DEF Is, IsInterned
<1>14. \A q \in Ref(k) : q \notin Ref(h) => ~HasArray(k, q) /\ ~Is(k, q, "StringBuffer") /\ ~IsInterned(k, q)
  BY <1>3, <1>12, <1>13 DEF HasArray, Is, IsInterned
<1>15. Keeps(h, k)
  BY <1>12, <1>14 DEF Keeps, Is, IsInterned
<1>16. \A q \in Ref(k) : ~NewIntern(h, k, q)
  BY <1>12, <1>14 DEF NewIntern, IsInterned, Is
<1>17. PICK old : old = h.bucket[i]
  OBVIOUS
<1>18. /\ old \in Seq(Ref(h))
       /\ \A m \in DOMAIN old : Is(h, old[m], "kstring") /\ Hash(Obj(h, old[m]).bytes) = i
       /\ \A m, l \in DOMAIN old : Obj(h, old[m]).bytes = Obj(h, old[l]).bytes => m = l
       /\ DOMAIN h.bucket = 0 .. (HashSize - 1)
  BY <1>4, <1>17 DEF Pool
<1>19. PICK chain : chain = <<r>> \o old
  OBVIOUS
<1>20. PICK A : A = Ref(k)
  OBVIOUS
<1>21. old \in Seq(A) /\ <<r>> \in Seq(A) /\ Len(<<r>>) = 1 /\ <<r>>[1] = r
  <2>1. PICK B : B = Ref(h)
    OBVIOUS
  <2>2. r \in A /\ B \subseteq A
    BY <1>12, <1>20, <2>1
  <2>3. QED
    BY <1>18, <2>1, <2>2
<1>22. /\ chain \in Seq(A) /\ Len(chain) = Len(old) + 1 /\ Len(old) \in Nat
       /\ chain[1] = r /\ \A m \in 1 .. Len(old) : chain[m + 1] = old[m]
  <2>1. /\ chain \in Seq(A) /\ Len(chain) = 1 + Len(old) /\ Len(old) \in Nat
        /\ \A m \in 1 .. Len(chain) : chain[m] = IF m <= 1 THEN <<r>>[m] ELSE old[m - 1]
    BY <1>19, <1>21, ConcatProperties
  <2>2. QED
    BY <1>21, <2>1
<1>23. DOMAIN chain = 1 .. Len(chain) /\ DOMAIN old = 1 .. Len(old)
  BY <1>21, <1>22
<1>24. \A m \in DOMAIN chain : m = 1 \/ (m - 1 \in DOMAIN old /\ chain[m] = old[m - 1])
  BY <1>22, <1>23
<1>25. \A m \in DOMAIN old : /\ old[m] \in Ref(h) /\ Is(k, old[m], "kstring")
                             /\ Obj(k, old[m]).bytes = Obj(h, old[m]).bytes
                             /\ Obj(h, old[m]).bytes # bytes
  <2>1. \A m \in DOMAIN old : old[m] \in Ref(h)
    BY <1>18 DEF Is
  <2>2. \A m \in DOMAIN old : Obj(h, old[m]).bytes # bytes
    BY <1>1, <1>17 DEF Matching
  <2>3. QED
    BY <1>12, <1>18, <2>1, <2>2 DEF Is
<1>26. \A m \in DOMAIN chain : Is(k, chain[m], "kstring") /\ Hash(Obj(k, chain[m]).bytes) = i
  BY <1>1, <1>13, <1>18, <1>22, <1>24, <1>25
<1>27. ASSUME NEW m \in DOMAIN chain, NEW l \in DOMAIN chain,
              Obj(k, chain[m]).bytes = Obj(k, chain[l]).bytes
       PROVE  m = l
  <2>1. CASE m = 1 \/ l = 1
    <3>1. Obj(k, chain[1]).bytes = bytes
      BY <1>13, <1>22
    <3>2. \A o \in DOMAIN chain : o # 1 => Obj(k, chain[o]).bytes # bytes
      BY <1>24, <1>25
    <3>3. QED
      BY <1>27, <2>1, <3>1, <3>2
  <2>2. CASE m # 1 /\ l # 1
    <3>1. /\ m - 1 \in DOMAIN old /\ chain[m] = old[m - 1]
          /\ l - 1 \in DOMAIN old /\ chain[l] = old[l - 1]
      BY <1>24, <2>2
    <3>2. m - 1 = l - 1
      BY <1>18, <1>25, <1>27, <3>1
    <3>3. m \in Nat /\ l \in Nat
      BY <1>22, <1>23
    <3>4. QED
      BY <3>2, <3>3
  <2>3. QED
    BY <2>1, <2>2
<1>28. k.bucket[i] = chain /\ DOMAIN k.bucket = 0 .. (HashSize - 1)
       /\ \A j \in 0 .. (HashSize - 1) : j # i => k.bucket[j] = h.bucket[j]
  BY <1>8, <1>17, <1>18, <1>19
<1>29. ASSUME NEW j \in 0 .. (HashSize - 1)
       PROVE  /\ k.bucket[j] \in Seq(Ref(k))
              /\ \A m \in DOMAIN k.bucket[j] : /\ Is(k, k.bucket[j][m], "kstring")
                                               /\ Hash(Obj(k, k.bucket[j][m]).bytes) = j
              /\ \A m, l \in DOMAIN k.bucket[j] :
                   Obj(k, k.bucket[j][m]).bytes = Obj(k, k.bucket[j][l]).bytes => m = l
  <2>1. CASE j = i
    BY <1>20, <1>22, <1>26, <1>27, <1>28, <2>1
  <2>2. CASE j # i
    <3>1. PICK other : other = h.bucket[j] /\ other = k.bucket[j]
      BY <1>28, <2>2
    <3>2. /\ other \in Seq(Ref(h))
          /\ \A m \in DOMAIN other : Is(h, other[m], "kstring") /\ Hash(Obj(h, other[m]).bytes) = j
          /\ \A m, l \in DOMAIN other : Obj(h, other[m]).bytes = Obj(h, other[l]).bytes => m = l
      <4>1. Pool(h) /\ other = h.bucket[j]
        BY <1>4, <3>1
      <4>2. QED
        BY <4>1 DEF Pool
    <3>3. other \in Seq(A)
      <4>1. PICK B : B = Ref(h)
        OBVIOUS
      <4>2. B \subseteq A
        BY <1>12, <1>20, <4>1
      <4>3. QED
        BY <3>2, <4>1, <4>2
    <3>4. \A m \in DOMAIN other : Is(k, other[m], "kstring") /\ Obj(k, other[m]).bytes = Obj(h, other[m]).bytes
      BY <1>12, <3>2 DEF Is
    <3>5. QED
      BY <1>20, <3>1, <3>2, <3>3, <3>4
  <2>3. QED
    BY <2>1, <2>2
<1>30. ASSUME NEW q \in Ref(k), Is(k, q, "kstring")
       PROVE  \E m \in DOMAIN k.bucket[Hash(Obj(k, q).bytes)] : k.bucket[Hash(Obj(k, q).bytes)][m] = q
  <2>1. CASE q = r
    <3>1. 1 \in DOMAIN chain
      BY <1>22, <1>23
    <3>2. Hash(Obj(k, q).bytes) = i
      BY <1>1, <1>13, <2>1
    <3>3. QED
      BY <1>22, <1>28, <2>1, <3>1, <3>2
  <2>2. CASE q # r
    <3>1. q \in Ref(h) /\ Is(h, q, "kstring") /\ Obj(k, q) = Obj(h, q)
      BY <1>3, <1>12, <1>30, <2>2 DEF Is
    <3>2. PICK m \in DOMAIN h.bucket[Hash(Obj(h, q).bytes)] : h.bucket[Hash(Obj(h, q).bytes)][m] = q
      BY <1>4, <3>1 DEF Pool
    <3>3. CASE Hash(Obj(h, q).bytes) = i
      <4>1. m \in DOMAIN old /\ old[m] = q
        BY <1>17, <3>2, <3>3
      <4>2. m + 1 \in DOMAIN chain /\ chain[m + 1] = q
        BY <1>22, <1>23, <4>1
      <4>3. QED
        BY <1>28, <3>1, <3>3, <4>2
    <3>4. CASE Hash(Obj(h, q).bytes) # i
      <4>1. Hash(Obj(h, q).bytes) \in 0 .. (HashSize - 1)
        <5>1. Obj(h, q).bytes \in Seq(Nat)
          BY <1>4, <3>1, References, Things DEF Is
        <5>2. QED
          BY <5>1, HashIn
      <4>2. QED
        BY <1>28, <3>1, <3>2, <3>4, <4>1
    <3>5. QED
      BY <3>3, <3>4
  <2>3. QED
    BY <2>1, <2>2
<1>31. Pool(k)
  BY <1>28, <1>29, <1>30 DEF Pool
<1>32. HeapOK(k)
  BY <1>9, <1>14, <1>15, <1>16, <1>31, KeepsOK
<1>33. QED
  BY <1>2, <1>7, <1>13, <1>15, <1>32 DEF FoundString

LEMMA Lookups ==
    ASSUME NEW h, HeapOK(h), NEW bytes \in Seq(Nat)
    PROVE  FoundString(h, Lookup(h, bytes), bytes)
BY LookupHits, LookupEnters

(* That something was written outside its object moves no object. *)
LEMMA OnlyOk ==
    ASSUME NEW h, HeapOK(h), NEW p \in BOOLEAN, p => h.ok
    PROVE  HeapOK([h EXCEPT !.ok = p]) /\ Keeps(h, [h EXCEPT !.ok = p])
<1> DEFINE k == [h EXCEPT !.ok = p]
<1>1. Well(h)
  BY DEF HeapOK
<1>2. /\ k.objs = h.objs /\ k.mem = h.mem /\ k.ok = p /\ DOMAIN k = DOMAIN h /\ k.bucket = h.bucket
  BY <1>1 DEF Well, HeapInv
<1> HIDE DEF k
<1>3. Well(k)
  BY <1>1, <1>2 DEF Well, HeapInv, Covered, Apart, Ref, Obj
<1>4. Ref(k) = Ref(h) /\ \A r \in Ref(h) : Obj(k, r) = Obj(h, r)
  BY <1>2 DEF Ref, Obj
<1>5. Keeps(h, k)
  BY <1>4 DEF Keeps, Is, IsInterned
<1>6. Pool(k)
  BY <1>2, <1>4, <1>5, PoolStays DEF HeapOK
<1>7. \A r \in Ref(k) : ~NewIntern(h, k, r)
  BY <1>4 DEF NewIntern, IsInterned, Is
<1>8. HeapOK(k)
  BY <1>3, <1>4, <1>5, <1>6, <1>7, KeepsOK
<1>9. QED
  BY <1>5, <1>8 DEF k

(* The Java string of a text, from the pool. *)
GotString(h, x, bytes) ==
    /\ HeapOK(x.heap) /\ Keeps(h, x.heap)
    /\ \E r \in Ref(x.heap) : /\ IsInterned(x.heap, r) /\ Obj(x.heap, r).bytes = bytes
                              /\ Obj(x.heap, r).intern = x.ref
    /\ x.ref # 0 /\ StandsFor(x.heap, x.ref, bytes)

LEMMA InternedGot ==
    ASSUME NEW h, HeapOK(h), NEW bytes \in Seq(Nat), Canonical(bytes)
    PROVE  GotString(h, Interned(h, bytes), bytes)
<1>1. FoundString(h, Lookup(h, bytes), bytes)
  BY Lookups
<1>2. PICK k, r : k = Lookup(h, bytes).heap /\ r = Lookup(h, bytes).ref
  OBVIOUS
<1>3. Lookup(h, bytes) = Answer(k, r)
  BY <1>2 DEF Lookup, Entered, Answer
<1>4. HeapOK(k) /\ Keeps(h, k) /\ Is(k, r, "kstring") /\ Obj(k, r).bytes = bytes
  BY <1>1, <1>2 DEF FoundString
<1>5. PICK x : x = Jstring(Answer(k, r))
  OBVIOUS
<1>6. /\ HeapOK(x.heap) /\ Keeps(k, x.heap)
      /\ IsInterned(x.heap, r) /\ Obj(x.heap, r).intern = x.ref /\ x.ref # 0
      /\ Obj(x.heap, r).bytes = bytes
      /\ StandsFor(x.heap, x.ref, bytes)
  BY <1>4, <1>5, Jstrings
<1>7. Keeps(h, x.heap) /\ r \in Ref(x.heap)
  BY <1>4, <1>6, KeepsOn DEF IsInterned, Is
<1>8. QED
  BY <1>3, <1>5, <1>6, <1>7 DEF Interned, GotString

LEMMA TextsAreCanonical ==
    ASSUME NEW t \in Seq(Character)
    PROVE  PackUtf8(t) \in Seq(Nat) /\ Canonical(PackUtf8(t))
<1>1. UnpackUtf8(PackUtf8(t)) = t
  BY TextsSurviveUtf8
<1>2. QED
  BY <1>1, PackIn DEF Canonical

LEMMA ContentOfString ==
    ASSUME NEW h, HeapOK(h), NEW s, NEW bytes, StandsFor(h, s, bytes)
    PROVE  /\ Content(h, s) = Slots(h, s)
           /\ \A r \in Ref(h) : IsInterned(h, r) /\ Obj(h, r).bytes = bytes /\ Obj(h, r).intern = s =>
                 Lent(h, Obj(h, s).value) \/ Content(h, s) = UnpackUtf8(bytes)
<1>1. Is(h, s, "String") /\ HasArray(h, s) /\ s \in Ref(h)
  BY DEF StandsFor, HasArray, Is
<1>2. HoldsWell(h, s) /\ Well(h)
  BY <1>1 DEF HeapOK, Linked
<1>3. Slots(h, s) \in Seq(Character)
  <2>1. Is(h, Obj(h, s).value, "chars")
    BY <1>2 DEF HoldsWell
  <2>2. QED
    BY <1>2, <2>1, References, Things DEF Is, Slots
<1>4. Obj(h, s).offset = 0 /\ Obj(h, s).count = Len(Slots(h, s)) /\ Obj(h, s).is = "String"
  BY <1>1 DEF StandsFor, Is
<1>5. Content(h, s) = Slots(h, s)
  <2>1. PICK t \in Seq(Character) : t = Slots(h, s)
    BY <1>3
  <2>2. 0 + 1 = 1 /\ 0 + Len(t) = Len(t) /\ SubSeq(t, 1, Len(t)) = t
    BY SubSeqFull
  <2>3. QED
    BY <1>4, <2>1, <2>2 DEF Content
<1>6. ASSUME NEW r \in Ref(h), IsInterned(h, r), Obj(h, r).bytes = bytes, Obj(h, r).intern = s,
             Slots(h, s) # UnpackUtf8(bytes)
      PROVE  Lent(h, Obj(h, s).value)
  <2>1. OnlyA(bytes)
    BY <1>6 DEF StandsFor
  <2>2. InternValue(h, r) = Obj(h, s).value
    BY <1>6 DEF InternValue
  <2>3. QED
    BY <1>6, <2>1, <2>2, Lends
<1>7. QED
  BY <1>5, <1>6

(* get_kstring_from_jstring *)
LEMMA Kstrings ==
    ASSUME NEW h, HeapOK(h), NEW s, Is(h, s, "String")
    PROVE  LET x == Kstring(h, s) IN
           /\ HeapOK(x.heap) /\ Keeps(h, x.heap)
           /\ Obj(x.heap, x.ref).bytes \in Seq(Nat)
<1>1. s \in Ref(h) /\ HasArray(h, s)
  BY DEF Is, HasArray
<1>2. HoldsWell(h, s) /\ Well(h) /\ h.ok \in BOOLEAN
  BY <1>1 DEF HeapOK, Linked, Well
<1>3. Slots(h, s) \in Seq(Character)
  <2>1. Is(h, Obj(h, s).value, "chars")
    BY <1>2 DEF HoldsWell
  <2>2. QED
    BY <1>2, <2>1, References, Things DEF Is, Slots
<1>4. PICK bytes \in Seq(Nat) : bytes = PackUtf8(Slots(h, s)) /\ Canonical(bytes)
  BY <1>3, TextsAreCanonical
<1>5. PICK p \in BOOLEAN : p = (h.ok /\ Len(bytes) < PackRoom)
  OBVIOUS
<1>6. PICK g : g = [h EXCEPT !.ok = p]
  OBVIOUS
<1>7. HeapOK(g) /\ Keeps(h, g)
  BY <1>5, <1>6, OnlyOk
<1>8. PICK k, r : k = Lookup(g, bytes).heap /\ r = Lookup(g, bytes).ref
  OBVIOUS
<1>9. HeapOK(k) /\ Keeps(g, k) /\ Is(k, r, "kstring") /\ Obj(k, r).bytes = bytes
  BY <1>7, <1>8, Lookups DEF FoundString
<1>10. Lookup(g, bytes) = Answer(k, r)
  BY <1>8 DEF Lookup, Entered, Answer
<1>11. PICK l : l = Jstring(Answer(k, r)).heap
  OBVIOUS
<1>12. HeapOK(l) /\ Keeps(k, l) /\ Obj(l, r).bytes = bytes
  BY <1>4, <1>9, <1>11, Jstrings
<1>13. Keeps(h, l)
  BY <1>7, <1>9, <1>12, KeepsOn
<1>14. Kstring(h, s) = [heap |-> l, ref |-> r]
  <2>1. g = [h EXCEPT !.ok = @ /\ Len(bytes) < PackRoom]
    BY <1>5, <1>6
  <2>2. Packs(h, bytes) = Answer(k, r)
    BY <1>10, <2>1 DEF Packs
  <2>3. QED
    BY <1>4, <1>11, <2>2 DEF Kstring, KstringOf, Slots, Answer
<1>15. QED
  BY <1>12, <1>13, <1>14

-----------------------------------------------------------------------------
(* What the program has: arrays of its own, the strings and buffers it was *)
(* given with their texts, and the interned strings it was given.          *)

OwnOK(h, arrays) ==
    \A a \in arrays : IsArray(h, a) /\ \A r \in Ref(h) : HasArray(h, r) => Obj(h, r).value # a

HoldsText(h, r, text) == Lent(h, Obj(h, r).value) \/ Content(h, r) = text

SaidOK(h, buffers, texts) ==
    /\ \A r \in DOMAIN texts : HasArray(h, r) /\ HoldsText(h, r, texts[r])
    /\ buffers = {r \in DOMAIN texts : Is(h, r, "StringBuffer")}

(* The interned string r of this text. *)
InPool(h, r, text) ==
    /\ text \in Seq(Character) /\ r # 0
    /\ \E k \in Ref(h) : /\ IsInterned(h, k) /\ Obj(h, k).bytes = PackUtf8(text)
                         /\ Obj(h, k).intern = r

ResultsOK(h, texts, given) ==
    \A x \in given : x.ref \in DOMAIN texts /\ InPool(h, x.ref, x.text)

World(h, arrays, buffers, texts, given) ==
    HeapOK(h) /\ OwnOK(h, arrays) /\ SaidOK(h, buffers, texts) /\ ResultsOK(h, texts, given)

LEMMA OwnKept ==
    ASSUME NEW h, NEW k, NEW arrays, OwnOK(h, arrays), Keeps(h, k)
    PROVE  OwnOK(k, arrays)
<1> SUFFICES ASSUME NEW a \in arrays
             PROVE  IsArray(k, a) /\ \A r \in Ref(k) : HasArray(k, r) => Obj(k, r).value # a
  BY DEF OwnOK
<1>1. IsArray(h, a) /\ a \in Ref(h) /\ \A r \in Ref(h) : HasArray(h, r) => Obj(h, r).value # a
  BY DEF OwnOK, IsArray, Is
<1>2. IsArray(k, a)
  BY <1>1, KeepsHolders DEF IsArray
<1>3. ASSUME NEW r \in Ref(k), HasArray(k, r) PROVE Obj(k, r).value # a
  <2>1. CASE r \in Ref(h)
    <3>1. HasArray(h, r) /\ Obj(k, r) = Obj(h, r)
      BY <1>3, <2>1 DEF Keeps, HasArray, Is
    <3>2. QED
      BY <1>1, <2>1, <3>1
  <2>2. CASE r \notin Ref(h)
    BY <1>1, <1>3, <2>2 DEF Keeps, HasArray
  <2>3. QED
    BY <2>1, <2>2
<1>4. QED
  BY <1>2, <1>3

LEMMA TextKept ==
    ASSUME NEW h, NEW k, HeapOK(h), Keeps(h, k), NEW r, HasArray(h, r), NEW text, HoldsText(h, r, text)
    PROVE  HasArray(k, r) /\ HoldsText(k, r, text)
<1>1. r \in Ref(h) /\ Linked(h)
  BY DEF HasArray, Is, HeapOK
<1>2. HoldsWell(h, r)
  BY <1>1 DEF Linked
<1>3. HasArray(k, r) /\ Obj(k, r) = Obj(h, r) /\ Content(k, r) = Content(h, r)
  BY <1>1, <1>2, KeepsContent
<1>4. Lent(h, Obj(h, r).value) => Lent(k, Obj(h, r).value)
  BY <1>1, KeepsLent
<1>5. QED
  BY <1>3, <1>4 DEF HoldsText

LEMMA InPoolKept ==
    ASSUME NEW h, NEW k, HeapOK(h), Keeps(h, k), NEW r, NEW text, InPool(h, r, text)
    PROVE  InPool(k, r, text)
<1>1. PICK n \in Ref(h) : IsInterned(h, n) /\ Obj(h, n).bytes = PackUtf8(text) /\ Obj(h, n).intern = r
  BY DEF InPool
<1>2. n \in Ref(k) /\ IsInterned(k, n) /\ Obj(k, n).bytes = PackUtf8(text) /\ Obj(k, n).intern = r
  BY <1>1, KeepsInterned DEF HeapOK
<1>3. QED
  BY <1>2 DEF InPool

LEMMA WorldKept ==
    ASSUME NEW h, NEW k, NEW arrays, NEW buffers, NEW texts, NEW given,
           World(h, arrays, buffers, texts, given), HeapOK(k), Keeps(h, k)
    PROVE  World(k, arrays, buffers, texts, given)
<1>1. OwnOK(k, arrays)
  BY OwnKept DEF World
<1>2. \A r \in DOMAIN texts : HasArray(k, r) /\ HoldsText(k, r, texts[r])
  BY TextKept DEF World, SaidOK
<1>3. \A r \in DOMAIN texts : Is(h, r, "StringBuffer") <=> Is(k, r, "StringBuffer")
  <2>1. \A r \in DOMAIN texts : HasArray(h, r) /\ r \in Ref(h)
    BY DEF World, SaidOK, HasArray, Is
  <2>2. \A r \in DOMAIN texts : Obj(k, r) = Obj(h, r) /\ r \in Ref(k)
    BY <2>1, KeepsHolders DEF Keeps
  <2>3. QED
    BY <2>1, <2>2 DEF Is
<1>4. SaidOK(k, buffers, texts)
  BY <1>2, <1>3 DEF World, SaidOK
<1>5. ResultsOK(k, texts, given)
  BY InPoolKept DEF World, ResultsOK
<1>6. QED
  BY <1>1, <1>4, <1>5 DEF World

(* The program is given a string it has or has not. *)
LEMMA SaidGiven ==
    ASSUME NEW h, NEW buffers, NEW texts, SaidOK(h, buffers, texts),
           NEW r, Is(h, r, "String"), NEW text, HoldsText(h, r, text)
    PROVE  SaidOK(h, buffers, Told(texts, r, text)) /\ r \in DOMAIN Told(texts, r, text)
<1>1. HasArray(h, r) /\ ~Is(h, r, "StringBuffer")
  BY DEF HasArray, Is
<1>2. CASE r \in DOMAIN texts
  BY <1>2 DEF Told
<1>3. CASE r \notin DOMAIN texts
  <2>1. PICK more : more = Told(texts, r, text)
    OBVIOUS
  <2>2. DOMAIN more = DOMAIN texts \union {r} /\ more[r] = text
        /\ \A q \in DOMAIN texts : more[q] = texts[q]
    BY <1>3, <2>1 DEF Told
  <2>3. QED
    BY <1>1, <2>1, <2>2 DEF SaidOK
<1>4. QED
  BY <1>2, <1>3

LEMMA WorldGiven ==
    ASSUME NEW h, NEW arrays, NEW buffers, NEW texts, NEW given,
           World(h, arrays, buffers, texts, given),
           NEW x, NEW text \in Seq(Character), GotString(h, x, PackUtf8(text))
    PROVE  World(x.heap, arrays, buffers, Told(texts, x.ref, text),
                 given \union {[ref |-> x.ref, text |-> text]})
<1>1. PICK k, s : k = x.heap /\ s = x.ref
  OBVIOUS
<1>2. /\ HeapOK(k) /\ Keeps(h, k) /\ s # 0 /\ StandsFor(k, s, PackUtf8(text))
      /\ \E r \in Ref(k) : /\ IsInterned(k, r) /\ Obj(k, r).bytes = PackUtf8(text)
                           /\ Obj(k, r).intern = s
  BY <1>1 DEF GotString
<1>3. InPool(k, s, text) /\ Is(k, s, "String")
  BY <1>2 DEF InPool, StandsFor
<1>4. HoldsText(k, s, text)
  <2>1. Lent(k, Obj(k, s).value) \/ Content(k, s) = UnpackUtf8(PackUtf8(text))
    BY <1>2, ContentOfString
  <2>2. QED
    BY <2>1, TextsSurviveUtf8 DEF HoldsText
<1>5. World(k, arrays, buffers, texts, given)
  BY <1>2, WorldKept
<1>6. PICK more : more = Told(texts, s, text)
  OBVIOUS
<1>7. SaidOK(k, buffers, more) /\ s \in DOMAIN more
  BY <1>3, <1>4, <1>5, <1>6, SaidGiven DEF World
<1>8. DOMAIN texts \subseteq DOMAIN more
  BY <1>6 DEF Told
<1>9. ResultsOK(k, more, given \union {[ref |-> s, text |-> text]})
  BY <1>3, <1>5, <1>7, <1>8 DEF World, ResultsOK
<1>10. QED
  BY <1>1, <1>5, <1>6, <1>7, <1>9 DEF World

-----------------------------------------------------------------------------
(* The inductive invariant                                                  *)

Inv ==
    /\ World(heap, own, bufs, said, results)
    /\ Trusted => heap.ok

(* What is written in its text holds for a buffer and for a string alike. *)
LEMMA TextIsContent ==
    ASSUME Inv, NEW r \in DOMAIN said
    PROVE  Text(r) = Content(heap, r)
BY DEF Inv, World, SaidOK, HoldsText, Text, Tainted

LEMMA ContentIn ==
    ASSUME NEW h, HeapOK(h), NEW r, HasArray(h, r)
    PROVE  /\ Slots(h, r) \in Seq(Character) /\ Is(h, Obj(h, r).value, "chars")
           /\ Obj(h, r).count \in Nat /\ Obj(h, r).value \in Nat
           /\ r \in Ref(h) /\ Obj(h, r) \in Thing
           /\ Is(h, r, "String") => Obj(h, r).offset \in Nat
           /\ End(Obj(h, r)) \in Nat /\ End(Obj(h, r)) <= Len(Slots(h, r))
           /\ Content(h, r) \in Seq(Character) /\ Len(Content(h, r)) = Obj(h, r).count
<1>1. r \in Ref(h) /\ Well(h) /\ Linked(h)
  BY DEF HasArray, Is, HeapOK
<1>2. HoldsWell(h, r)
  BY <1>1 DEF Linked
<1>3. Is(h, Obj(h, r).value, "chars") /\ End(Obj(h, r)) <= Len(Slots(h, r))
  BY <1>2 DEF HoldsWell
<1>4. Slots(h, r) \in Seq(Character)
  BY <1>1, <1>3, References, Things DEF Is, Slots
<1>5. Obj(h, r) \in Thing
  BY <1>1, References
<1>6. /\ Obj(h, r).count \in Nat /\ Obj(h, r).value \in Nat
      /\ Is(h, r, "String") => Obj(h, r).offset \in Nat
      /\ End(Obj(h, r)) \in Nat
  BY <1>5, Things DEF HasArray, Is, End
<1>7. PICK t \in Seq(Character) : t = Slots(h, r)
  BY <1>4
<1>8. CASE Is(h, r, "String")
  <2>1. PICK from \in Nat, n \in Nat : from = Obj(h, r).offset /\ n = Obj(h, r).count
    BY <1>6, <1>8
  <2>2. Content(h, r) = SubSeq(t, from + 1, from + n) /\ from + n <= Len(t)
    BY <1>3, <1>7, <1>8, <2>1 DEF Content, End, Is
  <2>3. SubSeq(t, from + 1, from + n) \in Seq(Character) /\ Len(SubSeq(t, from + 1, from + n)) = n
    BY <2>2, SubSeqProperties
  <2>4. QED
    BY <1>1, <1>3, <1>4, <1>5, <1>6, <2>1, <2>2, <2>3
<1>9. CASE ~Is(h, r, "String")
  <2>1. PICK n \in Nat : n = Obj(h, r).count
    BY <1>6
  <2>2. Content(h, r) = SubSeq(t, 1, n) /\ n <= Len(t)
    BY <1>1, <1>3, <1>7, <1>9, <2>1 DEF Content, End, Is
  <2>3. SubSeq(t, 1, n) \in Seq(Character) /\ Len(SubSeq(t, 1, n)) = n
    BY <2>2, SubSeqProperties
  <2>4. QED
    BY <1>1, <1>3, <1>4, <1>5, <1>6, <2>1, <2>2, <2>3
<1>10. QED
  BY <1>8, <1>9

LEMMA LdcKeeps ==
    ASSUME Inv, NEW text \in Literals, Ldc(text)
    PROVE  Inv'
<1>1. text \in Seq(Character)
  BY ProgramAssumption
<1>2. PICK x : x = Interned(heap, PackUtf8(text))
  OBVIOUS
<1>3. GotString(heap, x, PackUtf8(text))
  BY <1>1, <1>2, InternedGot, TextsAreCanonical DEF Inv, World
<1>4. World(x.heap, own, bufs, Told(said, x.ref, text), results \union {[ref |-> x.ref, text |-> text]})
  BY <1>1, <1>3, WorldGiven DEF Inv
<1>5. /\ heap' = x.heap /\ own' = own /\ bufs' = bufs /\ said' = Told(said, x.ref, text)
      /\ results' = results \union {[ref |-> x.ref, text |-> text]}
      /\ status' = IF x.heap.ok THEN status ELSE "stray"
  BY <1>2 DEF Ldc, Gets, Do, Give, Told
<1>6. QED
  BY <1>4, <1>5 DEF Inv, Trusted

LEMMA ClassForNameKeeps ==
    ASSUME Inv, NEW s \in Strings, ClassForName(s)
    PROVE  Inv'
<1>1. HeapOK(heap) /\ Is(heap, s, "String")
  BY DEF Inv, World, SaidOK, Strings, HasArray, Is
<1>2. PICK x : x = Kstring(heap, s)
  OBVIOUS
<1>3. HeapOK(x.heap) /\ Keeps(heap, x.heap) /\ Obj(x.heap, x.ref).bytes \in Seq(Nat)
  BY <1>1, <1>2, Kstrings
<1>4. Slashed(Obj(x.heap, x.ref).bytes) \in Seq(Nat)
  <2>1. PICK bytes \in Seq(Nat) : bytes = Obj(x.heap, x.ref).bytes
    BY <1>3
  <2>2. Slashed(bytes) \in Seq(Nat)
    BY DEF Slashed
  <2>3. QED
    BY <2>1, <2>2
<1>5. PICK k : k = SlashedName(x).heap
  OBVIOUS
<1>6. HeapOK(k) /\ Keeps(x.heap, k)
  BY <1>3, <1>4, <1>5, Lookups DEF SlashedName, FoundString
<1>7. Keeps(heap, k)
  BY <1>3, <1>6, KeepsOn
<1>8. World(k, own, bufs, said, results)
  BY <1>6, <1>7, WorldKept DEF Inv
<1>9. /\ heap' = k /\ own' = own /\ bufs' = bufs /\ said' = said /\ results' = results
      /\ status' = IF k.ok THEN status ELSE "stray"
  BY <1>2, <1>5 DEF ClassForName, Do
<1>10. QED
  BY <1>8, <1>9 DEF Inv, Trusted

LEMMA GetPropertyKeeps ==
    ASSUME Inv, NEW s \in Strings, SystemGetProperty(s)
    PROVE  Inv'
<1>1. HeapOK(heap) /\ Is(heap, s, "String")
  BY DEF Inv, World, SaidOK, Strings, HasArray, Is
<1>2. PICK x : x = Kstring(heap, s)
  OBVIOUS
<1>3. HeapOK(x.heap) /\ Keeps(heap, x.heap)
  BY <1>1, <1>2, Kstrings
<1>4. PICK key : key = KeyOf(x)
  OBVIOUS
<1>5. Property(x, key) /\ own' = own /\ bufs' = bufs
  BY <1>2, <1>4 DEF SystemGetProperty
<1>6. CASE key \in DOMAIN Keys
  <2>1. PICK text \in Seq(Character) : text = Keys[key]
    BY <1>6, ProgramAssumption
  <2>2. PICK y : y = Interned(x.heap, PackUtf8(text))
    OBVIOUS
  <2>3. GotString(x.heap, y, PackUtf8(text))
    BY <1>3, <2>2, InternedGot, TextsAreCanonical
  <2>4. World(x.heap, own, bufs, said, results)
    BY <1>3, WorldKept DEF Inv
  <2>5. World(y.heap, own, bufs, Told(said, y.ref, text), results \union {[ref |-> y.ref, text |-> text]})
    BY <2>3, <2>4, WorldGiven
  <2>6. /\ heap' = y.heap /\ said' = Told(said, y.ref, text)
        /\ results' = results \union {[ref |-> y.ref, text |-> text]}
        /\ status' = IF y.heap.ok THEN status ELSE "stray"
    BY <1>5, <1>6, <2>1, <2>2 DEF Property, Gets, Do, Give, Told
  <2>7. QED
    BY <1>5, <2>5, <2>6 DEF Inv, Trusted
<1>7. CASE key \notin DOMAIN Keys
  <2>1. UNCHANGED <<heap, said, results>> /\ status' = "thrown" /\ status = "running"
    BY <1>5, <1>7 DEF Property, SystemGetProperty, Running
  <2>2. QED
    BY <1>5, <2>1 DEF Inv, Trusted
<1>8. QED
  BY <1>6, <1>7

LEMMA SubstringKeeps ==
    ASSUME Inv, NEW s \in Strings, NEW from \in 1 .. 2, Substring(s, from)
    PROVE  Inv'
<1>1. HeapOK(heap) /\ Is(heap, s, "String") /\ HasArray(heap, s) /\ s \in DOMAIN said
  BY DEF Inv, World, SaidOK, Strings, HasArray, Is
<1>2. PICK offset \in Nat, count \in Nat : offset = Obj(heap, s).offset /\ count = Obj(heap, s).count
  BY <1>1, ContentIn
<1>3. from < count /\ from \in Nat
  BY <1>2 DEF Substring
<1>4. PICK t \in Seq(Character) : t = Slots(heap, s)
  BY <1>1, ContentIn
<1>5. offset + count <= Len(t)
  BY <1>1, <1>2, <1>4, ContentIn DEF End, Is
<1>6. PICK k : k = NewString(heap, Obj(heap, s).value, offset + from, count - from)
  OBVIOUS
<1>7. PICK n : n = Newest(k)
  OBVIOUS
<1>8. /\ HeapOK(k) /\ Keeps(heap, k) /\ Is(k, n, "String") /\ Slots(k, n) = t
      /\ Obj(k, n).value = Obj(heap, s).value
      /\ Obj(k, n).offset = offset + from /\ Obj(k, n).count = count - from
      /\ n \notin Ref(heap)
  <2>1. offset + from \in Nat /\ count - from \in Nat /\ (offset + from) + (count - from) <= Len(t)
    BY <1>3, <1>5
  <2>2. QED
    BY <1>1, <1>4, <1>6, <1>7, <2>1, StringAdded
<1>9. PICK text : text = SubSeq(Text(s), from + 1, count)
  OBVIOUS
<1>10. Content(k, n) = text
  <2>1. Content(k, n) = SubSeq(t, offset + from + 1, offset + from + (count - from))
    BY <1>8 DEF Content, Is
  <2>2. Text(s) = SubSeq(t, offset + 1, offset + count)
    BY <1>1, <1>2, <1>4, TextIsContent DEF Content, Is
  <2>3. SubSeq(t, offset + 1, offset + count) \in Seq(Character)
        /\ Len(SubSeq(t, offset + 1, offset + count)) = count
    BY <1>5, SubSeqProperties
  <2>4. SubSeq(SubSeq(t, offset + 1, offset + count), from + 1, count)
          = SubSeq(t, offset + 1 + (from + 1) - 1, offset + 1 + count - 1)
    BY <1>3, <1>5, SubSeqOfSubSeq
  <2>5. /\ offset + 1 + (from + 1) - 1 = offset + from + 1
        /\ offset + 1 + count - 1 = offset + from + (count - from)
    BY <1>3
  <2>6. QED
    BY <1>9, <2>1, <2>2, <2>4, <2>5
<1>11. HoldsText(k, n, text)
  BY <1>10 DEF HoldsText
<1>12. World(k, own, bufs, said, results)
  BY <1>8, WorldKept DEF Inv
<1>13. PICK more : more = Told(said, n, text)
  OBVIOUS
<1>14. SaidOK(k, bufs, more) /\ DOMAIN said \subseteq DOMAIN more
  BY <1>8, <1>11, <1>12, <1>13, SaidGiven DEF World, Told
<1>15. World(k, own, bufs, more, results)
  BY <1>12, <1>14 DEF World, ResultsOK
<1>16. said' = more
  BY <1>2, <1>6, <1>7, <1>9, <1>13 DEF Substring
<1>17. /\ heap' = k /\ own' = own /\ bufs' = bufs /\ results' = results
       /\ status' = IF k.ok THEN status ELSE "stray"
  BY <1>2, <1>6 DEF Substring, Do
<1>18. QED
  BY <1>15, <1>16, <1>17 DEF Inv, Trusted

LEMMA ToStringKeeps ==
    ASSUME Inv, NEW b \in bufs, StringBufferToString(b)
    PROVE  Inv'
<1>1. HeapOK(heap) /\ b \in DOMAIN said /\ HasArray(heap, b) /\ Well(heap)
  BY DEF Inv, World, SaidOK, HeapOK
<1>2. PICK text \in Seq(Character) : text = Content(heap, b) /\ text = Text(b)
  BY <1>1, ContentIn, TextIsContent
<1>3. CASE Gets(Stringed(heap, b), Text(b))
  <2> DEFINE lost == [is |-> "lost"]
  <2>1. PICK k : k = NewJavaObject(heap, StringSize, lost)
    OBVIOUS
  <2>2. lost \in Thing /\ lost.is = "lost" /\ StringSize \in Nat
    BY DEF Thing, StringSize
  <2> HIDE DEF lost
  <2>3. Well(k) /\ Added(heap, k, lost)
    BY <1>1, <2>1, <2>2, ObjectFits, Allocates
  <2>4. HeapOK(k) /\ Keeps(heap, k)
    BY <1>1, <2>2, <2>3, PlainAdded
  <2>5. PICK x : x = Interned(k, PackUtf8(text))
    OBVIOUS
  <2>6. GotString(k, x, PackUtf8(text))
    BY <2>4, <2>5, InternedGot, TextsAreCanonical
  <2>7. World(k, own, bufs, said, results)
    BY <2>4, WorldKept DEF Inv
  <2>8. World(x.heap, own, bufs, Told(said, x.ref, text), results \union {[ref |-> x.ref, text |-> text]})
    BY <2>6, <2>7, WorldGiven
  <2>9. Stringed(heap, b) = x
    BY <1>2, <2>1, <2>5 DEF Stringed, Packed, lost
  <2>10. /\ heap' = x.heap /\ said' = Told(said, x.ref, text)
         /\ results' = results \union {[ref |-> x.ref, text |-> text]}
         /\ status' = IF x.heap.ok THEN status ELSE "stray"
    BY <1>2, <1>3, <2>9 DEF Gets, Do, Give, Told
  <2>11. own' = own /\ bufs' = bufs
    BY DEF StringBufferToString
  <2>12. QED
    BY <2>8, <2>10, <2>11 DEF Inv, Trusted
<1>4. CASE ~Gets(Stringed(heap, b), Text(b))
  <2>1. UNCHANGED <<heap, said, results, own, bufs>> /\ status' = "stray"
    BY <1>4 DEF StringBufferToString
  <2>2. QED
    BY <2>1 DEF Inv, Trusted
<1>5. QED
  BY <1>3, <1>4

-----------------------------------------------------------------------------
(* Writes to arrays                                                         *)

(* The array a gets other slots, as many as it had; if b is a buffer it    *)
(* has this array then.  Whoever else has the array has one of letters a.  *)
Overwrites(h, k, b, a, slots) ==
    /\ Well(k) /\ k.bucket = h.bucket /\ Ref(k) = Ref(h)
    /\ IsArray(h, a) /\ Obj(k, a).is = Obj(h, a).is
    /\ slots \in Seq(Character) /\ Obj(k, a).slots = slots /\ Len(slots) = Len(Obj(h, a).slots)
    /\ b \in Ref(h) => /\ Is(h, b, "StringBuffer") /\ Is(k, b, "StringBuffer") /\ Is(h, a, "chars")
                       /\ Obj(k, b).value = a
                       /\ Obj(k, b).count \in Nat /\ Obj(k, b).count <= Len(slots)
    /\ \A r \in Ref(h) : r # a /\ r # b => Obj(k, r) = Obj(h, r)
    /\ \A r \in Ref(h) : HasArray(h, r) /\ r # b /\ Obj(h, r).value = a => Lent(h, a)

LEMMA OthersStay ==
    ASSUME NEW h, NEW k, NEW b, NEW a, NEW slots, Overwrites(h, k, b, a, slots), HeapOK(h)
    PROVE  /\ \A r \in Ref(h) : HasArray(k, r) <=> HasArray(h, r)
           /\ \A r \in Ref(h) : HasArray(h, r) /\ r # b => Obj(k, r) = Obj(h, r)
           /\ \A r \in Ref(h), kind \in {"kstring", "String"} :
                 /\ Is(k, r, kind) <=> Is(h, r, kind)
                 /\ Is(h, r, kind) => Obj(k, r) = Obj(h, r)
           /\ \A r \in Ref(h), kind \in {"chars", "ints", "StringBuffer"} : Is(k, r, kind) <=> Is(h, r, kind)
           /\ \A r \in Ref(h) : IsInterned(k, r) <=> IsInterned(h, r)
           /\ \A r \in Ref(h) : IsInterned(h, r) => InternValue(k, r) = InternValue(h, r)
           /\ \A v : Lent(h, v) => Lent(k, v)
<1>1. a \in Ref(h) /\ (Is(h, a, "chars") \/ Is(h, a, "ints"))
  BY DEF Overwrites, IsArray, Is
<1>2. \A r \in Ref(h), kind \in {"chars", "ints", "StringBuffer", "kstring", "String"} :
         Is(k, r, kind) <=> Is(h, r, kind)
  BY <1>1 DEF Overwrites, Is
<1>3. \A r \in Ref(h), kind \in {"kstring", "String"} : Is(h, r, kind) => r # a /\ r # b
  BY <1>1 DEF Overwrites, Is
<1>4. \A r \in Ref(h), kind \in {"kstring", "String"} : Is(h, r, kind) => Obj(k, r) = Obj(h, r)
  BY <1>3 DEF Overwrites
<1>5. \A r \in Ref(h) : HasArray(h, r) => r # a
  BY <1>1 DEF HasArray, Is
<1>6. \A r \in Ref(h) : HasArray(h, r) /\ r # b => Obj(k, r) = Obj(h, r)
  BY <1>5 DEF Overwrites
<1>7. \A r \in Ref(h) : HasArray(k, r) <=> HasArray(h, r)
  BY <1>2 DEF HasArray
<1>8. \A r \in Ref(h) : IsInterned(k, r) <=> IsInterned(h, r)
  BY <1>2, <1>4 DEF IsInterned
<1>9. ASSUME NEW r \in Ref(h), IsInterned(h, r)
      PROVE  InternValue(k, r) = InternValue(h, r) /\ Obj(k, r) = Obj(h, r)
  <2>1. Obj(k, r) = Obj(h, r)
    BY <1>4, <1>9 DEF IsInterned
  <2>2. Is(h, Obj(h, r).intern, "String")
    BY <1>9 DEF HeapOK, Linked, StandsFor
  <2>3. Obj(k, Obj(h, r).intern) = Obj(h, Obj(h, r).intern)
    BY <1>4, <2>2 DEF Is
  <2>4. QED
    BY <2>1, <2>3 DEF InternValue
<1>10. ASSUME NEW v, Lent(h, v) PROVE Lent(k, v)
  <2>1. PICK r \in Ref(h) : IsInterned(h, r) /\ OnlyA(Obj(h, r).bytes) /\ InternValue(h, r) = v
    BY <1>10, Lends
  <2>2. r \in Ref(k) /\ IsInterned(k, r) /\ OnlyA(Obj(k, r).bytes) /\ InternValue(k, r) = v
    BY <1>8, <1>9, <2>1 DEF Overwrites
  <2>3. QED
    BY <2>2, Lends
<1>11. QED
  BY <1>2, <1>4, <1>6, <1>7, <1>8, <1>9, <1>10

LEMMA OverwritesContent ==
    ASSUME NEW h, NEW k, NEW b, NEW a, NEW slots, Overwrites(h, k, b, a, slots), HeapOK(h),
           NEW r, HasArray(h, r), r # b
    PROVE  /\ HoldsWell(k, r) /\ Len(Slots(k, r)) = Len(Slots(h, r))
           /\ \/ Obj(h, r).value = a /\ Lent(h, a) /\ Lent(k, Obj(k, r).value)
              \/ Slots(k, r) = Slots(h, r) /\ Content(k, r) = Content(h, r)
<1>1. r \in Ref(h) /\ Obj(k, r) = Obj(h, r)
  <2>1. r \in Ref(h)
    BY DEF HasArray, Is
  <2>2. QED
    BY <2>1, OthersStay
<1>2. HoldsWell(h, r)
  BY <1>1 DEF HeapOK, Linked
<1>3. PICK v \in Ref(h) : v = Obj(h, r).value /\ Is(h, v, "chars")
  BY <1>2 DEF HoldsWell, Is
<1>4. Is(k, v, "chars") /\ v # b
  <2>1. v # b
    BY <1>3 DEF Overwrites, Is
  <2>2. QED
    BY <1>3, <2>1, OthersStay
<1>5. CASE v = a
  <2>1. Lent(h, a) /\ Slots(k, r) = slots /\ Len(slots) = Len(Slots(h, r))
    BY <1>1, <1>3, <1>5 DEF Overwrites, Slots
  <2>2. Lent(k, Obj(k, r).value)
    BY <1>1, <1>3, <1>5, <2>1, OthersStay
  <2>3. HoldsWell(k, r)
    BY <1>1, <1>2, <1>3, <1>4, <2>1 DEF HoldsWell
  <2>4. QED
    BY <1>3, <1>5, <2>1, <2>2, <2>3
<1>6. CASE v # a
  <2>1. Obj(k, v) = Obj(h, v)
    BY <1>4, <1>6 DEF Overwrites
  <2>2. Slots(k, r) = Slots(h, r)
    BY <1>1, <1>3, <2>1 DEF Slots
  <2>3. Content(k, r) = Content(h, r)
    BY <1>1, <2>2 DEF Content
  <2>4. HoldsWell(k, r)
    BY <1>1, <1>2, <1>3, <1>4, <2>2 DEF HoldsWell
  <2>5. QED
    BY <2>2, <2>3, <2>4
<1>7. QED
  BY <1>5, <1>6

LEMMA OverwritesOK ==
    ASSUME NEW h, NEW k, NEW b, NEW a, NEW slots, Overwrites(h, k, b, a, slots), HeapOK(h)
    PROVE  HeapOK(k)
<1>1. Ref(k) = Ref(h) /\ Linked(h) /\ Sole(h) /\ Private(h) /\ Pool(h)
  BY DEF Overwrites, HeapOK
<1>2. ASSUME NEW r \in Ref(k), HasArray(k, r) PROVE HoldsWell(k, r)
  <2>1. r \in Ref(h) /\ HasArray(h, r)
    BY <1>1, <1>2, OthersStay
  <2>2. CASE r = b
    <3>1. Is(k, a, "chars") /\ Slots(k, b) = slots /\ b \in Ref(h)
      BY <2>1, <2>2, OthersStay DEF Overwrites, Slots, IsArray, Is
    <3>2. QED
      BY <2>2, <3>1 DEF Overwrites, HoldsWell, End, Is
  <2>3. CASE r # b
    BY <2>1, <2>3, OverwritesContent
  <2>4. QED
    BY <2>2, <2>3
<1>3. ASSUME NEW r \in Ref(k), IsInterned(k, r)
      PROVE  StandsFor(k, Obj(k, r).intern, Obj(k, r).bytes)
  <2>1. r \in Ref(h) /\ IsInterned(h, r) /\ Is(h, r, "kstring")
    BY <1>1, <1>3, OthersStay DEF IsInterned
  <2>2. Obj(k, r) = Obj(h, r)
    BY <2>1, OthersStay
  <2>3. PICK s : s = Obj(h, r).intern
    OBVIOUS
  <2>4. StandsFor(h, s, Obj(h, r).bytes)
    BY <1>1, <2>1, <2>3 DEF Linked
  <2>5. s \in Ref(h) /\ Is(h, s, "String") /\ HasArray(h, s) /\ s # b
    BY <2>4 DEF StandsFor, Is, HasArray, Overwrites
  <2>6. Is(k, s, "String") /\ Obj(k, s) = Obj(h, s)
    BY <2>5, OthersStay
  <2>7. Len(Slots(k, s)) = Len(Slots(h, s))
    BY <2>5, OverwritesContent
  <2>8. OnlyA(Obj(h, r).bytes) \/ Slots(k, s) = UnpackUtf8(Obj(h, r).bytes)
    <3>1. CASE Obj(h, s).value = a /\ Lent(h, a)
      <4>1. PICK q \in Ref(h) : IsInterned(h, q) /\ OnlyA(Obj(h, q).bytes) /\ InternValue(h, q) = a
        BY <3>1, Lends
      <4>2. InternValue(h, r) = a
        BY <2>3, <3>1 DEF InternValue
      <4>3. q = r
        BY <1>1, <2>1, <4>1, <4>2 DEF Sole
      <4>4. QED
        BY <4>1, <4>3
    <3>2. CASE Slots(k, s) = Slots(h, s)
      BY <2>4, <3>2 DEF StandsFor
    <3>3. QED
      BY <2>5, <3>1, <3>2, OverwritesContent
  <2>9. QED
    BY <2>2, <2>3, <2>4, <2>6, <2>7, <2>8 DEF StandsFor
<1>4. Sole(k)
  BY <1>1, OthersStay DEF Sole
<1>5. Private(k)
  <2>1. SUFFICES ASSUME NEW c \in Ref(k), NEW r \in Ref(k), Is(k, c, "StringBuffer"), HasArray(k, r),
                        c # r, Obj(k, c).value = Obj(k, r).value
                 PROVE  Lent(k, Obj(k, c).value)
    BY DEF Private
  <2>2. c \in Ref(h) /\ r \in Ref(h) /\ Is(h, c, "StringBuffer") /\ HasArray(h, r) /\ HasArray(h, c)
    BY <1>1, <2>1, OthersStay DEF HasArray
  <2>3. SUFFICES Lent(h, Obj(k, c).value)
    BY OthersStay
  <2>4. CASE c = b
    <3>1. Obj(k, c).value = a /\ Obj(k, r) = Obj(h, r) /\ r # b
      BY <2>1, <2>2, <2>4, OthersStay DEF Overwrites
    <3>2. QED
      BY <2>1, <2>2, <3>1 DEF Overwrites
  <2>5. CASE r = b
    <3>1. Obj(k, r).value = a /\ Obj(k, c) = Obj(h, c) /\ c # b
      BY <2>1, <2>2, <2>5, OthersStay DEF Overwrites
    <3>2. QED
      BY <2>1, <2>2, <3>1 DEF Overwrites
  <2>6. CASE c # b /\ r # b
    <3>1. Obj(k, c) = Obj(h, c) /\ Obj(k, r) = Obj(h, r)
      BY <2>2, <2>6, OthersStay
    <3>2. QED
      BY <1>1, <2>1, <2>2, <3>1 DEF Private
  <2>7. QED
    BY <2>4, <2>5, <2>6
<1>6. Pool(k)
  <2>1. \A r \in Ref(h) : Is(h, r, "kstring") => Is(k, r, "kstring") /\ Obj(k, r).bytes = Obj(h, r).bytes
    BY OthersStay
  <2>2. \A r \in Ref(k) : Is(k, r, "kstring") => Is(h, r, "kstring")
    BY <1>1, OthersStay
  <2>3. k.bucket = h.bucket
    BY DEF Overwrites
  <2>4. QED
    BY <1>1, <2>1, <2>2, <2>3, PoolSame
<1>7. Well(k)
  BY DEF Overwrites
<1>8. QED
  BY <1>2, <1>3, <1>4, <1>5, <1>6, <1>7 DEF HeapOK, Linked

LEMMA WorldOverwritten ==
    ASSUME NEW h, NEW k, NEW b, NEW a, NEW slots, Overwrites(h, k, b, a, slots),
           NEW arrays, NEW buffers, NEW texts, NEW given,
           World(h, arrays, buffers, texts, given),
           b \in Ref(h) => a \notin arrays,
           NEW more, DOMAIN more = DOMAIN texts,
           \A r \in DOMAIN texts : r # b => more[r] = texts[r],
           b \in DOMAIN texts => Lent(h, a) \/ Content(k, b) = more[b]
    PROVE  World(k, arrays, buffers, more, given)
<1>1. HeapOK(h) /\ HeapOK(k) /\ Ref(k) = Ref(h)
  BY OverwritesOK DEF World, Overwrites
<1>2. ASSUME NEW e \in arrays
      PROVE  IsArray(k, e) /\ \A r \in Ref(k) : HasArray(k, r) => Obj(k, r).value # e
  <2>1. IsArray(h, e) /\ e \in Ref(h) /\ \A r \in Ref(h) : HasArray(h, r) => Obj(h, r).value # e
    BY DEF World, OwnOK, IsArray, Is
  <2>2. IsArray(k, e)
    BY <1>1, <2>1, OthersStay DEF IsArray
  <2>3. ASSUME NEW r \in Ref(k), HasArray(k, r) PROVE Obj(k, r).value # e
    <3>1. CASE r = b
      BY <1>1, <1>2, <3>1 DEF Overwrites
    <3>2. CASE r # b
      BY <1>1, <2>1, <2>3, <3>2, OthersStay
    <3>3. QED
      BY <3>1, <3>2
  <2>4. QED
    BY <2>2, <2>3
<1>3. OwnOK(k, arrays)
  BY <1>2 DEF OwnOK
<1>4. ASSUME NEW r \in DOMAIN texts PROVE HasArray(k, r) /\ HoldsText(k, r, more[r])
  <2>1. HasArray(h, r) /\ HoldsText(h, r, texts[r]) /\ r \in Ref(h)
    BY DEF World, SaidOK, HasArray, Is
  <2>2. HasArray(k, r)
    BY <1>1, <2>1, OthersStay
  <2>3. CASE r = b
    <3>1. Obj(k, r).value = a
      BY <2>1, <2>3 DEF Overwrites
    <3>2. Lent(h, a) => Lent(k, a)
      BY <1>1, OthersStay
    <3>3. QED
      BY <2>2, <2>3, <3>1, <3>2 DEF HoldsText
  <2>4. CASE r # b
    <3>1. Obj(k, r) = Obj(h, r) /\ (Lent(h, Obj(h, r).value) => Lent(k, Obj(h, r).value))
      BY <1>1, <2>1, <2>4, OthersStay
    <3>2. Lent(k, Obj(k, r).value) \/ Content(k, r) = Content(h, r)
      BY <1>1, <2>1, <2>4, OverwritesContent
    <3>3. QED
      BY <2>1, <2>2, <2>4, <3>1, <3>2 DEF HoldsText
  <2>5. QED
    BY <2>3, <2>4
<1>5. \A r \in DOMAIN texts : Is(h, r, "StringBuffer") <=> Is(k, r, "StringBuffer")
  <2>1. \A r \in DOMAIN texts : r \in Ref(h)
    BY DEF World, SaidOK, HasArray, Is
  <2>2. QED
    BY <1>1, <2>1, OthersStay
<1>6. SaidOK(k, buffers, more)
  BY <1>4, <1>5 DEF World, SaidOK
<1>7. ASSUME NEW x \in given PROVE x.ref \in DOMAIN more /\ InPool(k, x.ref, x.text)
  <2>1. x.ref \in DOMAIN more /\ InPool(h, x.ref, x.text)
    BY DEF World, ResultsOK
  <2>2. PICK n \in Ref(h) : /\ IsInterned(h, n) /\ Obj(h, n).bytes = PackUtf8(x.text)
                            /\ Obj(h, n).intern = x.ref
    BY <2>1 DEF InPool
  <2>3. IsInterned(k, n) /\ Obj(k, n) = Obj(h, n) /\ n \in Ref(k)
    BY <1>1, <2>2, OthersStay DEF IsInterned
  <2>4. QED
    BY <2>1, <2>2, <2>3 DEF InPool
<1>8. ResultsOK(k, more, given)
  BY <1>7 DEF ResultsOK
<1>9. QED
  BY <1>1, <1>3, <1>6, <1>8 DEF World

(* memcpy *)
LEMMA CopiedIs ==
    ASSUME NEW S, NEW from \in Seq(S), NEW to \in Seq(S), NEW so \in Nat, NEW do \in Nat, NEW n \in Nat,
           n > 0 => so + n <= Len(from)
    PROVE  LET copy == Copied(from, so, to, do, n) IN
           /\ copy \in Seq(S) /\ Len(copy) = Len(to)
           /\ \A i \in 1 .. Len(to) : copy[i] = IF i > do /\ i <= do + n THEN from[so + i - do] ELSE to[i]
<1> DEFINE copy == Copied(from, so, to, do, n)
<1>1. PICK l \in Nat : l = Len(to) /\ DOMAIN to = 1 .. l
  OBVIOUS
<1>2. PICK m \in Nat : m = Len(from) /\ DOMAIN from = 1 .. m
  OBVIOUS
<1>3. \A i \in 1 .. l : (i - do \in 1 .. n) <=> (i > do /\ i <= do + n)
  OBVIOUS
<1>4. copy = [i \in 1 .. l |-> IF i - do \in 1 .. n THEN from[so + i - do] ELSE to[i]]
  BY <1>1 DEF Copied
<1>5. ASSUME NEW i \in 1 .. l, i - do \in 1 .. n PROVE from[so + i - do] \in S
  <2>1. so + i - do \in 1 .. m
    BY <1>2, <1>5
  <2>2. QED
    BY <1>2, <2>1
<1>6. \A i \in 1 .. l : to[i] \in S
  BY <1>1
<1>7. copy \in [1 .. l -> S]
  BY <1>4, <1>5, <1>6
<1>8. copy \in Seq(S) /\ Len(copy) = l
  BY <1>7
<1>9. QED
  BY <1>1, <1>3, <1>4, <1>8

LEMMA PartIs ==
    ASSUME NEW S, NEW s \in Seq(S), NEW from \in Nat, NEW n \in Nat, from + n <= Len(s)
    PROVE  /\ SubSeq(s, from + 1, from + n) \in Seq(S)
           /\ Len(SubSeq(s, from + 1, from + n)) = n
           /\ \A i \in 1 .. n : SubSeq(s, from + 1, from + n)[i] = s[from + i]
<1>1. PICK l \in Nat : l = Len(s) /\ \A i \in 1 .. l : s[i] \in S
  OBVIOUS
<1>2. PICK first \in Int, last \in Int : first = from + 1 /\ last = from + n
  OBVIOUS
<1>3. \A i \in first .. last : s[i] \in S
  BY <1>1, <1>2
<1>4. PICK part : part = SubSeq(s, first, last)
  OBVIOUS
<1>5. /\ part \in Seq(S)
      /\ Len(part) = IF first <= last THEN last - first + 1 ELSE 0
      /\ \A i \in 1 .. last - first + 1 : part[i] = s[first + i - 1]
  BY <1>3, <1>4, SubSeqProperties
<1>6. Len(part) = n
  BY <1>2, <1>5
<1>7. ASSUME NEW i \in 1 .. n PROVE part[i] = s[from + i]
  <2>1. i \in 1 .. last - first + 1 /\ first + i - 1 = from + i
    BY <1>2
  <2>2. QED
    BY <1>5, <2>1
<1>8. QED
  BY <1>2, <1>4, <1>5, <1>6, <1>7

LEMMA FirstIs ==
    ASSUME NEW S, NEW s \in Seq(S), NEW n \in Nat, n <= Len(s)
    PROVE  /\ SubSeq(s, 1, n) \in Seq(S) /\ Len(SubSeq(s, 1, n)) = n
           /\ \A i \in 1 .. n : SubSeq(s, 1, n)[i] = s[i]
<1>1. 0 + 1 = 1 /\ 0 + n = n /\ 0 \in Nat /\ \A i \in 1 .. n : 0 + i = i
  OBVIOUS
<1>2. /\ SubSeq(s, 0 + 1, 0 + n) \in Seq(S) /\ Len(SubSeq(s, 0 + 1, 0 + n)) = n
      /\ \A i \in 1 .. n : SubSeq(s, 0 + 1, 0 + n)[i] = s[0 + i]
  BY <1>1, PartIs
<1>3. QED
  BY <1>1, <1>2

(* What is appended at c comes behind the first c characters.              *)
Fits(from, to, old, so, c, n) ==
    /\ from \in Seq(Character) /\ to \in Seq(Character) /\ old \in Seq(Character)
    /\ so \in Nat /\ c \in Nat /\ n \in Nat
    /\ so + n <= Len(from) /\ c + n <= Len(to) /\ c <= Len(old)
    /\ \A i \in 1 .. c : to[i] = old[i]

Joins(from, to, old, so, c, n) ==
    SubSeq(Copied(from, so, to, c, n), 1, c + n)
      = SubSeq(old, 1, c) \o SubSeq(from, so + 1, so + n)

LEMMA AppendedText ==
    ASSUME NEW from, NEW to, NEW old, NEW so, NEW c, NEW n, Fits(from, to, old, so, c, n)
    PROVE  Joins(from, to, old, so, c, n)
<1> SUFFICES ASSUME from \in Seq(Character), to \in Seq(Character), old \in Seq(Character),
                    so \in Nat, c \in Nat, n \in Nat,
                    so + n <= Len(from), c + n <= Len(to), c <= Len(old),
                    \A i \in 1 .. c : to[i] = old[i]
             PROVE  Joins(from, to, old, so, c, n)
  BY DEF Fits
<1>1. PICK copy \in Seq(Character) : copy = Copied(from, so, to, c, n)
  BY CopiedIs
<1>2. /\ Len(copy) = Len(to)
      /\ \A i \in 1 .. Len(to) : copy[i] = IF i > c /\ i <= c + n THEN from[so + i - c] ELSE to[i]
  BY <1>1, CopiedIs
<1>3. PICK left \in Seq(Character) : left = SubSeq(old, 1, c)
  BY FirstIs
<1>4. Len(left) = c /\ \A i \in 1 .. c : left[i] = old[i]
  BY <1>3, FirstIs
<1>5. PICK right \in Seq(Character) : right = SubSeq(from, so + 1, so + n)
  BY PartIs
<1>6. Len(right) = n /\ \A i \in 1 .. n : right[i] = from[so + i]
  BY <1>5, PartIs
<1>7. PICK both \in Seq(Character) : both = left \o right
  BY ConcatProperties
<1>8. Len(both) = c + n /\ \A i \in 1 .. c + n : both[i] = IF i <= c THEN left[i] ELSE right[i - c]
  <2>1. /\ Len(both) = Len(left) + Len(right)
        /\ \A i \in 1 .. Len(left) + Len(right) :
             both[i] = IF i <= Len(left) THEN left[i] ELSE right[i - Len(left)]
    BY <1>7, ConcatProperties
  <2>2. Len(left) = c /\ Len(right) = n
    BY <1>4, <1>6
  <2>3. QED
    BY <2>1, <2>2
<1>9. PICK all \in Seq(Character) : all = SubSeq(copy, 1, c + n)
  <2>1. c + n \in Nat /\ c + n <= Len(copy)
    BY <1>2
  <2>2. QED
    BY <2>1, FirstIs
<1>10. Len(all) = c + n /\ \A i \in 1 .. c + n : all[i] = copy[i]
  BY <1>2, <1>9, FirstIs
<1>11. ASSUME NEW i \in 1 .. c + n PROVE all[i] = both[i]
  <2>1. all[i] = copy[i] /\ i \in 1 .. Len(to) /\ i \in Nat
    <3>1. PICK l \in Nat : l = Len(to) /\ c + n <= l
      OBVIOUS
    <3>2. i \in 1 .. l
      BY <3>1
    <3>3. QED
      BY <1>10, <3>1, <3>2
  <2>2. CASE i <= c
    <3>1. i \in 1 .. c
      BY <2>2
    <3>2. copy[i] = to[i] /\ to[i] = old[i]
      <4>1. copy[i] = IF i > c /\ i <= c + n THEN from[so + i - c] ELSE to[i]
        BY <1>2, <2>1
      <4>2. ~(i > c)
        BY <2>1, <2>2
      <4>3. to[i] = old[i]
        BY <3>1
      <4>4. QED
        BY <4>1, <4>2, <4>3
    <3>3. QED
      BY <1>4, <1>8, <2>1, <2>2, <3>1, <3>2
  <2>3. CASE ~(i <= c)
    <3>1. i - c \in 1 .. n /\ i > c /\ i <= c + n
      BY <2>3
    <3>2. copy[i] = from[so + i - c] /\ so + i - c = so + (i - c)
      BY <1>2, <2>1, <3>1
    <3>3. right[i - c] = from[so + (i - c)]
      BY <1>6, <3>1
    <3>4. QED
      BY <1>8, <2>1, <2>3, <3>2, <3>3
  <2>4. QED
    BY <2>2, <2>3
<1>12. all = both
  BY <1>8, <1>10, <1>11, SeqEqual
<1>13. QED
  BY <1>1, <1>3, <1>5, <1>7, <1>9, <1>12 DEF Joins

LEMMA SlotsSet ==
    ASSUME NEW h, Well(h), NEW a, IsArray(h, a), NEW slots \in Seq(Character),
           Len(slots) = Len(Obj(h, a).slots)
    PROVE  /\ Well(SetSlots(h, a, slots))
           /\ Changed(h, SetSlots(h, a, slots), a, [is |-> Obj(h, a).is, slots |-> slots])
<1>1. a \in Ref(h) /\ Obj(h, a).is \in {"chars", "ints"}
  BY DEF IsArray, Is
<1>2. Obj(h, a) \in [is : {"chars", "ints"}, slots : Seq(Character)]
  BY <1>1, References, Things
<1>3. PICK obj : obj = [Obj(h, a) EXCEPT !.slots = slots]
  OBVIOUS
<1>4. obj = [is |-> Obj(h, a).is, slots |-> slots] /\ obj \in Thing
  BY <1>2, <1>3 DEF Thing
<1>5. Room(obj) = Room(Obj(h, a)) /\ TooLong(obj) = TooLong(Obj(h, a))
  <2>1. obj.is = Obj(h, a).is /\ Len(obj.slots) = Len(Obj(h, a).slots)
    BY <1>4
  <2>2. QED
    BY <1>1, <2>1, Rooms DEF TooLong
<1>6. QED
  BY <1>1, <1>3, <1>4, <1>5, PutChanges DEF SetSlots

LEMMA CountSet ==
    ASSUME NEW h, Well(h), NEW b, Is(h, b, "StringBuffer"), NEW count \in Nat
    PROVE  /\ Well(SetCount(h, b, count))
           /\ Changed(h, SetCount(h, b, count), b,
                      [is |-> "StringBuffer", value |-> Obj(h, b).value, count |-> count])
<1>1. b \in Ref(h) /\ Obj(h, b).is = "StringBuffer"
  BY DEF Is
<1>2. Obj(h, b) \in [is : {"StringBuffer"}, value : Nat, count : Nat]
  BY <1>1, References, Things
<1>3. PICK obj : obj = [Obj(h, b) EXCEPT !.count = count]
  OBVIOUS
<1>4. obj = [is |-> "StringBuffer", value |-> Obj(h, b).value, count |-> count] /\ obj \in Thing
  BY <1>1, <1>2, <1>3 DEF Thing
<1>5. Room(obj) = Room(Obj(h, b)) /\ TooLong(obj) = TooLong(Obj(h, b))
  BY <1>1, <1>4, Rooms DEF TooLong
<1>6. QED
  BY <1>1, <1>3, <1>4, <1>5, PutChanges DEF SetCount

(* The array that append takes for a larger one is new, or one that is     *)
(* lent; in neither case it is one of the program's own.                   *)
LargerArray(h, x, n) ==
    /\ HeapOK(x.heap) /\ Keeps(h, x.heap) /\ Is(x.heap, x.ref, "chars")
    /\ Len(Obj(x.heap, x.ref).slots) = n
    /\ \A r \in Ref(x.heap) : HasArray(x.heap, r) /\ Obj(x.heap, r).value = x.ref => Lent(x.heap, x.ref)
    /\ Lent(x.heap, x.ref) \/ x.ref \notin Ref(h)
    /\ x.ref \notin Ref(h) \/ \E r \in Ref(x.heap) : HasArray(x.heap, r) /\ Obj(x.heap, r).value = x.ref

LEMMA LargerArrays ==
    ASSUME NEW h, HeapOK(h), NEW n \in Nat
    PROVE  LargerArray(h, Jarray(Lookup(h, Filler(n))), n)
<1>1. PICK t \in Seq(Character) : t = Filler(n) /\ Len(t) = n /\ PackUtf8(t) = t
  BY FillerPacks
<1>2. t \in Seq(Nat) /\ Canonical(t) /\ UnpackUtf8(t) = t /\ OnlyA(t)
  <2>1. PackUtf8(t) \in Seq(Nat) /\ Canonical(PackUtf8(t)) /\ UnpackUtf8(PackUtf8(t)) = t
    BY TextsAreCanonical, TextsSurviveUtf8
  <2>2. QED
    BY <1>1, <2>1 DEF OnlyA
<1>3. PICK g, r : g = Lookup(h, t).heap /\ r = Lookup(h, t).ref
  OBVIOUS
<1>4. Lookup(h, t) = Answer(g, r)
  BY <1>3 DEF Lookup, Entered, Answer
<1>5. HeapOK(g) /\ Keeps(h, g) /\ Is(g, r, "kstring") /\ Obj(g, r).bytes = t /\ r \in Ref(g)
  BY <1>2, <1>3, Lookups DEF FoundString, Is
<1>6. CASE IsInterned(g, r)
  <2>1. PICK s, a : s = Obj(g, r).intern /\ a = Obj(g, s).value
    OBVIOUS
  <2>2. Jarray(Answer(g, r)) = [heap |-> g, ref |-> a]
    BY <1>6, <2>1 DEF Jarray, Answer, IsInterned
  <2>3. StandsFor(g, s, t)
    BY <1>5, <1>6, <2>1 DEF HeapOK, Linked
  <2>4. Is(g, s, "String") /\ s \in Ref(g) /\ HasArray(g, s) /\ Len(Slots(g, s)) = n
    BY <1>1, <1>2, <2>3 DEF StandsFor, Is, HasArray
  <2>5. Is(g, a, "chars") /\ Len(Obj(g, a).slots) = n
    BY <1>5, <2>1, <2>4, ContentIn DEF Slots
  <2>6. Lent(g, a)
    <3>1. InternValue(g, r) = a
      BY <2>1 DEF InternValue
    <3>2. QED
      BY <1>2, <1>5, <1>6, <3>1, Lends
  <2>7. QED
    BY <1>1, <1>4, <1>5, <2>1, <2>2, <2>4, <2>5, <2>6 DEF LargerArray
<1>7. CASE ~IsInterned(g, r)
  <2>1. PICK x : x = CharsOf(g, t)
    OBVIOUS
  <2>2. PICK k, a : k = x.heap /\ a = x.ref
    OBVIOUS
  <2>3. /\ HeapOK(k) /\ Keeps(g, k) /\ a = Newest(k)
        /\ Added(g, k, [is |-> "chars", slots |-> t])
    BY <1>5, <2>1, <2>2, ArrayMade
  <2>4. Jarray(Answer(g, r)) = x
    BY <1>2, <1>5, <1>7, <2>1 DEF Jarray, Answer, IsInterned
  <2>5. Is(k, a, "chars") /\ Obj(k, a).slots = t /\ a \notin Ref(g) /\ Ref(k) = Ref(g) \union {a}
    BY <2>3 DEF Added, Is
  <2>6. ASSUME NEW q \in Ref(k), HasArray(k, q) PROVE Obj(k, q).value # a
    <3>1. q \in Ref(g) /\ HasArray(g, q) /\ Obj(k, q) = Obj(g, q)
      BY <2>3, <2>5, <2>6 DEF HasArray, Is, Added
    <3>2. Obj(g, q).value \in Ref(g)
      BY <1>5, <3>1, ContentIn DEF Is
    <3>3. QED
      BY <2>5, <3>1, <3>2
  <2>7. Keeps(h, k) /\ a \notin Ref(h)
    BY <1>5, <2>3, <2>5, KeepsOn DEF Keeps
  <2>8. QED
    BY <1>1, <1>4, <2>2, <2>3, <2>4, <2>5, <2>6, <2>7 DEF LargerArray
<1>8. QED
  BY <1>6, <1>7

(* What append leaves: the text in the buffer, unless its array is lent. *)
Appends(h, k, b, text) ==
    \E g, a, slots :
        /\ HeapOK(g) /\ Keeps(h, g) /\ Overwrites(g, k, b, a, slots)
        /\ Lent(g, a) \/ Content(k, b) = text
        /\ a \notin Ref(h) \/ \E r \in Ref(g) : HasArray(g, r) /\ Obj(g, r).value = a

LEMMA AppendInPlace ==
    ASSUME NEW h, HeapOK(h), NEW b, Is(h, b, "StringBuffer"), NEW s, Is(h, s, "String"),
           NEW count, count = Obj(h, s).count + Obj(h, b).count, ~(count >= Len(Slots(h, b)))
    PROVE  Appends(h, AppendString(h, b, s, count), b, Content(h, b) \o Content(h, s))
<1>1. HasArray(h, b) /\ HasArray(h, s) /\ b # s /\ b \in Ref(h) /\ s \in Ref(h) /\ Well(h)
  BY DEF HasArray, Is, HeapOK
<1>2. PICK c \in Nat, n \in Nat : c = Obj(h, b).count /\ n = Obj(h, s).count
  BY <1>1, ContentIn
<1>3. PICK so \in Nat : so = Obj(h, s).offset
  BY <1>1, ContentIn
<1>4. PICK a : a = Obj(h, b).value
  OBVIOUS
<1>5. Is(h, a, "chars") /\ IsArray(h, a) /\ a \in Ref(h) /\ a # b
  BY <1>1, <1>4, ContentIn DEF IsArray, Is
<1>6. PICK to \in Seq(Character) : to = Obj(h, a).slots /\ to = Slots(h, b)
  BY <1>1, <1>4, ContentIn DEF Slots
<1>7. PICK from \in Seq(Character) : from = Slots(h, s)
  BY <1>1, ContentIn
<1>8. count \in Nat /\ count = c + n /\ c + n <= Len(to) /\ c <= Len(to)
  <2>1. PICK l \in Nat : l = Len(to)
    OBVIOUS
  <2>2. count = n + c /\ ~(n + c >= l)
    BY <1>2, <1>6, <2>1
  <2>3. QED
    BY <2>1, <2>2
<1>9. so + n <= Len(from)
  BY <1>1, <1>2, <1>3, <1>7, ContentIn DEF End, Is
<1>10. PICK slots \in Seq(Character) : slots = Copied(from, so, to, c, n) /\ Len(slots) = Len(to)
  <2>1. /\ Copied(from, so, to, c, n) \in Seq(Character)
        /\ Len(Copied(from, so, to, c, n)) = Len(to)
    BY <1>9, CopiedIs
  <2>2. QED
    BY <2>1
<1>11. SubSeq(slots, 1, count) = Content(h, b) \o Content(h, s)
  <2>1. SubSeq(Copied(from, so, to, c, n), 1, c + n)
          = SubSeq(to, 1, c) \o SubSeq(from, so + 1, so + n)
    <3>1. c + n <= Len(to) /\ c <= Len(to) /\ \A i \in 1 .. c : to[i] = to[i]
      BY <1>8
    <3>2. Fits(from, to, to, so, c, n)
      BY <1>9, <3>1 DEF Fits
    <3>3. Joins(from, to, to, so, c, n)
      BY <3>2, AppendedText
    <3>4. QED
      BY <3>3 DEF Joins
  <2>2. Content(h, b) = SubSeq(to, 1, c) /\ Content(h, s) = SubSeq(from, so + 1, so + n)
    BY <1>2, <1>3, <1>6, <1>7 DEF Content, Is
  <2>3. QED
    BY <1>8, <1>10, <2>1, <2>2
<1>12. PICK m : m = SetSlots(h, a, slots)
  OBVIOUS
<1>13. Well(m) /\ Changed(h, m, a, [is |-> "chars", slots |-> slots])
  <2>1. Len(slots) = Len(Obj(h, a).slots)
    BY <1>6, <1>10
  <2>2. QED
    BY <1>1, <1>5, <1>12, <2>1, SlotsSet DEF Is
<1>14. Obj(m, b) = Obj(h, b) /\ Is(m, b, "StringBuffer")
  BY <1>1, <1>5, <1>13 DEF Changed, Is
<1>15. PICK k : k = SetCount(m, b, count)
  OBVIOUS
<1>16. Well(k) /\ Changed(m, k, b, [is |-> "StringBuffer", value |-> a, count |-> count])
  BY <1>4, <1>8, <1>13, <1>14, <1>15, CountSet
<1>17. /\ Ref(k) = Ref(h) /\ k.bucket = h.bucket
       /\ Obj(k, a) = [is |-> "chars", slots |-> slots]
       /\ Obj(k, b) = [is |-> "StringBuffer", value |-> a, count |-> count]
       /\ \A r \in Ref(h) : r # a /\ r # b => Obj(k, r) = Obj(h, r)
  BY <1>5, <1>13, <1>16 DEF Changed
<1>18. Obj(k, a).is = "chars" /\ Obj(k, a).slots = slots /\ Is(k, b, "StringBuffer")
       /\ Obj(k, b).value = a /\ Obj(k, b).count = count /\ Obj(h, a).is = "chars"
  BY <1>1, <1>5, <1>17 DEF Is
<1>19. \A r \in Ref(h) : HasArray(h, r) /\ r # b /\ Obj(h, r).value = a => Lent(h, a)
  BY <1>1, <1>4 DEF HeapOK, Private
<1>20. Overwrites(h, k, b, a, slots)
  BY <1>5, <1>6, <1>8, <1>10, <1>16, <1>17, <1>18, <1>19 DEF Overwrites
<1>21. Content(k, b) = Content(h, b) \o Content(h, s)
  BY <1>11, <1>18 DEF Content, Slots, Is
<1>22. AppendString(h, b, s, count) = k
  BY <1>2, <1>3, <1>4, <1>6, <1>7, <1>10, <1>12, <1>15 DEF AppendString, Written, Answer
<1>23. Keeps(h, h)
  BY DEF Keeps, Is, IsInterned
<1>24. QED
  BY <1>1, <1>4, <1>20, <1>21, <1>22, <1>23 DEF Appends

LEMMA AppendGrows ==
    ASSUME NEW h, HeapOK(h), NEW b, Is(h, b, "StringBuffer"), NEW s, Is(h, s, "String"),
           NEW count, count = Obj(h, s).count + Obj(h, b).count, count >= Len(Slots(h, b))
    PROVE  Appends(h, AppendString(h, b, s, count), b, Content(h, b) \o Content(h, s))
<1>1. HasArray(h, b) /\ HasArray(h, s) /\ b # s /\ b \in Ref(h) /\ s \in Ref(h) /\ Well(h)
  BY DEF HasArray, Is, HeapOK
<1>2. PICK c \in Nat, n \in Nat : c = Obj(h, b).count /\ n = Obj(h, s).count
  BY <1>1, ContentIn
<1>3. PICK so \in Nat : so = Obj(h, s).offset
  BY <1>1, ContentIn
<1>4. PICK old \in Seq(Character) : old = Slots(h, b)
  BY <1>1, ContentIn
<1>5. PICK from \in Seq(Character) : from = Slots(h, s)
  BY <1>1, ContentIn
<1>6. count \in Nat /\ 2 * count \in Nat /\ count = c + n /\ c <= Len(old) /\ Len(old) <= 2 * count
      /\ c + n <= 2 * count
  <2>1. c <= Len(old)
    BY <1>1, <1>2, <1>4, ContentIn DEF End, Is
  <2>2. PICK l \in Nat : l = Len(old)
    OBVIOUS
  <2>3. count = n + c /\ n + c >= l
    BY <1>2, <1>4, <2>2
  <2>4. QED
    BY <2>1, <2>2, <2>3
<1>7. so + n <= Len(from)
  BY <1>1, <1>2, <1>3, <1>5, ContentIn DEF End, Is
<1>8. PICK y : y = Jarray(Lookup(h, Filler(2 * count)))
  OBVIOUS
<1>9. PICK g, a : g = y.heap /\ a = y.ref
  OBVIOUS
<1>10. LargerArray(h, y, 2 * count)
  BY <1>6, <1>8, LargerArrays
<1>11. /\ HeapOK(g) /\ Keeps(h, g) /\ Is(g, a, "chars") /\ Well(g)
       /\ Len(Obj(g, a).slots) = 2 * count
       /\ \A r \in Ref(g) : HasArray(g, r) /\ Obj(g, r).value = a => Lent(g, a)
       /\ Lent(g, a) \/ a \notin Ref(h)
       /\ a \notin Ref(h) \/ \E r \in Ref(g) : HasArray(g, r) /\ Obj(g, r).value = a
  BY <1>9, <1>10 DEF LargerArray, HeapOK
<1>12. IsArray(g, a) /\ a \in Ref(g) /\ b \in Ref(g) /\ s \in Ref(g) /\ a # b /\ a # s
       /\ Obj(g, b) = Obj(h, b) /\ Obj(g, s) = Obj(h, s) /\ Is(g, b, "StringBuffer") /\ Is(g, s, "String")
  <2>1. Obj(g, b) = Obj(h, b) /\ Obj(g, s) = Obj(h, s) /\ Is(g, b, "StringBuffer") /\ Is(g, s, "String")
    BY <1>1, <1>11, KeepsHolders
  <2>2. QED
    BY <1>11, <2>1 DEF IsArray, Is
<1>13. PICK to0 \in Seq(Character) : to0 = Obj(g, a).slots /\ Len(to0) = 2 * count
  BY <1>11, <1>12, References, Things DEF Is
<1>14. PICK l \in Nat : l = Len(old)
  OBVIOUS
<1>15. PICK to \in Seq(Character) : /\ to = Copied(old, 0, to0, 0, l) /\ Len(to) = 2 * count
                                    /\ \A i \in 1 .. l : to[i] = old[i]
  <2>1. PICK to \in Seq(Character) : to = Copied(old, 0, to0, 0, l)
    BY <1>14, CopiedIs
  <2>2. /\ Len(to) = Len(to0)
        /\ \A i \in 1 .. Len(to0) : to[i] = IF i > 0 /\ i <= 0 + l THEN old[0 + i - 0] ELSE to0[i]
    BY <1>14, <2>1, CopiedIs
  <2>3. ASSUME NEW i \in 1 .. l PROVE to[i] = old[i]
    <3>1. i \in 1 .. Len(to0) /\ i > 0 /\ i <= 0 + l /\ 0 + i - 0 = i
      <4>1. l <= 2 * count /\ 2 * count \in Nat
        BY <1>6, <1>14
      <4>2. PICK w \in Nat : w = 2 * count
        BY <4>1
      <4>3. i \in 1 .. w
        BY <4>1, <4>2
      <4>4. QED
        BY <1>13, <4>2, <4>3
    <3>2. QED
      BY <2>2, <3>1
  <2>4. QED
    BY <1>13, <2>1, <2>2, <2>3
<1>16. PICK m1 : m1 = SetSlots(g, a, to)
  OBVIOUS
<1>17. Well(m1) /\ Changed(g, m1, a, [is |-> "chars", slots |-> to])
  <2>1. Len(to) = Len(Obj(g, a).slots)
    BY <1>13, <1>15
  <2>2. QED
    BY <1>11, <1>12, <1>16, <2>1, SlotsSet DEF Is
<1>18. PICK moved : moved = [is |-> "StringBuffer", value |-> a, count |-> c]
  OBVIOUS
<1>19. a \in Nat /\ moved \in Thing /\ moved = [Obj(h, b) EXCEPT !.value = a]
  <2>1. Obj(h, b) \in [is : {"StringBuffer"}, value : Nat, count : Nat] /\ Obj(h, b).is = "StringBuffer"
    BY <1>1, References, Things DEF Is
  <2>2. a \in Nat
    BY <1>11, <1>12, References
  <2>3. moved \in Thing
    BY <1>2, <1>18, <2>2 DEF Thing
  <2>4. moved = [Obj(h, b) EXCEPT !.value = a]
    <3>1. PICK o \in [is : {"StringBuffer"}, value : Nat, count : Nat] : o = Obj(h, b)
      BY <2>1
    <3>2. [o EXCEPT !.value = a] = [is |-> "StringBuffer", value |-> a, count |-> o.count]
      BY <2>2, <3>1
    <3>3. QED
      BY <1>2, <1>18, <3>1, <3>2
  <2>5. QED
    BY <2>2, <2>3, <2>4
<1>20. PICK m2 : m2 = Put(m1, b, moved)
  OBVIOUS
<1>21. Well(m2) /\ Changed(m1, m2, b, moved)
  <2>1. b \in Ref(m1)
    BY <1>12, <1>17 DEF Changed
  <2>2. Obj(m1, b) = Obj(h, b)
    BY <1>12, <1>17, <1>1 DEF Changed
  <2>3. Obj(m1, b).is = "StringBuffer" /\ moved.is = "StringBuffer"
    BY <1>2, <1>19, <2>2 DEF Is
  <2>4. Room(moved) = Room(Obj(m1, b)) /\ TooLong(moved) = TooLong(Obj(m1, b))
    BY <2>3, Rooms DEF TooLong
  <2>5. QED
    BY <1>17, <1>19, <1>20, <2>1, <2>4, PutChanges
<1>22. /\ Ref(m2) = Ref(g) /\ m2.bucket = g.bucket
       /\ Obj(m2, a) = [is |-> "chars", slots |-> to] /\ Obj(m2, b) = moved
       /\ \A r \in Ref(g) : r # a /\ r # b => Obj(m2, r) = Obj(g, r)
  BY <1>12, <1>17, <1>21 DEF Changed
<1>23. Obj(m2, a).slots = to /\ Obj(m2, a).is = "chars" /\ IsArray(m2, a)
  BY <1>12, <1>22 DEF IsArray, Is
<1>24. PICK from2 : from2 = Slots(m2, s)
  OBVIOUS
<1>25. /\ from2 \in Seq(Character) /\ so + n <= Len(from2)
       /\ Lent(g, a) \/ from2 = from
  <2>1. Obj(m2, s) = Obj(h, s)
    BY <1>1, <1>12, <1>22
  <2>2. PICK v \in Ref(h) : v = Obj(h, s).value /\ Is(h, v, "chars")
    BY <1>1, ContentIn DEF Is
  <2>3. v \in Ref(g) /\ Obj(g, v) = Obj(h, v) /\ v # b
    BY <1>11, <2>2, KeepsHolders DEF Keeps, Is
  <2>4. CASE v = a
    <3>1. Lent(g, a) /\ from2 = to
      BY <1>11, <1>23, <1>24, <2>1, <2>2, <2>4 DEF Slots
    <3>2. Obj(g, a).slots = from
      BY <1>5, <2>2, <2>3, <2>4 DEF Slots
    <3>3. QED
      BY <1>7, <1>13, <1>15, <3>1, <3>2
  <2>5. CASE v # a
    <3>1. Obj(m2, v) = Obj(h, v)
      BY <1>22, <2>3, <2>5
    <3>2. from2 = from
      BY <1>5, <1>24, <2>1, <2>2, <3>1 DEF Slots
    <3>3. QED
      BY <1>7, <3>2
  <2>6. QED
    BY <2>4, <2>5
<1>26. PICK slots \in Seq(Character) : slots = Copied(from2, so, to, c, n) /\ Len(slots) = Len(to)
  BY <1>25, CopiedIs
<1>27. from2 = from => SubSeq(slots, 1, count) = Content(h, b) \o Content(h, s)
  <2>1. SUFFICES ASSUME from2 = from
                 PROVE  SubSeq(slots, 1, count) = Content(h, b) \o Content(h, s)
    OBVIOUS
  <2>2. c + n <= Len(to) /\ \A i \in 1 .. c : to[i] = old[i]
    <3>1. c <= l /\ c + n <= Len(to)
      BY <1>6, <1>14, <1>15
    <3>2. \A i \in 1 .. c : i \in 1 .. l
      BY <3>1
    <3>3. QED
      BY <1>15, <3>1, <3>2
  <2>3. SubSeq(Copied(from, so, to, c, n), 1, c + n)
          = SubSeq(old, 1, c) \o SubSeq(from, so + 1, so + n)
    <3>1. c <= Len(old)
      BY <1>6
    <3>2. Fits(from, to, old, so, c, n)
      BY <1>7, <2>2, <3>1 DEF Fits
    <3>3. Joins(from, to, old, so, c, n)
      BY <3>2, AppendedText
    <3>4. QED
      BY <3>3 DEF Joins
  <2>4. Content(h, b) = SubSeq(old, 1, c) /\ Content(h, s) = SubSeq(from, so + 1, so + n)
    BY <1>2, <1>3, <1>4, <1>5 DEF Content, Is
  <2>5. QED
    BY <1>6, <1>26, <2>1, <2>3, <2>4
<1>28. PICK m3 : m3 = SetSlots(m2, a, slots)
  OBVIOUS
<1>29. Well(m3) /\ Changed(m2, m3, a, [is |-> "chars", slots |-> slots])
  <2>1. Len(slots) = Len(Obj(m2, a).slots)
    BY <1>23, <1>26
  <2>2. QED
    BY <1>21, <1>23, <1>28, <2>1, SlotsSet
<1>30. Obj(m3, b) = moved /\ Is(m3, b, "StringBuffer") /\ moved.value = a
  BY <1>12, <1>18, <1>22, <1>29 DEF Changed, Is
<1>31. PICK k : k = SetCount(m3, b, count)
  OBVIOUS
<1>32. Well(k) /\ Changed(m3, k, b, [is |-> "StringBuffer", value |-> a, count |-> count])
  BY <1>6, <1>29, <1>30, <1>31, CountSet
<1>33. /\ Ref(k) = Ref(g) /\ k.bucket = g.bucket
       /\ Obj(k, a) = [is |-> "chars", slots |-> slots]
       /\ Obj(k, b) = [is |-> "StringBuffer", value |-> a, count |-> count]
       /\ \A r \in Ref(g) : r # a /\ r # b => Obj(k, r) = Obj(g, r)
  BY <1>12, <1>22, <1>29, <1>32 DEF Changed
<1>34. Obj(k, a).is = "chars" /\ Obj(k, a).slots = slots /\ Is(k, b, "StringBuffer")
       /\ Obj(k, b).value = a /\ Obj(k, b).count = count /\ Obj(g, a).is = "chars"
  BY <1>11, <1>12, <1>33 DEF Is
<1>35. Overwrites(g, k, b, a, slots)
  <2>1. Len(slots) = Len(Obj(g, a).slots) /\ count <= Len(slots)
    BY <1>6, <1>13, <1>15, <1>26
  <2>2. QED
    BY <1>6, <1>11, <1>12, <1>32, <1>33, <1>34, <2>1 DEF Overwrites
<1>36. Lent(g, a) \/ Content(k, b) = Content(h, b) \o Content(h, s)
  <2>1. Content(k, b) = SubSeq(slots, 1, count)
    BY <1>34 DEF Content, Slots, Is
  <2>2. QED
    BY <1>25, <1>27, <2>1
<1>37. AppendString(h, b, s, count) = k
  <2>1. Grow(h, b, count) = Answer(m2, a)
    <3>1. Grow(h, b, count) = MovedTo(h, b, y)
      BY <1>8 DEF Grow
    <3>2. MovedTo(h, b, y) = Answer(Put(SetSlots(g, a, Copied(old, 0, to0, 0, l)), b, moved), a)
      BY <1>4, <1>9, <1>13, <1>14, <1>19 DEF MovedTo
    <3>3. QED
      BY <1>15, <1>16, <1>20, <3>1, <3>2
  <2>2. Written(h, b, s, Answer(m2, a)) = m3
    BY <1>2, <1>3, <1>23, <1>24, <1>26, <1>28 DEF Written, Answer
  <2>3. QED
    BY <1>31, <2>1, <2>2 DEF AppendString
<1>38. QED
  BY <1>11, <1>35, <1>36, <1>37 DEF Appends

LEMMA AppendWorld ==
    ASSUME NEW h, NEW arrays, NEW buffers, NEW texts, NEW given,
           World(h, arrays, buffers, texts, given),
           NEW b \in buffers, NEW s, Is(h, s, "String"),
           NEW count, count = Obj(h, s).count + Obj(h, b).count
    PROVE  World(AppendString(h, b, s, count), arrays, buffers,
                 [texts EXCEPT ![b] = Content(h, b) \o Content(h, s)], given)
<1>1. Is(h, b, "StringBuffer") /\ b \in DOMAIN texts /\ HeapOK(h) /\ OwnOK(h, arrays)
  BY DEF World, SaidOK
<1>2. PICK k : k = AppendString(h, b, s, count)
  OBVIOUS
<1>3. PICK text : text = Content(h, b) \o Content(h, s)
  OBVIOUS
<1>4. Appends(h, k, b, text)
  BY <1>1, <1>2, <1>3, AppendInPlace, AppendGrows
<1>5. PICK g, a, slots :
        /\ HeapOK(g) /\ Keeps(h, g) /\ Overwrites(g, k, b, a, slots)
        /\ Lent(g, a) \/ Content(k, b) = text
        /\ a \notin Ref(h) \/ \E r \in Ref(g) : HasArray(g, r) /\ Obj(g, r).value = a
  BY <1>4 DEF Appends
<1>6. World(g, arrays, buffers, texts, given)
  BY <1>5, WorldKept
<1>7. a \notin arrays
  BY <1>1, <1>5, <1>6 DEF World, OwnOK, IsArray, Is
<1>8. PICK more : more = [texts EXCEPT ![b] = text]
  OBVIOUS
<1>9. DOMAIN more = DOMAIN texts /\ more[b] = text /\ \A r \in DOMAIN texts : r # b => more[r] = texts[r]
  BY <1>1, <1>8
<1>10. World(k, arrays, buffers, more, given)
  BY <1>5, <1>6, <1>7, <1>9, WorldOverwritten
<1>11. QED
  BY <1>2, <1>3, <1>8, <1>10

LEMMA NullPacks ==
    Null \in Seq(Character) /\ PackUtf8(Null) = Null /\ ~OnlyA(Null)
<1>1. Null \in Seq(Character) /\ Len(Null) = 2 /\ Null[1] = 110 /\ Null[2] = 117
  <2>1. 110 \in Character /\ 117 \in Character
    BY DEF Character
  <2>2. QED
    BY <2>1 DEF Null
<1>2. Filler(2)[1] = 97
  BY DEF Filler
<1>3. ~OnlyA(Null)
  BY <1>1, <1>2 DEF OnlyA
<1>4. PICK t \in Seq(Character) : t = Null
  BY <1>1
<1>5. PICK flat : Packs0(t, flat)
  BY PackFolds
<1>6. Utf8(110) = <<110>> /\ Utf8(117) = <<117>>
  BY Utf8Forms
<1>7. /\ PackUtf8(t) = PackedTo(flat, 2) /\ PackedTo(flat, 0) = << >>
      /\ PackedTo(flat, 1) = PackedTo(flat, 0) \o <<110>>
      /\ PackedTo(flat, 2) = PackedTo(flat, 1) \o <<117>>
  <2>1. 1 \in 1 .. 2 /\ 2 \in 1 .. 2 /\ 1 - 1 = 0 /\ 2 - 1 = 1
    OBVIOUS
  <2>2. Len(t) = 2 /\ t[1] = 110 /\ t[2] = 117
    BY <1>1, <1>4
  <2> HIDE <1>4
  <2>3. /\ PackUtf8(t) = PackedTo(flat, 2) /\ PackedTo(flat, 0) = << >>
        /\ \A k \in 1 .. 2 : PackedTo(flat, k) = PackedTo(flat, k - 1) \o Utf8(t[k])
    BY <1>5, <2>2 DEF Packs0
  <2>4. QED
    BY <1>6, <2>1, <2>2, <2>3
<1>8. << >> \o <<110>> = <<110>> /\ <<110>> \o <<117>> = <<110, 117>>
  <2>1. PICK one \in Seq(Nat) : one = <<110>>
    <3>1. <<110>> \in Seq(Nat)
      OBVIOUS
    <3>2. QED
      BY <3>1
  <2>2. PICK two \in Seq(Nat) : two = <<117>>
    <3>1. <<117>> \in Seq(Nat)
      OBVIOUS
    <3>2. QED
      BY <3>1
  <2>3. PICK both \in Seq(Nat) : both = <<110, 117>>
    <3>1. <<110, 117>> \in Seq(Nat)
      OBVIOUS
    <3>2. QED
      BY <3>1
  <2>4. << >> \o one = one
    BY ConcatEmptySeq
  <2>5. Len(one) = 1 /\ one[1] = 110 /\ Len(two) = 1 /\ two[1] = 117
        /\ Len(both) = 2 /\ both[1] = 110 /\ both[2] = 117
    BY <2>1, <2>2, <2>3
  <2>6. PICK cat \in Seq(Nat) : cat = one \o two
    BY ConcatProperties
  <2>7. Len(cat) = 2 /\ cat[1] = 110 /\ cat[2] = 117
    <3>1. Len(cat) = 2 /\ \A i \in 1 .. 2 : cat[i] = IF i <= 1 THEN one[i] ELSE two[i - 1]
      <4>1. /\ Len(cat) = Len(one) + Len(two)
            /\ \A i \in 1 .. Len(one) + Len(two) :
                 cat[i] = IF i <= Len(one) THEN one[i] ELSE two[i - Len(one)]
        BY <2>6, ConcatProperties
      <4>2. Len(one) = 1 /\ Len(two) = 1 /\ 1 + 1 = 2
        BY <2>5
      <4>3. QED
        BY <4>1, <4>2
    <3>2. 1 \in 1 .. 2 /\ 2 \in 1 .. 2 /\ 1 <= 1 /\ ~(2 <= 1) /\ 2 - 1 = 1
      OBVIOUS
    <3>3. QED
      BY <2>5, <3>1, <3>2
  <2>8. \A i \in 1 .. Len(cat) : cat[i] = both[i]
    <3>1. \A i \in 1 .. 2 : i = 1 \/ i = 2
      OBVIOUS
    <3>2. QED
      BY <2>5, <2>7, <3>1
  <2>9. Len(cat) = Len(both)
    BY <2>5, <2>7
  <2>10. cat = both
    BY <2>8, <2>9, SeqEqual
  <2>11. QED
    BY <2>1, <2>4, <2>6, <2>10, <2>2, <2>3
<1>9. QED
  BY <1>1, <1>3, <1>4, <1>7, <1>8 DEF Null

LEMMA AppendKeeps ==
    ASSUME Inv, NEW b \in bufs, NEW s \in Strings \union {0}, StringBufferAppend(b, s)
    PROVE  Inv'
<1>1. /\ World(heap, own, bufs, said, results) /\ HeapOK(heap)
      /\ b \in DOMAIN said /\ HasArray(heap, b) /\ b \in Ref(heap)
  BY DEF Inv, World, SaidOK, HasArray, Is
<1>2. Text(b) = Content(heap, b)
  BY <1>1, TextIsContent
<1>3. PICK x : x = IF s = 0 THEN Interned(heap, Null) ELSE Answer(heap, s)
  OBVIOUS
<1>4. PICK text : text = IF s = 0 THEN Null ELSE Text(s)
  OBVIOUS
<1>5. /\ World(x.heap, own, bufs, said, results)
      /\ Is(x.heap, x.ref, "String") /\ Content(x.heap, x.ref) = text
      /\ Content(x.heap, b) = Content(heap, b)
  <2>1. CASE s = 0
    <3>1. x = Interned(heap, Null) /\ text = Null
      BY <1>3, <1>4, <2>1
    <3>2. GotString(heap, x, Null)
      <4>1. Null \in Seq(Nat) /\ Canonical(Null)
        BY NullPacks, TextsAreCanonical
      <4>2. QED
        BY <1>1, <3>1, <4>1, InternedGot
    <3>3. HeapOK(x.heap) /\ Keeps(heap, x.heap) /\ StandsFor(x.heap, x.ref, Null)
      BY <3>2 DEF GotString
    <3>4. Content(x.heap, x.ref) = Null
      <4>1. UnpackUtf8(Null) = Null
        BY NullPacks, TextsSurviveUtf8
      <4>2. Slots(x.heap, x.ref) = Null
        BY <3>3, <4>1, NullPacks DEF StandsFor
      <4>3. QED
        BY <3>3, <4>2, ContentOfString
    <3>5. HoldsWell(heap, b)
      BY <1>1 DEF HeapOK, Linked
    <3>6. QED
      BY <1>1, <3>1, <3>3, <3>4, <3>5, WorldKept, KeepsContent DEF StandsFor
  <2>2. CASE s # 0
    <3>1. s \in DOMAIN said /\ Is(heap, s, "String")
      BY <1>1, <2>2 DEF Strings, World, SaidOK, HasArray, Is
    <3>2. x.heap = heap /\ x.ref = s /\ text = Content(heap, s)
      BY <1>3, <1>4, <2>2, <3>1, TextIsContent DEF Answer
    <3>3. QED
      BY <1>1, <3>1, <3>2
  <2>3. QED
    BY <2>1, <2>2
<1>6. PICK count : count = Obj(x.heap, x.ref).count + Obj(x.heap, b).count
  OBVIOUS
<1>7. PICK k : k = AppendString(x.heap, b, x.ref, count)
  OBVIOUS
<1>8. World(k, own, bufs, [said EXCEPT ![b] = Content(x.heap, b) \o Content(x.heap, x.ref)], results)
  BY <1>5, <1>6, <1>7, AppendWorld
<1>9. Appended(heap, b, s) = k
  BY <1>3, <1>6, <1>7 DEF Appended, AppendAnswer
<1>10. /\ heap' = k /\ own' = own /\ bufs' = bufs /\ results' = results
       /\ said' = [said EXCEPT ![b] = Content(x.heap, b) \o Content(x.heap, x.ref)]
       /\ status' = IF k.ok THEN status ELSE "stray"
  BY <1>2, <1>4, <1>5, <1>9 DEF StringBufferAppend, Do
<1>11. QED
  BY <1>8, <1>10 DEF Inv, Trusted

(* memmove of the first c characters by n, and n others before them. *)
InsertFits(from, to, so, n, c) ==
    /\ from \in Seq(Character) /\ to \in Seq(Character)
    /\ so \in Nat /\ c \in Nat /\ n \in Nat
    /\ so + n <= Len(from) /\ n + c <= Len(to)

Moved(to, n, c) == Copied(to, 0, to, n, c)

InsertJoins(from, to, so, n, c) ==
    /\ Copied(from, so, Moved(to, n, c), 0, n) \in Seq(Character)
    /\ Len(Copied(from, so, Moved(to, n, c), 0, n)) = Len(to)
    /\ SubSeq(Copied(from, so, Moved(to, n, c), 0, n), 1, n + c)
         = SubSeq(from, so + 1, so + n) \o SubSeq(to, 1, c)

LEMMA InsertedText ==
    ASSUME NEW from, NEW to, NEW so, NEW n, NEW c, InsertFits(from, to, so, n, c)
    PROVE  InsertJoins(from, to, so, n, c)
<1> SUFFICES ASSUME from \in Seq(Character), to \in Seq(Character),
                    so \in Nat, c \in Nat, n \in Nat, so + n <= Len(from), n + c <= Len(to)
             PROVE  InsertJoins(from, to, so, n, c)
  BY DEF InsertFits
<1>1. PICK l \in Nat : l = Len(to) /\ n + c <= l
  OBVIOUS
<1>2. PICK mid \in Seq(Character) : mid = Moved(to, n, c)
  <2>1. 0 \in Nat /\ (c > 0 => 0 + c <= Len(to))
    BY <1>1
  <2>2. QED
    BY <2>1, CopiedIs DEF Moved
<1>3. Len(mid) = l /\ \A i \in 1 .. l : mid[i] = IF i > n /\ i <= n + c THEN to[0 + i - n] ELSE to[i]
  <2>1. 0 \in Nat /\ (c > 0 => 0 + c <= Len(to))
    BY <1>1
  <2>2. QED
    BY <1>1, <1>2, <2>1, CopiedIs DEF Moved
<1>4. PICK copy \in Seq(Character) : copy = Copied(from, so, mid, 0, n)
  <2>1. 0 \in Nat /\ (n > 0 => so + n <= Len(from))
    OBVIOUS
  <2>2. Copied(from, so, mid, 0, n) \in Seq(Character)
    BY <2>1, CopiedIs
  <2>3. QED
    BY <2>2
<1>5. Len(copy) = l /\ \A i \in 1 .. l : copy[i] = IF i > 0 /\ i <= 0 + n THEN from[so + i - 0] ELSE mid[i]
  <2>1. 0 \in Nat /\ (n > 0 => so + n <= Len(from))
    OBVIOUS
  <2>2. Len(Copied(from, so, mid, 0, n)) = Len(mid)
        /\ \A i \in 1 .. Len(mid) :
             Copied(from, so, mid, 0, n)[i] = IF i > 0 /\ i <= 0 + n THEN from[so + i - 0] ELSE mid[i]
    BY <2>1, CopiedIs
  <2>3. QED
    BY <1>3, <1>4, <2>2
<1>6. PICK left \in Seq(Character) : left = SubSeq(from, so + 1, so + n)
  <2>1. SubSeq(from, so + 1, so + n) \in Seq(Character)
    BY PartIs
  <2>2. QED
    BY <2>1
<1>7. Len(left) = n /\ \A i \in 1 .. n : left[i] = from[so + i]
  <2>1. /\ Len(SubSeq(from, so + 1, so + n)) = n
        /\ \A i \in 1 .. n : SubSeq(from, so + 1, so + n)[i] = from[so + i]
    BY PartIs
  <2>2. QED
    BY <1>6, <2>1
<1>8. c <= Len(to)
  BY <1>1
<1>9. PICK right \in Seq(Character) : right = SubSeq(to, 1, c)
  BY <1>8, FirstIs
<1>10. Len(right) = c /\ \A i \in 1 .. c : right[i] = to[i]
  BY <1>8, <1>9, FirstIs
<1>11. PICK both \in Seq(Character) : both = left \o right
  BY ConcatProperties
<1>12. Len(both) = n + c /\ \A i \in 1 .. n + c : both[i] = IF i <= n THEN left[i] ELSE right[i - n]
  <2>1. /\ Len(both) = Len(left) + Len(right)
        /\ \A i \in 1 .. Len(left) + Len(right) :
             both[i] = IF i <= Len(left) THEN left[i] ELSE right[i - Len(left)]
    BY <1>11, ConcatProperties
  <2>2. Len(left) = n /\ Len(right) = c
    BY <1>7, <1>10
  <2>3. QED
    BY <2>1, <2>2
<1>13. n + c \in Nat /\ n + c <= Len(copy)
  BY <1>1, <1>5
<1>14. PICK all \in Seq(Character) : all = SubSeq(copy, 1, n + c)
  BY <1>13, FirstIs
<1>15. Len(all) = n + c /\ \A i \in 1 .. n + c : all[i] = copy[i]
  BY <1>13, <1>14, FirstIs
<1>16. ASSUME NEW i \in 1 .. n + c PROVE all[i] = both[i]
  <2>1. i \in 1 .. l /\ i \in Nat /\ i > 0
    <3>1. PICK w \in Nat : w = n + c
      OBVIOUS
    <3>2. i \in 1 .. w /\ w <= l
      BY <1>1, <3>1
    <3>3. QED
      BY <3>2
  <2>2. copy[i] = IF i > 0 /\ i <= 0 + n THEN from[so + i - 0] ELSE mid[i]
    BY <1>5, <2>1
  <2>3. mid[i] = IF i > n /\ i <= n + c THEN to[0 + i - n] ELSE to[i]
    BY <1>3, <2>1
  <2>4. all[i] = copy[i] /\ both[i] = IF i <= n THEN left[i] ELSE right[i - n]
    BY <1>12, <1>15
  <2>5. CASE i <= n
    <3>1. i \in 1 .. n /\ i <= 0 + n /\ so + i - 0 = so + i
      BY <2>1, <2>5
    <3>2. left[i] = from[so + i]
      BY <1>7, <3>1
    <3>3. QED
      BY <2>1, <2>2, <2>4, <2>5, <3>1, <3>2
  <2>6. CASE ~(i <= n)
    <3>1. i - n \in 1 .. c /\ i > n /\ i <= n + c /\ ~(i <= 0 + n) /\ 0 + i - n = i - n
      BY <2>1, <2>6
    <3>2. right[i - n] = to[i - n]
      BY <1>10, <3>1
    <3>3. QED
      BY <2>2, <2>3, <2>4, <2>6, <3>1, <3>2
  <2>7. QED
    BY <2>5, <2>6
<1>17. Len(all) = Len(both) /\ \A i \in 1 .. Len(all) : all[i] = both[i]
  BY <1>12, <1>15, <1>16
<1>18. all = both
  BY <1>17, SeqEqual
<1>19. QED
  BY <1>1, <1>2, <1>4, <1>5, <1>6, <1>9, <1>11, <1>14, <1>18 DEF InsertJoins

LEMMA InsertOverwrites ==
    ASSUME NEW h, HeapOK(h), NEW b, Is(h, b, "StringBuffer"), NEW s, Is(h, s, "String"),
           NEW n, n = Obj(h, s).count, NEW c, c = Obj(h, b).count, n + c <= Len(Slots(h, b)),
           NEW v, v = Obj(h, b).value,
           NEW k, k = SetCount(ArrayCopied(ArrayCopied(h, v, v, 0, n, c), Obj(h, s).value, v,
                                           Obj(h, s).offset, 0, n), b, n + c)
    PROVE  \E slots : /\ Overwrites(h, k, b, v, slots)
                      /\ Lent(h, v) \/ Content(k, b) = Content(h, s) \o Content(h, b)
<1>1. HasArray(h, b) /\ HasArray(h, s) /\ b # s /\ b \in Ref(h) /\ s \in Ref(h) /\ Well(h)
  BY DEF HasArray, Is, HeapOK
<1>2. c \in Nat /\ n \in Nat
  BY <1>1, ContentIn
<1>3. PICK so \in Nat : so = Obj(h, s).offset
  BY <1>1, ContentIn
<1>4. Is(h, v, "chars") /\ IsArray(h, v) /\ v \in Ref(h) /\ v # b /\ v # s
  BY <1>1, ContentIn DEF IsArray, Is
<1>5. PICK to \in Seq(Character) : to = Obj(h, v).slots /\ to = Slots(h, b)
  BY <1>1, ContentIn DEF Slots
<1>6. PICK from \in Seq(Character) : from = Slots(h, s)
  BY <1>1, ContentIn
<1>7. so + n <= Len(from) /\ n + c <= Len(to) /\ n + c \in Nat
  BY <1>1, <1>2, <1>3, <1>5, <1>6, ContentIn DEF End, Is
<1>8. PICK sv \in Ref(h) : sv = Obj(h, s).value /\ Is(h, sv, "chars")
  BY <1>1, ContentIn DEF Is
<1>9. PICK mid \in Seq(Character) : mid = Moved(to, n, c) /\ Len(mid) = Len(to)
  <2>1. 0 \in Nat /\ (c > 0 => 0 + c <= Len(to))
    <3>1. PICK l \in Nat : l = Len(to)
      OBVIOUS
    <3>2. n + c <= l
      BY <1>7, <3>1
    <3>3. c <= l
      BY <1>2, <3>2
    <3>4. QED
      BY <1>2, <3>1, <3>3
  <2>2. Copied(to, 0, to, n, c) \in Seq(Character) /\ Len(Copied(to, 0, to, n, c)) = Len(to)
    BY <1>2, <2>1, CopiedIs
  <2>3. QED
    BY <2>2 DEF Moved
<1>10. PICK m1 : m1 = SetSlots(h, v, mid)
  OBVIOUS
<1>11. Well(m1) /\ Changed(h, m1, v, [is |-> "chars", slots |-> mid])
  <2>1. Len(mid) = Len(Obj(h, v).slots)
    BY <1>5, <1>9
  <2>2. QED
    BY <1>1, <1>4, <1>10, <2>1, SlotsSet DEF Is
<1>12. Obj(m1, v).slots = mid /\ Obj(m1, v).is = "chars" /\ IsArray(m1, v)
  BY <1>4, <1>11 DEF Changed, IsArray, Is
<1>13. PICK from2 : from2 = Obj(m1, sv).slots
  OBVIOUS
<1>14. from2 \in Seq(Character) /\ so + n <= Len(from2) /\ (Lent(h, v) \/ from2 = from)
  <2>1. Obj(h, sv).slots = from
    BY <1>6, <1>8 DEF Slots
  <2>2. CASE sv = v
    <3>1. from2 = mid /\ from = to
      BY <1>5, <1>12, <1>13, <2>1, <2>2
    <3>2. Lent(h, v)
      BY <1>1, <1>8, <2>2 DEF HeapOK, Private
    <3>3. QED
      BY <1>7, <1>9, <3>1, <3>2
  <2>3. CASE sv # v
    <3>1. from2 = from
      BY <1>8, <1>11, <1>13, <2>1, <2>3 DEF Changed
    <3>2. QED
      BY <1>7, <3>1
  <2>4. QED
    BY <2>2, <2>3
<1>15. InsertJoins(from2, to, so, n, c)
  <2>1. InsertFits(from2, to, so, n, c)
    BY <1>2, <1>7, <1>14 DEF InsertFits
  <2>2. QED
    BY <2>1, InsertedText
<1>16. PICK slots \in Seq(Character) : slots = Copied(from2, so, mid, 0, n) /\ Len(slots) = Len(to)
  BY <1>9, <1>15 DEF InsertJoins
<1>17. Lent(h, v) \/ SubSeq(slots, 1, n + c) = Content(h, s) \o Content(h, b)
  <2>1. SubSeq(slots, 1, n + c) = SubSeq(from2, so + 1, so + n) \o SubSeq(to, 1, c)
    BY <1>9, <1>15, <1>16 DEF InsertJoins
  <2>2. Content(h, b) = SubSeq(to, 1, c) /\ Content(h, s) = SubSeq(from, so + 1, so + n)
    BY <1>2, <1>3, <1>5, <1>6 DEF Content, Is
  <2>3. QED
    BY <1>14, <2>1, <2>2
<1>18. PICK m2 : m2 = SetSlots(m1, v, slots)
  OBVIOUS
<1>19. Well(m2) /\ Changed(m1, m2, v, [is |-> "chars", slots |-> slots])
  <2>1. Obj(m1, v).slots = mid
    BY <1>11 DEF Changed
  <2>2. Len(slots) = Len(Obj(m1, v).slots)
    BY <1>9, <1>16, <2>1
  <2>3. QED
    BY <1>11, <1>12, <1>18, <2>2, SlotsSet
<1>20. Obj(m2, b) = Obj(h, b) /\ Is(m2, b, "StringBuffer")
  BY <1>1, <1>4, <1>11, <1>19 DEF Changed, Is
<1>21. k = SetCount(m2, b, n + c)
  BY <1>3, <1>5, <1>8, <1>9, <1>10, <1>12, <1>13, <1>16, <1>18 DEF ArrayCopied, Moved
<1>22. Well(k) /\ Changed(m2, k, b, [is |-> "StringBuffer", value |-> v, count |-> n + c])
  BY <1>7, <1>19, <1>20, <1>21, CountSet
<1>23. /\ Ref(k) = Ref(h) /\ k.bucket = h.bucket
       /\ Obj(k, v) = [is |-> "chars", slots |-> slots]
       /\ Obj(k, b) = [is |-> "StringBuffer", value |-> v, count |-> n + c]
       /\ \A r \in Ref(h) : r # v /\ r # b => Obj(k, r) = Obj(h, r)
  BY <1>4, <1>11, <1>19, <1>22 DEF Changed
<1>24. Obj(k, v).is = "chars" /\ Obj(k, v).slots = slots /\ Is(k, b, "StringBuffer")
       /\ Obj(k, b).value = v /\ Obj(k, b).count = n + c /\ Obj(h, v).is = "chars"
  BY <1>1, <1>4, <1>23 DEF Is
<1>25. \A r \in Ref(h) : HasArray(h, r) /\ r # b /\ Obj(h, r).value = v => Lent(h, v)
  BY <1>1 DEF HeapOK, Private
<1>26. Overwrites(h, k, b, v, slots)
  BY <1>4, <1>5, <1>7, <1>16, <1>22, <1>23, <1>24, <1>25 DEF Overwrites
<1>27. Content(k, b) = SubSeq(slots, 1, n + c)
  <2>1. Obj(k, b).is = "StringBuffer" /\ "StringBuffer" # "String"
    BY <1>24 DEF Is
  <2>2. Slots(k, b) = slots /\ Obj(k, b).count = n + c
    BY <1>24 DEF Slots
  <2>3. Content(k, b) = SubSeq(Slots(k, b), 1, Obj(k, b).count)
    BY <2>1 DEF Content
  <2>4. QED
    BY <2>2, <2>3
<1>28. QED
  BY <1>17, <1>26, <1>27

LEMMA InsertKeeps ==
    ASSUME Inv, NEW b \in bufs, NEW s \in Strings, StringBufferInsert(b, s)
    PROVE  Inv'
<1>1. /\ World(heap, own, bufs, said, results) /\ HeapOK(heap) /\ OwnOK(heap, own)
      /\ b \in DOMAIN said /\ Is(heap, b, "StringBuffer") /\ HasArray(heap, b) /\ b \in Ref(heap)
      /\ s \in DOMAIN said /\ Is(heap, s, "String") /\ s # b
  BY DEF Inv, World, SaidOK, HasArray, Is, Strings
<1>2. Text(b) = Content(heap, b) /\ Text(s) = Content(heap, s)
  BY <1>1, TextIsContent
<1>3. PICK v, n, c : v = Obj(heap, b).value /\ n = Obj(heap, s).count /\ c = Obj(heap, b).count
  OBVIOUS
<1>4. PICK k : k = SetCount(ArrayCopied(ArrayCopied(heap, v, v, 0, n, c), Obj(heap, s).value, v,
                                        Obj(heap, s).offset, 0, n), b, n + c)
  OBVIOUS
<1>5. PICK text : text = Content(heap, s) \o Content(heap, b)
  OBVIOUS
<1>6. PICK more : more = [said EXCEPT ![b] = text]
  OBVIOUS
<1>7. /\ n + c <= Len(Slots(heap, b))
      /\ heap' = k /\ own' = own /\ bufs' = bufs /\ results' = results /\ said' = more
      /\ status' = IF k.ok THEN status ELSE "stray"
  BY <1>2, <1>3, <1>4, <1>5, <1>6 DEF StringBufferInsert, Do
<1>8. PICK slots : /\ Overwrites(heap, k, b, v, slots)
                   /\ Lent(heap, v) \/ Content(k, b) = text
  <2>1. n + c <= Len(Slots(heap, b))
    BY <1>7
  <2>2. HeapOK(heap) /\ Is(heap, b, "StringBuffer") /\ Is(heap, s, "String")
    BY <1>1
  <2>3. \E slots : /\ Overwrites(heap, k, b, v, slots)
                   /\ Lent(heap, v) \/ Content(k, b) = Content(heap, s) \o Content(heap, b)
    BY <1>3, <1>4, <2>1, <2>2, InsertOverwrites
  <2>4. QED
    BY <1>5, <2>3
<1>9. v \notin own
  BY <1>1, <1>3 DEF OwnOK
<1>10. DOMAIN more = DOMAIN said /\ more[b] = text /\ \A r \in DOMAIN said : r # b => more[r] = said[r]
  BY <1>1, <1>6
<1>11. World(k, own, bufs, more, results)
  BY <1>1, <1>8, <1>9, <1>10, WorldOverwritten
<1>12. QED
  BY <1>7, <1>11 DEF Inv, Trusted

LEMMA ArraycopyKeeps ==
    ASSUME Inv, NEW a \in own, NEW b \in own, NEW so \in Int, NEW do \in Int, NEW n \in Int,
           SystemArraycopy(a, b, so, do, n)
    PROVE  Inv'
<1>1. World(heap, own, bufs, said, results) /\ HeapOK(heap) /\ OwnOK(heap, own) /\ Well(heap)
  BY DEF Inv, World, HeapOK
<1>2. own' = own /\ bufs' = bufs /\ said' = said /\ results' = results
  BY DEF SystemArraycopy
<1>3. CASE CopyThrows(heap, a, b, so, do, n)
  <2>1. heap' = heap /\ status' = "thrown"
    BY <1>3 DEF SystemArraycopy
  <2>2. heap.ok
    BY DEF Inv, Trusted, SystemArraycopy, Running
  <2>3. QED
    BY <1>1, <1>2, <2>1, <2>2 DEF Inv, Trusted
<1>4. CASE ~CopyThrows(heap, a, b, so, do, n) /\ CopyOutside(heap, a, b, so, do, n)
  <2>1. PICK k : k = [heap EXCEPT !.ok = FALSE]
    OBVIOUS
  <2>2. heap' = k /\ status' = IF k.ok THEN status ELSE "stray"
    BY <1>4, <2>1 DEF SystemArraycopy, Do
  <2>3. HeapOK(k) /\ Keeps(heap, k)
    BY <1>1, <2>1, OnlyOk
  <2>4. World(k, own, bufs, said, results)
    BY <1>1, <2>3, WorldKept
  <2>5. QED
    BY <1>2, <2>2, <2>4 DEF Inv, Trusted
<1>5. CASE ~CopyThrows(heap, a, b, so, do, n) /\ ~CopyOutside(heap, a, b, so, do, n)
  <2>1. PICK from : from = Obj(heap, a).slots
    OBVIOUS
  <2>2. PICK to : to = Obj(heap, b).slots
    OBVIOUS
  <2>3. /\ so \in Nat /\ do \in Nat /\ n \in Nat
        /\ n > 0 => so + n <= Len(from) /\ do + n <= Len(to)
    <3>1. so >= 0 /\ do >= 0 /\ n >= 0
      BY <1>5 DEF CopyThrows
    <3>2. n > 0 => ~(so + n > Len(from)) /\ ~(do + n > Len(to))
      BY <1>5, <2>1, <2>2 DEF CopyOutside
    <3>3. from \in Seq(Character) /\ to \in Seq(Character)
      BY <1>1, <2>1, <2>2, References, Things DEF OwnOK, IsArray, Is
    <3>4. QED
      BY <3>1, <3>2, <3>3
  <2>4. IsArray(heap, a) /\ IsArray(heap, b) /\ from \in Seq(Character) /\ to \in Seq(Character)
    BY <1>1, <2>1, <2>2, References, Things DEF OwnOK, IsArray, Is
  <2>5. PICK slots : slots = Copied(from, so, to, do, n)
    OBVIOUS
  <2>6. slots \in Seq(Character) /\ Len(slots) = Len(to)
    BY <2>3, <2>4, <2>5, CopiedIs
  <2>7. PICK k : k = SetSlots(heap, b, slots)
    OBVIOUS
  <2>8. Well(k) /\ Changed(heap, k, b, [is |-> Obj(heap, b).is, slots |-> slots])
    BY <1>1, <2>2, <2>4, <2>6, <2>7, SlotsSet
  <2>9. 0 \notin Ref(heap)
    BY <1>1, References
  <2>10. \A r \in Ref(heap) : HasArray(heap, r) => Obj(heap, r).value # b
    BY <1>1 DEF OwnOK
  <2>11. Overwrites(heap, k, 0, b, slots)
    BY <2>2, <2>4, <2>6, <2>8, <2>9, <2>10 DEF Overwrites, Changed
  <2>12. 0 \notin DOMAIN said
    BY <1>1, <2>9 DEF World, SaidOK, HasArray, Is
  <2>13. World(k, own, bufs, said, results)
    BY <1>1, <2>9, <2>11, <2>12, WorldOverwritten
  <2>14. heap' = k /\ status' = IF k.ok THEN status ELSE "stray"
    BY <1>5, <2>1, <2>2, <2>5, <2>7 DEF SystemArraycopy, Do, ArrayCopied
  <2>15. QED
    BY <1>2, <2>13, <2>14 DEF Inv, Trusted
<1>6. QED
  BY <1>3, <1>4, <1>5

-----------------------------------------------------------------------------
(* The heap the program starts with: first the string constants of the     *)
(* program, from a set of heaps that string_pool_lookup stays in.           *)

Shaped ==
    [mem : Nat, objs : Seq([from : Nat, size : Nat, obj : Thing]), ok : BOOLEAN,
     bucket : [0 .. (HashSize - 1) -> Seq(Nat)]]

PoolHeap == {h \in Shaped : HeapOK(h)}

LEMMA PlaceShaped ==
    ASSUME NEW h \in Shaped, NEW obj \in Thing, NEW from \in Nat, NEW size \in Nat, NEW need \in Nat
    PROVE  Place(h, from, size, need, obj) \in Shaped
<1> DEFINE new == [from |-> from, size |-> size, obj |-> obj]
           Spots == [from : Nat, size : Nat, obj : Thing]
<1>1. new \in Spots
  OBVIOUS
<1>2. PICK k : k = Place(h, from, size, need, obj)
  OBVIOUS
<1>3. k = [h EXCEPT !.mem = from + size, !.objs = Append(@, new),
                    !.ok = @ /\ need <= size /\ from + size <= HeapSize]
  BY <1>2 DEF Place
<1> HIDE DEF new, Spots
<1>4. Append(h.objs, new) \in Seq(Spots)
  BY <1>1 DEF Shaped, Spots
<1>5. from + size \in Nat /\ (h.ok /\ need <= size /\ from + size <= HeapSize) \in BOOLEAN
  OBVIOUS
<1>6. h \in [mem : Nat, objs : Seq(Spots), ok : BOOLEAN, bucket : [0 .. (HashSize - 1) -> Seq(Nat)]]
  BY DEF Shaped, Spots
<1>7. k \in [mem : Nat, objs : Seq(Spots), ok : BOOLEAN, bucket : [0 .. (HashSize - 1) -> Seq(Nat)]]
  BY <1>3, <1>4, <1>5, <1>6
<1>8. QED
  BY <1>2, <1>7 DEF Shaped, Spots

LEMMA LookupShaped ==
    ASSUME NEW h \in PoolHeap, NEW bytes \in Seq(Nat)
    PROVE  Lookup(h, bytes).heap \in PoolHeap
<1>1. h \in Shaped /\ HeapOK(h) /\ Well(h)
  BY DEF PoolHeap, HeapOK
<1>2. HeapOK(Lookup(h, bytes).heap)
  BY <1>1, Lookups DEF FoundString
<1>3. CASE Matching(h, bytes) # {}
  <2>1. Lookup(h, bytes).heap = h
    BY <1>3 DEF Lookup, Answer
  <2>2. QED
    BY <2>1
<1>4. CASE Matching(h, bytes) = {}
  <2>1. PICK i \in 0 .. (HashSize - 1) : i = Hash(bytes)
    BY HashIn
  <2>2. PICK string \in Thing : string = [is |-> "kstring", bytes |-> bytes, intern |-> 0]
    BY DEF Thing
  <2>3. PICK entry \in Thing : entry = [is |-> "entry"]
    BY DEF Thing
  <2>4. PICK len \in Nat : len = Len(bytes) + 1
    OBVIOUS
  <2>5. PICK g : g = NewVmArray(h, len, 1, string)
    OBVIOUS
  <2>6. g \in Shaped /\ Well(g) /\ Added(h, g, string)
    <3>1. h.mem \in Nat
      BY <1>1 DEF Shaped
    <3>2. Aligned(h.mem) \in Nat
      BY <3>1, AlignedUp
    <3>3. VmArraySize(len, 1) \in Nat
      <4>1. PICK u \in Nat \ {0}, w \in Nat \ {0} : u = 2^LengthBits /\ w = 2^SizeBits
        BY HeapAssumption, Powers
      <4>2. len % u \in Nat
        BY <4>1
      <4>3. 1 * (len % u) + ArrayOverhead \in Nat
        BY <4>2 DEF ArrayOverhead
      <4>4. (1 * (len % u) + ArrayOverhead) % w \in Nat
        BY <4>1, <4>3
      <4>5. QED
        BY <4>1, <4>4 DEF VmArraySize
    <3>4. ArrayOverhead + 1 * len \in Nat
      BY DEF ArrayOverhead
    <3>5. g \in Shaped
      BY <1>1, <2>5, <3>2, <3>3, <3>4, PlaceShaped DEF NewVmArray, NewVm
    <3>6. Enough(string, VmArraySize(len, 1))
      <4>1. string.is = "kstring" /\ string.bytes = bytes
        BY <2>2
      <4>2. QED
        BY <2>4, <4>1, StringFits
    <3>7. QED
      BY <1>1, <2>5, <3>5, <3>6, Allocates
  <2>7. PICK e : e = NewVmObject(g, EntrySize, entry)
    OBVIOUS
  <2>8. e \in Shaped /\ EntrySize \in Nat
    <3>1. g.mem \in Nat
      BY <2>6 DEF Shaped
    <3>2. Aligned(g.mem) \in Nat
      BY <3>1, AlignedUp
    <3>3. EntrySize \in Nat /\ EntrySize % 2^LengthBits \in Nat
      <4>1. PICK u \in Nat \ {0} : u = 2^LengthBits
        BY HeapAssumption, Powers
      <4>2. EntrySize \in Nat /\ EntrySize % u \in Nat
        BY <4>1 DEF EntrySize
      <4>3. QED
        BY <4>1, <4>2
    <3>4. QED
      BY <2>6, <2>7, <3>2, <3>3, PlaceShaped DEF NewVmObject, NewVm
  <2>9. Newest(g) \in Nat
    BY <2>6, References
  <2>10. PICK r \in Nat : r = Newest(g)
    BY <2>9
  <2>11. Lookup(h, bytes).heap = [e EXCEPT !.bucket[i] = <<r>> \o @]
    BY <1>4, <2>1, <2>2, <2>3, <2>4, <2>5, <2>7, <2>10 DEF Lookup, Entered, Made, Answer
  <2>12. PICK table \in [0 .. (HashSize - 1) -> Seq(Nat)] : table = [e.bucket EXCEPT ![i] = <<r>> \o @]
    <3>1. e.bucket \in [0 .. (HashSize - 1) -> Seq(Nat)]
      BY <2>8 DEF Shaped
    <3>2. <<r>> \in Seq(Nat)
      BY <2>10
    <3>5. e.bucket[i] \in Seq(Nat)
      BY <2>1, <3>1
    <3>3. <<r>> \o e.bucket[i] \in Seq(Nat)
      BY <3>2, <3>5
    <3>4. QED
      BY <3>1, <3>3
  <2>13. [e EXCEPT !.bucket[i] = <<r>> \o @] = [e EXCEPT !.bucket = table]
    BY <2>8, <2>12 DEF Shaped
  <2>14. [e EXCEPT !.bucket = table] \in Shaped
    BY <2>8, <2>12 DEF Shaped
  <2>15. QED
    BY <1>2, <2>11, <2>13, <2>14 DEF PoolHeap
<1>5. QED
  BY <1>3, <1>4

LEMMA SequenceOf ==
    ASSUME NEW S, IsFiniteSet(S)
    PROVE  \E n \in Nat : SetToSeq(S) \in [1 .. n -> S]
<1>1. PICK n \in Nat : n = Cardinality(S)
  BY FS_CardinalityType
<1>2. ExistsBijection(1 .. n, S)
  BY <1>1, FS_CardinalityType
<1>3. PICK f \in Bijection(1 .. n, S) : TRUE
  BY <1>2 DEF ExistsBijection
<1>4. f \in [1 .. n -> S] /\ IsInjective(f)
  BY <1>3 DEF Bijection, Injection, IsInjective
<1>5. QED
  BY <1>1, <1>4 DEF SetToSeq

LEMMA LiteralsEntered ==
    ASSUME EmptyHeap \in PoolHeap
    PROVE  HeapOK(LiteralsHeap)
<1> DEFINE texts == SetToSeq(Literals)
           next(h, text) == Lookup(h, PackUtf8(text)).heap
           body(f) == [some \in SUBSET (DOMAIN texts) |->
                         IF some = {} THEN EmptyHeap
                         ELSE next(f[some \ {Max(some)}], texts[Max(some)])]
           iter == CHOOSE f : f = body(f)
<1>1. PICK n \in Nat : texts \in [1 .. n -> Literals]
  BY ProgramAssumption, SequenceOf
<1>2. LiteralsHeap = iter[DOMAIN texts]
  BY DEF LiteralsHeap, FoldLeft, MapThenFoldSet
<1>3. \A h \in PoolHeap, text \in Literals : next(h, text) \in PoolHeap
  BY ProgramAssumption, TextsAreCanonical, LookupShaped
<1> HIDE DEF next
<1>4. PICK G : G = [i \in 1 .. n |-> [h \in PoolHeap |-> next(h, texts[i])]]
  OBVIOUS
<1>5. G \in [1 .. n -> [PoolHeap -> PoolHeap]]
  <2> HIDE DEF texts
  <2>1. QED
    BY <1>1, <1>3, <1>4
<1>6. Recurs(PoolHeap, n, EmptyHeap, G)
  BY <1>5, Recursion
<1>7. PICK f \in [SUBSET (1 .. n) -> PoolHeap] :
             f = [some \in SUBSET (1 .. n) |->
                    IF some = {} THEN EmptyHeap ELSE G[Max(some)][f[some \ {Max(some)}]]]
  BY <1>6 DEF Recurs
<1>8. DOMAIN texts = 1 .. n /\ \A i \in 1 .. n : texts[i] \in Literals
  BY <1>1
<1> HIDE DEF texts
<1>9. ASSUME NEW some \in SUBSET (1 .. n), some # {}
      PROVE  G[Max(some)][f[some \ {Max(some)}]] = next(f[some \ {Max(some)}], texts[Max(some)])
  <2>1. Max(some) \in 1 .. n /\ some \ {Max(some)} \in SUBSET (1 .. n)
    BY <1>9, WithoutGreatest
  <2>2. f[some \ {Max(some)}] \in PoolHeap
    BY <1>7, <2>1
  <2>3. QED
    BY <1>4, <2>1, <2>2
<1>10. f = body(f)
  BY <1>7, <1>8, <1>9
<1>11. iter = body(iter)
  BY <1>10
<1> HIDE DEF iter
<1>12. iter[{}] \in PoolHeap
  BY <1>11
<1>13. ASSUME NEW some \in SUBSET (1 .. n), some # {}, iter[some \ {Max(some)}] \in PoolHeap
       PROVE  iter[some] \in PoolHeap
  <2>1. iter[some] = next(iter[some \ {Max(some)}], texts[Max(some)])
    BY <1>8, <1>11, <1>13
  <2>2. texts[Max(some)] \in Literals
    BY <1>8, <1>13, WithoutGreatest
  <2>3. QED
    BY <1>3, <1>13, <2>1, <2>2
<1>14. iter[1 .. n] \in PoolHeap
  BY <1>12, <1>13, FoldStays
<1>15. QED
  BY <1>2, <1>8, <1>14 DEF PoolHeap

LEMMA EmptyIsPool ==
    EmptyHeap \in PoolHeap
<1>1. PICK h : h = EmptyHeap
  OBVIOUS
<1>2. /\ h.mem = 0 /\ h.objs = <<>> /\ h.ok = TRUE /\ DOMAIN h = {"mem", "objs", "ok", "bucket"}
      /\ h.bucket = [i \in 0 .. (HashSize - 1) |-> <<>>]
  BY <1>1 DEF EmptyHeap
<1>3. h \in Shaped
  <2>1. h.bucket \in [0 .. (HashSize - 1) -> Seq(Nat)]
    BY <1>2
  <2>2. <<>> \in Seq([from : Nat, size : Nat, obj : Thing])
    OBVIOUS
  <2>3. QED
    BY <1>1, <2>1, <2>2 DEF Shaped, EmptyHeap
<1>4. Ref(h) = {}
  BY <1>2 DEF Ref
<1>5. Well(h)
  <2>1. h.objs \in Seq([from : Nat, size : Nat, obj : Thing])
    BY <1>3 DEF Shaped
  <2>2. Apart(h)
    BY <1>4 DEF Apart
  <2>3. h.mem <= HeapSize
    BY <1>2, HeapAssumption
  <2>4. {"mem", "objs", "ok"} \subseteq DOMAIN h /\ "bucket" \in DOMAIN h /\ h.mem \in Nat
    BY <1>2
  <2>5. h.ok \in BOOLEAN
    BY <1>3 DEF Shaped
  <2>6. QED
    BY <1>4, <2>1, <2>2, <2>3, <2>4, <2>5 DEF Well, HeapInv, Covered
<1>6. Linked(h) /\ Sole(h) /\ Private(h)
  BY <1>4 DEF Linked, Sole, Private
<1>7. Pool(h)
  <2>1. DOMAIN h.bucket = 0 .. (HashSize - 1)
    BY <1>2
  <2>2. \A i \in 0 .. (HashSize - 1) : h.bucket[i] = <<>> /\ h.bucket[i] \in Seq(Ref(h)) /\ DOMAIN h.bucket[i] = {}
    BY <1>2
  <2>3. QED
    BY <1>4, <2>1, <2>2 DEF Pool
<1>8. QED
  BY <1>1, <1>3, <1>5, <1>6, <1>7 DEF PoolHeap, HeapOK

(* The arrays of the program are not those of a string or a buffer.        *)
LEMMA OwnAdded ==
    ASSUME NEW h, HeapOK(h), NEW k, NEW obj, Added(h, k, obj), HeapOK(k), Keeps(h, k),
           obj.is \in {"chars", "ints"}
    PROVE  OwnOK(k, {Newest(k)})
<1>1. IsArray(k, Newest(k)) /\ Newest(k) \notin Ref(h)
  BY DEF Added, IsArray, Is
<1>2. ASSUME NEW r \in Ref(k), HasArray(k, r) PROVE Obj(k, r).value # Newest(k)
  <2>1. r \in Ref(h) /\ HasArray(h, r) /\ Obj(k, r) = Obj(h, r)
    BY <1>2 DEF Added, HasArray, Is
  <2>2. Obj(h, r).value \in Ref(h)
    BY <2>1 DEF HeapOK, Linked, HoldsWell, Is
  <2>3. QED
    BY <1>1, <2>1, <2>2
<1>3. QED
  BY <1>1, <1>2 DEF OwnOK

LEMMA BufferMade ==
    ASSUME NEW h, HeapOK(h), NEW c \in Nat
    PROVE  LET k == Buffer(h, c) IN
           /\ HeapOK(k) /\ Keeps(h, k) /\ Newest(k) \notin Ref(h)
           /\ Is(k, Newest(k), "StringBuffer") /\ HasArray(k, Newest(k)) /\ Content(k, Newest(k)) = <<>>
<1>1. PICK zeros \in Seq(Character) : zeros = [k \in 1 .. c |-> 0] /\ Len(zeros) = c
  <2>1. 0 \in Character
    BY DEF Character
  <2>2. PICK zeros : zeros = [k \in 1 .. c |-> 0]
    OBVIOUS
  <2>3. zeros \in [1 .. c -> Character]
    BY <2>1, <2>2
  <2>4. zeros \in Seq(Character) /\ Len(zeros) = c
    BY <2>3
  <2>5. QED
    BY <2>2, <2>4
<1>2. PICK g : g = CharsOf(h, zeros).heap
  OBVIOUS
<1>3. HeapOK(g) /\ Keeps(h, g) /\ Added(h, g, [is |-> "chars", slots |-> zeros])
  BY <1>2, ArrayMade
<1>4. g = Chars(h, c, zeros)
  BY <1>1, <1>2 DEF CharsOf, Made, Answer
<1>5. Well(h) /\ Well(g) /\ Newest(h) \in Nat /\ Newest(g) = Newest(h) + 1 /\ Newest(g) \in Nat
  <2>1. Well(h) /\ Well(g)
    BY <1>3 DEF HeapOK
  <2>2. QED
    BY <1>3, <2>1, References DEF Added
<1>6. PICK a \in Nat : a = Newest(g)
  BY <1>5
<1>7. PICK buffer \in Thing : buffer = [is |-> "StringBuffer", value |-> a, count |-> 0]
  BY <1>6 DEF Thing
<1>8. PICK k : k = NewJavaObject(g, StringSize, buffer)
  OBVIOUS
<1>9. StringSize \in Nat /\ 0 \in Nat
  BY DEF StringSize
<1>10. Well(k) /\ Added(g, k, buffer)
  <2>1. buffer.is = "StringBuffer"
    BY <1>7
  <2>2. QED
    BY <1>5, <1>7, <1>8, <1>9, <2>1, ObjectFits, Allocates
<1>11. PICK r : r = Newest(k)
  OBVIOUS
<1>12. /\ Ref(k) = Ref(h) \union {a, r} /\ a \notin Ref(h) /\ r \notin Ref(h) /\ a # r
       /\ Obj(k, a) = [is |-> "chars", slots |-> zeros] /\ Obj(k, r) = buffer
       /\ \A q \in Ref(h) : Obj(k, q) = Obj(h, q)
       /\ k.bucket = h.bucket
  BY <1>3, <1>6, <1>10, <1>11 DEF Added
<1>13. /\ Obj(k, r).is = "StringBuffer" /\ Obj(k, r).value = a /\ Obj(k, r).count = 0
       /\ Obj(k, a).is = "chars" /\ Obj(k, a).slots = zeros /\ Slots(k, r) = zeros
  BY <1>7, <1>12 DEF Slots
<1>14. Is(k, r, "StringBuffer") /\ HasArray(k, r) /\ ~HasArray(k, a) /\ ~Is(k, a, "kstring") /\ ~Is(k, r, "kstring")
  BY <1>12, <1>13 DEF Is, HasArray
<1>15. Keeps(h, k)
  BY <1>12, <1>13, <1>14 DEF Keeps, Is, IsInterned
<1>16. HoldsWell(k, r)
  <2>1. End(Obj(k, r)) = 0
    BY <1>13 DEF End
  <2>2. Len(Slots(k, r)) = c
    BY <1>1, <1>13
  <2>3. Is(k, a, "chars")
    BY <1>12, <1>13 DEF Is
  <2>4. QED
    BY <1>13, <2>1, <2>2, <2>3 DEF HoldsWell
<1>17. \A q \in Ref(k) : q \notin Ref(h) /\ HasArray(k, q) => q = r
  BY <1>12, <1>14
<1>18. \A q \in Ref(k) : HasArray(k, q) /\ q # r => Obj(k, q).value # a
  <2>1. SUFFICES ASSUME NEW q \in Ref(k), HasArray(k, q), q # r PROVE Obj(k, q).value # a
    OBVIOUS
  <2>2. q \in Ref(h) /\ Obj(k, q) = Obj(h, q) /\ HasArray(h, q)
    BY <1>12, <1>17, <2>1 DEF HasArray, Is
  <2>3. Obj(h, q).value \in Ref(h)
    BY <2>2 DEF HeapOK, Linked, HoldsWell, Is
  <2>4. QED
    BY <1>12, <2>2, <2>3
<1>19. \A q \in Ref(k) : ~NewIntern(h, k, q)
  BY <1>12, <1>14 DEF NewIntern, IsInterned, Is
<1>20. Pool(k)
  BY <1>12, <1>14, <1>15, PoolStays DEF HeapOK
<1>21. \A q \in Ref(k) : q \notin Ref(h) /\ HasArray(k, q) => HoldsWell(k, q)
  BY <1>16, <1>17
<1>22. \A q \in Ref(k) : q \notin Ref(h) /\ Is(k, q, "StringBuffer") =>
          \A p \in Ref(k) : HasArray(k, p) /\ p # q => Obj(k, p).value # Obj(k, q).value
  BY <1>13, <1>17, <1>18 DEF HasArray
<1>23. HeapOK(k)
  BY <1>10, <1>15, <1>19, <1>20, <1>21, <1>22, KeepsOK
<1>24. Content(k, r) = <<>>
  <2>1. Content(k, r) = SubSeq(zeros, 1, 0)
    BY <1>13 DEF Content
  <2>2. SubSeq(zeros, 1, 0) = <<>>
    BY <1>1
  <2>3. QED
    BY <2>1, <2>2
<1>25. Buffer(h, c) = k
  BY <1>1, <1>4, <1>5, <1>6, <1>7, <1>8 DEF Buffer
<1>26. QED
  BY <1>11, <1>12, <1>14, <1>15, <1>23, <1>24, <1>25

LEMMA InitHolds ==
    ASSUME Init
    PROVE  Inv
<1>1. PICK h0 : h0 = LiteralsHeap
  OBVIOUS
<1>2. HeapOK(h0)
  BY <1>1, EmptyIsPool, LiteralsEntered
<1>3. PICK letters \in Seq(Character) : letters = <<97, 98, 0>> /\ Len(letters) = 3
  <2>1. 97 \in Character /\ 98 \in Character /\ 0 \in Character
    BY DEF Character
  <2>2. <<97, 98, 0>> \in Seq(Character) /\ Len(<<97, 98, 0>>) = 3
    BY <2>1
  <2>3. QED
    BY <2>2
<1>4. PICK numbers \in Seq(Character) : numbers = <<1, 2>>
  <2>1. 1 \in Character /\ 2 \in Character
    BY DEF Character
  <2>2. <<1, 2>> \in Seq(Character)
    BY <2>1
  <2>3. QED
    BY <2>2
<1>5. PICK a : a = Chars(h0, 3, <<97, 98, 0>>)
  OBVIOUS
<1>6. HeapOK(a) /\ Keeps(h0, a) /\ OwnOK(a, {Newest(a)})
  <2>1. CharsOf(h0, letters).heap = a
    BY <1>3, <1>5 DEF CharsOf, Made, Answer
  <2>2. PICK obj : obj = [is |-> "chars", slots |-> letters]
    OBVIOUS
  <2>3. HeapOK(a) /\ Keeps(h0, a) /\ Added(h0, a, obj) /\ obj.is = "chars"
    BY <1>2, <2>1, <2>2, ArrayMade
  <2>4. QED
    BY <1>2, <2>3, OwnAdded
<1>7. PICK i : i = NewJavaArray(a, 2, 4, [is |-> "ints", slots |-> <<1, 2>>])
  OBVIOUS
<1>8. HeapOK(i) /\ Keeps(a, i) /\ OwnOK(i, {Newest(i)})
  <2>1. PICK obj \in Thing : obj = [is |-> "ints", slots |-> <<1, 2>>] /\ obj.is = "ints"
    <3>1. [is |-> "ints", slots |-> numbers] \in Thing
      BY DEF Thing
    <3>2. QED
      BY <1>4, <3>1
  <2>2. Well(a) /\ 2 \in Nat /\ 4 \in Nat
    BY <1>6 DEF HeapOK
  <2>3. i = NewJavaArray(a, 2, 4, obj)
    BY <1>7, <2>1
  <2>4. Well(i) /\ Added(a, i, obj)
    <3>1. Room(obj) = ArrayOverhead + 4 * 2
      <4>1. Room(obj) = ArrayOverhead + 4 * Len(obj.slots)
        BY <2>1, Rooms
      <4>2. obj.slots = <<1, 2>>
        BY <2>1
      <4>3. Len(<<1, 2>>) = 2
        OBVIOUS
      <4>4. QED
        BY <4>1, <4>2, <4>3
    <3>2. Enough(obj, ArrayOverhead + 4 * 2)
      BY <3>1 DEF Enough, ArrayOverhead
    <3>3. QED
      BY <2>2, <2>3, <3>2, Allocates
  <2>5. HeapOK(i) /\ Keeps(a, i)
    BY <1>6, <2>1, <2>4, PlainAdded
  <2>6. QED
    BY <1>6, <2>1, <2>4, <2>5, OwnAdded
<1>9. OwnOK(i, {Newest(a), Newest(i)})
  <2>1. OwnOK(i, {Newest(a)})
    BY <1>6, <1>8, OwnKept
  <2>2. QED
    BY <1>8, <2>1 DEF OwnOK
<1>10. PICK cs \in Capacities :
         /\ heap = Buffer(Buffer(i, cs[1]), cs[2])
         /\ own = {Newest(a), Newest(i)}
         /\ bufs = {Newest(Buffer(i, cs[1])), Newest(Buffer(Buffer(i, cs[1]), cs[2]))}
  BY <1>1, <1>5, <1>7 DEF Init
<1>11. cs[1] \in Nat /\ cs[2] \in Nat
  BY ProgramAssumption
<1>12. PICK b1 : b1 = Buffer(i, cs[1])
  OBVIOUS
<1>13. PICK b2 : b2 = Buffer(b1, cs[2])
  OBVIOUS
<1>14. PICK r1, r2 : r1 = Newest(b1) /\ r2 = Newest(b2)
  OBVIOUS
<1>15. /\ HeapOK(b1) /\ Keeps(i, b1)
       /\ Is(b1, r1, "StringBuffer") /\ HasArray(b1, r1) /\ Content(b1, r1) = <<>>
  BY <1>8, <1>11, <1>12, <1>14, BufferMade
<1>16. /\ HeapOK(b2) /\ Keeps(b1, b2)
       /\ Is(b2, r2, "StringBuffer") /\ HasArray(b2, r2) /\ Content(b2, r2) = <<>>
  BY <1>11, <1>13, <1>14, <1>15, BufferMade
<1>17. Is(b2, r1, "StringBuffer") /\ HasArray(b2, r1) /\ HoldsText(b2, r1, <<>>)
  <2>1. Is(b2, r1, "StringBuffer")
    BY <1>15, <1>16, KeepsHolders DEF Is
  <2>2. HoldsText(b1, r1, <<>>)
    BY <1>15 DEF HoldsText
  <2>3. QED
    BY <1>15, <1>16, <2>1, <2>2, TextKept
<1>18. /\ heap = b2 /\ own = {Newest(a), Newest(i)} /\ bufs = {r1, r2}
       /\ said = [b \in bufs |-> <<>>] /\ results = {}
       /\ status = IF heap.ok THEN "running" ELSE "stray"
  BY <1>10, <1>12, <1>13, <1>14 DEF Init
<1>19. OwnOK(heap, own)
  <2>1. OwnOK(b1, own)
    BY <1>9, <1>15, <1>18, OwnKept
  <2>2. QED
    BY <1>16, <1>18, <2>1, OwnKept
<1>20. SaidOK(heap, bufs, said)
  <2>1. HoldsText(b2, r2, <<>>)
    BY <1>16 DEF HoldsText
  <2>2. QED
    BY <1>16, <1>17, <1>18, <2>1 DEF SaidOK
<1>21. ResultsOK(heap, said, results)
  BY <1>18 DEF ResultsOK
<1>22. Trusted => heap.ok
  BY <1>18 DEF Trusted
<1>23. QED
  BY <1>16, <1>18, <1>19, <1>20, <1>21, <1>22 DEF Inv, World

LEMMA NextKeeps ==
    ASSUME Inv, [Next]_vars
    PROVE  Inv'
<1>1. CASE UNCHANGED vars
  BY <1>1 DEF vars, Inv, Trusted
<1>2. ASSUME NEW text \in Literals, Ldc(text) PROVE Inv'
  BY <1>2, LdcKeeps
<1>3. ASSUME NEW s \in Strings, NEW n \in 1 .. 2, Substring(s, n) PROVE Inv'
  BY <1>3, SubstringKeeps
<1>4. ASSUME NEW s \in Strings, ClassForName(s) PROVE Inv'
  BY <1>4, ClassForNameKeeps
<1>5. ASSUME NEW s \in Strings, SystemGetProperty(s) PROVE Inv'
  BY <1>5, GetPropertyKeeps
<1>6. ASSUME NEW b \in bufs, NEW s \in Strings \union {0}, StringBufferAppend(b, s) PROVE Inv'
  BY <1>6, AppendKeeps
<1>7. ASSUME NEW b \in bufs, NEW s \in Strings, StringBufferInsert(b, s) PROVE Inv'
  BY <1>7, InsertKeeps
<1>8. ASSUME NEW b \in bufs, StringBufferToString(b) PROVE Inv'
  BY <1>8, ToStringKeeps
<1>9. ASSUME NEW a \in own, NEW b \in own, NEW r \in Ranges, SystemArraycopy(a, b, r[1], r[2], r[3])
      PROVE  Inv'
  <2>1. PICK so \in Int, do \in Int, n \in Int : so = r[1] /\ do = r[2] /\ n = r[3]
    BY ProgramAssumption
  <2>2. QED
    BY <1>9, <2>1, ArraycopyKeeps
<1>10. QED
  BY <1>1, <1>2, <1>3, <1>4, <1>5, <1>6, <1>7, <1>8, <1>9 DEF Next

LEMMA InvAlways == Spec => []Inv
<1>1. Init => Inv
  BY InitHolds
<1>2. Inv /\ [Next]_vars => Inv'
  BY NextKeeps
<1>3. QED
  BY <1>1, <1>2, PTL DEF Spec

-----------------------------------------------------------------------------
(* What holds of every program                                              *)

LEMMA InvHolds ==
    ASSUME Inv
    PROVE  /\ World(heap, own, bufs, said, results) /\ HeapOK(heap) /\ Well(heap) /\ Pool(heap)
           /\ Strings \subseteq DOMAIN said /\ bufs \subseteq DOMAIN said
           /\ \A s \in Strings : Is(heap, s, "String") /\ HasArray(heap, s) /\ s \in Ref(heap)
BY DEF Inv, World, HeapOK, SaidOK, Strings, HasArray, Is

(* Objects never overlap, and each has room for all that it holds, unless  *)
(* it is a native string too long for its header; as long as nothing was   *)
(* written outside its object the pointer of the allocator is within the   *)
(* heap it asked for (gc_new_vm_object, gc_new_java_object,                *)
(* gc_new_java_array, and the sizes their callers compute).                *)
THEOREM HeapStaysApart == Spec => []ObjectsApart
<1>1. Inv => ObjectsApart
  <2>1. ASSUME Inv PROVE Apart(heap) /\ Covered(heap) /\ (heap.ok => heap.mem <= HeapSize)
    BY <2>1, InvHolds DEF Well, HeapInv
  <2>2. Inv => (Trusted => heap.ok)
    BY DEF Inv
  <2>3. QED
    BY <2>1, <2>2 DEF ObjectsApart, Covered
<1>2. QED
  BY <1>1, InvAlways, PTL

(* A buffer holds what was appended and inserted, in that order, as long    *)
(* as the arrays append took for it are not those of interned strings of    *)
(* nothing but a.                                                           *)
THEOREM BuffersSayTheirText == Spec => []BuffersHoldTheirText
<1>1. Inv => BuffersHoldTheirText
  BY InvHolds, TextIsContent DEF BuffersHoldTheirText, Text
<1>2. QED
  BY <1>1, InvAlways, PTL

(* No append, insert or arraycopy changes the text of a string the program *)
(* was given, nor of a part of one: who writes to an array has it for       *)
(* himself, but for arrays of letters a (the invariant's Private and Sole). *)
THEOREM StringsAreConstants == Spec => []StringsKeepTheirText
<1>1. ASSUME Inv PROVE StringsKeepTheirText
  <2>1. ASSUME NEW x \in results, ~Tainted(x.ref) PROVE Content(heap, x.ref) = x.text
    <3>1. InPool(heap, x.ref, x.text) /\ HeapOK(heap) /\ Linked(heap)
      BY <1>1, InvHolds DEF World, ResultsOK, HeapOK
    <3>2. PICK text \in Seq(Character) : text = x.text
      BY <3>1 DEF InPool
    <3>3. PICK k \in Ref(heap) : /\ IsInterned(heap, k) /\ Obj(heap, k).bytes = PackUtf8(text)
                                 /\ Obj(heap, k).intern = x.ref
      BY <3>1, <3>2 DEF InPool
    <3>4. StandsFor(heap, x.ref, PackUtf8(text))
      BY <3>1, <3>3 DEF Linked
    <3>5. Lent(heap, Obj(heap, x.ref).value) \/ Content(heap, x.ref) = UnpackUtf8(PackUtf8(text))
      BY <3>1, <3>3, <3>4, ContentOfString
    <3>6. UnpackUtf8(PackUtf8(text)) = text
      BY TextsSurviveUtf8
    <3>7. QED
      BY <2>1, <3>2, <3>5, <3>6 DEF Tainted
  <2>2. \A s \in Strings : Content(heap, s) = Text(s)
    BY <1>1, InvHolds, TextIsContent
  <2>3. QED
    BY <2>1, <2>2 DEF StringsKeepTheirText, Text
<1>2. QED
  BY <1>1, InvAlways, PTL

(* Equal constants and equal results of toString are one object, whatever  *)
(* the program did between them: string_pool_lookup finds what it entered. *)
THEOREM TextsAreUnique == Spec => []OneStringPerText
<1>1. ASSUME Inv PROVE OneStringPerText
  <2>1. ASSUME NEW x \in results, NEW y \in results, x.text = y.text PROVE x.ref = y.ref
    <3>1. InPool(heap, x.ref, x.text) /\ InPool(heap, y.ref, x.text) /\ Pool(heap)
      BY <1>1, <2>1, InvHolds DEF World, ResultsOK
    <3>2. PICK bytes : bytes = PackUtf8(x.text)
      OBVIOUS
    <3>3. PICK k \in Ref(heap) : /\ IsInterned(heap, k) /\ Obj(heap, k).bytes = bytes
                                 /\ Obj(heap, k).intern = x.ref
      BY <3>1, <3>2 DEF InPool
    <3>4. PICK l \in Ref(heap) : /\ IsInterned(heap, l) /\ Obj(heap, l).bytes = bytes
                                 /\ Obj(heap, l).intern = y.ref
      BY <3>1, <3>2 DEF InPool
    <3>5. PICK chain : chain = heap.bucket[Hash(bytes)]
      OBVIOUS
    <3>6. Is(heap, k, "kstring") /\ Is(heap, l, "kstring")
      BY <3>3, <3>4 DEF IsInterned
    <3>7. PICK n \in DOMAIN chain : chain[n] = k
      BY <3>1, <3>3, <3>5, <3>6 DEF Pool
    <3>8. PICK m \in DOMAIN chain : chain[m] = l
      BY <3>1, <3>4, <3>5, <3>6 DEF Pool
    <3>9. PICK i \in 0 .. (HashSize - 1) : i = Hash(bytes)
      <4>1. bytes \in Seq(Nat)
        BY <3>1, <3>2, TextsAreCanonical DEF InPool
      <4>2. QED
        BY <4>1, HashIn
    <3>10. \A p, q \in DOMAIN chain : Obj(heap, chain[p]).bytes = Obj(heap, chain[q]).bytes => p = q
      BY <3>1, <3>5, <3>9 DEF Pool
    <3>11. n = m
      BY <3>3, <3>4, <3>7, <3>8, <3>10
    <3>12. QED
      BY <3>3, <3>4, <3>7, <3>8, <3>11
  <2>2. ASSUME NEW i \in DOMAIN heap.bucket
        PROVE  IsInjective([k \in DOMAIN heap.bucket[i] |-> Obj(heap, heap.bucket[i][k]).bytes])
    <3>1. Pool(heap)
      BY <1>1, InvHolds
    <3>2. PICK chain : chain = heap.bucket[i]
      OBVIOUS
    <3>3. \A p, q \in DOMAIN chain : Obj(heap, chain[p]).bytes = Obj(heap, chain[q]).bytes => p = q
      BY <3>1, <3>2 DEF Pool
    <3>4. QED
      BY <3>2, <3>3 DEF IsInjective
  <2>3. QED
    BY <2>1, <2>2 DEF OneStringPerText
<1>2. QED
  BY <1>1, InvAlways, PTL

(* equals is about the texts of the strings, whatever parts they are of     *)
(* their arrays.                                                           *)
LEMMA EqualsIsText ==
    ASSUME NEW h, HeapOK(h), NEW s, Is(h, s, "String"), NEW t, Is(h, t, "String")
    PROVE  Equals(h, s, t) <=> Content(h, s) = Content(h, t)
<1>1. HasArray(h, s) /\ HasArray(h, t) /\ Well(h)
  BY DEF HasArray, HeapOK
<1>2. PICK sa \in Seq(Character) : sa = Slots(h, s)
  BY <1>1, ContentIn
<1>3. PICK ta \in Seq(Character) : ta = Slots(h, t)
  BY <1>1, ContentIn
<1>4. PICK so \in Nat, sc \in Nat : so = Obj(h, s).offset /\ sc = Obj(h, s).count
  BY <1>1, ContentIn
<1>5. PICK to \in Nat, tc \in Nat : to = Obj(h, t).offset /\ tc = Obj(h, t).count
  BY <1>1, ContentIn
<1>6. so + sc <= Len(sa) /\ to + tc <= Len(ta)
  <2>1. HoldsWell(h, s) /\ HoldsWell(h, t)
    BY <1>1 DEF HeapOK, Linked, Is
  <2>2. End(Obj(h, s)) = so + sc /\ End(Obj(h, t)) = to + tc
    BY <1>4, <1>5 DEF End, Is
  <2>3. QED
    BY <1>2, <1>3, <2>1, <2>2 DEF HoldsWell
<1>7. PICK left : left = SubSeq(sa, so + 1, so + sc)
  OBVIOUS
<1>8. PICK right : right = SubSeq(ta, to + 1, to + tc)
  OBVIOUS
<1>9. left \in Seq(Character) /\ Len(left) = sc /\ \A i \in 1 .. sc : left[i] = sa[so + i]
  <2>1. so + sc <= Len(sa)
    BY <1>6
  <2>2. /\ SubSeq(sa, so + 1, so + sc) \in Seq(Character)
        /\ Len(SubSeq(sa, so + 1, so + sc)) = sc
        /\ \A i \in 1 .. sc : SubSeq(sa, so + 1, so + sc)[i] = sa[so + i]
    BY <2>1, PartIs
  <2>3. QED
    BY <1>7, <2>2
<1>10. right \in Seq(Character) /\ Len(right) = tc /\ \A i \in 1 .. tc : right[i] = ta[to + i]
  <2>1. to + tc <= Len(ta)
    BY <1>6
  <2>2. /\ SubSeq(ta, to + 1, to + tc) \in Seq(Character)
        /\ Len(SubSeq(ta, to + 1, to + tc)) = tc
        /\ \A i \in 1 .. tc : SubSeq(ta, to + 1, to + tc)[i] = ta[to + i]
    BY <2>1, PartIs
  <2>3. QED
    BY <1>8, <2>2
<1>11. Content(h, s) = left /\ Content(h, t) = right
  BY <1>2, <1>3, <1>4, <1>5, <1>7, <1>8 DEF Content, Is
<1>12. Equals(h, s, t) <=> (s = t \/ (sc = tc /\ \A i \in 1 .. sc : sa[so + i] = ta[to + i]))
  BY <1>2, <1>3, <1>4, <1>5 DEF Equals
<1>13. CASE s = t
  BY <1>11, <1>12, <1>13
<1>14. ASSUME sc = tc, \A i \in 1 .. sc : sa[so + i] = ta[to + i] PROVE left = right
  <2>1. \A i \in 1 .. Len(left) : left[i] = right[i]
    BY <1>9, <1>10, <1>14
  <2>2. Len(left) = Len(right)
    BY <1>9, <1>10, <1>14
  <2>3. QED
    BY <1>9, <1>10, <2>1, <2>2, SeqEqual
<1>15. ASSUME left = right PROVE sc = tc /\ \A i \in 1 .. sc : sa[so + i] = ta[to + i]
  BY <1>9, <1>10, <1>15
<1>16. QED
  BY <1>11, <1>12, <1>13, <1>14, <1>15

(* The search from the beginning of the array answers for the search from  *)
(* a place on, unless it finds something before that place.                *)
LEMMA SearchIsRight ==
    ASSUME NEW slots \in Seq(Character), NEW ch, NEW from \in Int,
           ~(from <= Len(slots) /\ \E i \in Where(slots, ch) : i <= from)
    PROVE  /\ from > Len(slots) \/ Where(slots, ch) = {} => From(slots, ch, from) = {}
           /\ ~(from > Len(slots) \/ Where(slots, ch) = {}) =>
                 From(slots, ch, from) = Where(slots, ch)
<1>1. PICK l \in Nat : l = Len(slots) /\ DOMAIN slots = 1 .. l
  OBVIOUS
<1>2. PICK at : at = Where(slots, ch)
  OBVIOUS
<1>3. at \subseteq 1 .. l
  BY <1>1, <1>2 DEF Where
<1>4. From(slots, ch, from) = {i \in at : i > from}
  BY <1>2 DEF From
<1>5. CASE from > l
  <2>1. \A i \in at : ~(i > from)
    BY <1>3, <1>5
  <2>2. QED
    BY <1>1, <1>2, <1>4, <1>5, <2>1
<1>6. CASE ~(from > l)
  <2>1. \A i \in at : i > from
    BY <1>1, <1>2, <1>3, <1>6
  <2>2. QED
    BY <1>1, <1>2, <1>4, <1>6, <2>1
<1>7. QED
  BY <1>5, <1>6

(* equals tells two strings apart exactly when their texts differ, also     *)
(* for parts of an array; charAt and indexOf answer for the text of a      *)
(* string that has its array for itself (they take no account of offset),  *)
(* but for searches of a character that stands before from as well.        *)
THEOREM ReadersAreRight == Spec => []ReadersSeeTheText
<1>1. ASSUME Inv PROVE ReadersSeeTheText
  <2>1. HeapOK(heap) /\ \A s \in Strings : Is(heap, s, "String") /\ HasArray(heap, s) /\ s \in DOMAIN said
    BY <1>1, InvHolds
  <2>2. \A s, t \in Strings : Equals(heap, s, t) <=> Content(heap, s) = Content(heap, t)
    BY <2>1, EqualsIsText
  <2>3. ASSUME NEW s \in Strings, Whole(s)
        PROVE  Slots(heap, s) \in Seq(Character) /\ Text(s) = Slots(heap, s)
    <3>1. PICK slots \in Seq(Character) : slots = Slots(heap, s)
      BY <2>1, ContentIn
    <3>2. Text(s) = Content(heap, s)
      BY <1>1, <2>1, TextIsContent
    <3>3. Obj(heap, s).is = "String" /\ Obj(heap, s).offset = 0 /\ Obj(heap, s).count = Len(slots)
      BY <2>1, <2>3, <3>1 DEF Whole, Is
    <3>4. 0 + 1 = 1 /\ 0 + Len(slots) = Len(slots) /\ SubSeq(slots, 1, Len(slots)) = slots
      BY SubSeqFull
    <3>5. QED
      BY <3>1, <3>2, <3>3, <3>4 DEF Content
  <2>4. ASSUME NEW s \in Strings, Whole(s), NEW i \in DOMAIN Text(s)
        PROVE  CharAt(heap, s, i - 1) = Text(s)[i]
    <3>1. PICK slots \in Seq(Character) : slots = Slots(heap, s) /\ slots = Text(s)
      BY <2>3, <2>4
    <3>2. i \in 1 .. Len(slots)
      BY <2>4, <3>1
    <3>3. i - 1 + 1 = i
      BY <3>2
    <3>4. QED
      BY <3>1, <3>3 DEF CharAt
  <2>5. ASSUME NEW s \in Strings, Whole(s), NEW ch, NEW from \in -1 .. (Len(Text(s)) + 2),
               ~(from <= Len(Text(s)) /\ \E i \in Where(Text(s), ch) : i <= from)
        PROVE  IndexOf(heap, s, ch, from) = FirstFrom(Text(s), ch, from)
    <3>1. PICK slots \in Seq(Character) : slots = Slots(heap, s) /\ slots = Text(s)
      BY <2>3, <2>5
    <3>2. from \in Int
      BY <2>5, <3>1
    <3>3. /\ from > Len(slots) \/ Where(slots, ch) = {} => From(slots, ch, from) = {}
          /\ ~(from > Len(slots) \/ Where(slots, ch) = {}) =>
                From(slots, ch, from) = Where(slots, ch)
      BY <2>5, <3>1, <3>2, SearchIsRight
    <3>4. QED
      BY <3>1, <3>3 DEF IndexOf, FirstFrom
  <2>6. QED
    BY <2>2, <2>4, <2>5 DEF ReadersSeeTheText
<1>2. QED
  BY <1>1, InvAlways, PTL

=============================================================================
