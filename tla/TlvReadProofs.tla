---------------------------- MODULE TlvReadProofs ----------------------------
(***************************************************************************)
(* Proofs about TlvRead: for pages of any registers and packets of any     *)
(* size, a page is cut into as many packets as are announced beforehand,   *)
(* it is read back as it was written, and a read that succeeds has         *)
(* one page.                                                               *)
(*                                                                         *)
(* What the device and the client compute is recursive, and each of these  *)
(* recursions is reasoned about in the same way: the equation has a        *)
(* solution (Recursion), so the function that is defined by it satisfies   *)
(* it; a step of it is stated as a lemma (FlattenAppend, FillRound,        *)
(* PutFacts, UnitsRound); and what holds of the whole follows by induction *)
(* over a set of numbers (SetInduction), as a lemma may not be about       *)
(* every predicate.                                                        *)
(***************************************************************************)
EXTENDS TlvRead, SequenceTheorems, FiniteSetTheorems, TLAPS

-----------------------------------------------------------------------------
(* Induction.                                                              *)

Below == {ss \in Nat \X Nat : ss[1] < ss[2]}

\* A set of natural numbers that is not empty has a least element.
LEMMA Least ==
    ASSUME NEW T, T \subseteq Nat, T # {}
    PROVE  \E n \in T : \A m \in T : n <= m
<1>1. IsWellFoundedOn(Below, Nat)
  BY NatLessThanWellFounded, Zenon DEF OpToRel, Below
<1>2. PICK n \in T : \A m \in T : ~ (<<m, n>> \in Below)
  BY <1>1, WFMin, Zenon
<1>3. \A m, k \in Nat : m < k => <<m, k>> \in Below
  BY DEF Below
<1>4. \A m \in T : ~ (m < n)
  BY <1>2, <1>3, Zenon
<1> QED BY <1>4

\* Induction over the natural numbers, for a set instead of a predicate.
LEMMA SetInduction ==
    ASSUME NEW S, 0 \in S, \A n \in Nat : n \in S => n + 1 \in S
    PROVE  \A n \in Nat : n \in S
<1> DEFINE T == {n \in Nat : n \notin S}
<1> SUFFICES ASSUME T # {} PROVE FALSE
  OBVIOUS
<1>1. PICK n \in T : \A m \in T : n <= m
  BY Least
<1>2. n # 0 /\ n - 1 \in Nat /\ n - 1 \notin T
  BY <1>1
<1> QED BY <1>1, <1>2

\* The same up to a bound.
LEMMA BoundedInduction ==
    ASSUME NEW n \in Nat, NEW S, 0 \in S, \A k \in 1..n : k - 1 \in S => k \in S
    PROVE  \A k \in 0..n : k \in S
<1> DEFINE I == {k \in Nat : k <= n => k \in S}
<1>1. 0 \in I
  OBVIOUS
<1>2. ASSUME NEW k \in Nat, k \in I PROVE k + 1 \in I
  <2> SUFFICES ASSUME k + 1 <= n PROVE k + 1 \in S
    OBVIOUS
  <2>1. k + 1 \in 1..n /\ (k + 1) - 1 = k /\ k <= n
    OBVIOUS
  <2> QED BY <2>1, <1>2
<1>3. \A k \in Nat : k \in I
  <2> HIDE DEF I
  <2> QED BY <1>1, <1>2, SetInduction
<1> QED BY <1>3

\* What G makes of the function at w depends on smaller arguments only.
LooksDown(G, D, V, m) ==
    \A f, g \in [D -> V], w \in D :
        (\A v \in D : m[v] < m[w] => f[v] = g[v]) => G[<<f, w>>] = G[<<g, w>>]

\* f satisfies the equation of the recursion up to n.
UpTo(f, n, G, D, m) == \A w \in D : m[w] < n => f[w] = G[<<f, w>>]

\* Two functions that satisfy it up to n are the same up to n.
LEMMA UpToIsUnique ==
    ASSUME NEW D, NEW V, NEW m \in [D -> Nat], NEW G,
           LooksDown(G, D, V, m), NEW n \in Nat,
           NEW f \in [D -> V], NEW g \in [D -> V],
           UpTo(f, n, G, D, m), UpTo(g, n, G, D, m),
           NEW w \in D, m[w] < n
    PROVE  f[w] = g[w]
<1> DEFINE Bad == {m[v] : v \in {u \in D : m[u] < n /\ f[u] # g[u]}}
<1>1. Bad \subseteq Nat
  OBVIOUS
<1>2. SUFFICES ASSUME Bad # {} PROVE FALSE
  OBVIOUS
<1>3. PICK k \in Bad : \A j \in Bad : k <= j
  BY <1>1, <1>2, Least
<1>4. PICK u \in D : m[u] = k /\ m[u] < n /\ f[u] # g[u]
  BY <1>3
<1>5. ASSUME NEW v \in D, m[v] < m[u] PROVE f[v] = g[v]
  <2>1. m[v] \in Nat /\ m[u] \in Nat
    OBVIOUS
  <2>2. m[v] < n
    BY <2>1, <1>4, <1>5
  <2>3. m[v] \notin Bad
    BY <2>1, <1>3, <1>4, <1>5
  <2> QED BY <2>2, <2>3
<1>6. G[<<f, u>>] = G[<<g, u>>]
  BY <1>5 DEF LooksDown
<1> QED BY <1>4, <1>6 DEF UpTo

\* What a recursive definition must be like, and what solves it.
IsRecursion(D, V, m, G) ==
    /\ V # {} /\ m \in [D -> Nat] /\ G \in [[D -> V] \X D -> V]
    /\ LooksDown(G, D, V, m)
Solves(f, D, V, G) ==
    f \in [D -> V] /\ \A w \in D : f[w] = G[<<f, w>>]

\* A recursion on smaller arguments has a solution.
LEMMA Recursion ==
    ASSUME NEW D, NEW V, NEW m, NEW G, IsRecursion(D, V, m, G)
    PROVE  \E f : Solves(f, D, V, G)
<1> SUFFICES ASSUME V # {}, m \in [D -> Nat], G \in [[D -> V] \X D -> V],
                    LooksDown(G, D, V, m)
             PROVE  \E f \in [D -> V] : \A w \in D : f[w] = G[<<f, w>>]
  BY DEF IsRecursion, Solves
<1> DEFINE S == {n \in Nat : \E f \in [D -> V] : UpTo(f, n, G, D, m)}
<1>1. 0 \in S
  <2> PICK v0 \in V : TRUE
    OBVIOUS
  <2>1. [w \in D |-> v0] \in [D -> V]
    OBVIOUS
  <2>2. UpTo([w \in D |-> v0], 0, G, D, m)
    BY DEF UpTo
  <2> QED BY <2>1, <2>2
<1>2. ASSUME NEW n \in Nat, n \in S PROVE n + 1 \in S
  <2>1. PICK f \in [D -> V] : UpTo(f, n, G, D, m)
    BY <1>2
  <2> DEFINE g == [w \in D |-> IF m[w] < n THEN f[w] ELSE G[<<f, w>>]]
  <2>2. g \in [D -> V]
    OBVIOUS
  <2>3. ASSUME NEW w \in D, m[w] < n + 1 PROVE g[w] = G[<<g, w>>]
    <3>1. \A v \in D : m[v] < m[w] => f[v] = g[v]
      BY <2>3
    <3>2. G[<<f, w>>] = G[<<g, w>>]
      BY <2>2, <3>1 DEF LooksDown
    <3>3. CASE m[w] < n
      BY <3>2, <3>3, <2>1 DEF UpTo
    <3>4. CASE ~ (m[w] < n)
      BY <3>2, <3>4
    <3> QED BY <3>3, <3>4
  <2>4. UpTo(g, n + 1, G, D, m)
    BY <2>3 DEF UpTo
  <2> HIDE DEF g
  <2>5. \E e \in [D -> V] : UpTo(e, n + 1, G, D, m)
    BY <2>2, <2>4, Zenon
  <2> QED BY <2>5
<1>3. \A n \in Nat : \E f \in [D -> V] : UpTo(f, n, G, D, m)
  <2> HIDE DEF S
  <2>1. \A n \in Nat : n \in S
    BY <1>1, <1>2, SetInduction
  <2> QED BY <2>1 DEF S
<1>4. PICK h \in [Nat -> [D -> V]] : \A n \in Nat : UpTo(h[n], n, G, D, m)
  <2> DEFINE h == [n \in Nat |-> CHOOSE f \in [D -> V] : UpTo(f, n, G, D, m)]
  <2>1. \A n \in Nat : h[n] \in [D -> V] /\ UpTo(h[n], n, G, D, m)
    BY <1>3, Zenon
  <2>2. h \in [Nat -> [D -> V]]
    BY <2>1
  <2> HIDE DEF h
  <2> QED BY <2>1, <2>2
<1> DEFINE F == [w \in D |-> h[m[w] + 1][w]]
<1>5. F \in [D -> V]
  OBVIOUS
<1>6. ASSUME NEW w \in D PROVE F[w] = G[<<F, w>>]
  <2>1. m[w] \in Nat /\ m[w] + 1 \in Nat /\ h[m[w] + 1] \in [D -> V]
    OBVIOUS
  <2>2. ASSUME NEW v \in D, m[v] < m[w]
        PROVE  h[m[w] + 1][v] = F[v]
    <3>1. m[v] \in Nat /\ m[v] + 1 \in Nat /\ m[v] < m[v] + 1
      OBVIOUS
    <3>2. UpTo(h[m[w] + 1], m[v] + 1, G, D, m)
      <4>1. \A u \in D : m[u] < m[v] + 1 => m[u] < m[w] + 1
        BY <2>1, <2>2, <3>1
      <4>2. UpTo(h[m[w] + 1], m[w] + 1, G, D, m)
        BY <1>4, <2>1
      <4> QED BY <4>1, <4>2 DEF UpTo
    <3>3. h[m[v] + 1] \in [D -> V]
      BY <3>1
    <3>4. UpTo(h[m[v] + 1], m[v] + 1, G, D, m)
      BY <1>4, <3>1
    <3>5. h[m[w] + 1][v] = h[m[v] + 1][v]
      <4>1. \A f, g \in [D -> V] :
              UpTo(f, m[v] + 1, G, D, m) /\ UpTo(g, m[v] + 1, G, D, m) => f[v] = g[v]
        BY <3>1, UpToIsUnique
      <4> QED BY <4>1, <2>1, <3>2, <3>3, <3>4, Zenon
    <3> QED BY <3>5
  <2>3. G[<<h[m[w] + 1], w>>] = G[<<F, w>>]
    BY <1>5, <2>1, <2>2 DEF LooksDown
  <2>4. h[m[w] + 1][w] = G[<<h[m[w] + 1], w>>]
    <3>1. UpTo(h[m[w] + 1], m[w] + 1, G, D, m)
      BY <1>4, <2>1
    <3>2. \A f : UpTo(f, m[w] + 1, G, D, m) => f[w] = G[<<f, w>>]
      <4>1. m[w] < m[w] + 1
        BY <2>1
      <4> QED BY <4>1, Zenon DEF UpTo
    <3> QED BY <3>1, <3>2, Zenon
  <2> QED BY <2>3, <2>4
<1> QED BY <1>5, <1>6

-----------------------------------------------------------------------------
(* FlattenSeq.                                                             *)

\* The recursion that defines FlattenSeq has a solution, which is the only one.
LEMMA FlattenSteps ==
    ASSUME NEW S, NEW seqs \in Seq(Seq(S)), seqs # <<>>
    PROVE  \E f \in [1..Len(seqs) -> Seq(S)] :
              /\ f[1] = seqs[1]
              /\ \A i \in 2..Len(seqs) : f[i] = f[i - 1] \o seqs[i]
              /\ FlattenSeq(seqs) = f[Len(seqs)]
<1> DEFINE n == Len(seqs)
           D == 1..n
           V == Seq(S)
           m == [i \in D |-> i]
           G == [x \in [D -> V] \X D |->
                   IF x[2] = 1 THEN seqs[x[2]] ELSE x[1][x[2] - 1] \o seqs[x[2]]]
           flatten[i \in 1..Len(seqs)] ==
              IF i = 1 THEN seqs[i] ELSE flatten[i-1] \o seqs[i]
<1>1. n \in Nat /\ n > 0 /\ Len(seqs) # 0
  BY EmptySeq
<1>2. \A i \in D : seqs[i] \in V
  OBVIOUS
<1>3. ASSUME NEW x \in [D -> V] \X D PROVE G[x] \in V
  <2>1. x[1] \in [D -> V] /\ x[2] \in D
    OBVIOUS
  <2>2. CASE x[2] = 1
    BY <2>1, <2>2, <1>2
  <2>3. CASE x[2] # 1
    <3>1. x[2] - 1 \in D
      BY <2>1, <2>3, <1>1
    <3>2. x[1][x[2] - 1] \in V /\ seqs[x[2]] \in V
      BY <3>1, <2>1, <1>2
    <3>3. x[1][x[2] - 1] \o seqs[x[2]] \in V
      BY <3>2
    <3> QED BY <2>3, <3>3
  <2> QED BY <2>2, <2>3
<1>4. G \in [[D -> V] \X D -> V]
  BY <1>3
<1>5. LooksDown(G, D, V, m)
  <2> SUFFICES ASSUME NEW f \in [D -> V], NEW g \in [D -> V], NEW w \in D,
                      \A v \in D : m[v] < m[w] => f[v] = g[v]
               PROVE  G[<<f, w>>] = G[<<g, w>>]
    BY DEF LooksDown
  <2>1. CASE w = 1
    BY <2>1
  <2>2. CASE w # 1
    <3>1. w - 1 \in D /\ m[w - 1] < m[w]
      BY <2>2, <1>1
    <3> QED BY <2>2, <3>1
  <2> QED BY <2>1, <2>2
<1>6. m \in [D -> Nat] /\ V # {}
  <2>1. <<>> \in V
    OBVIOUS
  <2> QED BY <2>1
<1>7. PICK f : Solves(f, D, V, G)
  <2>1. IsRecursion(D, V, m, G)
    BY <1>4, <1>5, <1>6 DEF IsRecursion
  <2> HIDE DEF m, G, V, D
  <2> QED BY <2>1, Recursion, Zenon
<1>8. \A i \in D : f[i] = IF i = 1 THEN seqs[i] ELSE f[i-1] \o seqs[i]
  <2> f \in [D -> V] /\ \A w \in D : f[w] = G[<<f, w>>]
    BY <1>7 DEF Solves
  <2>1. \A w \in D : <<f, w>> \in [D -> V] \X D
    OBVIOUS
  <2> QED BY <2>1, <1>7
<1>9. f = [i \in 1..Len(seqs) |-> IF i = 1 THEN seqs[i] ELSE f[i-1] \o seqs[i]]
  BY <1>7, <1>8 DEF Solves
<1>10. flatten = [i \in 1..Len(seqs) |-> IF i = 1 THEN seqs[i] ELSE flatten[i-1] \o seqs[i]]
  BY <1>9, Zenon
<1>11. FlattenSeq(seqs) = flatten[n]
  BY <1>1, Zenon DEF FlattenSeq
<1> HIDE DEF flatten, G, m
<1>12. \A i \in D : flatten[i] = f[i]
  <2> DEFINE I == {k \in Nat : k + 1 \in D => flatten[k + 1] = f[k + 1]}
  <2>1. 0 \in I
    <3>1. 1 \in D /\ 0 + 1 = 1
      BY <1>1
    <3>2. flatten[1] = seqs[1] /\ f[1] = seqs[1]
      BY <3>1, <1>8, <1>10
    <3> QED BY <3>1, <3>2
  <2>2. ASSUME NEW k \in Nat, k \in I PROVE k + 1 \in I
    <3> SUFFICES ASSUME k + 2 \in D PROVE flatten[k + 2] = f[k + 2]
      OBVIOUS
    <3>1. k + 1 \in D /\ k + 2 # 1 /\ (k + 2) - 1 = k + 1
      BY <1>1
    <3>2. flatten[k + 2] = flatten[(k + 2) - 1] \o seqs[k + 2]
      BY <3>1, <1>10
    <3>3. f[k + 2] = f[(k + 2) - 1] \o seqs[k + 2]
      BY <3>1, <1>8
    <3> QED BY <3>1, <3>2, <3>3, <2>2
  <2>3. \A k \in Nat : k \in I
    <3> HIDE DEF I
    <3> QED BY <2>1, <2>2, SetInduction
  <2> SUFFICES ASSUME NEW i \in D PROVE flatten[i] = f[i]
    OBVIOUS
  <2>4. i - 1 \in Nat /\ (i - 1) + 1 = i
    BY <1>1
  <2>5. i - 1 \in I
    BY <2>3, <2>4
  <2> QED BY <2>4, <2>5
<1>13. FlattenSeq(seqs) = f[n]
  BY <1>11, <1>12, <1>1
<1>14. f[1] = seqs[1] /\ \A i \in 2..n : f[i] = f[i - 1] \o seqs[i]
  <2>1. 1 \in D /\ \A i \in 2..n : i \in D /\ i # 1
    BY <1>1
  <2> HIDE DEF D
  <2> QED BY <1>8, <2>1
<1> QED BY <1>7, <1>13, <1>14 DEF Solves

\* The same, beginning with the empty sequence.
LEMMA FlattenChain ==
    ASSUME NEW S, NEW seqs \in Seq(Seq(S))
    PROVE  \E f \in [0..Len(seqs) -> Seq(S)] :
              /\ f[0] = <<>>
              /\ \A i \in 1..Len(seqs) : f[i] = f[i - 1] \o seqs[i]
              /\ FlattenSeq(seqs) = f[Len(seqs)]
<1>1. CASE seqs = <<>>
  <2> DEFINE f == [i \in 0..0 |-> <<>>]
  <2>1. Len(seqs) = 0
    BY <1>1
  <2>2. f \in [0..0 -> Seq(S)]
    OBVIOUS
  <2>3. FlattenSeq(seqs) = <<>>
    BY <1>1, <2>1 DEF FlattenSeq
  <2>4. f[0] = <<>> /\ \A i \in 1..0 : f[i] = f[i - 1] \o seqs[i]
    OBVIOUS
  <2> HIDE DEF f
  <2> QED BY <2>1, <2>2, <2>3, <2>4
<1>2. CASE seqs # <<>>
  <2>1. PICK g \in [1..Len(seqs) -> Seq(S)] :
              /\ g[1] = seqs[1]
              /\ \A i \in 2..Len(seqs) : g[i] = g[i - 1] \o seqs[i]
              /\ FlattenSeq(seqs) = g[Len(seqs)]
    BY <1>2, FlattenSteps
  <2>2. Len(seqs) \in Nat \ {0}
    BY <1>2, EmptySeq
  <2> DEFINE f == [i \in 0..Len(seqs) |-> IF i = 0 THEN <<>> ELSE g[i]]
  <2>3. f \in [0..Len(seqs) -> Seq(S)]
    OBVIOUS
  <2>4. f[0] = <<>> /\ FlattenSeq(seqs) = f[Len(seqs)]
    BY <2>1, <2>2
  <2>5. ASSUME NEW i \in 1..Len(seqs) PROVE f[i] = f[i - 1] \o seqs[i]
    <3>1. CASE i = 1
      <4>1. seqs[1] \in Seq(S)
        BY <2>2
      <4>2. <<>> \o seqs[1] = seqs[1]
        BY <4>1, ConcatEmptySeq
      <4> QED BY <3>1, <4>2, <2>1, <2>2
    <3>2. CASE i # 1
      <4>1. i \in 2..Len(seqs) /\ i - 1 \in 1..Len(seqs) /\ i - 1 # 0
        BY <3>2, <2>2
      <4>2. f[i] = g[i] /\ f[i - 1] = g[i - 1]
        BY <4>1, <2>2
      <4> QED BY <4>1, <4>2, <2>1
    <3> QED BY <3>1, <3>2
  <2> HIDE DEF f
  <2> QED BY <2>3, <2>4, <2>5
<1> QED BY <1>1, <1>2

\* What is put together step by step, seqs[1] first, is FlattenSeq(seqs).
LEMMA FlattenIs ==
    ASSUME NEW S, NEW seqs \in Seq(Seq(S)), NEW f,
           f[0] = <<>>, \A i \in 1..Len(seqs) : f[i] = f[i - 1] \o seqs[i]
    PROVE  FlattenSeq(seqs) = f[Len(seqs)]
<1>1. PICK g \in [0..Len(seqs) -> Seq(S)] :
              /\ g[0] = <<>>
              /\ \A i \in 1..Len(seqs) : g[i] = g[i - 1] \o seqs[i]
              /\ FlattenSeq(seqs) = g[Len(seqs)]
  BY FlattenChain
<1> DEFINE I == {k \in Nat : k <= Len(seqs) => f[k] = g[k]}
<1>2. 0 \in I
  BY <1>1
<1>3. ASSUME NEW k \in Nat, k \in I PROVE k + 1 \in I
  <2> SUFFICES ASSUME k + 1 <= Len(seqs) PROVE f[k + 1] = g[k + 1]
    OBVIOUS
  <2>1. k + 1 \in 1..Len(seqs) /\ (k + 1) - 1 = k /\ k <= Len(seqs)
    OBVIOUS
  <2>2. f[k + 1] = f[(k + 1) - 1] \o seqs[k + 1] /\ g[k + 1] = g[(k + 1) - 1] \o seqs[k + 1]
    BY <2>1, <1>1
  <2> QED BY <2>1, <2>2, <1>3
<1>4. \A k \in Nat : k \in I
  <2> HIDE DEF I
  <2> QED BY <1>2, <1>3, SetInduction
<1> QED BY <1>1, <1>4

\* FlattenSeq has the members of its sequences.
LEMMA FlattenType ==
    ASSUME NEW S, NEW seqs \in Seq(Seq(S))
    PROVE  FlattenSeq(seqs) \in Seq(S)
<1>1. PICK f \in [0..Len(seqs) -> Seq(S)] : FlattenSeq(seqs) = f[Len(seqs)]
  BY FlattenChain
<1>2. Len(seqs) \in 0..Len(seqs)
  OBVIOUS
<1> QED BY <1>1, <1>2

\* One sequence more.
LEMMA FlattenAppend ==
    ASSUME NEW S, NEW seqs \in Seq(Seq(S)), NEW s \in Seq(S)
    PROVE  FlattenSeq(Append(seqs, s)) = FlattenSeq(seqs) \o s
<1> DEFINE n == Len(seqs)
           more == Append(seqs, s)
<1>1. PICK f \in [0..n -> Seq(S)] :
              /\ f[0] = <<>>
              /\ \A i \in 1..n : f[i] = f[i - 1] \o seqs[i]
              /\ FlattenSeq(seqs) = f[n]
  BY FlattenChain
<1>2. /\ more \in Seq(Seq(S)) /\ Len(more) = n + 1 /\ more[n + 1] = s
      /\ \A i \in 1..n : more[i] = seqs[i]
  OBVIOUS
<1> DEFINE g == [i \in 0..(n + 1) |-> IF i = n + 1 THEN f[n] \o s ELSE f[i]]
<1>3. g[0] = <<>> /\ g[n + 1] = f[n] \o s
  BY <1>1
<1>4. ASSUME NEW i \in 1..(n + 1) PROVE g[i] = g[i - 1] \o more[i]
  <2>1. n \in Nat /\ i - 1 \in 0..n /\ i - 1 # n + 1
    OBVIOUS
  <2>2. g[i - 1] = f[i - 1]
    BY <2>1
  <2>3. CASE i = n + 1
    BY <2>1, <2>2, <2>3, <1>2, <1>3
  <2>4. CASE i # n + 1
    <3>1. i \in 1..n /\ i \in 0..(n + 1)
      BY <2>1, <2>4
    <3>2. g[i] = f[i] /\ more[i] = seqs[i]
      BY <3>1, <2>4, <1>2
    <3> QED BY <3>1, <3>2, <2>2, <1>1
  <2> QED BY <2>3, <2>4
<1> HIDE DEF g, more
<1>5. FlattenSeq(more) = g[n + 1]
  BY <1>2, <1>3, <1>4, FlattenIs
<1> QED BY <1>1, <1>3, <1>5 DEF more

\* What is appended to the second part is appended to the whole.
LEMMA AppendConcat ==
    ASSUME NEW S, NEW s \in Seq(S), NEW v \in Seq(S), NEW x \in S
    PROVE  s \o Append(v, x) = Append(s \o v, x)
<1>1. s \o v \in Seq(S) /\ <<x>> \in Seq(S)
  OBVIOUS
<1>2. Append(s \o v, x) = (s \o v) \o <<x>> /\ Append(v, x) = v \o <<x>>
  BY <1>1, AppendIsConcat
<1>3. (s \o v) \o <<x>> = s \o (v \o <<x>>)
  BY <1>1, ConcatAssociative
<1> QED BY <1>2, <1>3

LEMMA FlattenEmpty == FlattenSeq(<<>>) = <<>>
<1>1. Len(<<>>) = 0
  OBVIOUS
<1> QED BY <1>1 DEF FlattenSeq

LEMMA FlattenOne ==
    ASSUME NEW S, NEW s \in Seq(S)
    PROVE  FlattenSeq(<<s>>) = s
<1> DEFINE f == [i \in 0..1 |-> IF i = 0 THEN <<>> ELSE s]
<1>1. <<s>> \in Seq(Seq(S)) /\ Len(<<s>>) = 1 /\ <<s>>[1] = s
  OBVIOUS
<1>2. <<>> \o s = s
  BY ConcatEmptySeq
<1>3. f[0] = <<>> /\ \A i \in 1..Len(<<s>>) : f[i] = f[i - 1] \o <<s>>[i]
  BY <1>1, <1>2
<1>4. f[1] = s
  OBVIOUS
<1> HIDE DEF f
<1>5. FlattenSeq(<<s>>) = f[Len(<<s>>)]
  BY <1>1, <1>3, FlattenIs
<1> QED BY <1>1, <1>4, <1>5

\* FlattenSeq of two parts, one after the other.
LEMMA FlattenConcat ==
    ASSUME NEW S, NEW s \in Seq(Seq(S)), NEW t \in Seq(Seq(S))
    PROVE  FlattenSeq(s \o t) = FlattenSeq(s) \o FlattenSeq(t)
<1> DEFINE I == {n \in Nat : \A u \in Seq(Seq(S)) :
                    Len(u) = n => FlattenSeq(s \o u) = FlattenSeq(s) \o FlattenSeq(u)}
<1>1. 0 \in I
  <2> SUFFICES ASSUME NEW u \in Seq(Seq(S)), Len(u) = 0
               PROVE  FlattenSeq(s \o u) = FlattenSeq(s) \o FlattenSeq(u)
    OBVIOUS
  <2>1. u = <<>>
    BY EmptySeq
  <2>2. s \o <<>> = s
    BY ConcatEmptySeq
  <2>3. FlattenSeq(s) \o <<>> = FlattenSeq(s)
    BY FlattenType, ConcatEmptySeq
  <2> QED BY <2>1, <2>2, <2>3, FlattenEmpty
<1>2. ASSUME NEW n \in Nat, n \in I PROVE n + 1 \in I
  <2> SUFFICES ASSUME NEW u \in Seq(Seq(S)), Len(u) = n + 1
               PROVE  FlattenSeq(s \o u) = FlattenSeq(s) \o FlattenSeq(u)
    OBVIOUS
  <2>1. u # <<>>
    BY EmptySeq
  <2>2. PICK v \in Seq(Seq(S)), x \in Seq(S) : u = Append(v, x)
    BY <2>1, SequenceEmptyOrAppend
  <2>3. Len(v) = n
    BY <2>2
  <2>4. s \o v \in Seq(Seq(S)) /\ s \o u = Append(s \o v, x)
    <3>1. s \o v \in Seq(Seq(S))
      OBVIOUS
    <3> QED BY <3>1, <2>2, AppendConcat
  <2>5. FlattenSeq(s \o u) = FlattenSeq(s \o v) \o x
    BY <2>4, FlattenAppend
  <2>6. FlattenSeq(u) = FlattenSeq(v) \o x
    BY <2>2, FlattenAppend
  <2>7. FlattenSeq(s \o v) = FlattenSeq(s) \o FlattenSeq(v)
    BY <1>2, <2>3
  <2>8. (FlattenSeq(s) \o FlattenSeq(v)) \o x = FlattenSeq(s) \o (FlattenSeq(v) \o x)
    <3>1. FlattenSeq(s) \in Seq(S) /\ FlattenSeq(v) \in Seq(S)
      BY FlattenType
    <3> QED BY <3>1, ConcatAssociative, SMTT(40)
  <2> QED BY <2>5, <2>6, <2>7, <2>8
<1>3. \A n \in Nat : n \in I
  <2> HIDE DEF I
  <2> QED BY <1>1, <1>2, SetInduction
<1>4. Len(t) \in I
  BY <1>3
<1> QED BY <1>4

\* Flattening twice can begin inside.
LEMMA FlattenFlatten ==
    ASSUME NEW S, NEW xss \in Seq(Seq(Seq(S)))
    PROVE  FlattenSeq(FlattenSeq(xss)) =
              FlattenSeq([r \in 1..Len(xss) |-> FlattenSeq(xss[r])])
<1> DEFINE n == Len(xss)
           yss == [r \in 1..Len(xss) |-> FlattenSeq(xss[r])]
<1>1. PICK f \in [0..n -> Seq(Seq(S))] :
              /\ f[0] = <<>>
              /\ \A i \in 1..n : f[i] = f[i - 1] \o xss[i]
              /\ FlattenSeq(xss) = f[n]
  BY FlattenChain
<1>2. \A i \in 1..n : xss[i] \in Seq(Seq(S)) /\ FlattenSeq(xss[i]) \in Seq(S)
  <2>1. \A i \in 1..n : xss[i] \in Seq(Seq(S))
    OBVIOUS
  <2> QED BY <2>1, FlattenType
<1>3. yss \in Seq(Seq(S)) /\ Len(yss) = n /\ n \in Nat
  BY <1>2
<1> DEFINE g == [i \in 0..n |-> FlattenSeq(f[i])]
<1>4. g[0] = <<>> /\ g[n] = FlattenSeq(FlattenSeq(xss))
  BY <1>1, <1>3, FlattenEmpty
<1>5. ASSUME NEW i \in 1..Len(yss) PROVE g[i] = g[i - 1] \o yss[i]
  <2>1. i \in 1..n /\ i \in 0..n /\ i - 1 \in 0..n
    BY <1>3
  <2>2. f[i - 1] \in Seq(Seq(S)) /\ xss[i] \in Seq(Seq(S))
    BY <2>1, <1>2
  <2>3. FlattenSeq(f[i - 1] \o xss[i]) = FlattenSeq(f[i - 1]) \o FlattenSeq(xss[i])
    BY <2>2, FlattenConcat
  <2> QED BY <2>1, <2>3, <1>1
<1> HIDE DEF g, yss
<1>6. FlattenSeq(yss) = g[n]
  BY <1>3, <1>4, <1>5, FlattenIs
<1> QED BY <1>4, <1>6 DEF yss

\* A sequence, taken apart and put together.
LEMMA FlattenOnes ==
    ASSUME NEW S, NEW s \in Seq(S)
    PROVE  FlattenSeq([i \in 1..Len(s) |-> <<s[i]>>]) = s
<1> DEFINE t == [i \in 1..Len(s) |-> <<s[i]>>]
           g == [i \in 0..Len(s) |-> SubSeq(s, 1, i)]
<1>1. t \in Seq(Seq(S)) /\ Len(t) = Len(s) /\ Len(s) \in Nat
  OBVIOUS
<1>2. g[0] = <<>>
  BY SubSeqEmpty
<1>3. ASSUME NEW i \in 1..Len(t) PROVE g[i] = g[i - 1] \o t[i]
  <2>1. i \in 1..Len(s) /\ i \in 0..Len(s) /\ i - 1 \in 0..Len(s) /\ 1 \in 1..Len(s) /\ i \in 1..Len(s)
    BY <1>1
  <2>2. SubSeq(s, 1, i) = SubSeq(s, 1, i - 1) \o <<s[i]>>
    BY <2>1, SubSeqRecursiveSecond
  <2> QED BY <2>1, <2>2
<1>4. g[Len(s)] = s
  BY <1>1, SubSeqFull
<1> HIDE DEF g, t
<1>5. FlattenSeq(t) = g[Len(t)]
  BY <1>1, <1>2, <1>3, FlattenIs
<1> QED BY <1>1, <1>4, <1>5 DEF t

-----------------------------------------------------------------------------
(* The words of a page, in the order in which they are sent.               *)

Words == [reg : Nat, len : Nat, at : Nat]
UnitWords(r, n) == Header(r, n) \o [k \in 1..n |-> Word(r, n, k)]
UnitBlocks(r, n) == <<Header(r, n)>> \o [k \in 1..n |-> <<Word(r, n, k)>>]
Stream(lens) == FlattenSeq([r \in 1..Len(lens) |-> UnitWords(r, lens[r])])

\* A unit is a header and a value, as long as they are together.
LEMMA UnitTypes ==
    ASSUME NEW r \in Nat, NEW n \in Nat
    PROVE  /\ Header(r, n) \in Seq(Words) /\ Len(Header(r, n)) = HeaderLen
           /\ UnitWords(r, n) \in Seq(Words) /\ Len(UnitWords(r, n)) = HeaderLen + n
           /\ [k \in 1..n |-> Word(r, n, k)] \in Seq(Words)
           /\ \A k \in 1..HeaderLen : UnitWords(r, n)[k] = Word(r, n, 0)
           /\ \A k \in 1..n : UnitWords(r, n)[HeaderLen + k] = Word(r, n, k)
<1> DEFINE value == [k \in 1..n |-> Word(r, n, k)]
<1>1. HeaderLen \in Nat
  BY TlvReadAssumption
<1>2. \A k \in Nat : Word(r, n, k) \in Words
  BY DEF Word, Words
<1>3. Header(r, n) \in Seq(Words) /\ Len(Header(r, n)) = HeaderLen
  BY <1>1, <1>2 DEF Header
<1>4. value \in Seq(Words) /\ Len(value) = n
  BY <1>2
<1>5. \A k \in 1..HeaderLen : Header(r, n)[k] = Word(r, n, 0)
  BY DEF Header
<1>6. \A k \in 1..n : value[k] = Word(r, n, k)
  OBVIOUS
<1> HIDE DEF value
<1>7. /\ Header(r, n) \o value \in Seq(Words)
      /\ Len(Header(r, n) \o value) = HeaderLen + n
      /\ \A k \in 1..(HeaderLen + n) : (Header(r, n) \o value)[k] =
            IF k <= HeaderLen THEN Header(r, n)[k] ELSE value[k - HeaderLen]
  BY <1>3, <1>4, ConcatProperties
<1>8. \A k \in 1..HeaderLen : (Header(r, n) \o value)[k] = Word(r, n, 0)
  BY <1>1, <1>5, <1>7
<1>9. \A k \in 1..n : (Header(r, n) \o value)[HeaderLen + k] = Word(r, n, k)
  <2> TAKE k \in 1..n
  <2>1. HeaderLen + k \in 1..(HeaderLen + n) /\ ~ (HeaderLen + k <= HeaderLen)
        /\ (HeaderLen + k) - HeaderLen = k
    BY <1>1
  <2> QED BY <2>1, <1>6, <1>7
<1> QED BY <1>3, <1>4, <1>7, <1>8, <1>9 DEF UnitWords, value

\* The blocks of a unit are its words.
LEMMA UnitBlocksTypes ==
    ASSUME NEW r \in Nat, NEW n \in Nat
    PROVE  /\ UnitBlocks(r, n) \in Seq(Seq(Words)) /\ Len(UnitBlocks(r, n)) = n + 1
           /\ UnitBlocks(r, n)[1] = Header(r, n)
           /\ \A k \in 1..n : UnitBlocks(r, n)[k + 1] = <<Word(r, n, k)>>
           /\ FlattenSeq(UnitBlocks(r, n)) = UnitWords(r, n)
<1> DEFINE value == [k \in 1..n |-> Word(r, n, k)]
           ones  == [k \in 1..n |-> <<Word(r, n, k)>>]
           head  == <<Header(r, n)>>
<1>1. Header(r, n) \in Seq(Words) /\ value \in Seq(Words)
  BY UnitTypes
<1>2. Len(value) = n /\ \A k \in 1..n : value[k] = Word(r, n, k)
  OBVIOUS
<1>3. ones = [k \in 1..Len(value) |-> <<value[k]>>]
  BY <1>2
<1>4. ones \in Seq(Seq(Words)) /\ Len(ones) = n /\ \A k \in 1..n : ones[k] = <<Word(r, n, k)>>
  BY DEF Word, Words
<1>5. head \in Seq(Seq(Words)) /\ Len(head) = 1 /\ head[1] = Header(r, n)
  BY <1>1
<1> HIDE DEF value, ones, head
<1>6. FlattenSeq(ones) = value
  BY <1>1, <1>3, FlattenOnes
<1>7. FlattenSeq(head) = Header(r, n)
  BY <1>1, FlattenOne DEF head
<1>8. FlattenSeq(head \o ones) = Header(r, n) \o value
  BY <1>4, <1>5, <1>6, <1>7, FlattenConcat
<1>9. /\ head \o ones \in Seq(Seq(Words))
      /\ Len(head \o ones) = 1 + n
      /\ \A k \in 1..(1 + n) : (head \o ones)[k] =
            IF k <= Len(head) THEN head[k] ELSE ones[k - Len(head)]
  <2>1. /\ head \o ones \in Seq(Seq(Words))
        /\ Len(head \o ones) = Len(head) + Len(ones)
        /\ \A k \in 1..(Len(head) + Len(ones)) : (head \o ones)[k] =
              IF k <= Len(head) THEN head[k] ELSE ones[k - Len(head)]
    BY <1>4, <1>5, ConcatProperties
  <2> QED BY <2>1, <1>4, <1>5
<1>10. (head \o ones)[1] = Header(r, n)
  BY <1>5, <1>9
<1>11. \A k \in 1..n : (head \o ones)[k + 1] = <<Word(r, n, k)>>
  BY <1>4, <1>9
<1>12. UnitBlocks(r, n) = head \o ones /\ UnitWords(r, n) = Header(r, n) \o value
  BY Zenon DEF UnitBlocks, UnitWords, head, ones, value
<1>13. Len(head \o ones) = n + 1
  BY <1>9
<1> QED BY <1>8, <1>9, <1>10, <1>11, <1>12, <1>13, Zenon

\* The blocks of a page are its stream of words.
LEMMA BlocksFlatten ==
    ASSUME NEW lens \in Seq(Nat)
    PROVE  /\ Blocks(lens) \in Seq(Seq(Words))
           /\ FlattenSeq(Blocks(lens)) = Stream(lens)
           /\ Stream(lens) \in Seq(Words)
<1> DEFINE xss == [r \in 1..Len(lens) |-> UnitBlocks(r, lens[r])]
           yss == [r \in 1..Len(lens) |-> UnitWords(r, lens[r])]
<1>1. Len(lens) \in Nat /\ \A r \in 1..Len(lens) : lens[r] \in Nat /\ r \in Nat
  OBVIOUS
<1>2. xss \in Seq(Seq(Seq(Words))) /\ Len(xss) = Len(lens)
  <2>1. \A r \in 1..Len(lens) : UnitBlocks(r, lens[r]) \in Seq(Seq(Words))
    BY <1>1, UnitBlocksTypes, Zenon
  <2> QED BY <1>1, <2>1
<1>3. yss \in Seq(Seq(Words))
  <2>1. \A r \in 1..Len(lens) : UnitWords(r, lens[r]) \in Seq(Words)
    BY <1>1, UnitTypes, Zenon
  <2> QED BY <1>1, <2>1
<1>4. [r \in 1..Len(xss) |-> FlattenSeq(xss[r])] = yss
  BY <1>1, <1>2, UnitBlocksTypes
<1>5. DOMAIN lens = 1..Len(lens)
  OBVIOUS
<1>6. Blocks(lens) = FlattenSeq(xss)
  BY <1>5, Zenon DEF Blocks, UnitBlocks
<1> HIDE DEF xss, yss
<1>7. Blocks(lens) \in Seq(Seq(Words))
  BY <1>2, <1>6, FlattenType
<1>8. FlattenSeq(Blocks(lens)) = FlattenSeq(yss)
  BY <1>2, <1>4, <1>6, FlattenFlatten
<1>9. FlattenSeq(yss) \in Seq(Words)
  BY <1>3, FlattenType
<1> QED BY <1>7, <1>8, <1>9 DEF Stream, yss

-----------------------------------------------------------------------------
(* How many packets calc_total_index counts.                               *)

FillArgs == [left : Nat, used : Nat, total : Nat]
FillResults == [used : Nat, total : Nat]
Filled(u, t) == [used |-> u, total |-> t]
FillBody(f, s) ==
    IF s.left > Room - s.used
    THEN f[[left |-> s.left - (Room - s.used), used |-> 0, total |-> s.total + 1]]
    ELSE [used |-> s.used + s.left, total |-> s.total]

\* The recursion that defines Fill.
LEMMA FillSteps ==
    \E f \in [FillArgs -> FillResults] :
       /\ \A s \in FillArgs : f[s] = FillBody(f, s)
       /\ \A u, t, l \in Nat : Fill(u, t, l) = f[[left |-> l, used |-> u, total |-> t]]
<1> DEFINE D == FillArgs
           V == FillResults
           m == [s \in D |-> s.left + s.used]
           G == [x \in [D -> V] \X D |-> FillBody(x[1], x[2])]
           fill[s \in [left : Nat, used : Nat, total : Nat]] ==
              LET free == Room - s.used
              IN IF s.left > free
                 THEN fill[[left |-> s.left - free, used |-> 0, total |-> s.total + 1]]
                 ELSE [used |-> s.used + s.left, total |-> s.total]
<1>1. Room \in Nat /\ Room > 0
  BY TlvReadAssumption
<1>2. ASSUME NEW s \in D, s.left > Room - s.used
      PROVE  LET w == [left |-> s.left - (Room - s.used), used |-> 0, total |-> s.total + 1]
             IN  w \in D /\ m[w] < m[s]
  BY <1>1, <1>2 DEF FillArgs
<1>3. ASSUME NEW f \in [D -> V], NEW s \in D PROVE FillBody(f, s) \in V
  <2>1. CASE s.left > Room - s.used
    BY <1>2, <2>1 DEF FillBody
  <2>2. CASE ~ (s.left > Room - s.used)
    BY <1>1, <2>2 DEF FillBody, FillArgs, FillResults
  <2> QED BY <2>1, <2>2
<1>4. G \in [[D -> V] \X D -> V]
  <2>1. \A x \in [D -> V] \X D : x[1] \in [D -> V] /\ x[2] \in D
    OBVIOUS
  <2>2. \A x \in [D -> V] \X D : FillBody(x[1], x[2]) \in V
    BY <2>1, <1>3
  <2> QED BY <2>2
<1>5. LooksDown(G, D, V, m)
  <2> SUFFICES ASSUME NEW f \in [D -> V], NEW g \in [D -> V], NEW w \in D,
                      \A v \in D : m[v] < m[w] => f[v] = g[v]
               PROVE  FillBody(f, w) = FillBody(g, w)
    BY DEF LooksDown
  <2>1. CASE w.left > Room - w.used
    BY <1>2, <2>1 DEF FillBody
  <2>2. CASE ~ (w.left > Room - w.used)
    BY <2>2 DEF FillBody
  <2> QED BY <2>1, <2>2
<1>6. m \in [D -> Nat] /\ V # {}
  <2>1. Filled(0, 0) \in V
    BY DEF FillResults, Filled
  <2> QED BY <2>1 DEF FillArgs
<1>7. PICK f : Solves(f, D, V, G)
  <2>1. IsRecursion(D, V, m, G)
    BY <1>4, <1>5, <1>6 DEF IsRecursion
  <2> HIDE DEF m, G, V, D
  <2> QED BY <2>1, Recursion, Zenon
<1>8. f \in [D -> V] /\ \A s \in D : f[s] = FillBody(f, s)
  <2>1. f \in [D -> V] /\ \A s \in D : f[s] = G[<<f, s>>]
    BY <1>7 DEF Solves
  <2>2. \A s \in D : <<f, s>> \in [D -> V] \X D
    BY <2>1
  <2> QED BY <2>1, <2>2
<1>9. \E h : h = [s \in [left : Nat, used : Nat, total : Nat] |->
              LET free == Room - s.used
              IN IF s.left > free
                 THEN h[[left |-> s.left - free, used |-> 0, total |-> s.total + 1]]
                 ELSE [used |-> s.used + s.left, total |-> s.total]]
  <2>1. f = [s \in D |-> f[s]]
    BY <1>8
  <2>2. f = [s \in D |-> FillBody(f, s)]
    BY <1>8, <2>1
  <2> QED BY <2>2, Zenon DEF FillBody, FillArgs
<1>10. fill = [s \in [left : Nat, used : Nat, total : Nat] |->
              LET free == Room - s.used
              IN IF s.left > free
                 THEN fill[[left |-> s.left - free, used |-> 0, total |-> s.total + 1]]
                 ELSE [used |-> s.used + s.left, total |-> s.total]]
  BY <1>9, Zenon
<1>11. \A u, t, l \in Nat : Fill(u, t, l) = fill[[left |-> l, used |-> u, total |-> t]]
  BY Zenon DEF Fill
<1> HIDE DEF fill, G
<1>12. \A s \in D : fill[s] = FillBody(fill, s)
  BY <1>10, Zenon DEF FillArgs, FillBody
<1>13. \A s \in D : fill[s] = f[s]
  <2> DEFINE I == {k \in Nat : \A s \in D : m[s] <= k => fill[s] = f[s]}
  <2>1. ASSUME NEW s \in D, \A v \in D : m[v] < m[s] => fill[v] = f[v]
        PROVE  fill[s] = f[s]
    <3>1. CASE s.left > Room - s.used
      <4> DEFINE w == [left |-> s.left - (Room - s.used), used |-> 0, total |-> s.total + 1]
      <4>1. w \in D /\ m[w] < m[s]
        BY <1>2, <3>1
      <4>2. fill[w] = f[w]
        BY <4>1, <2>1
      <4>3. fill[s] = FillBody(fill, s) /\ f[s] = FillBody(f, s)
        BY <1>8, <1>12
      <4> QED BY <3>1, <4>2, <4>3 DEF FillBody
    <3>2. CASE ~ (s.left > Room - s.used)
      BY <1>8, <1>12, <3>2 DEF FillBody
    <3> QED BY <3>1, <3>2
  <2> HIDE DEF m
  <2>2. 0 \in I
    BY <2>1, <1>6
  <2>3. ASSUME NEW k \in Nat, k \in I PROVE k + 1 \in I
    <3> SUFFICES ASSUME NEW s \in D, m[s] <= k + 1 PROVE fill[s] = f[s]
      OBVIOUS
    <3>1. \A v \in D : m[v] < m[s] => m[v] <= k
      BY <1>6
    <3> QED BY <3>1, <2>1, <2>3
  <2>4. \A k \in Nat : k \in I
    <3> HIDE DEF I
    <3> QED BY <2>2, <2>3, SetInduction
  <2> SUFFICES ASSUME NEW s \in D PROVE fill[s] = f[s]
    OBVIOUS
  <2>5. m[s] \in I /\ m[s] <= m[s]
    BY <2>4, <1>6
  <2> QED BY <2>5
<1>14. \A u, t, l \in Nat : Fill(u, t, l) = f[[left |-> l, used |-> u, total |-> t]]
  BY <1>11, <1>13 DEF FillArgs
<1> QED BY <1>8, <1>14

\* A round of the loop: a packet is full, or everything is in.
LEMMA FillRound ==
    ASSUME NEW u \in Nat, NEW t \in Nat, NEW l \in Nat
    PROVE  /\ Fill(u, t, l) \in FillResults
           /\ l > Room - u => Fill(u, t, l) = Fill(0, t + 1, l - (Room - u))
           /\ ~ (l > Room - u) => Fill(u, t, l) = Filled(u + l, t)
<1>1. PICK f \in [FillArgs -> FillResults] :
       /\ \A s \in FillArgs : f[s] = FillBody(f, s)
       /\ \A v, w, k \in Nat : Fill(v, w, k) = f[[left |-> k, used |-> v, total |-> w]]
  BY FillSteps
<1>2. Room \in Nat
  BY TlvReadAssumption
<1> DEFINE s == [left |-> l, used |-> u, total |-> t]
<1>3. s \in FillArgs /\ s.left = l /\ s.used = u /\ s.total = t
  BY DEF FillArgs
<1>4. Fill(u, t, l) = f[s] /\ f[s] = FillBody(f, s)
  BY <1>1, <1>3
<1>5. f[s] \in FillResults
  BY <1>1, <1>3
<1>6. ASSUME l > Room - u PROVE Fill(u, t, l) = Fill(0, t + 1, l - (Room - u))
  <2>1. l - (Room - u) \in Nat /\ t + 1 \in Nat
    BY <1>2, <1>6
  <2>2. Fill(0, t + 1, l - (Room - u)) = f[[left |-> l - (Room - u), used |-> 0, total |-> t + 1]]
    BY <1>1, <2>1
  <2> QED BY <1>3, <1>4, <1>6, <2>2 DEF FillBody
<1>7. ASSUME ~ (l > Room - u) PROVE Fill(u, t, l) = Filled(u + l, t)
  BY <1>3, <1>4, <1>7 DEF FillBody, Filled
<1> QED BY <1>4, <1>5, <1>6, <1>7

\* One word more.
OneMore(x) == IF x.used + 1 > Room THEN Filled(1, x.total + 1)
              ELSE Filled(x.used + 1, x.total)

\* Filling in one word more is filling in all, and then one.
LEMMA FillOneMore ==
    ASSUME NEW u \in 0..Room, NEW t \in Nat, NEW l \in Nat
    PROVE  Fill(u, t, l + 1) = OneMore(Fill(u, t, l))
<1>1. Room \in Nat /\ Room > 0
  BY TlvReadAssumption
<1> DEFINE I == {n \in Nat : \A v \in 0..Room, w \in Nat, k \in Nat :
                    v + k <= n => Fill(v, w, k + 1) = OneMore(Fill(v, w, k))}
<1>2. ASSUME NEW v \in 0..Room, NEW w \in Nat, NEW k \in Nat,
             \A w2 \in Nat, k2 \in Nat :
                k2 < v + k => Fill(0, w2, k2 + 1) = OneMore(Fill(0, w2, k2))
      PROVE  Fill(v, w, k + 1) = OneMore(Fill(v, w, k))
  <2>1. v \in Nat /\ k + 1 \in Nat /\ w + 1 \in Nat /\ 0 \in Nat /\ 0 \in 0..Room
    BY <1>1
  <2>2. CASE k > Room - v
    <3> DEFINE k2 == k - (Room - v)
    <3>1. k2 \in Nat /\ k2 < v + k /\ (k + 1) - (Room - v) = k2 + 1 /\ k + 1 > Room - v
      BY <1>1, <2>1, <2>2
    <3>2. Fill(v, w, k) = Fill(0, w + 1, k2)
      BY <2>1, <2>2, FillRound
    <3>3. Fill(v, w, k + 1) = Fill(0, w + 1, k2 + 1)
      BY <2>1, <3>1, FillRound
    <3>4. Fill(0, w + 1, k2 + 1) = OneMore(Fill(0, w + 1, k2))
      BY <1>2, <2>1, <3>1
    <3> QED BY <3>2, <3>3, <3>4
  <2>3. CASE k = Room - v
    <3>1. Fill(v, w, k) = Filled(v + k, w)
      BY <2>1, <2>3, FillRound
    <3>2. Fill(v, w, k + 1) = Fill(0, w + 1, (k + 1) - (Room - v))
      BY <2>1, <2>3, FillRound
    <3>3. (k + 1) - (Room - v) = 1 /\ ~ (1 > Room - 0) /\ 1 \in Nat /\ 0 + 1 = 1
      BY <1>1, <2>1, <2>3
    <3>4. Fill(0, w + 1, 1) = Filled(0 + 1, w + 1)
      BY <2>1, <3>3, FillRound
    <3>5. v + k + 1 > Room
      BY <1>1, <2>1, <2>3
    <3> QED BY <3>1, <3>2, <3>3, <3>4, <3>5 DEF OneMore, Filled
  <2>4. CASE k < Room - v
    <3>1. Fill(v, w, k) = Filled(v + k, w)
      BY <1>1, <2>1, <2>4, FillRound
    <3>2. Fill(v, w, k + 1) = Filled(v + (k + 1), w)
      BY <1>1, <2>1, <2>4, FillRound
    <3>3. ~ (v + k + 1 > Room) /\ v + (k + 1) = v + k + 1
      BY <1>1, <2>1, <2>4
    <3> QED BY <3>1, <3>2, <3>3 DEF OneMore, Filled
  <2> QED BY <1>1, <2>1, <2>2, <2>3, <2>4
<1>3. 0 \in I
  <2> SUFFICES ASSUME NEW v \in 0..Room, NEW w \in Nat, NEW k \in Nat, v + k <= 0
               PROVE  Fill(v, w, k + 1) = OneMore(Fill(v, w, k))
    OBVIOUS
  <2>1. \A k2 \in Nat : ~ (k2 < v + k)
    OBVIOUS
  <2> QED BY <1>2, <2>1
<1>4. ASSUME NEW n \in Nat, n \in I PROVE n + 1 \in I
  <2> SUFFICES ASSUME NEW v \in 0..Room, NEW w \in Nat, NEW k \in Nat, v + k <= n + 1
               PROVE  Fill(v, w, k + 1) = OneMore(Fill(v, w, k))
    OBVIOUS
  <2>1. \A k2 \in Nat : k2 < v + k => 0 + k2 <= n
    OBVIOUS
  <2>2. 0 \in 0..Room
    BY <1>1
  <2> QED BY <1>2, <1>4, <2>1, <2>2
<1>5. \A n \in Nat : n \in I
  <2> HIDE DEF I
  <2> QED BY <1>3, <1>4, SetInduction
<1>6. u + l \in I /\ u + l <= u + l
  <2>1. u + l \in Nat /\ u + l <= u + l
    BY <1>1
  <2> HIDE DEF I
  <2> QED BY <1>5, <2>1
<1> QED BY <1>6

-----------------------------------------------------------------------------
(* How the packets are filled.                                             *)

\* n steps from a base, and what they pass through.
AreSteps(V, n, base, step) ==
    n \in Nat /\ base \in V /\ step \in [V \X (1..n) -> V]
Passes(f, V, n, base, step) ==
    /\ f \in [0..n -> V] /\ f[0] = base
    /\ \A k \in 1..n : f[k] = step[<<f[k - 1], k>>]

\* Step by step, something is reached.
LEMMA Chain ==
    ASSUME NEW V, NEW n, NEW base, NEW step, AreSteps(V, n, base, step)
    PROVE  \E f : Passes(f, V, n, base, step)
<1> SUFFICES ASSUME n \in Nat, base \in V, step \in [V \X (1..n) -> V]
             PROVE  \E f \in [0..n -> V] :
                       f[0] = base /\ \A k \in 1..n : f[k] = step[<<f[k - 1], k>>]
  BY DEF AreSteps, Passes
<1> DEFINE D == 0..n
           m == [k \in D |-> k]
           G == [x \in [D -> V] \X D |->
                   IF x[2] = 0 THEN base ELSE step[<<x[1][x[2] - 1], x[2]>>]]
<1>1. ASSUME NEW x \in [D -> V] \X D PROVE G[x] \in V
  <2>1. x[1] \in [D -> V] /\ x[2] \in D
    OBVIOUS
  <2>2. CASE x[2] = 0
    BY <2>2
  <2>3. CASE x[2] # 0
    <3>1. x[2] - 1 \in D /\ x[2] \in 1..n
      BY <2>1, <2>3
    <3>2. <<x[1][x[2] - 1], x[2]>> \in V \X (1..n)
      BY <2>1, <3>1
    <3> QED BY <2>3, <3>2
  <2> QED BY <2>2, <2>3
<1>2. G \in [[D -> V] \X D -> V]
  BY <1>1
<1>3. LooksDown(G, D, V, m)
  <2> SUFFICES ASSUME NEW f \in [D -> V], NEW g \in [D -> V], NEW w \in D,
                      \A v \in D : m[v] < m[w] => f[v] = g[v]
               PROVE  G[<<f, w>>] = G[<<g, w>>]
    BY DEF LooksDown
  <2>1. CASE w = 0
    BY <2>1
  <2>2. CASE w # 0
    <3>1. w - 1 \in D /\ m[w - 1] < m[w]
      BY <2>2
    <3> QED BY <2>2, <3>1
  <2> QED BY <2>1, <2>2
<1>4. PICK f : Solves(f, D, V, G)
  <2>1. IsRecursion(D, V, m, G)
    BY <1>2, <1>3 DEF IsRecursion
  <2> HIDE DEF m, G, D
  <2> QED BY <2>1, Recursion, Zenon
<1>5. f \in [D -> V] /\ \A w \in D : f[w] = G[<<f, w>>]
  BY <1>4 DEF Solves
<1>6. \A w \in D : <<f, w>> \in [D -> V] \X D
  BY <1>5
<1>7. f[0] = base
  <2>1. 0 \in D
    OBVIOUS
  <2> QED BY <1>5, <1>6, <2>1
<1>8. \A k \in 1..n : f[k] = step[<<f[k - 1], k>>]
  <2>1. \A k \in 1..n : k \in D /\ k # 0
    OBVIOUS
  <2> QED BY <1>5, <1>6, <2>1
<1> QED BY <1>5, <1>7, <1>8

FrameSeqs == Seq(Seq(Words)) \ {<<>>}
LastOf(frames) == frames[Len(frames)]

\* What Cut does with the blocks of a page, for any blocks.
Packed(blocks) ==
    LET frames[k \in 0..Len(blocks)] ==
            IF k = 0 THEN <<<<>>>> ELSE Put(frames[k - 1], blocks[k])
    IN frames[Len(blocks)]

LEMMA CutIsPacked == \A lens : Cut(lens) = Packed(Blocks(lens))
BY Zenon DEF Cut, Packed

\* There is a packet at least.
LEMMA AppendIsFrames ==
    ASSUME NEW frames \in Seq(Seq(Words)), NEW block \in Seq(Words)
    PROVE  Append(frames, block) \in FrameSeqs
<1>1. Append(frames, block) \in Seq(Seq(Words))
  OBVIOUS
<1>2. Len(Append(frames, block)) = Len(frames) + 1 /\ Len(frames) \in Nat
  OBVIOUS
<1>3. Len(<<>>) = 0
  OBVIOUS
<1> QED BY <1>1, <1>2, <1>3 DEF FrameSeqs

\* Replacing the last is appending another one.
LEMMA ExceptAppend ==
    ASSUME NEW S, NEW s \in Seq(S), NEW x \in S, NEW y \in S
    PROVE  [Append(s, x) EXCEPT ![Len(s) + 1] = y] = Append(s, y)
<1> DEFINE a == Append(s, x)
           b == Append(s, y)
<1>1. /\ a \in Seq(S) /\ b \in Seq(S) /\ Len(a) = Len(s) + 1 /\ Len(b) = Len(s) + 1
      /\ \A i \in 1..Len(s) : a[i] = s[i] /\ b[i] = s[i]
      /\ b[Len(s) + 1] = y /\ Len(s) \in Nat
  OBVIOUS
<1> HIDE DEF a, b
<1>2. Len(s) + 1 \in 1..Len(a)
  BY <1>1
<1> DEFINE e == [a EXCEPT ![Len(s) + 1] = y]
<1>3. /\ e \in Seq(S) /\ Len(e) = Len(a)
      /\ \A j \in 1..Len(a) : e[j] = IF j = Len(s) + 1 THEN y ELSE a[j]
  BY <1>1, <1>2, ExceptSeq
<1> HIDE DEF e
<1>4. \A j \in 1..Len(e) : e[j] = b[j]
  <2>1. \A j \in 1..Len(a) : j # Len(s) + 1 => j \in 1..Len(s)
    BY <1>1
  <2> QED BY <1>1, <1>3, <2>1
<1>5. e = b
  BY <1>1, <1>3, <1>4, SeqEqual
<1> QED BY <1>5 DEF e, a, b

\* What a block more makes of the packets: it is at the end of what
\* they hold, in a packet of its own if it has no room in the last one.
LEMMA PutFacts ==
    ASSUME NEW frames \in FrameSeqs, NEW block \in Seq(Words)
    PROVE  /\ Put(frames, block) \in FrameSeqs
           /\ FlattenSeq(Put(frames, block)) = FlattenSeq(frames) \o block
           /\ Len(LastOf(frames)) + Len(block) > Room =>
                 /\ Len(Put(frames, block)) = Len(frames) + 1
                 /\ Len(LastOf(Put(frames, block))) = Len(block)
           /\ ~ (Len(LastOf(frames)) + Len(block) > Room) =>
                 /\ Len(Put(frames, block)) = Len(frames)
                 /\ Len(LastOf(Put(frames, block))) = Len(LastOf(frames)) + Len(block)
<1> DEFINE last == frames[Len(frames)]
<1>1. PICK front \in Seq(Seq(Words)), end \in Seq(Words) : frames = Append(front, end)
  <2>1. frames \in Seq(Seq(Words)) /\ frames # <<>>
    BY DEF FrameSeqs
  <2> QED BY <2>1, SequenceEmptyOrAppend
<1>2. Len(frames) = Len(front) + 1 /\ last = end
  BY <1>1
<1>3. FlattenSeq(frames) = FlattenSeq(front) \o end
  BY <1>1, FlattenAppend
<1>4. CASE Len(last) + Len(block) > Room
  <2>1. Put(frames, block) = Append(frames, block)
    BY <1>4, Zenon DEF Put
  <2>2. frames \in Seq(Seq(Words))
    BY DEF FrameSeqs
  <2>3. FlattenSeq(Append(frames, block)) = FlattenSeq(frames) \o block
    BY <2>2, FlattenAppend
  <2>4. Append(frames, block) \in FrameSeqs
    BY <2>2, AppendIsFrames
  <2>5. Len(Append(frames, block)) = Len(frames) + 1 /\ LastOf(Append(frames, block)) = block
    BY <2>2 DEF LastOf
  <2> QED BY <1>4, <2>1, <2>3, <2>4, <2>5 DEF LastOf
<1>5. CASE ~ (Len(last) + Len(block) > Room)
  <2> DEFINE long == end \o block
  <2>0. long \in Seq(Words) /\ Len(long) = Len(end) + Len(block)
    OBVIOUS
  <2>1. Put(frames, block) = [frames EXCEPT ![Len(frames)] = long]
    BY <1>2, <1>5, Zenon DEF Put
  <2> HIDE DEF long
  <2>2. [frames EXCEPT ![Len(frames)] = long] = Append(front, long)
    BY <1>1, <1>2, <2>0, ExceptAppend
  <2>3. FlattenSeq(Append(front, long)) = FlattenSeq(front) \o long
    BY <2>0, FlattenAppend
  <2>4. FlattenSeq(front) \o long = (FlattenSeq(front) \o end) \o block
    <3>1. FlattenSeq(front) \in Seq(Words)
      BY FlattenType
    <3> QED BY <3>1, ConcatAssociative, SMTT(40) DEF long
  <2>5. Append(front, long) \in FrameSeqs
    BY <2>0, AppendIsFrames
  <2>6. Len(Append(front, long)) = Len(front) + 1 /\ LastOf(Append(front, long)) = long
    BY <2>0 DEF LastOf
  <2>7. Put(frames, block) = Append(front, long)
    BY <2>1, <2>2
  <2>8. FlattenSeq(Put(frames, block)) = FlattenSeq(frames) \o block
    BY <1>3, <2>3, <2>4, <2>7
  <2>9. Len(Put(frames, block)) = Len(frames) /\ LastOf(Put(frames, block)) = long
    BY <1>2, <2>6, <2>7
  <2>10. LastOf(frames) = end
    BY <1>2 DEF LastOf
  <2> QED BY <1>2, <1>5, <2>0, <2>5, <2>7, <2>8, <2>9, <2>10
<1> QED BY <1>4, <1>5

\* The recursion that defines Packed.
LEMMA PackedChain ==
    ASSUME NEW blocks \in Seq(Seq(Words))
    PROVE  \E f \in [0..Len(blocks) -> FrameSeqs] :
              /\ f[0] = <<<<>>>>
              /\ \A k \in 1..Len(blocks) : f[k] = Put(f[k - 1], blocks[k])
              /\ Packed(blocks) = f[Len(blocks)]
<1> DEFINE n == Len(blocks)
           V == FrameSeqs
           step == [x \in V \X (1..n) |-> Put(x[1], blocks[x[2]])]
           frames[k \in 0..Len(blocks)] ==
              IF k = 0 THEN <<<<>>>> ELSE Put(frames[k - 1], blocks[k])
<1>1. n \in Nat /\ \A k \in 1..n : blocks[k] \in Seq(Words)
  OBVIOUS
<1>2. <<<<>>>> \in V
  BY DEF FrameSeqs
<1>3. step \in [V \X (1..n) -> V]
  <2>1. \A x \in V \X (1..n) : x[1] \in V /\ x[2] \in 1..n
    OBVIOUS
  <2>2. \A x \in V \X (1..n) : Put(x[1], blocks[x[2]]) \in V
    BY <2>1, <1>1, PutFacts
  <2> QED BY <2>2
<1>4. PICK f \in [0..n -> V] :
         f[0] = <<<<>>>> /\ \A k \in 1..n : f[k] = step[<<f[k - 1], k>>]
  <2>1. AreSteps(V, n, <<<<>>>>, step)
    BY <1>1, <1>2, <1>3 DEF AreSteps
  <2> HIDE DEF step, V, n
  <2>2. PICK f : Passes(f, V, n, <<<<>>>>, step)
    BY <2>1, Chain, Zenon
  <2> QED BY <2>2 DEF Passes
<1>5. \A k \in 1..n : f[k] = Put(f[k - 1], blocks[k])
  <2>1. \A k \in 1..n : <<f[k - 1], k>> \in V \X (1..n)
    <3>1. \A k \in 1..n : k - 1 \in 0..n
      BY <1>1
    <3> HIDE DEF V
    <3> QED BY <3>1
  <2> QED BY <1>4, <2>1
<1>6. f = [k \in 0..Len(blocks) |-> IF k = 0 THEN <<<<>>>> ELSE Put(f[k - 1], blocks[k])]
  <2>1. \A k \in 0..n : f[k] = IF k = 0 THEN <<<<>>>> ELSE Put(f[k - 1], blocks[k])
    <3>1. \A k \in 0..n : k # 0 => k \in 1..n
      BY <1>1
    <3> QED BY <1>4, <1>5, <3>1
  <2> HIDE DEF V
  <2> QED BY <2>1
<1>7. frames = [k \in 0..Len(blocks) |-> IF k = 0 THEN <<<<>>>> ELSE Put(frames[k - 1], blocks[k])]
  BY <1>6, Zenon
<1>8. Packed(blocks) = frames[n]
  BY Zenon DEF Packed
<1> HIDE DEF frames, step
<1>9. \A k \in 0..n : frames[k] = f[k]
  <2>1. frames[0] = f[0]
    BY <1>1, <1>4, <1>7
  <2>2. \A k \in 1..n : frames[k] = Put(frames[k - 1], blocks[k])
    <3>1. \A k \in 1..n : k # 0 /\ k \in 0..n
      BY <1>1
    <3> QED BY <1>7, <3>1
  <2>3. \A k \in 1..n : frames[k - 1] = f[k - 1] => frames[k] = f[k]
    BY <1>5, <2>2
  <2> DEFINE I == {k \in 0..n : frames[k] = f[k]}
  <2>4. 0 \in I
    BY <1>1, <2>1
  <2>5. \A k \in 1..n : k - 1 \in I => k \in I
    BY <1>1, <2>3
  <2> HIDE DEF I
  <2>6. \A k \in 0..n : k \in I
    BY <1>1, <2>4, <2>5, BoundedInduction
  <2> QED BY <2>6 DEF I
<1>10. Packed(blocks) = f[n]
  BY <1>1, <1>8, <1>9
<1> QED BY <1>4, <1>5, <1>10

\* One block more.
LEMMA PackedAppend ==
    ASSUME NEW blocks \in Seq(Seq(Words)), NEW block \in Seq(Words)
    PROVE  Packed(Append(blocks, block)) = Put(Packed(blocks), block)
<1> DEFINE n == Len(blocks)
           more == Append(blocks, block)
<1>1. /\ n \in Nat /\ more \in Seq(Seq(Words)) /\ Len(more) = n + 1
      /\ more[n + 1] = block /\ \A k \in 1..n : more[k] = blocks[k]
  OBVIOUS
<1>2. PICK f \in [0..n -> FrameSeqs] :
              /\ f[0] = <<<<>>>>
              /\ \A k \in 1..n : f[k] = Put(f[k - 1], blocks[k])
              /\ Packed(blocks) = f[n]
  BY PackedChain
<1> HIDE DEF more
<1>3. PICK g \in [0..Len(more) -> FrameSeqs] :
              /\ g[0] = <<<<>>>>
              /\ \A k \in 1..Len(more) : g[k] = Put(g[k - 1], more[k])
              /\ Packed(more) = g[Len(more)]
  BY <1>1, PackedChain
<1>4. \A k \in 1..n : k \in 1..Len(more)
  BY <1>1
<1>5. \A k \in 1..n : f[k - 1] = g[k - 1] => f[k] = g[k]
  BY <1>1, <1>2, <1>3, <1>4
<1>6. f[0] = g[0]
  BY <1>2, <1>3
<1>7. \A k \in 0..n : f[k] = g[k]
  <2> DEFINE I == {k \in 0..n : f[k] = g[k]}
  <2>1. 0 \in I
    BY <1>1, <1>6
  <2>2. \A k \in 1..n : k - 1 \in I => k \in I
    BY <1>1, <1>5
  <2> HIDE DEF I
  <2>3. \A k \in 0..n : k \in I
    BY <1>1, <2>1, <2>2, BoundedInduction
  <2> QED BY <2>3 DEF I
<1>8. n \in 0..n /\ n + 1 \in 1..Len(more) /\ (n + 1) - 1 = n
  BY <1>1
<1>9. g[n + 1] = Put(g[n], block)
  BY <1>1, <1>3, <1>8
<1>10. Packed(more) = Put(f[n], block)
  BY <1>1, <1>3, <1>7, <1>8, <1>9
<1> QED BY <1>2, <1>10 DEF more

LEMMA PackedEmpty == Packed(<<>>) = <<<<>>>>
<1>1. <<>> \in Seq(Seq(Words)) /\ Len(<<>>) = 0
  OBVIOUS
<1>2. PICK f \in [0..Len(<<>>) -> FrameSeqs] :
              f[0] = <<<<>>>> /\ Packed(<<>>) = f[Len(<<>>)]
  BY <1>1, PackedChain
<1> QED BY <1>1, <1>2

\* Nothing is lost between packets, and none is empty unless there is nothing.
LEMMA PackedFacts ==
    ASSUME NEW blocks \in Seq(Seq(Words))
    PROVE  /\ Packed(blocks) \in FrameSeqs
           /\ FlattenSeq(Packed(blocks)) = FlattenSeq(blocks)
<1> DEFINE I == {n \in Nat : \A bs \in Seq(Seq(Words)) : Len(bs) = n =>
                    Packed(bs) \in FrameSeqs /\ FlattenSeq(Packed(bs)) = FlattenSeq(bs)}
<1>1. 0 \in I
  <2> SUFFICES ASSUME NEW bs \in Seq(Seq(Words)), Len(bs) = 0
               PROVE  Packed(bs) \in FrameSeqs /\ FlattenSeq(Packed(bs)) = FlattenSeq(bs)
    OBVIOUS
  <2>1. bs = <<>>
    BY EmptySeq
  <2>2. <<<<>>>> \in FrameSeqs
    BY DEF FrameSeqs
  <2>3. FlattenSeq(<<<<>>>>) = <<>>
    <3>1. <<>> \in Seq(Words)
      OBVIOUS
    <3> QED BY <3>1, FlattenOne
  <2> QED BY <2>1, <2>2, <2>3, PackedEmpty, FlattenEmpty
<1>2. ASSUME NEW n \in Nat, n \in I PROVE n + 1 \in I
  <2> SUFFICES ASSUME NEW bs \in Seq(Seq(Words)), Len(bs) = n + 1
               PROVE  Packed(bs) \in FrameSeqs /\ FlattenSeq(Packed(bs)) = FlattenSeq(bs)
    OBVIOUS
  <2>1. bs # <<>>
    BY EmptySeq
  <2>2. PICK cs \in Seq(Seq(Words)), b \in Seq(Words) : bs = Append(cs, b)
    BY <2>1, SequenceEmptyOrAppend
  <2>3. Len(cs) = n
    BY <2>2
  <2>4. Packed(cs) \in FrameSeqs /\ FlattenSeq(Packed(cs)) = FlattenSeq(cs)
    BY <1>2, <2>3
  <2>5. Packed(bs) = Put(Packed(cs), b)
    BY <2>2, PackedAppend
  <2>6. FlattenSeq(bs) = FlattenSeq(cs) \o b
    BY <2>2, FlattenAppend
  <2>7. /\ Put(Packed(cs), b) \in FrameSeqs
        /\ FlattenSeq(Put(Packed(cs), b)) = FlattenSeq(Packed(cs)) \o b
    BY <2>4, PutFacts
  <2> QED BY <2>4, <2>5, <2>6, <2>7
<1>3. \A n \in Nat : n \in I
  <2> HIDE DEF I
  <2> QED BY <1>1, <1>2, SetInduction
<1>4. Len(blocks) \in I
  BY <1>3
<1> QED BY <1>4

-----------------------------------------------------------------------------
(* calc_total_index counts the packets that framing_and_send makes.        *)

\* What calc_total_index keeps of the packets made so far.
Level(frames) == Filled(Len(LastOf(frames)), Len(frames) - 1)

\* Its loop body for a register of n words.
CountUnit(x, n) ==
    IF x.used > Room - HeaderLen THEN Fill(HeaderLen, x.total + 1, n)
    ELSE Fill(x.used + HeaderLen, x.total, n)

\* It is a level, and there is a packet at least.
LEMMA LevelType ==
    ASSUME NEW frames \in FrameSeqs
    PROVE  /\ Level(frames) \in FillResults
           /\ Level(frames).used = Len(LastOf(frames))
           /\ Level(frames).total = Len(frames) - 1
           /\ Len(frames) \in Nat \ {0} /\ Len(LastOf(frames)) \in Nat
<1>1. frames \in Seq(Seq(Words)) /\ frames # <<>>
  BY DEF FrameSeqs
<1>2. Len(frames) \in Nat \ {0}
  BY <1>1, EmptySeq
<1>3. LastOf(frames) \in Seq(Words)
  BY <1>1, <1>2 DEF LastOf
<1>4. Len(LastOf(frames)) \in Nat
  BY <1>3
<1> QED BY <1>2, <1>4 DEF Level, Filled, FillResults

\* What a block more does to it.
LEMMA PutLevel ==
    ASSUME NEW frames \in FrameSeqs, NEW block \in Seq(Words)
    PROVE  /\ Len(LastOf(frames)) + Len(block) > Room =>
                 Level(Put(frames, block)) = Filled(Len(block), Len(frames))
           /\ ~ (Len(LastOf(frames)) + Len(block) > Room) =>
                 Level(Put(frames, block)) =
                    Filled(Len(LastOf(frames)) + Len(block), Len(frames) - 1)
<1> DEFINE p == Put(frames, block)
<1>1. /\ Len(LastOf(frames)) + Len(block) > Room =>
            Len(p) = Len(frames) + 1 /\ Len(LastOf(p)) = Len(block)
      /\ ~ (Len(LastOf(frames)) + Len(block) > Room) =>
            Len(p) = Len(frames) /\ Len(LastOf(p)) = Len(LastOf(frames)) + Len(block)
  BY PutFacts
<1>2. Len(frames) \in Nat
  BY LevelType
<1> HIDE DEF p
<1>3. (Len(frames) + 1) - 1 = Len(frames)
  BY <1>2
<1>4. Level(p) = Filled(Len(LastOf(p)), Len(p) - 1)
  BY DEF Level
<1>5. CASE Len(LastOf(frames)) + Len(block) > Room
  BY <1>1, <1>3, <1>4, <1>5, Zenon DEF p
<1>6. CASE ~ (Len(LastOf(frames)) + Len(block) > Room)
  BY <1>1, <1>4, <1>6, Zenon DEF p
<1> QED BY <1>5, <1>6

\* Many blocks more.
LEMMA PackedConcat ==
    ASSUME NEW bs \in Seq(Seq(Words)), NEW cs \in Seq(Seq(Words))
    PROVE  \E h \in [0..Len(cs) -> FrameSeqs] :
              /\ h[0] = Packed(bs)
              /\ \A j \in 1..Len(cs) : h[j] = Put(h[j - 1], cs[j])
              /\ h[Len(cs)] = Packed(bs \o cs)
<1> DEFINE T == Seq(Words)
           n == Len(cs)
           part == [j \in 0..n |-> bs \o SubSeq(cs, 1, j)]
           h == [j \in 0..n |-> Packed(part[j])]
<1>1. n \in Nat /\ \A j \in 1..n : cs[j] \in T
  OBVIOUS
<1>2. \A j \in 0..n : SubSeq(cs, 1, j) \in Seq(T)
  BY <1>1
<1>3. \A j \in 0..n : part[j] \in Seq(T)
  BY <1>2
<1>4. part[0] = bs /\ part[n] = bs \o cs
  <2>1. SubSeq(cs, 1, 0) = <<>> /\ SubSeq(cs, 1, n) = cs
    BY SubSeqEmpty, SubSeqFull
  <2>2. bs \o <<>> = bs
    BY ConcatEmptySeq
  <2> QED BY <1>1, <2>1, <2>2
<1>5. ASSUME NEW j \in 1..n PROVE part[j] = Append(part[j - 1], cs[j])
  <2>1. j \in 0..n /\ j - 1 \in 0..n /\ 1 \in 1..n /\ j \in 1..n
    BY <1>1
  <2>2. SubSeq(cs, 1, j) = SubSeq(cs, 1, j - 1) \o <<cs[j]>>
    BY <2>1, SubSeqRecursiveSecond
  <2> DEFINE d == SubSeq(cs, 1, j - 1)
  <2>3. d \in Seq(T) /\ cs[j] \in T
    BY <1>1, <1>2, <2>1
  <2> HIDE DEF d
  <2>4. d \o <<cs[j]>> = Append(d, cs[j])
    BY <2>3, AppendIsConcat
  <2>5. bs \o Append(d, cs[j]) = Append(bs \o d, cs[j])
    BY <2>3, AppendConcat
  <2> QED BY <2>1, <2>2, <2>4, <2>5 DEF d
<1> HIDE DEF part
<1>6. \A j \in 0..n : h[j] \in FrameSeqs
  BY <1>3, PackedFacts
<1>7. \A j \in 1..n : h[j] = Put(h[j - 1], cs[j])
  <2> SUFFICES ASSUME NEW j \in 1..n PROVE h[j] = Put(h[j - 1], cs[j])
    OBVIOUS
  <2>1. j \in 0..n /\ j - 1 \in 0..n
    BY <1>1
  <2>2. Packed(Append(part[j - 1], cs[j])) = Put(Packed(part[j - 1]), cs[j])
    BY <1>1, <1>3, <2>1, PackedAppend
  <2> QED BY <1>5, <2>1, <2>2
<1>8. h[0] = Packed(bs) /\ h[n] = Packed(bs \o cs)
  <2>1. 0 \in 0..n /\ n \in 0..n
    BY <1>1
  <2> QED BY <1>4, <2>1
<1>9. h \in [0..n -> FrameSeqs]
  BY <1>6
<1> HIDE DEF h
<1> QED BY <1>7, <1>8, <1>9

\* A packet that is begun is not empty in the end.
LEMMA FillUsed ==
    ASSUME NEW u \in 1..Room, NEW t \in Nat, NEW l \in Nat
    PROVE  Fill(u, t, l).used > 0
<1>1. Room \in Nat /\ u \in Nat /\ u \in 0..Room
  BY TlvReadAssumption
<1> DEFINE I == {k \in 0..l : Fill(u, t, k).used > 0}
<1>2. 0 \in I
  <2>1. ~ (0 > Room - u)
    BY <1>1
  <2>2. Fill(u, t, 0) = Filled(u + 0, t)
    BY <1>1, <2>1, FillRound
  <2> QED BY <1>1, <2>2 DEF Filled
<1>3. ASSUME NEW k \in 1..l, k - 1 \in I PROVE k \in I
  <2>1. k - 1 \in Nat /\ (k - 1) + 1 = k
    OBVIOUS
  <2>2. Fill(u, t, k) = OneMore(Fill(u, t, k - 1))
    BY <1>1, <2>1, FillOneMore
  <2>3. Fill(u, t, k - 1) \in FillResults
    BY <1>1, <2>1, FillRound
  <2>4. OneMore(Fill(u, t, k - 1)).used > 0
    BY <2>3 DEF OneMore, Filled, FillResults
  <2> QED BY <2>2, <2>4
<1> HIDE DEF I
<1>4. \A k \in 0..l : k \in I
  BY <1>2, <1>3, BoundedInduction
<1> QED BY <1>4 DEF I

\* After a register the packet in the making is not empty.
LEMMA CountUnitFacts ==
    ASSUME NEW x \in FillResults, NEW n \in Nat
    PROVE  CountUnit(x, n) \in FillResults /\ CountUnit(x, n).used > 0
<1>1. Room \in Nat /\ HeaderLen \in Nat \ {0} /\ HeaderLen <= Room
  BY TlvReadAssumption
<1>2. x.used \in Nat /\ x.total \in Nat /\ x.total + 1 \in Nat
  BY DEF FillResults
<1>3. CASE x.used > Room - HeaderLen
  <2>1. HeaderLen \in 1..Room /\ HeaderLen \in 0..Room
    BY <1>1
  <2>2. Fill(HeaderLen, x.total + 1, n) \in FillResults
    BY <1>2, <2>1, FillRound
  <2>3. Fill(HeaderLen, x.total + 1, n).used > 0
    BY <1>2, <2>1, FillUsed
  <2> QED BY <1>3, <2>2, <2>3 DEF CountUnit
<1>4. CASE ~ (x.used > Room - HeaderLen)
  <2>1. x.used + HeaderLen \in 1..Room /\ x.used + HeaderLen \in Nat
    BY <1>1, <1>2, <1>4
  <2> QED BY <1>2, <1>4, <2>1, FillRound, FillUsed DEF CountUnit
<1> QED BY <1>3, <1>4

\* One register more.
LEMMA UnitLevel ==
    ASSUME NEW bs \in Seq(Seq(Words)), NEW r \in Nat, NEW n \in Nat
    PROVE  Level(Packed(bs \o UnitBlocks(r, n))) = CountUnit(Level(Packed(bs)), n)
<1> DEFINE cs == UnitBlocks(r, n)
           x == Level(Packed(bs))
           u == IF x.used > Room - HeaderLen THEN HeaderLen ELSE x.used + HeaderLen
           t == IF x.used > Room - HeaderLen THEN x.total + 1 ELSE x.total
<1>1. Room \in Nat /\ HeaderLen \in Nat \ {0} /\ HeaderLen <= Room
  BY TlvReadAssumption
<1>2. /\ cs \in Seq(Seq(Words)) /\ Len(cs) = n + 1 /\ cs[1] = Header(r, n)
      /\ \A k \in 1..n : cs[k + 1] = <<Word(r, n, k)>>
  BY UnitBlocksTypes
<1> HIDE DEF cs
<1>3. PICK h \in [0..Len(cs) -> FrameSeqs] :
              /\ h[0] = Packed(bs)
              /\ \A j \in 1..Len(cs) : h[j] = Put(h[j - 1], cs[j])
              /\ h[Len(cs)] = Packed(bs \o cs)
  BY <1>2, PackedConcat
<1>4. h[0] \in FrameSeqs /\ x \in FillResults /\ x.used = Len(LastOf(h[0]))
      /\ x.total = Len(h[0]) - 1 /\ Len(h[0]) \in Nat \ {0} /\ Len(LastOf(h[0])) \in Nat
  <2>1. h[0] \in FrameSeqs
    BY <1>2, <1>3
  <2> QED BY <1>3, <2>1, LevelType
<1>5. x.used \in Nat /\ x.total \in Nat
  BY <1>4 DEF FillResults
<1> HIDE DEF x
<1>6. u \in 1..Room /\ u \in 0..Room /\ u \in Nat /\ t \in Nat
  BY <1>1, <1>5
<1>7. CountUnit(x, n) = Fill(u, t, n)
  BY DEF CountUnit
<1>8. Level(h[1]) = Filled(u, t)
  <2>1. h[1] = Put(h[0], Header(r, n))
    BY <1>2, <1>3
  <2>2. Header(r, n) \in Seq(Words) /\ Len(Header(r, n)) = HeaderLen
    BY UnitTypes
  <2>3. /\ x.used + HeaderLen > Room => Level(h[1]) = Filled(HeaderLen, Len(h[0]))
        /\ ~ (x.used + HeaderLen > Room) =>
              Level(h[1]) = Filled(x.used + HeaderLen, Len(h[0]) - 1)
    BY <1>4, <2>1, <2>2, PutLevel
  <2>4. CASE x.used > Room - HeaderLen
    <3>1. x.used + HeaderLen > Room /\ Len(h[0]) = x.total + 1
      BY <1>1, <1>4, <1>5, <2>4
    <3> QED BY <2>3, <2>4, <3>1
  <2>5. CASE ~ (x.used > Room - HeaderLen)
    <3>1. ~ (x.used + HeaderLen > Room) /\ Len(h[0]) - 1 = x.total
      BY <1>1, <1>4, <1>5, <2>5
    <3> QED BY <2>3, <2>5, <3>1
  <2> QED BY <2>4, <2>5
<1> HIDE DEF u, t
<1> DEFINE I == {k \in 0..n : Level(h[k + 1]) = Fill(u, t, k)}
<1>9. 0 \in I
  <2>1. ~ (0 > Room - u) /\ u + 0 = u
    BY <1>1, <1>6
  <2>2. Fill(u, t, 0) = Filled(u, t)
    BY <1>6, <2>1, FillRound
  <2> QED BY <1>8, <2>2
<1>10. ASSUME NEW k \in 1..n, k - 1 \in I PROVE k \in I
  <2>1. k - 1 \in Nat /\ (k - 1) + 1 = k /\ (k + 1) - 1 = k /\ k + 1 \in 1..Len(cs) /\ k \in 0..Len(cs)
    BY <1>2
  <2>2. h[k + 1] = Put(h[k], <<Word(r, n, k)>>)
    BY <1>2, <1>3, <2>1
  <2>3. h[k] \in FrameSeqs
    BY <2>1
  <2>4. <<Word(r, n, k)>> \in Seq(Words) /\ Len(<<Word(r, n, k)>>) = 1
    BY DEF Word, Words
  <2>5. /\ Level(h[k]).used = Len(LastOf(h[k])) /\ Level(h[k]).total = Len(h[k]) - 1
        /\ Len(h[k]) \in Nat \ {0} /\ Len(LastOf(h[k])) \in Nat
    BY <2>3, LevelType
  <2>6. Level(h[k + 1]) = OneMore(Level(h[k]))
    <3> DEFINE w == <<Word(r, n, k)>>
    <3>1. w \in Seq(Words) /\ Len(w) = 1 /\ h[k + 1] = Put(h[k], w)
      BY <2>2, <2>4
    <3> HIDE DEF w
    <3>2. /\ Len(LastOf(h[k])) + 1 > Room => Level(h[k + 1]) = Filled(1, Len(h[k]))
          /\ ~ (Len(LastOf(h[k])) + 1 > Room) =>
                Level(h[k + 1]) = Filled(Len(LastOf(h[k])) + 1, Len(h[k]) - 1)
      BY <2>3, <3>1, PutLevel
    <3>3. (Len(h[k]) - 1) + 1 = Len(h[k])
      BY <2>5
    <3> QED BY <2>5, <3>2, <3>3, Zenon DEF OneMore
  <2>7. Level(h[k]) = Fill(u, t, k - 1)
    BY <1>10, <2>1
  <2>8. Fill(u, t, k) = OneMore(Fill(u, t, k - 1))
    BY <1>6, <2>1, FillOneMore
  <2> QED BY <2>6, <2>7, <2>8
<1> HIDE DEF I
<1>11. \A k \in 0..n : k \in I
  BY <1>9, <1>10, BoundedInduction
<1>12. Level(h[n + 1]) = Fill(u, t, n)
  BY <1>11 DEF I
<1> QED BY <1>2, <1>3, <1>7, <1>12 DEF cs, x

\* The recursion that defines Count.
LEMMA CountChain ==
    ASSUME NEW lens \in Seq(Nat)
    PROVE  \E f \in [0..Len(lens) -> FillResults] :
              /\ f[0] = Filled(0, 0)
              /\ \A k \in 1..Len(lens) : f[k] = CountUnit(f[k - 1], lens[k])
              /\ LET all == f[Len(lens)]
                 IN  Count(lens) = IF all.used > 0 \/ all.total = 0
                                   THEN all.total + 1 ELSE all.total
<1> DEFINE n == Len(lens)
           V == FillResults
           step == [x \in V \X (1..n) |-> CountUnit(x[1], lens[x[2]])]
           sum[k \in 0..Len(lens)] ==
            IF k = 0 THEN [used |-> 0, total |-> 0]
            ELSE IF sum[k - 1].used > Room - HeaderLen
            THEN Fill(HeaderLen, sum[k - 1].total + 1, lens[k])
            ELSE Fill(sum[k - 1].used + HeaderLen, sum[k - 1].total, lens[k])
<1>1. n \in Nat /\ \A k \in 1..n : lens[k] \in Nat
  OBVIOUS
<1>2. Filled(0, 0) \in V
  BY DEF Filled, FillResults
<1>3. step \in [V \X (1..n) -> V]
  <2>1. \A x \in V \X (1..n) : x[1] \in V /\ x[2] \in 1..n
    OBVIOUS
  <2>2. \A x \in V \X (1..n) : CountUnit(x[1], lens[x[2]]) \in V
    BY <2>1, <1>1, CountUnitFacts
  <2> QED BY <2>2
<1>4. PICK f \in [0..n -> V] :
         f[0] = Filled(0, 0) /\ \A k \in 1..n : f[k] = step[<<f[k - 1], k>>]
  <2>1. AreSteps(V, n, Filled(0, 0), step)
    BY <1>1, <1>2, <1>3 DEF AreSteps
  <2> HIDE DEF step, V, n
  <2>2. PICK f : Passes(f, V, n, Filled(0, 0), step)
    BY <2>1, Chain, Zenon
  <2> QED BY <2>2 DEF Passes
<1>5. \A k \in 1..n : f[k] = CountUnit(f[k - 1], lens[k])
  <2>1. \A k \in 1..n : <<f[k - 1], k>> \in V \X (1..n)
    <3>1. \A k \in 1..n : k - 1 \in 0..n
      BY <1>1
    <3> HIDE DEF V
    <3> QED BY <3>1
  <2> QED BY <1>4, <2>1
<1>6. f = [k \in 0..Len(lens) |->
            IF k = 0 THEN [used |-> 0, total |-> 0]
            ELSE IF f[k - 1].used > Room - HeaderLen
            THEN Fill(HeaderLen, f[k - 1].total + 1, lens[k])
            ELSE Fill(f[k - 1].used + HeaderLen, f[k - 1].total, lens[k])]
  <2>1. \A k \in 0..n : f[k] = IF k = 0 THEN Filled(0, 0) ELSE CountUnit(f[k - 1], lens[k])
    <3>1. \A k \in 0..n : k # 0 => k \in 1..n
      BY <1>1
    <3> QED BY <1>4, <1>5, <3>1
  <2>2. f = [k \in 0..Len(lens) |-> IF k = 0 THEN Filled(0, 0) ELSE CountUnit(f[k - 1], lens[k])]
    <3> HIDE DEF V
    <3> QED BY <2>1
  <2> QED BY <2>2, Zenon DEF Filled, CountUnit
<1>7. sum = [k \in 0..Len(lens) |->
            IF k = 0 THEN [used |-> 0, total |-> 0]
            ELSE IF sum[k - 1].used > Room - HeaderLen
            THEN Fill(HeaderLen, sum[k - 1].total + 1, lens[k])
            ELSE Fill(sum[k - 1].used + HeaderLen, sum[k - 1].total, lens[k])]
  BY <1>6, Zenon
<1>8. Count(lens) = IF sum[n].used > 0 \/ sum[n].total = 0
                    THEN sum[n].total + 1 ELSE sum[n].total
  BY Zenon DEF Count
<1> HIDE DEF sum, step
<1>9. \A k \in 0..n : sum[k] = f[k]
  <2>1. sum[0] = f[0]
    BY <1>1, <1>4, <1>7 DEF Filled
  <2>2. \A k \in 1..n : sum[k] = CountUnit(sum[k - 1], lens[k])
    <3>1. \A k \in 1..n : k # 0 /\ k \in 0..n
      BY <1>1
    <3> QED BY <1>7, <3>1 DEF CountUnit
  <2>3. \A k \in 1..n : sum[k - 1] = f[k - 1] => sum[k] = f[k]
    BY <1>5, <2>2
  <2> DEFINE I == {k \in 0..n : sum[k] = f[k]}
  <2>4. 0 \in I
    BY <1>1, <2>1
  <2>5. \A k \in 1..n : k - 1 \in I => k \in I
    BY <1>1, <2>3
  <2> HIDE DEF I
  <2>6. \A k \in 0..n : k \in I
    BY <1>1, <2>4, <2>5, BoundedInduction
  <2> QED BY <2>6 DEF I
<1>10. sum[n] = f[n]
  BY <1>1, <1>9
<1> QED BY <1>4, <1>5, <1>8, <1>10

\* calc_total_index counts what framing_and_send makes: the number of packets
\* the client is told, which it waits for, is the number it is sent.
THEOREM CountIsRight ==
    \A lens \in Seq(Nat) : Count(lens) = Len(Cut(lens))
<1> SUFFICES ASSUME NEW lens \in Seq(Nat) PROVE Count(lens) = Len(Cut(lens))
  OBVIOUS
<1> DEFINE n == Len(lens)
           xss == [r \in 1..Len(lens) |-> UnitBlocks(r, lens[r])]
<1>1. n \in Nat /\ \A r \in 1..n : lens[r] \in Nat /\ r \in Nat
  OBVIOUS
<1>2. xss \in Seq(Seq(Seq(Words))) /\ Len(xss) = n /\ \A r \in 1..n : xss[r] = UnitBlocks(r, lens[r])
  <2>1. \A r \in 1..n : UnitBlocks(r, lens[r]) \in Seq(Seq(Words))
    BY <1>1, UnitBlocksTypes, Zenon
  <2> QED BY <1>1, <2>1
<1>3. Blocks(lens) = FlattenSeq(xss)
  <2>1. DOMAIN lens = 1..Len(lens)
    OBVIOUS
  <2> QED BY <2>1, Zenon DEF Blocks, UnitBlocks
<1> HIDE DEF xss
<1>4. PICK g \in [0..Len(xss) -> Seq(Seq(Words))] :
              /\ g[0] = <<>>
              /\ \A i \in 1..Len(xss) : g[i] = g[i - 1] \o xss[i]
              /\ FlattenSeq(xss) = g[Len(xss)]
  BY <1>2, FlattenChain
<1>5. PICK f \in [0..Len(lens) -> FillResults] :
              /\ f[0] = Filled(0, 0)
              /\ \A k \in 1..Len(lens) : f[k] = CountUnit(f[k - 1], lens[k])
              /\ LET all == f[Len(lens)]
                 IN  Count(lens) = IF all.used > 0 \/ all.total = 0
                                   THEN all.total + 1 ELSE all.total
  BY CountChain
<1> DEFINE I == {k \in 0..n : f[k] = Level(Packed(g[k]))}
<1>6. 0 \in I
  <2>1. Len(<<<<>>>>) = 1 /\ LastOf(<<<<>>>>) = <<>> /\ Len(<<>>) = 0
    BY DEF LastOf
  <2>2. Level(<<<<>>>>) = Filled(0, 0)
    BY <2>1 DEF Level
  <2> QED BY <1>1, <1>4, <1>5, <2>2, PackedEmpty
<1>7. ASSUME NEW k \in 1..n, k - 1 \in I PROVE k \in I
  <2>1. k \in 0..n /\ k - 1 \in 0..n /\ k \in 1..Len(xss) /\ k - 1 \in 0..Len(xss)
    BY <1>1, <1>2
  <2>2. g[k - 1] \in Seq(Seq(Words)) /\ g[k] = g[k - 1] \o UnitBlocks(k, lens[k])
    BY <1>2, <1>4, <2>1
  <2>3. Level(Packed(g[k])) = CountUnit(Level(Packed(g[k - 1])), lens[k])
    BY <1>1, <2>2, UnitLevel
  <2> QED BY <1>5, <1>7, <2>1, <2>3
<1> HIDE DEF I
<1>8. \A k \in 0..n : k \in I
  BY <1>1, <1>6, <1>7, BoundedInduction
<1>9. f[n] = Level(Packed(g[n]))
  BY <1>1, <1>8 DEF I
<1>10. Packed(g[n]) = Cut(lens) /\ Cut(lens) \in FrameSeqs
  <2>1. Cut(lens) = Packed(g[n])
    BY <1>2, <1>3, <1>4, CutIsPacked
  <2> QED BY <2>1, BlocksFlatten, PackedFacts, CutIsPacked
<1>11. f[n].total = Len(Cut(lens)) - 1 /\ Len(Cut(lens)) \in Nat \ {0} /\ f[n] \in FillResults
  BY <1>9, <1>10, LevelType
<1>12. f[n].used > 0 \/ f[n].total = 0
  <2>1. CASE n = 0
    BY <1>5, <2>1 DEF Filled
  <2>2. CASE n # 0
    <3>1. n \in 1..n /\ n - 1 \in 0..n
      BY <1>1, <2>2
    <3>2. f[n] = CountUnit(f[n - 1], lens[n]) /\ f[n - 1] \in FillResults
      BY <1>5, <3>1
    <3> QED BY <1>1, <3>1, <3>2, CountUnitFacts
  <2> QED BY <2>1, <2>2
<1> QED BY <1>5, <1>11, <1>12

\* What fits into a packet.
Fitting == {w \in Seq(Words) : Len(w) <= Room}

\* A header and a word do.
LEMMA BlocksFit == ASSUME NEW lens \in Seq(Nat) PROVE Blocks(lens) \in Seq(Fitting)
<1> DEFINE xss == [r \in 1..Len(lens) |-> UnitBlocks(r, lens[r])]
<1>1. Len(lens) \in Nat /\ \A r \in 1..Len(lens) : lens[r] \in Nat /\ r \in Nat
  OBVIOUS
<1>2. HeaderLen \in Nat \ {0} /\ HeaderLen <= Room /\ Room \in Nat
  BY TlvReadAssumption
<1>3. ASSUME NEW r \in Nat, NEW n \in Nat PROVE UnitBlocks(r, n) \in Seq(Fitting)
  <2> DEFINE b == UnitBlocks(r, n)
  <2>1. /\ b \in Seq(Seq(Words)) /\ Len(b) = n + 1 /\ b[1] = Header(r, n)
        /\ \A k \in 1..n : b[k + 1] = <<Word(r, n, k)>>
    BY UnitBlocksTypes
  <2> HIDE DEF b
  <2>2. Header(r, n) \in Fitting
    BY <1>2, UnitTypes DEF Fitting
  <2>3. \A k \in 1..n : <<Word(r, n, k)>> \in Fitting
    BY <1>2 DEF Fitting, Word, Words
  <2>4. ASSUME NEW i \in 1..Len(b) PROVE b[i] \in Fitting
    <3>1. CASE i = 1
      BY <2>1, <2>2, <3>1
    <3>2. CASE i # 1
      <4>1. i - 1 \in 1..n /\ (i - 1) + 1 = i
        BY <2>1, <3>2
      <4>2. b[(i - 1) + 1] \in Fitting
        BY <2>1, <2>3, <4>1
      <4> QED BY <4>1, <4>2
    <3> QED BY <3>1, <3>2
  <2>5. b \in Seq(Fitting)
    BY <2>1, <2>4
  <2> QED BY <2>5 DEF b
<1>4. xss \in Seq(Seq(Fitting))
  <2>1. \A r \in 1..Len(lens) : UnitBlocks(r, lens[r]) \in Seq(Fitting)
    BY <1>1, <1>3, Zenon
  <2> QED BY <1>1, <2>1
<1>5. Blocks(lens) = FlattenSeq(xss)
  <2>1. DOMAIN lens = 1..Len(lens)
    OBVIOUS
  <2> QED BY <2>1, Zenon DEF Blocks, UnitBlocks
<1> HIDE DEF xss
<1> QED BY <1>4, <1>5, FlattenType

\* A packet that is filled up still fits.
LEMMA PutFits ==
    ASSUME NEW frames \in FrameSeqs, frames \in Seq(Fitting), NEW block \in Fitting
    PROVE  Put(frames, block) \in Seq(Fitting)
<1> DEFINE last == frames[Len(frames)]
<1>1. frames \in Seq(Seq(Words)) /\ frames # <<>> /\ block \in Seq(Words)
  BY DEF FrameSeqs, Fitting
<1>2. Len(frames) \in 1..Len(frames)
  BY <1>1, EmptySeq
<1>3. last \in Seq(Words)
  BY <1>1, <1>2
<1>4. CASE Len(last) + Len(block) > Room
  <2>1. Put(frames, block) = Append(frames, block)
    BY <1>4, Zenon DEF Put
  <2>2. Append(frames, block) \in Seq(Fitting)
    OBVIOUS
  <2> QED BY <2>1, <2>2
<1>5. CASE ~ (Len(last) + Len(block) > Room)
  <2> DEFINE long == last \o block
  <2>1. Put(frames, block) = [frames EXCEPT ![Len(frames)] = long]
    BY <1>5, Zenon DEF Put
  <2> HIDE DEF last
  <2>2. long \in Seq(Words) /\ Len(long) = Len(last) + Len(block)
    BY <1>1, <1>3
  <2>3. long \in Fitting
    <3>1. Len(last) \in Nat /\ Len(block) \in Nat /\ Room \in Nat
      BY <1>1, <1>3, TlvReadAssumption
    <3> QED BY <1>5, <2>2, <3>1 DEF Fitting
  <2> HIDE DEF long
  <2>4. [frames EXCEPT ![Len(frames)] = long] \in Seq(Fitting)
    BY <1>2, <2>3, ExceptSeq
  <2> QED BY <2>1, <2>4
<1> QED BY <1>4, <1>5

\* framing_and_send makes no packet longer than MODBUS_TLV_DATA_LEN_MAX.
THEOREM PacketsFit == \A lens \in Seq(Nat) : Cut(lens) \in Seq(Fitting)
<1> SUFFICES ASSUME NEW lens \in Seq(Nat) PROVE Cut(lens) \in Seq(Fitting)
  OBVIOUS
<1> DEFINE bs == Blocks(lens)
<1>1. bs \in Seq(Seq(Words)) /\ bs \in Seq(Fitting)
  BY BlocksFlatten, BlocksFit
<1>2. Cut(lens) = Packed(bs)
  BY CutIsPacked
<1> HIDE DEF bs
<1>3. PICK f \in [0..Len(bs) -> FrameSeqs] :
              /\ f[0] = <<<<>>>>
              /\ \A k \in 1..Len(bs) : f[k] = Put(f[k - 1], bs[k])
              /\ Packed(bs) = f[Len(bs)]
  BY <1>1, PackedChain
<1>4. Len(bs) \in Nat /\ \A k \in 1..Len(bs) : bs[k] \in Fitting
  BY <1>1
<1> DEFINE I == {k \in 0..Len(bs) : f[k] \in Seq(Fitting)}
<1>5. 0 \in I
  <2>1. <<>> \in Fitting
    BY TlvReadAssumption DEF Fitting
  <2>2. <<<<>>>> \in Seq(Fitting)
    BY <2>1
  <2>3. f[0] \in Seq(Fitting)
    BY <1>3, <2>2, Zenon
  <2>4. 0 \in 0..Len(bs)
    BY <1>4
  <2> QED BY <2>3, <2>4
<1>6. ASSUME NEW k \in 1..Len(bs), k - 1 \in I PROVE k \in I
  <2>1. k \in 0..Len(bs) /\ k - 1 \in 0..Len(bs)
    BY <1>4
  <2>2. f[k - 1] \in FrameSeqs /\ f[k - 1] \in Seq(Fitting)
    BY <1>6, <2>1
  <2>3. Put(f[k - 1], bs[k]) \in Seq(Fitting)
    BY <1>4, <2>2, PutFits
  <2> QED BY <1>3, <2>1, <2>3
<1> HIDE DEF I
<1>7. \A k \in 0..Len(bs) : k \in I
  BY <1>4, <1>5, <1>6, BoundedInduction
<1> QED BY <1>2, <1>3, <1>4, <1>7 DEF I

-----------------------------------------------------------------------------
(* The units of a page are read from its words as they were written.       *)

UnitList == Seq([reg : Nat, value : Seq(Words)])
CutShort(words) == Len(words) < HeaderLen \/ Len(words) < HeaderLen + words[1].len
FirstUnit(words) ==
    [reg |-> words[1].reg, value |-> SubSeq(words, HeaderLen + 1, HeaderLen + words[1].len)]
AfterUnit(words) == SubSeq(words, HeaderLen + words[1].len + 1, Len(words))
WithUnit(unit, rest) == <<unit>> \o rest
UnitsBody(f, words) ==
    IF CutShort(words) THEN <<>> ELSE WithUnit(FirstUnit(words), f[AfterUnit(words)])

\* A unit that is whole has its parts, and what follows it is shorter.
LEMMA UnitParts ==
    ASSUME NEW words \in Seq(Words), ~ CutShort(words)
    PROVE  /\ words[1] \in Words /\ words[1].len \in Nat
           /\ FirstUnit(words) \in [reg : Nat, value : Seq(Words)]
           /\ AfterUnit(words) \in Seq(Words) /\ Len(AfterUnit(words)) < Len(words)
<1> DEFINE n == words[1].len
           l == Len(words)
<1>1. HeaderLen \in Nat \ {0}
  BY TlvReadAssumption
<1>2. l \in Nat /\ ~ (l < HeaderLen)
  BY DEF CutShort
<1>3. 1 \in 1..l
  BY <1>1, <1>2
<1>4. words[1] \in Words
  BY <1>3
<1>5. n \in Nat /\ words[1].reg \in Nat
  BY <1>4 DEF Words
<1>6. ~ (l < HeaderLen + n)
  BY DEF CutShort
<1> HIDE DEF n
<1>7. SubSeq(words, HeaderLen + 1, HeaderLen + n) \in Seq(Words)
  <2>1. \A i \in (HeaderLen + 1)..(HeaderLen + n) : words[i] \in Words
    BY <1>1, <1>2, <1>5, <1>6
  <2> QED BY <1>1, <1>5, <2>1, SubSeqProperties
<1>8. SubSeq(words, HeaderLen + n + 1, l) \in Seq(Words)
      /\ Len(SubSeq(words, HeaderLen + n + 1, l)) = l - (HeaderLen + n)
  <2>1. \A i \in (HeaderLen + n + 1)..l : words[i] \in Words
    BY <1>1, <1>2, <1>5
  <2>2. HeaderLen + n + 1 \in Int /\ HeaderLen + n + 1 <= l + 1 /\ HeaderLen + n + 1 \in 1..(l + 1)
    BY <1>1, <1>2, <1>5, <1>6
  <2> QED BY <1>1, <1>2, <1>5, <2>1, <2>2, SubSeqProperties
<1>9. l - (HeaderLen + n) < l
  BY <1>1, <1>2, <1>5
<1> QED BY <1>4, <1>5, <1>7, <1>8, <1>9 DEF n, FirstUnit, AfterUnit

\* The recursion that defines Units.
LEMMA UnitsSteps ==
    \E f \in [Seq(Words) -> UnitList] :
       /\ \A words \in Seq(Words) : f[words] = UnitsBody(f, words)
       /\ \A words \in Seq(Words) : Units(words) = f[words]
<1> DEFINE D == Seq(Words)
           V == UnitList
           m == [s \in D |-> Len(s)]
           G == [x \in [D -> V] \X D |-> UnitsBody(x[1], x[2])]
           parse[words \in Seq([reg : Nat, len : Nat, at : Nat])] ==
            LET n == words[1].len
                value == SubSeq(words, HeaderLen + 1, HeaderLen + n)
            IN IF Len(words) < HeaderLen \/ Len(words) < HeaderLen + n THEN <<>>
               ELSE <<[reg |-> words[1].reg, value |-> value]>> \o
                    parse[SubSeq(words, HeaderLen + n + 1, Len(words))]
<1>1. ASSUME NEW f \in [D -> V], NEW s \in D PROVE UnitsBody(f, s) \in V
  <2>1. CASE CutShort(s)
    BY <2>1 DEF UnitsBody, UnitList
  <2>2. CASE ~ CutShort(s)
    <3>1. FirstUnit(s) \in [reg : Nat, value : Seq(Words)] /\ f[AfterUnit(s)] \in UnitList
      BY <2>2, UnitParts
    <3>2. ASSUME NEW u \in [reg : Nat, value : Seq(Words)], NEW rest \in UnitList
          PROVE  WithUnit(u, rest) \in UnitList
      BY DEF WithUnit, UnitList
    <3>3. UnitsBody(f, s) = WithUnit(FirstUnit(s), f[AfterUnit(s)])
      BY <2>2, Zenon DEF UnitsBody
    <3> QED BY <3>1, <3>2, <3>3
  <2> QED BY <2>1, <2>2
<1>2. G \in [[D -> V] \X D -> V]
  <2>1. \A x \in [D -> V] \X D : x[1] \in [D -> V] /\ x[2] \in D
    OBVIOUS
  <2>2. \A x \in [D -> V] \X D : UnitsBody(x[1], x[2]) \in V
    BY <2>1, <1>1
  <2> QED BY <2>2
<1>3. LooksDown(G, D, V, m)
  <2> SUFFICES ASSUME NEW f \in [D -> V], NEW g \in [D -> V], NEW w \in D,
                      \A v \in D : m[v] < m[w] => f[v] = g[v]
               PROVE  UnitsBody(f, w) = UnitsBody(g, w)
    BY DEF LooksDown
  <2>1. CASE ~ CutShort(w)
    <3>1. AfterUnit(w) \in D /\ m[AfterUnit(w)] < m[w]
      BY <2>1, UnitParts
    <3>2. f[AfterUnit(w)] = g[AfterUnit(w)]
      BY <3>1
    <3> QED BY <2>1, <3>2, Zenon DEF UnitsBody
  <2>2. CASE CutShort(w)
    BY <2>2, Zenon DEF UnitsBody
  <2> QED BY <2>1, <2>2
<1>4. m \in [D -> Nat] /\ V # {}
  <2>1. <<>> \in V
    BY DEF UnitList
  <2> QED BY <2>1
<1>5. PICK f : Solves(f, D, V, G)
  <2>1. IsRecursion(D, V, m, G)
    BY <1>2, <1>3, <1>4 DEF IsRecursion
  <2> HIDE DEF m, G, V, D
  <2> QED BY <2>1, Recursion, Zenon
<1>6. f \in [D -> V] /\ \A s \in D : f[s] = UnitsBody(f, s)
  <2>1. f \in [D -> V] /\ \A s \in D : f[s] = G[<<f, s>>]
    BY <1>5 DEF Solves
  <2>2. \A s \in D : <<f, s>> \in [D -> V] \X D
    BY <2>1
  <2>3. \A s \in D : G[<<f, s>>] = UnitsBody(f, s)
    BY <2>2
  <2> QED BY <2>1, <2>3
<1>7. \E h : h = [words \in Seq([reg : Nat, len : Nat, at : Nat]) |->
            LET n == words[1].len
                value == SubSeq(words, HeaderLen + 1, HeaderLen + n)
            IN IF Len(words) < HeaderLen \/ Len(words) < HeaderLen + n THEN <<>>
               ELSE <<[reg |-> words[1].reg, value |-> value]>> \o
                    h[SubSeq(words, HeaderLen + n + 1, Len(words))]]
  <2>1. f = [s \in D |-> f[s]]
    BY <1>6
  <2>2. f = [s \in D |-> UnitsBody(f, s)]
    BY <1>6, <2>1, Zenon
  <2> QED BY <2>2, Zenon DEF UnitsBody, Words, CutShort, WithUnit, FirstUnit, AfterUnit
<1>8. parse = [words \in Seq([reg : Nat, len : Nat, at : Nat]) |->
            LET n == words[1].len
                value == SubSeq(words, HeaderLen + 1, HeaderLen + n)
            IN IF Len(words) < HeaderLen \/ Len(words) < HeaderLen + n THEN <<>>
               ELSE <<[reg |-> words[1].reg, value |-> value]>> \o
                    parse[SubSeq(words, HeaderLen + n + 1, Len(words))]]
  BY <1>7, Zenon
<1>9. \A words \in D : Units(words) = parse[words]
  BY Zenon DEF Units
<1> HIDE DEF parse, G
<1>10. \A s \in D : parse[s] = UnitsBody(parse, s)
  BY <1>8, Zenon DEF Words, UnitsBody, CutShort, WithUnit, FirstUnit, AfterUnit
<1>11. \A s \in D : parse[s] = f[s]
  <2> DEFINE I == {k \in Nat : \A s \in D : m[s] <= k => parse[s] = f[s]}
  <2>1. ASSUME NEW s \in D, \A v \in D : m[v] < m[s] => parse[v] = f[v]
        PROVE  parse[s] = f[s]
    <3>1. parse[s] = UnitsBody(parse, s) /\ f[s] = UnitsBody(f, s)
      BY <1>6, <1>10
    <3>2. CASE ~ CutShort(s)
      <4>1. AfterUnit(s) \in D /\ m[AfterUnit(s)] < m[s]
        BY <3>2, UnitParts
      <4>2. parse[AfterUnit(s)] = f[AfterUnit(s)]
        BY <4>1, <2>1
      <4> QED BY <3>1, <3>2, <4>2, Zenon DEF UnitsBody
    <3>3. CASE CutShort(s)
      BY <3>1, <3>3, Zenon DEF UnitsBody
    <3> QED BY <3>2, <3>3
  <2> HIDE DEF m
  <2>2. 0 \in I
    BY <2>1, <1>4
  <2>3. ASSUME NEW k \in Nat, k \in I PROVE k + 1 \in I
    <3> SUFFICES ASSUME NEW s \in D, m[s] <= k + 1 PROVE parse[s] = f[s]
      OBVIOUS
    <3>1. \A v \in D : m[v] < m[s] => m[v] <= k
      BY <1>4
    <3> QED BY <3>1, <2>1, <2>3
  <2>4. \A k \in Nat : k \in I
    <3> HIDE DEF I
    <3> QED BY <2>2, <2>3, SetInduction
  <2> SUFFICES ASSUME NEW s \in D PROVE parse[s] = f[s]
    OBVIOUS
  <2>5. m[s] \in I /\ m[s] <= m[s]
    BY <2>4, <1>4
  <2> QED BY <2>5
<1> QED BY <1>6, <1>9, <1>11

\* A unit more, or the end.
LEMMA UnitsRound ==
    ASSUME NEW words \in Seq(Words)
    PROVE  /\ Units(words) \in UnitList
           /\ CutShort(words) => Units(words) = <<>>
           /\ ~ CutShort(words) =>
                 Units(words) = WithUnit(FirstUnit(words), Units(AfterUnit(words)))
<1>1. PICK f \in [Seq(Words) -> UnitList] :
       /\ \A w \in Seq(Words) : f[w] = UnitsBody(f, w)
       /\ \A w \in Seq(Words) : Units(w) = f[w]
  BY UnitsSteps
<1>2. Units(words) = f[words] /\ f[words] = UnitsBody(f, words) /\ f[words] \in UnitList
  BY <1>1
<1>3. ~ CutShort(words) => f[AfterUnit(words)] = Units(AfterUnit(words))
  BY <1>1, UnitParts
<1> QED BY <1>2, <1>3, Zenon DEF UnitsBody

\* What the unit of a register is read as.
UnitOf(r, n) == [reg |-> r, value |-> [k \in 1..n |-> Word(r, n, k)]]

\* A unit is read as it was written, whatever follows it.
LEMMA UnitsOfOne ==
    ASSUME NEW r \in Nat, NEW n \in Nat, NEW rest \in Seq(Words)
    PROVE  Units(UnitWords(r, n) \o rest) = WithUnit(UnitOf(r, n), Units(rest))
<1> DEFINE u == UnitWords(r, n)
           w == u \o rest
<1>1. HeaderLen \in Nat \ {0}
  BY TlvReadAssumption
<1>2. /\ u \in Seq(Words) /\ Len(u) = HeaderLen + n
      /\ \A k \in 1..HeaderLen : u[k] = Word(r, n, 0)
      /\ \A k \in 1..n : u[HeaderLen + k] = Word(r, n, k)
      /\ [k \in 1..n |-> Word(r, n, k)] \in Seq(Words)
  BY UnitTypes
<1> HIDE DEF u
<1>3. /\ w \in Seq(Words) /\ Len(w) = HeaderLen + n + Len(rest)
      /\ \A k \in 1..(HeaderLen + n + Len(rest)) :
            w[k] = IF k <= HeaderLen + n THEN u[k] ELSE rest[k - (HeaderLen + n)]
  <2>1. /\ u \o rest \in Seq(Words) /\ Len(u \o rest) = Len(u) + Len(rest)
        /\ \A k \in 1..(Len(u) + Len(rest)) :
              (u \o rest)[k] = IF k <= Len(u) THEN u[k] ELSE rest[k - Len(u)]
    BY <1>2, ConcatProperties
  <2> QED BY <1>2, <2>1
<1>4. Len(rest) \in Nat
  OBVIOUS
<1> HIDE DEF w
<1>5. w[1] = Word(r, n, 0)
  <2>1. 1 \in 1..(HeaderLen + n + Len(rest)) /\ 1 <= HeaderLen + n /\ 1 \in 1..HeaderLen
    BY <1>1, <1>4
  <2> QED BY <1>2, <1>3, <2>1
<1>6. w[1].len = n /\ w[1].reg = r
  BY <1>5 DEF Word
<1>7. ~ CutShort(w)
  BY <1>1, <1>3, <1>4, <1>6 DEF CutShort
<1>8. SubSeq(w, HeaderLen + 1, HeaderLen + n) = [k \in 1..n |-> Word(r, n, k)]
  <2> DEFINE s == SubSeq(w, HeaderLen + 1, HeaderLen + n)
             t == [k \in 1..n |-> Word(r, n, k)]
  <2>1. \A i \in (HeaderLen + 1)..(HeaderLen + n) : w[i] \in Words
    BY <1>1, <1>3, <1>4
  <2>2. HeaderLen + 1 \in Int /\ HeaderLen + n \in Int /\ HeaderLen + 1 <= (HeaderLen + n) + 1
        /\ ((HeaderLen + n) - (HeaderLen + 1)) + 1 = n
    BY <1>1
  <2>3. s \in Seq(Words) /\ Len(s) = n /\ \A k \in 1..n : s[k] = w[(HeaderLen + 1) + k - 1]
    <3>1. s \in Seq(Words) /\ Len(s) = ((HeaderLen + n) - (HeaderLen + 1)) + 1
          /\ \A k \in 1..(((HeaderLen + n) - (HeaderLen + 1)) + 1) : s[k] = w[(HeaderLen + 1) + k - 1]
      BY <2>1, <2>2, SubSeqProperties
    <3> QED BY <2>2, <3>1
  <2>4. \A k \in 1..n : s[k] = t[k]
    <3> SUFFICES ASSUME NEW k \in 1..n PROVE s[k] = Word(r, n, k)
      OBVIOUS
    <3>1. (HeaderLen + 1) + k - 1 = HeaderLen + k /\ HeaderLen + k <= HeaderLen + n
          /\ HeaderLen + k \in 1..(HeaderLen + n + Len(rest))
      BY <1>1, <1>4
    <3> QED BY <1>2, <1>3, <2>3, <3>1
  <2>5. t \in Seq(Words) /\ Len(t) = n
    BY <1>2
  <2> HIDE DEF s, t
  <2>6. s = t
    BY <2>3, <2>4, <2>5, SeqEqual
  <2> QED BY <2>6 DEF s, t
<1>9. SubSeq(w, HeaderLen + n + 1, Len(w)) = rest
  <2> DEFINE s == SubSeq(w, HeaderLen + n + 1, Len(w))
             a == HeaderLen + n + 1
  <2>1. a \in Int /\ Len(w) \in Int /\ a <= Len(w) + 1 /\ (Len(w) - a) + 1 = Len(rest)
        /\ \A i \in a..Len(w) : w[i] \in Words
    BY <1>1, <1>3, <1>4
  <2>2. s \in Seq(Words) /\ Len(s) = Len(rest) /\ \A k \in 1..Len(rest) : s[k] = w[a + k - 1]
    <3>1. s \in Seq(Words) /\ Len(s) = (Len(w) - a) + 1
          /\ \A k \in 1..((Len(w) - a) + 1) : s[k] = w[a + k - 1]
      BY <2>1, SubSeqProperties
    <3> QED BY <2>1, <3>1
  <2>3. \A k \in 1..Len(rest) : s[k] = rest[k]
    <3> SUFFICES ASSUME NEW k \in 1..Len(rest) PROVE s[k] = rest[k]
      OBVIOUS
    <3>1. a + k - 1 = (HeaderLen + n) + k /\ ~ ((HeaderLen + n) + k <= HeaderLen + n)
          /\ (HeaderLen + n) + k \in 1..(HeaderLen + n + Len(rest))
          /\ ((HeaderLen + n) + k) - (HeaderLen + n) = k
      BY <1>1, <1>4
    <3> QED BY <1>3, <2>2, <3>1
  <2> HIDE DEF s
  <2>4. s = rest
    BY <2>2, <2>3, SeqEqual
  <2> QED BY <2>4 DEF s
<1>10. FirstUnit(w) = UnitOf(r, n) /\ AfterUnit(w) = rest
  BY <1>6, <1>8, <1>9, Zenon DEF FirstUnit, AfterUnit, UnitOf
<1>11. Units(w) = WithUnit(FirstUnit(w), Units(AfterUnit(w)))
  BY <1>3, <1>7, UnitsRound
<1>12. w = UnitWords(r, n) \o rest
  BY DEF w, u
<1> QED BY <1>10, <1>11, <1>12

\* parse_tlv_read_units reads a page as framing_and_send wrote it: every
\* register, in the order of the list, with all of its words and no others.
THEOREM RoundTrip ==
    \A lens \in Seq(Nat) :
        Units(Stream(lens)) = [r \in 1..Len(lens) |-> UnitOf(r, lens[r])]
<1> SUFFICES ASSUME NEW lens \in Seq(Nat)
             PROVE  Units(Stream(lens)) = [r \in 1..Len(lens) |-> UnitOf(r, lens[r])]
  OBVIOUS
<1> DEFINE n == Len(lens)
           U == [reg : Nat, value : Seq(Words)]
           yss == [r \in 1..Len(lens) |-> UnitWords(r, lens[r])]
           all == [r \in 1..Len(lens) |-> UnitOf(r, lens[r])]
<1>1. n \in Nat /\ \A r \in 1..n : lens[r] \in Nat /\ r \in Nat
  OBVIOUS
<1>2. yss \in Seq(Seq(Words)) /\ Len(yss) = n /\ \A r \in 1..n : yss[r] = UnitWords(r, lens[r])
  <2>1. \A r \in 1..n : UnitWords(r, lens[r]) \in Seq(Words)
    BY <1>1, UnitTypes, Zenon
  <2> QED BY <1>1, <2>1
<1>3. \A r \in 1..n : UnitOf(r, lens[r]) \in U
  <2>1. ASSUME NEW r \in Nat, NEW l \in Nat PROVE UnitOf(r, l) \in U
    BY UnitTypes DEF UnitOf
  <2> QED BY <1>1, <2>1, Zenon
<1>4. all \in Seq(U) /\ Len(all) = n /\ \A r \in 1..n : all[r] = UnitOf(r, lens[r])
  BY <1>1, <1>3
<1> HIDE DEF yss, all
<1>5. PICK g \in [0..Len(yss) -> Seq(Words)] :
              /\ g[0] = <<>>
              /\ \A i \in 1..Len(yss) : g[i] = g[i - 1] \o yss[i]
              /\ FlattenSeq(yss) = g[Len(yss)]
  BY <1>2, FlattenChain
<1> DEFINE I == {k \in 0..n : \A rest \in Seq(Words) :
                    Units(g[k] \o rest) = SubSeq(all, 1, k) \o Units(rest)}
<1>6. 0 \in I
  <2> SUFFICES ASSUME NEW rest \in Seq(Words)
               PROVE  Units(g[0] \o rest) = SubSeq(all, 1, 0) \o Units(rest)
    BY <1>1
  <2>1. <<>> \o rest = rest
    BY ConcatEmptySeq
  <2>2. Units(rest) \in Seq(U)
    BY UnitsRound DEF UnitList
  <2>3. <<>> \o Units(rest) = Units(rest)
    BY <2>2, ConcatEmptySeq
  <2>4. SubSeq(all, 1, 0) = <<>>
    BY SubSeqEmpty
  <2> QED BY <1>5, <2>1, <2>3, <2>4
<1>7. ASSUME NEW k \in 1..n, k - 1 \in I PROVE k \in I
  <2> SUFFICES ASSUME NEW rest \in Seq(Words)
               PROVE  Units(g[k] \o rest) = SubSeq(all, 1, k) \o Units(rest)
    BY <1>1
  <2> DEFINE y == UnitWords(k, lens[k])
             d == SubSeq(all, 1, k - 1)
             u == UnitOf(k, lens[k])
             more == Units(rest)
  <2>1. k \in 1..Len(yss) /\ k - 1 \in 0..Len(yss) /\ k \in Nat /\ lens[k] \in Nat
    BY <1>1, <1>2
  <2>2. g[k - 1] \in Seq(Words) /\ g[k] = g[k - 1] \o y /\ y \in Seq(Words)
    <3>1. g[k - 1] \in Seq(Words)
      BY <1>5, <2>1
    <3>2. y \in Seq(Words)
      BY <2>1, UnitTypes
    <3>3. yss[k] = y
      BY <1>2
    <3>4. g[k] = g[k - 1] \o yss[k]
      BY <1>5, <2>1
    <3> QED BY <3>1, <3>2, <3>3, <3>4
  <2>3. Units(y \o rest) = WithUnit(u, more)
    BY <2>1, UnitsOfOne
  <2>4. y \o rest \in Seq(Words)
    BY <2>2, ConcatProperties
  <2> HIDE DEF y
  <2>5. (g[k - 1] \o y) \o rest = g[k - 1] \o (y \o rest)
    <3> DEFINE before == g[k - 1]
               S == Words
    <3>1. before \in Seq(S) /\ y \in Seq(S) /\ rest \in Seq(S)
      BY <2>2
    <3> HIDE DEF before, S
    <3>2. (before \o y) \o rest = before \o (y \o rest)
      BY <3>1, ConcatAssociative, SMTT(40)
    <3> QED BY <3>2 DEF before
  <2>6. Units(g[k - 1] \o (y \o rest)) = d \o Units(y \o rest)
    BY <1>7, <2>4
  <2>7. more \in Seq(U) /\ u \in U /\ d \in Seq(U)
    <3>1. more \in Seq(U)
      BY UnitsRound DEF UnitList
    <3>2. u \in U
      BY <1>3
    <3>3. d \in Seq(U)
      <4>1. \A i \in 1..(k - 1) : all[i] \in U
        <5>1. \A i \in 1..(k - 1) : i \in 1..n
          BY <1>1
        <5> QED BY <1>3, <1>4, <5>1
      <4>2. 1 \in Int /\ k - 1 \in Int
        OBVIOUS
      <4> HIDE DEF U
      <4> QED BY <4>1, <4>2, SubSeqProperties
    <3> QED BY <3>1, <3>2, <3>3
  <2>8. SubSeq(all, 1, k) = d \o <<u>>
    <3>1. k \in 1..Len(all) /\ 1 \in 1..Len(all) /\ 1 \in 1..k /\ k \in 1..n
      BY <1>1, <1>4
    <3>2. SubSeq(all, 1, k) = SubSeq(all, 1, k - 1) \o <<all[k]>>
      BY <1>4, <3>1, SubSeqRecursiveSecond
    <3> QED BY <1>4, <3>2
  <2> HIDE DEF d, u, more
  <2>9. d \o (<<u>> \o more) = (d \o <<u>>) \o more
    <3>1. <<u>> \in Seq(U)
      BY <2>7
    <3> HIDE DEF U
    <3> QED BY <2>7, <3>1, ConcatAssociative, SMTT(40)
  <2>10. WithUnit(u, more) = <<u>> \o more
    BY DEF WithUnit
  <2>11. Units(g[k] \o rest) = d \o (<<u>> \o more)
    BY <2>2, <2>3, <2>5, <2>6, <2>10
  <2> QED BY <2>8, <2>9, <2>11 DEF more
<1> HIDE DEF I
<1>8. \A k \in 0..n : k \in I
  BY <1>1, <1>6, <1>7, BoundedInduction
<1>9. \A rest \in Seq(Words) : Units(g[n] \o rest) = SubSeq(all, 1, n) \o Units(rest)
  <2>1. n \in I
    BY <1>1, <1>8
  <2> QED BY <2>1 DEF I
<1>10. Units(<<>>) = <<>>
  <2>1. <<>> \in Seq(Words) /\ CutShort(<<>>)
    <3>1. Len(<<>>) = 0 /\ HeaderLen > 0
      BY TlvReadAssumption
    <3> QED BY <3>1 DEF CutShort
  <2> QED BY <2>1, UnitsRound
<1>11. Units(g[n] \o <<>>) = SubSeq(all, 1, n) \o <<>>
  <2>1. <<>> \in Seq(Words)
    OBVIOUS
  <2>2. Units(g[n] \o <<>>) = SubSeq(all, 1, n) \o Units(<<>>)
    BY <1>9, <2>1
  <2> QED BY <1>10, <2>2
<1>12. g[n] = Stream(lens)
  BY <1>2, <1>5, Zenon DEF Stream, yss
<1>13. g[n] \o <<>> = g[n] /\ SubSeq(all, 1, n) = all /\ all \o <<>> = all
  <2>1. g[n] \in Seq(Words)
    BY <1>12, BlocksFlatten
  <2> QED BY <1>4, <2>1, ConcatEmptySeq, SubSeqFull
<1> QED BY <1>11, <1>12, <1>13 DEF all

-----------------------------------------------------------------------------
(* The pages of a layout.                                                  *)

\* A page is sent in as many packets as are announced, and read from
\* them as it was written.
LEMMA PageFacts ==
    ASSUME layout \in Layouts, NEW p \in Pages
    PROVE  /\ layout[p] \in Seq(Nat) /\ layout[p] # <<>>
           /\ Frames(p) = Cut(layout[p]) /\ Total(p) = Len(Frames(p))
           /\ Frames(p) \in Seq(Seq(Words)) /\ Total(p) \in Nat \ {0}
           /\ DOMAIN Frames(p) = 1..Total(p)
           /\ Units(FlattenSeq(Frames(p))) = Registers(p)
<1> DEFINE lens == layout[p]
<1>1. lens \in Seq(Nat) /\ lens # <<>>
  BY TlvReadAssumption
<1>2. lens \in Shapes
  BY DEF Shapes
<1>3. Frames(p) = Cut(lens)
  BY <1>2 DEF Frames, FramesOf
<1>4. Total(p) = Count(lens)
  BY <1>2 DEF Total, TotalOf
<1> HIDE DEF lens
<1>5. Count(lens) = Len(Cut(lens))
  BY <1>1, CountIsRight
<1>6. Cut(lens) = Packed(Blocks(lens)) /\ Blocks(lens) \in Seq(Seq(Words))
      /\ FlattenSeq(Blocks(lens)) = Stream(lens)
  BY <1>1, CutIsPacked, BlocksFlatten
<1>7. Cut(lens) \in FrameSeqs /\ FlattenSeq(Cut(lens)) = Stream(lens)
  BY <1>6, PackedFacts
<1>8. Cut(lens) \in Seq(Seq(Words)) /\ Len(Cut(lens)) \in Nat \ {0}
      /\ DOMAIN Cut(lens) = 1..Len(Cut(lens))
  <2>1. Cut(lens) \in Seq(Seq(Words)) /\ Cut(lens) # <<>>
    BY <1>7 DEF FrameSeqs
  <2> HIDE DEF Cut
  <2> QED BY <2>1, EmptySeq
<1>9. Units(Stream(lens)) = [r \in 1..Len(lens) |-> UnitOf(r, lens[r])]
  BY <1>1, RoundTrip
<1>10. Registers(p) = [r \in 1..Len(lens) |-> UnitOf(r, lens[r])]
  <2>1. DOMAIN lens = 1..Len(lens)
    BY <1>1
  <2> QED BY <2>1, Zenon DEF Registers, UnitOf, lens
<1> QED BY <1>1, <1>3, <1>4, <1>5, <1>7, <1>8, <1>9, <1>10 DEF lens

\* The notifications that carry a packet.
LEMMA ChunkFacts ==
    ASSUME layout \in Layouts, NEW p \in Pages, NEW i \in 0..Total(p)
    PROVE  /\ Parts(p, i) \in 1..2
           /\ \A k \in 1..2 : Chunk(p, i, k) \in InAir
           /\ Chunks(p, i) \in Seq(InAir)
           /\ Len(Chunks(p, i)) = Parts(p, i)
           /\ \A k \in 1..Len(Chunks(p, i)) : Chunks(p, i)[k].page = p
<1>1. Parts(p, i) \in 1..2
  BY DEF Parts
<1>2. <<p, i>> \in Numbered
  BY DEF Numbered
<1>3. \A k \in 1..2 : Chunk(p, i, k) \in InAir
  <2> DEFINE q == <<p, i>>
  <2>1. q \in Numbered /\ q[1] = p /\ q[2] = i
    BY <1>2
  <2> HIDE DEF q
  <2>2. \A k \in 1..2 : Chunk(q[1], q[2], k) \in InAir
    BY <2>1 DEF InAir
  <2> QED BY <2>1, <2>2
<1> QED BY <1>1, <1>3 DEF Chunks, Chunk

\* A chunk says of which packet it is.
LEMMA InAirFacts ==
    ASSUME NEW c \in InAir
    PROVE  c.page \in Pages /\ c.index \in 0..Total(c.page) /\ c.part \in 1..2
           /\ <<c.page, c.index>> \in Numbered /\ c # Rest
<1>1. PICK q \in Numbered, k \in 1..2 : c = Chunk(q[1], q[2], k)
  BY DEF InAir
<1>2. PICK p \in Pages : q \in {p} \X (0..Total(p))
  BY DEF Numbered
<1>3. c.page = p /\ c.index = q[2] /\ q[2] \in 0..Total(p) /\ c.part = k
  BY <1>1, <1>2 DEF Chunk
<1>4. <<c.page, c.index>> \in Numbered
  BY <1>3 DEF Numbered
<1>5. c.part # 0
  BY <1>3
<1> QED BY <1>3, <1>4, <1>5 DEF Rest

\* The answer to a request is about the page that is asked for.
LEMMA AnswerFacts ==
    ASSUME layout \in Layouts, NEW p \in Pages
    PROVE  /\ Answer(p) \in Seq({c \in InAir : c.page = p})
           /\ Chunks(p, 0) \in Seq({c \in InAir : c.page = p})
<1> DEFINE S == {c \in InAir : c.page = p}
           n == Total(p)
           xs == [i \in 1..n |-> Chunks(p, i)]
<1>1. n \in Nat /\ DOMAIN Frames(p) = 1..n
  BY PageFacts
<1> HIDE DEF n
<1>2. \A i \in 0..n : Chunks(p, i) \in Seq(S)
  <2> SUFFICES ASSUME NEW i \in 0..n PROVE Chunks(p, i) \in Seq(S)
    OBVIOUS
  <2> DEFINE c == Chunks(p, i)
  <2>1. c \in Seq(InAir) /\ \A k \in 1..Len(c) : c[k].page = p
    BY ChunkFacts DEF n
  <2> HIDE DEF c
  <2>2. \A k \in 1..Len(c) : c[k] \in S
    BY <2>1
  <2> HIDE DEF S
  <2>3. c \in Seq(S)
    BY <2>1, <2>2
  <2> QED BY <2>3 DEF c
<1> HIDE DEF S
<1>3. xs \in Seq(Seq(S))
  <2>1. \A i \in 1..n : Chunks(p, i) \in Seq(S)
    BY <1>1, <1>2
  <2> QED BY <1>1, <2>1
<1>4. Answer(p) = FlattenSeq(xs)
  BY <1>1, Zenon DEF Answer
<1> HIDE DEF xs
<1>5. Answer(p) \in Seq(S)
  BY <1>3, <1>4, FlattenType
<1>6. Chunks(p, 0) \in Seq(S)
  <2>1. 0 \in 0..n
    BY <1>1
  <2> QED BY <1>2, <2>1
<1> QED BY <1>5, <1>6 DEF S

-----------------------------------------------------------------------------
(* The invariant.                                                          *)

\* The read is a record, and what it has got a function.
ReadShape ==
    /\ read = [page |-> read.page, quiet |-> read.quiet, total |-> read.total,
               got |-> read.got, result |-> read.result]
    /\ read.got = [i \in DOMAIN read.got |-> read.got[i]]

\* As long as nothing but the read that began quietly has been going on,
\* everything under way is of its page.
OfItsPage ==
    read.quiet =>
        /\ \A i \in 1..Len(up) : up[i] = read.page
        /\ \A i \in 1..Len(air) : air[i].page = read.page
        /\ \A i \in 1..Len(buffer) : buffer[i] # Rest => buffer[i].page = read.page
        /\ \A i \in 1..Len(responses) : responses[i][1] = read.page
        /\ \A i \in DOMAIN read.got : read.got[i] = read.page

\* What has been taken was announced as one of the same number.
OneTotal == \A i \in DOMAIN read.got : Total(read.got[i]) = read.total

OkIsComplete == read.result = "Ok" => Complete

IInv == TypeOK /\ ReadShape /\ OfItsPage /\ OneTotal /\ OkIsComplete

-----------------------------------------------------------------------------

\* The first n of a sequence gone, whatever held of all its members holds.
LEMMA TailOf ==
    ASSUME NEW S, NEW s \in Seq(S), s # <<>>
    PROVE  /\ Head(s) = s[1] /\ Head(s) \in S /\ Tail(s) \in Seq(S) /\ Len(s) \in Nat \ {0}
           /\ 1 \in 1..Len(s) /\ Len(Tail(s)) = Len(s) - 1
           /\ \A i \in 1..Len(Tail(s)) : i + 1 \in 1..Len(s) /\ Tail(s)[i] = s[i + 1]
OBVIOUS

\* What is left behind a packet was in the buffer.
LEMMA Behind ==
    ASSUME NEW S, NEW s \in Seq(S), NEW n \in 1..Len(s)
    PROVE  LET b == SubSeq(s, n + 1, Len(s))
           IN  /\ b \in Seq(S)
               /\ \A i \in 1..Len(b) : \E j \in 1..Len(s) : b[i] = s[j]
<1> DEFINE b == SubSeq(s, n + 1, Len(s))
<1>1. Len(s) \in Nat /\ n \in Nat /\ n + 1 \in Int /\ Len(s) \in Int
  OBVIOUS
<1>2. \A i \in (n + 1)..Len(s) : s[i] \in S
  BY <1>1
<1>3. /\ b \in Seq(S)
      /\ Len(b) = IF n + 1 <= Len(s) THEN Len(s) - (n + 1) + 1 ELSE 0
      /\ \A i \in 1..(Len(s) - (n + 1) + 1) : b[i] = s[(n + 1) + i - 1]
  BY <1>1, <1>2, SubSeqProperties
<1> HIDE DEF b
<1>4. \A i \in 1..Len(b) : (n + 1) + i - 1 \in 1..Len(s) /\ i \in 1..(Len(s) - (n + 1) + 1)
  BY <1>1, <1>3
<1>5. \A i \in 1..Len(b) : \E j \in 1..Len(s) : b[i] = s[j]
  BY <1>3, <1>4
<1> QED BY <1>3, <1>5 DEF b

\* The invariant holds in the beginning.
LEMMA InitInv == Init => IInv
<1> SUFFICES ASSUME Init PROVE IInv
  OBVIOUS
<1>1. PICK p \in Pages : read = [page |-> p, quiet |-> TRUE, total |-> 0,
                                 got |-> <<>>, result |-> "Failed"]
  BY DEF Init
<1>2. DOMAIN read.got = {} /\ read.got = <<>> /\ <<>> = [i \in {} |-> <<>>[i]]
  BY <1>1
<1>3. up = <<>> /\ air = <<>> /\ buffer = <<>> /\ responses = <<>> /\ need = 0
      /\ parsing = FALSE /\ lost = 0 /\ late = 0 /\ layout \in Layouts
  BY DEF Init
<1>4. MaxClaim \in Nat /\ MaxLost \in Nat /\ MaxLate \in Nat
  BY TlvReadAssumption
<1>5. TypeOK
  <2>1. \A S : <<>> \in Seq(S)
    OBVIOUS
  <2>2. up \in Seq(Pages) /\ air \in Seq(InAir) /\ buffer \in Seq(InAir \cup {Rest})
        /\ responses \in Seq(Numbered)
    BY <1>3, <2>1, Zenon
  <2>3. read.page \in Pages /\ read.quiet \in BOOLEAN /\ read.total \in Nat
        /\ read.result \in {"None", "Ok", "Failed"}
    BY <1>1
  <2>4. DOMAIN read.got \subseteq 1..read.total /\ \A i \in DOMAIN read.got : read.got[i] \in Pages
    BY <1>2, Zenon
  <2>5. need \in 0..(MaxClaim + 1) /\ lost \in 0..MaxLost /\ late \in 0..MaxLate
    BY <1>3, <1>4
  <2>6. layout \in Layouts /\ parsing \in BOOLEAN
    BY <1>3, Zenon
  <2> QED BY <2>2, <2>3, <2>4, <2>5, <2>6, Zenon DEF TypeOK
<1>6. ReadShape
  BY <1>1, <1>2 DEF ReadShape
<1>7. OfItsPage
  <2>1. \A i \in 1..Len(<<>>) : FALSE
    OBVIOUS
  <2> QED BY <1>1, <1>2, <1>3, <2>1 DEF OfItsPage
<1>8. OneTotal /\ OkIsComplete
  BY <1>1, <1>2 DEF OneTotal, OkIsComplete
<1> QED BY <1>5, <1>6, <1>7, <1>8 DEF IInv

\* No step changes the layout, and with it what the pages are cut into.
LEMMA SameLayout ==
    ASSUME layout' = layout
    PROVE  /\ (layout \in Layouts)' <=> layout \in Layouts
           /\ Numbered' = Numbered /\ InAir' = InAir
           /\ \A p : Total(p)' = Total(p)
<1>1. \A p : Total(p)' = Total(p)
  BY DEF Total
<1>2. Numbered' = Numbered
  BY <1>1 DEF Numbered
<1>3. InAir' = InAir
  BY <1>2 DEF InAir
<1> QED BY <1>1, <1>2, <1>3

\* What has been got is what the read says it is.
LEMMA SameRead ==
    ASSUME read' = read, layout' = layout, ReadShape, OneTotal, OkIsComplete
    PROVE  ReadShape' /\ OneTotal' /\ OkIsComplete'
<1>1. \A p : Total(p)' = Total(p)
  BY SameLayout
<1> QED BY <1>1 DEF ReadShape, OneTotal, OkIsComplete, Complete

\* The device answers for the page it was asked for, however its two
\* tasks interleave.
LEMMA ServeInv == IInv /\ Serve => IInv'
<1> SUFFICES ASSUME IInv, Serve PROVE IInv'
  OBVIOUS
<1>1. layout' = layout /\ read' = read /\ buffer' = buffer /\ need' = need
      /\ parsing' = parsing /\ responses' = responses /\ lost' = lost /\ late' = late
  BY DEF Serve, client
<1> DEFINE p == Head(up)
<1>2. up \in Seq(Pages) /\ up # <<>> /\ up' = Tail(up) /\ layout \in Layouts /\ air \in Seq(InAir)
  BY DEF IInv, TypeOK, Serve
<1>3. /\ p = up[1] /\ p \in Pages /\ up' \in Seq(Pages) /\ 1 \in 1..Len(up)
      /\ \A i \in 1..Len(up') : i + 1 \in 1..Len(up) /\ up'[i] = up[i + 1]
  BY <1>2, TailOf
<1> DEFINE S == {c \in InAir : c.page = p}
<1>4. Answer(p) \in Seq(S) /\ Chunks(p, 0) \in Seq(S)
  BY <1>2, <1>3, AnswerFacts
<1>5. air' = air \o Chunks(p, 0) \o Answer(p) \/ air' = air \o Answer(p) \o Chunks(p, 0)
  BY Zenon DEF Serve
<1>6. ASSUME NEW T, air \in Seq(T), S \subseteq T PROVE air' \in Seq(T)
  <2> DEFINE a == Answer(p)
             b == Chunks(p, 0)
  <2>1. a \in Seq(T) /\ b \in Seq(T)
    <3> HIDE DEF a, b, S
    <3>1. \A s \in Seq(S) : s \in Seq(T)
      BY <1>6
    <3> QED BY <1>4, <3>1 DEF a, b
  <2>2. \A s, t \in Seq(T) : s \o t \in Seq(T)
    OBVIOUS
  <2>3. air' = (air \o b) \o a \/ air' = (air \o a) \o b
    BY <1>5
  <2> HIDE DEF a, b
  <2>4. air \o b \in Seq(T) /\ air \o a \in Seq(T)
    BY <1>6, <2>1, <2>2
  <2>5. (air \o b) \o a \in Seq(T) /\ (air \o a) \o b \in Seq(T)
    BY <2>1, <2>2, <2>4
  <2> QED BY <2>3, <2>5
<1> HIDE DEF p, S
<1>7. air' \in Seq(InAir)
  BY <1>2, <1>6 DEF S
<1>8. TypeOK'
  BY <1>1, <1>3, <1>7, SameLayout DEF IInv, TypeOK
<1>9. OfItsPage'
  <2> SUFFICES ASSUME read.quiet PROVE OfItsPage'
    BY <1>1 DEF OfItsPage
  <2>1. p = read.page /\ \A i \in 1..Len(up') : up'[i] = read.page
    BY <1>3 DEF IInv, OfItsPage
  <2>2. air \in Seq({c \in InAir : c.page = read.page})
    <3> DEFINE T == {c \in InAir : c.page = read.page}
    <3>1. \A i \in 1..Len(air) : air[i] \in T
      BY <1>2 DEF IInv, OfItsPage
    <3> HIDE DEF T
    <3>2. air \in Seq(T)
      BY <1>2, <3>1
    <3> QED BY <3>2 DEF T
  <2>3. air' \in Seq({c \in InAir : c.page = read.page})
    BY <1>6, <2>1, <2>2 DEF S
  <2>4. \A i \in 1..Len(air') : air'[i].page = read.page
    BY <2>3
  <2> QED BY <1>1, <2>1, <2>4 DEF IInv, OfItsPage
<1> QED BY <1>1, <1>8, <1>9, SameRead DEF IInv

\* A notification is lost.
LEMMA LoseInv == IInv /\ Lose => IInv'
<1> SUFFICES ASSUME IInv, Lose PROVE IInv'
  OBVIOUS
<1>1. layout' = layout /\ up' = up /\ read' = read /\ buffer' = buffer /\ need' = need
      /\ parsing' = parsing /\ responses' = responses /\ late' = late
  BY DEF Lose, client
<1>2. air \in Seq(InAir) /\ air # <<>> /\ air' = Tail(air) /\ lost \in 0..MaxLost
      /\ lost < MaxLost /\ lost' = lost + 1 /\ MaxLost \in Nat
  BY TlvReadAssumption DEF IInv, TypeOK, Lose
<1>3. air' \in Seq(InAir) /\ \A i \in 1..Len(air') : i + 1 \in 1..Len(air) /\ air'[i] = air[i + 1]
  BY <1>2, TailOf
<1>4. lost' \in 0..MaxLost
  BY <1>2
<1>5. TypeOK'
  BY <1>1, <1>3, <1>4, SameLayout DEF IInv, TypeOK
<1>6. OfItsPage'
  BY <1>1, <1>3 DEF IInv, OfItsPage
<1> QED BY <1>1, <1>5, <1>6, SameRead DEF IInv

\* A notification is put into the buffer.
LEMMA NotifyInv == IInv /\ Notify => IInv'
<1> SUFFICES ASSUME IInv, Notify PROVE IInv'
  OBVIOUS
<1>1. layout' = layout /\ up' = up /\ read' = read /\ need' = need
      /\ responses' = responses /\ lost' = lost /\ late' = late
  BY DEF Notify
<1> DEFINE B == InAir \cup {Rest}
           c == Head(air)
<1>2. air \in Seq(InAir) /\ air # <<>> /\ air' = Tail(air) /\ buffer \in Seq(B)
      /\ buffer' = Append(buffer, c)
  BY DEF IInv, TypeOK, Notify
<1>3. parsing' \in BOOLEAN
  BY Zenon DEF Notify
<1>4. /\ air' \in Seq(InAir) /\ \A i \in 1..Len(air') : i + 1 \in 1..Len(air) /\ air'[i] = air[i + 1]
      /\ c = air[1] /\ 1 \in 1..Len(air) /\ c \in B
  BY <1>2, TailOf
<1> HIDE DEF c, B
<1>5. /\ buffer' \in Seq(B) /\ Len(buffer) \in Nat /\ Len(buffer') = Len(buffer) + 1
      /\ buffer'[Len(buffer) + 1] = c
      /\ \A i \in 1..Len(buffer) : buffer'[i] = buffer[i]
  BY <1>2, <1>4
<1>6. TypeOK'
  BY <1>1, <1>3, <1>4, <1>5, SameLayout DEF IInv, TypeOK, B
<1>7. OfItsPage'
  <2> SUFFICES ASSUME read.quiet PROVE OfItsPage'
    BY <1>1 DEF OfItsPage
  <2>1. c.page = read.page
    BY <1>4 DEF IInv, OfItsPage
  <2>2. ASSUME NEW i \in 1..Len(buffer'), buffer'[i] # Rest PROVE buffer'[i].page = read.page
    <3>1. CASE i = Len(buffer) + 1
      BY <1>5, <2>1, <3>1
    <3>2. CASE i # Len(buffer) + 1
      <4>1. i \in 1..Len(buffer)
        BY <1>5, <3>2
      <4> QED BY <1>5, <2>2, <4>1 DEF IInv, OfItsPage
    <3> QED BY <3>1, <3>2
  <2>3. \A i \in 1..Len(air') : air'[i].page = read.page
    BY <1>4 DEF IInv, OfItsPage
  <2> QED BY <1>1, <2>2, <2>3 DEF IInv, OfItsPage
<1> QED BY <1>1, <1>6, <1>7, SameRead DEF IInv

\* What is left of the buffer, and what is decoded, is of the same page.
LEMMA ParseStep ==
    ASSUME IInv, UNCHANGED <<layout, up, air, read, lost, late>>,
           need' \in 0..(MaxClaim + 1), parsing' \in BOOLEAN,
           buffer' \in Seq(InAir \cup {Rest}), responses' \in Seq(Numbered),
           read.quiet => \A i \in 1..Len(buffer') :
                            buffer'[i] # Rest => buffer'[i].page = read.page,
           read.quiet => \A i \in 1..Len(responses') : responses'[i][1] = read.page
    PROVE  IInv'
<1>1. layout' = layout /\ up' = up /\ air' = air /\ read' = read /\ lost' = lost /\ late' = late
  OBVIOUS
<1>2. TypeOK'
  BY <1>1, SameLayout DEF IInv, TypeOK
<1>3. OfItsPage'
  BY <1>1 DEF IInv, OfItsPage
<1> QED BY <1>1, <1>2, <1>3, SameRead DEF IInv

\* Nothing is true of a member of the empty sequence.
LEMMA NoneOf == \A S : <<>> \in Seq(S) /\ \A i \in 1..Len(<<>>) : FALSE
OBVIOUS

\* The chunk a packet begins with.
LEMMA FirstFacts ==
    ASSUME IInv, buffer # <<>>, Aligned
    PROVE  /\ First \in InAir /\ 1 \in 1..Len(buffer) /\ First = buffer[1]
           /\ Parts(First.page, First.index) \in 1..2
           /\ <<First.page, First.index>> \in Numbered
<1>1. layout \in Layouts /\ buffer \in Seq(InAir \cup {Rest})
  BY DEF IInv, TypeOK
<1>2. 1 \in 1..Len(buffer) /\ First \in InAir \cup {Rest}
  BY <1>1 DEF First
<1>3. Rest.part = 0 /\ First.part = 1
  BY DEF Rest, Aligned
<1>4. First \in InAir
  BY <1>2, <1>3
<1>5. First.page \in Pages /\ First.index \in 0..Total(First.page)
      /\ <<First.page, First.index>> \in Numbered
  BY <1>4, InAirFacts
<1>6. Parts(First.page, First.index) \in 1..2
  BY <1>1, <1>5, ChunkFacts
<1> QED BY <1>2, <1>4, <1>5, <1>6 DEF First

\* The steps of push_encrypted.
LEMMA ReadLengthInv == IInv /\ ReadLength => IInv'
<1> SUFFICES ASSUME IInv, ReadLength PROVE IInv'
  OBVIOUS
<1>1. UNCHANGED <<layout, up, air, read, lost, late>> /\ buffer' = buffer
      /\ responses' = responses /\ parsing' = parsing /\ buffer # <<>>
  BY DEF ReadLength, Looking
<1>2. MaxClaim \in Nat \ {0}
  BY TlvReadAssumption
<1>3. need' \in 0..(MaxClaim + 1)
  <2>1. CASE Aligned
    <3>1. need' = Parts(First.page, First.index)
      BY <2>1, Zenon DEF ReadLength
    <3>2. need' \in 1..2
      BY <1>1, <2>1, <3>1, FirstFacts
    <3> QED BY <1>2, <3>2
  <2>2. CASE ~ Aligned
    <3>1. need' \in 1..MaxClaim
      BY <2>2, Zenon DEF ReadLength
    <3> QED BY <1>2, <3>1
  <2> QED BY <2>1, <2>2
<1>4. parsing \in BOOLEAN /\ buffer \in Seq(InAir \cup {Rest}) /\ responses \in Seq(Numbered)
  BY DEF IInv, TypeOK
<1>5. read.quiet => /\ \A i \in 1..Len(buffer) : buffer[i] # Rest => buffer[i].page = read.page
                    /\ \A i \in 1..Len(responses) : responses[i][1] = read.page
  BY DEF IInv, OfItsPage
<1> QED BY <1>1, <1>3, <1>4, <1>5, ParseStep

LEMMA BadLengthInv == IInv /\ BadLength => IInv'
<1> SUFFICES ASSUME IInv, BadLength PROVE IInv'
  OBVIOUS
<1>1. UNCHANGED <<layout, up, air, read, lost, late>> /\ buffer' = <<>>
      /\ responses' = responses /\ need' = need
  BY DEF BadLength
<1>2. parsing' \in BOOLEAN
  BY Zenon DEF BadLength
<1>3. need \in 0..(MaxClaim + 1) /\ responses \in Seq(Numbered)
  BY DEF IInv, TypeOK
<1>4. read.quiet => \A i \in 1..Len(responses) : responses[i][1] = read.page
  BY DEF IInv, OfItsPage
<1>5. buffer' \in Seq(InAir \cup {Rest}) /\ \A i \in 1..Len(buffer') : FALSE
  BY <1>1, NoneOf
<1> QED BY <1>1, <1>2, <1>3, <1>4, <1>5, ParseStep

LEMMA WaitMoreInv == IInv /\ WaitMore => IInv'
<1> SUFFICES ASSUME IInv, WaitMore PROVE IInv'
  OBVIOUS
<1>1. UNCHANGED <<layout, up, air, read, lost, late>> /\ buffer' = buffer
      /\ responses' = responses /\ need' = need
  BY DEF WaitMore
<1>2. parsing' \in BOOLEAN
  BY Zenon DEF WaitMore
<1>3. need \in 0..(MaxClaim + 1) /\ buffer \in Seq(InAir \cup {Rest}) /\ responses \in Seq(Numbered)
  BY DEF IInv, TypeOK
<1>4. read.quiet => /\ \A i \in 1..Len(buffer) : buffer[i] # Rest => buffer[i].page = read.page
                    /\ \A i \in 1..Len(responses) : responses[i][1] = read.page
  BY DEF IInv, OfItsPage
<1> QED BY <1>1, <1>2, <1>3, <1>4, ParseStep

LEMMA AssembleInv == IInv /\ Assemble => IInv'
<1> SUFFICES ASSUME IInv, Assemble PROVE IInv'
  OBVIOUS
<1> DEFINE B == InAir \cup {Rest}
           behind == SubSeq(buffer, need + 1, Len(buffer))
           OfPage(s) == \A i \in 1..Len(s) : s[i] # Rest => s[i].page = read.page
<1>1. UNCHANGED <<layout, up, air, read, lost, late>> /\ parsing' = parsing
      /\ need > 0 /\ need <= Len(buffer)
  BY DEF Assemble
<1>2. parsing \in BOOLEAN /\ buffer \in Seq(B) /\ responses \in Seq(Numbered)
      /\ need \in 0..(MaxClaim + 1) /\ MaxClaim \in Nat
  BY TlvReadAssumption DEF IInv, TypeOK
<1>3. read.quiet => /\ OfPage(buffer) /\ \A i \in 1..Len(responses) : responses[i][1] = read.page
  BY DEF IInv, OfItsPage
<1>4. Len(buffer) \in Nat /\ need \in 1..Len(buffer) /\ buffer # <<>>
  <2>1. Len(buffer) \in Nat
    BY <1>2
  <2>2. Len(buffer) # 0
    BY <1>1, <1>2, <2>1
  <2> QED BY <1>1, <1>2, <2>1, <2>2
<1>5. behind \in Seq(B) /\ \A i \in 1..Len(behind) : \E j \in 1..Len(buffer) : behind[i] = buffer[j]
  BY <1>2, <1>4, Behind
<1>6. read.quiet => OfPage(behind)
  <2> HIDE DEF behind
  <2> QED BY <1>3, <1>5
<1>7. IF Whole
      THEN /\ responses' = Append(responses, <<First.page, First.index>>)
           /\ buffer' = behind /\ need' = 0
      ELSE /\ responses' = responses
           /\ \/ buffer' = behind /\ need' = 0
              \/ buffer' = <<Rest>> \o behind /\ need' = 0
              \/ need <= MaxClaim /\ need' = need + 1 /\ buffer' = buffer
  BY Zenon DEF Assemble
<1> HIDE DEF behind
<1>8. need' \in 0..(MaxClaim + 1)
  BY <1>2, <1>7
<1>9. buffer' \in Seq(B) /\ (read.quiet => OfPage(buffer'))
  <2>1. CASE buffer' = behind
    BY <1>5, <1>6, <2>1
  <2>2. CASE buffer' = buffer
    BY <1>2, <1>3, <2>2
  <2>3. CASE buffer' = <<Rest>> \o behind
    <3> DEFINE r == <<Rest>>
    <3>1. r \in Seq(B) /\ Len(r) = 1 /\ r[1] = Rest
      OBVIOUS
    <3> HIDE DEF r, B
    <3>2. /\ buffer' \in Seq(B) /\ Len(buffer') = 1 + Len(behind) /\ Len(behind) \in Nat
          /\ \A i \in 1..(1 + Len(behind)) : buffer'[i] = IF i <= 1 THEN r[i] ELSE behind[i - 1]
      <4>1. /\ r \o behind \in Seq(B) /\ Len(r \o behind) = Len(r) + Len(behind)
            /\ \A i \in 1..(Len(r) + Len(behind)) :
                  (r \o behind)[i] = IF i <= Len(r) THEN r[i] ELSE behind[i - Len(r)]
        BY <1>5, <3>1, ConcatProperties
      <4>2. buffer' = r \o behind /\ Len(behind) \in Nat
        BY <1>5, <2>3 DEF r
      <4> QED BY <3>1, <4>1, <4>2
    <3>3. ASSUME NEW i \in 1..Len(buffer') PROVE buffer'[i] = Rest \/ \E j \in 1..Len(behind) : buffer'[i] = behind[j]
      <4>1. CASE i = 1
        BY <3>1, <3>2, <4>1
      <4>2. CASE i # 1
        <5>1. i - 1 \in 1..Len(behind) /\ ~ (i <= 1) /\ i \in 1..(1 + Len(behind))
          BY <3>2, <4>2
        <5> QED BY <3>2, <5>1
      <4> QED BY <4>1, <4>2
    <3> QED BY <1>6, <3>2, <3>3
  <2> QED BY <1>7, <2>1, <2>2, <2>3
<1>10. /\ responses' \in Seq(Numbered)
       /\ read.quiet => \A i \in 1..Len(responses') : responses'[i][1] = read.page
  <2>1. CASE Whole
    <3> DEFINE a == <<First.page, First.index>>
               l == Len(responses)
    <3>1. Aligned
      BY <2>1 DEF Whole
    <3>2. First \in InAir /\ 1 \in 1..Len(buffer) /\ First = buffer[1] /\ a \in Numbered
      BY <1>4, <3>1, FirstFacts
    <3>3. read.quiet => a[1] = read.page
      <4>1. First # Rest
        BY <3>2, InAirFacts
      <4>2. read.quiet => First.page = read.page
        BY <1>3, <3>2, <4>1
      <4> QED BY <4>2
    <3>4. responses' = Append(responses, a)
      BY <1>7, <2>1
    <3> HIDE DEF a
    <3>5. /\ responses' \in Seq(Numbered) /\ l \in Nat /\ Len(responses') = l + 1
          /\ responses'[l + 1] = a /\ \A i \in 1..l : responses'[i] = responses[i]
      BY <1>2, <3>2, <3>4
    <3>6. \A i \in 1..Len(responses') : i = l + 1 \/ i \in 1..l
      BY <3>5
    <3> QED BY <1>3, <3>3, <3>5, <3>6
  <2>2. CASE ~ Whole
    BY <1>2, <1>3, <1>7, <2>2
  <2> QED BY <2>1, <2>2
<1> QED BY <1>1, <1>2, <1>8, <1>9, <1>10, ParseStep

\* The steps of the reader.
LEMMA MayBeLateFacts == TypeOK /\ MayBeLate => late' \in 0..MaxLate
<1>1. MaxLate \in Nat
  BY TlvReadAssumption
<1> QED BY <1>1 DEF TypeOK, MayBeLate

\* A read that begins with nothing under way has one request under way.
LEMMA BeginInv == ASSUME NEW page \in Pages PROVE IInv /\ Begin(page) => IInv'
<1> SUFFICES ASSUME IInv, Begin(page) PROVE IInv'
  OBVIOUS
<1>1. layout' = layout /\ air' = air /\ buffer' = buffer /\ need' = need
      /\ parsing' = parsing /\ responses' = <<>>
  BY DEF Begin
<1>2. read' = [page |-> page, quiet |-> Quiet, total |-> 0, got |-> <<>>, result |-> "None"]
  BY Zenon DEF Begin
<1>3. up \in Seq(Pages) /\ lost \in 0..MaxLost /\ MaxLost \in Nat
  BY TlvReadAssumption DEF IInv, TypeOK
<1>4. late' \in 0..MaxLate
  BY MayBeLateFacts DEF IInv, Begin
<1>5. \/ up' = Append(up, page) /\ lost' = lost
      \/ lost < MaxLost /\ lost' = lost + 1 /\ up' = up
  BY DEF Begin
<1>6. lost' \in 0..MaxLost
  BY <1>3, <1>5
<1>7. /\ up' \in Seq(Pages)
      /\ up = <<>> => \A i \in 1..Len(up') : up'[i] = page
  <2>1. Append(up, page) \in Seq(Pages)
        /\ (up = <<>> => \A i \in 1..Len(Append(up, page)) : Append(up, page)[i] = page)
    BY <1>3
  <2>2. up = <<>> => \A i \in 1..Len(up) : up[i] = page
    BY NoneOf
  <2> QED BY <1>3, <1>5, <2>1, <2>2
<1>8. /\ read'.page = page /\ read'.total = 0 /\ read'.result = "None"
      /\ DOMAIN read'.got = {} /\ read'.got = [i \in DOMAIN read'.got |-> read'.got[i]]
      /\ read' = [page |-> read'.page, quiet |-> read'.quiet, total |-> read'.total,
                  got |-> read'.got, result |-> read'.result]
  BY <1>2
<1>9. read'.quiet = Quiet /\ read'.quiet \in BOOLEAN
  <2>1. read'.quiet = Quiet
    BY <1>2, Zenon
  <2>2. Quiet \in BOOLEAN
    BY Zenon DEF Quiet
  <2> QED BY <2>1, <2>2, Zenon
<1>10. responses' \in Seq(Numbered) /\ \A i \in 1..Len(responses') : FALSE
  BY <1>1, NoneOf
<1>11. TypeOK'
  <2>1. DOMAIN read'.got \subseteq 1..read'.total /\ \A i \in DOMAIN read'.got : read'.got[i] \in Pages
    BY <1>8, Zenon
  <2>2. read'.page \in Pages /\ read'.total \in Nat /\ read'.result \in {"None", "Ok", "Failed"}
    BY <1>8
  <2> QED BY <1>1, <1>4, <1>6, <1>7, <1>9, <1>10, <2>1, <2>2, SameLayout, Zenon DEF IInv, TypeOK
<1>12. ReadShape' /\ OneTotal' /\ OkIsComplete'
  <2>1. ReadShape'
    BY <1>8, Zenon DEF ReadShape
  <2>2. OneTotal'
    BY <1>8, Zenon DEF OneTotal
  <2>3. OkIsComplete'
    BY <1>8 DEF OkIsComplete
  <2> QED BY <2>1, <2>2, <2>3
<1>13. OfItsPage'
  <2> SUFFICES ASSUME Quiet PROVE OfItsPage'
    BY <1>9, Zenon DEF OfItsPage
  <2>1. up = <<>> /\ air' = <<>> /\ buffer' = <<>>
    BY <1>1 DEF Quiet
  <2>2. \A i \in 1..Len(up') : up'[i] = read'.page
    BY <1>7, <1>8, <2>1
  <2>3. (\A i \in 1..Len(air') : FALSE) /\ \A i \in 1..Len(buffer') : FALSE
    BY <2>1, NoneOf
  <2>4. \A i \in DOMAIN read'.got : FALSE
    BY <1>8
  <2> QED BY <1>10, <2>2, <2>3, <2>4, Zenon DEF OfItsPage
<1> QED BY <1>11, <1>12, <1>13 DEF IInv

\* What taking a packet does to the read.
LEMMA InsertRead ==
    ASSUME IInv, layout' = layout, NEW p \in Pages, NEW i \in 1..Total(p),
           Insert(p, i), read.result = "None", read.quiet => p = read.page
    PROVE  /\ ReadShape' /\ OneTotal' /\ OkIsComplete'
           /\ read'.page = read.page /\ read'.quiet = read.quiet /\ read'.total \in Nat
           /\ DOMAIN read'.got \subseteq 1..read'.total
           /\ \A k \in DOMAIN read'.got : read'.got[k] \in Pages
           /\ read'.result \in {"None", "Ok", "Failed"}
           /\ read.quiet => \A k \in DOMAIN read'.got : read'.got[k] = read.page
<1>1. \A q : Total(q)' = Total(q)
  BY SameLayout
<1>2. /\ read = [page |-> read.page, quiet |-> read.quiet, total |-> read.total,
                 got |-> read.got, result |-> read.result]
      /\ read.got = [k \in DOMAIN read.got |-> read.got[k]]
  BY DEF IInv, ReadShape
<1>3. /\ read.total \in Nat /\ DOMAIN read.got \subseteq 1..read.total
      /\ \A k \in DOMAIN read.got : read.got[k] \in Pages
  BY DEF IInv, TypeOK
<1>4. \A k \in DOMAIN read.got : Total(read.got[k]) = read.total
  BY DEF IInv, OneTotal
<1>5. read.quiet => \A k \in DOMAIN read.got : read.got[k] = read.page
  BY DEF IInv, OfItsPage
<1>6. Total(p) \in Nat \ {0}
  BY PageFacts DEF IInv, TypeOK
<1>7. CASE read.total \in {0, Total(p)}
  <2> DEFINE g == With(read.got, i, p)
  <2>1. read' = [read EXCEPT !.total = Total(p), !.got = With(@, i, p)]
    BY <1>7, Zenon DEF Insert
  <2>3. read' = [page |-> read.page, quiet |-> read.quiet, total |-> Total(p),
                 got |-> g, result |-> read.result]
    <3>1. read' = [read EXCEPT !.total = Total(p), !.got = g]
      BY <2>1
    <3> HIDE DEF g
    <3> QED BY <1>2, <3>1
  <2>4. /\ DOMAIN g = {i} \cup DOMAIN read.got /\ g = [k \in DOMAIN g |-> g[k]]
        /\ \A k \in DOMAIN g : g[k] = IF k = i THEN p ELSE read.got[k]
    BY DEF With
  <2> HIDE DEF g
  <2>5. read'.page = read.page /\ read'.quiet = read.quiet /\ read'.total = Total(p)
        /\ read'.got = g /\ read'.result = "None"
    BY <2>3
  <2>6. DOMAIN read.got \subseteq 1..Total(p)
    BY <1>3, <1>7
  <2>7. \A k \in DOMAIN g : g[k] \in Pages /\ Total(g[k]) = Total(p) /\ k \in 1..Total(p)
                            /\ (read.quiet => g[k] = read.page)
    <3> SUFFICES ASSUME NEW k \in DOMAIN g
                 PROVE  g[k] \in Pages /\ Total(g[k]) = Total(p) /\ k \in 1..Total(p)
                        /\ (read.quiet => g[k] = read.page)
      OBVIOUS
    <3>1. CASE k = i
      BY <2>4, <3>1
    <3>2. CASE k # i
      <4>1. k \in DOMAIN read.got /\ g[k] = read.got[k]
        BY <2>4, <3>2
      <4>2. read.total = Total(p)
        BY <1>3, <1>7, <4>1
      <4> QED BY <1>3, <1>4, <1>5, <2>6, <4>1, <4>2
    <3> QED BY <3>1, <3>2
  <2>8. ReadShape'
    BY <2>3, <2>4, <2>5 DEF ReadShape
  <2>9. OneTotal'
    BY <1>1, <2>5, <2>7 DEF OneTotal
  <2>10. OkIsComplete'
    BY <2>5 DEF OkIsComplete
  <2> QED BY <1>6, <2>5, <2>7, <2>8, <2>9, <2>10
<1>8. CASE ~ (read.total \in {0, Total(p)})
  <2>1. read' = [read EXCEPT !.result = "Failed"]
    BY <1>8, Zenon DEF Insert
  <2>2. read' = [page |-> read.page, quiet |-> read.quiet, total |-> read.total,
                 got |-> read.got, result |-> "Failed"]
    BY <1>2, <2>1
  <2>3. read'.page = read.page /\ read'.quiet = read.quiet /\ read'.total = read.total
        /\ read'.got = read.got /\ read'.result = "Failed"
    BY <2>2
  <2>4. ReadShape'
    BY <1>2, <2>2, <2>3 DEF ReadShape
  <2>5. OneTotal' /\ OkIsComplete'
    BY <1>1, <1>4, <2>3 DEF OneTotal, OkIsComplete
  <2> QED BY <1>3, <1>5, <2>3, <2>4, <2>5
<1> QED BY <1>7, <1>8

\* The packet that is taken is of the page asked for, if the read is quiet.
LEMMA PopInv == IInv /\ Pop => IInv'
<1> SUFFICES ASSUME IInv, Pop PROVE IInv'
  OBVIOUS
<1>1. layout' = layout /\ up' = up /\ air' = air /\ buffer' = buffer /\ need' = need
      /\ parsing' = parsing /\ lost' = lost /\ late' = late /\ read.result = "None"
  BY DEF Pop, Reading
<1> DEFINE r == Head(responses)
<1>2. responses \in Seq(Numbered) /\ responses # <<>> /\ responses' = Tail(responses)
      /\ layout \in Layouts
  BY DEF IInv, TypeOK, Pop
<1>3. /\ responses' \in Seq(Numbered)
      /\ \A i \in 1..Len(responses') : i + 1 \in 1..Len(responses) /\ responses'[i] = responses[i + 1]
      /\ r = responses[1] /\ 1 \in 1..Len(responses) /\ r \in Numbered
  BY <1>2, TailOf
<1>4. IF r[2] = 0 THEN UNCHANGED read ELSE Insert(r[1], r[2])
  BY Zenon DEF Pop
<1> HIDE DEF r
<1>5. r[1] \in Pages /\ r[2] \in 0..Total(r[1])
  <2>1. PICK p \in Pages : r \in {p} \X (0..Total(p))
    BY <1>3 DEF Numbered
  <2> QED BY <2>1
<1>6. read.quiet => r[1] = read.page /\ \A i \in 1..Len(responses') : responses'[i][1] = read.page
  BY <1>3 DEF IInv, OfItsPage
<1>7. /\ ReadShape' /\ OneTotal' /\ OkIsComplete'
      /\ read'.page = read.page /\ read'.quiet = read.quiet /\ read'.total \in Nat
      /\ DOMAIN read'.got \subseteq 1..read'.total
      /\ \A k \in DOMAIN read'.got : read'.got[k] \in Pages
      /\ read'.result \in {"None", "Ok", "Failed"}
      /\ read.quiet => \A k \in DOMAIN read'.got : read'.got[k] = read.page
  <2>1. CASE r[2] = 0
    <3>1. read' = read
      BY <1>4, <2>1
    <3>2. ReadShape' /\ OneTotal' /\ OkIsComplete'
      BY <1>1, <3>1, SameRead DEF IInv
    <3> QED BY <3>1, <3>2 DEF IInv, TypeOK, OfItsPage
  <2>2. CASE r[2] # 0
    <3>1. Insert(r[1], r[2]) /\ r[2] \in 1..Total(r[1])
      <4>1. Total(r[1]) \in Nat
        BY <1>2, <1>5, PageFacts
      <4>2. Insert(r[1], r[2])
        BY <1>4, <2>2
      <4> QED BY <1>5, <2>2, <4>1, <4>2
    <3> QED BY <1>1, <1>5, <1>6, <3>1, InsertRead
  <2> QED BY <2>1, <2>2
<1>8. TypeOK'
  BY <1>1, <1>3, <1>7, SameLayout DEF IInv, TypeOK
<1>9. OfItsPage'
  BY <1>1, <1>3, <1>6, <1>7 DEF IInv, OfItsPage
<1> QED BY <1>7, <1>8, <1>9 DEF IInv

\* A read that ends is still what it was, but for its result.
LEMMA EndsInv ==
    ASSUME IInv, NEW v \in {"Ok", "Failed"}, read' = [read EXCEPT !.result = v],
           UNCHANGED <<layout, up, air, buffer, need, parsing, responses, lost>>,
           late' \in 0..MaxLate, v = "Ok" => Complete
    PROVE  IInv'
<1>1. layout' = layout /\ up' = up /\ air' = air /\ buffer' = buffer /\ need' = need
      /\ parsing' = parsing /\ lost' = lost /\ responses' = responses
  OBVIOUS
<1>2. /\ read = [page |-> read.page, quiet |-> read.quiet, total |-> read.total,
                 got |-> read.got, result |-> read.result]
      /\ read.got = [k \in DOMAIN read.got |-> read.got[k]]
  BY DEF IInv, ReadShape
<1>3. read' = [page |-> read.page, quiet |-> read.quiet, total |-> read.total,
               got |-> read.got, result |-> v]
  BY <1>2
<1>4. read'.page = read.page /\ read'.quiet = read.quiet /\ read'.total = read.total
      /\ read'.got = read.got /\ read'.result = v
  BY <1>3
<1>5. \A q : Total(q)' = Total(q)
  BY <1>1, SameLayout
<1>6. ReadShape'
  BY <1>2, <1>3, <1>4 DEF ReadShape
<1>7. OneTotal' /\ OkIsComplete'
  BY <1>4, <1>5 DEF IInv, OneTotal, OkIsComplete, Complete
<1>8. TypeOK'
  BY <1>1, <1>4, SameLayout DEF IInv, TypeOK
<1>9. OfItsPage'
  BY <1>1, <1>4 DEF IInv, OfItsPage
<1> QED BY <1>6, <1>7, <1>8, <1>9 DEF IInv

LEMMA ReturnOkInv == IInv /\ ReturnOk => IInv'
BY EndsInv DEF ReturnOk, IInv, TypeOK

LEMMA TimesOutInv == IInv /\ TimesOut => IInv'
BY EndsInv, MayBeLateFacts DEF TimesOut, IInv

\* The invariant is inductive.
LEMMA NextInv == IInv /\ [Next]_vars => IInv'
<1> SUFFICES ASSUME IInv, [Next]_vars PROVE IInv'
  OBVIOUS
<1>1. CASE UNCHANGED vars
  <2>1. layout' = layout /\ up' = up /\ air' = air /\ buffer' = buffer /\ need' = need
        /\ parsing' = parsing /\ responses' = responses /\ read' = read /\ lost' = lost /\ late' = late
    BY <1>1 DEF vars, client
  <2>2. TypeOK'
    BY <2>1, SameLayout DEF IInv, TypeOK
  <2>3. OfItsPage'
    BY <2>1 DEF IInv, OfItsPage
  <2> QED BY <2>1, <2>2, <2>3, SameRead DEF IInv
<1>2. CASE Next
  <2>1. CASE Parse
    BY <2>1, ReadLengthInv, BadLengthInv, WaitMoreInv, AssembleInv, Zenon DEF Parse
  <2>2. CASE Reader
    BY <2>2, BeginInv, PopInv, ReturnOkInv, TimesOutInv, Zenon DEF Reader
  <2> QED BY <1>2, <2>1, <2>2, ServeInv, LoseInv, NotifyInv, Zenon DEF Next
<1> QED BY <1>1, <1>2

\* Every variable keeps its type: in particular no packet is taken whose number
\* is not one of those announced.
THEOREM TypeCorrect == Spec => []TypeOK
<1>1. IInv => TypeOK
  BY DEF IInv
<1> QED BY <1>1, InitInv, NextInv, PTL DEF Spec

\* A complete read, all of one page, has this page.
LEMMA WholePage ==
    ASSUME IInv, Complete, NEW p \in Pages,
           \A i \in DOMAIN read.got : read.got[i] = p
    PROVE  Units(Assembled) = Registers(p)
<1>1. read.total \in Nat /\ DOMAIN read.got \subseteq 1..read.total /\ layout \in Layouts
  BY DEF IInv, TypeOK
<1>2. DOMAIN read.got = 1..read.total /\ read.total > 0
  <2>1. IsFiniteSet(1..read.total) /\ Cardinality(1..read.total) = read.total
    BY <1>1, FS_Interval
  <2>2. Cardinality(DOMAIN read.got) = read.total /\ read.total > 0
    BY DEF Complete
  <2> QED BY <1>1, <2>1, <2>2, FS_Subset
<1>3. read.total = Total(p)
  <2>1. 1 \in DOMAIN read.got
    BY <1>1, <1>2
  <2> QED BY <2>1 DEF IInv, OneTotal
<1> DEFINE f == Frames(p)
<1>4. /\ f \in Seq(Seq(Words)) /\ DOMAIN f = 1..Total(p) /\ Total(p) = Len(f)
      /\ Units(FlattenSeq(f)) = Registers(p)
  BY <1>1, PageFacts
<1> HIDE DEF f
<1>5. f = [i \in 1..read.total |-> f[i]]
  BY <1>3, <1>4
<1>6. [i \in 1..read.total |-> IF i \in DOMAIN read.got
                               THEN Frames(read.got[i])[i] ELSE <<>>] = f
  <2>1. \A i \in 1..read.total : i \in DOMAIN read.got /\ Frames(read.got[i]) = f
    BY <1>2 DEF f
  <2> QED BY <1>5, <2>1
<1>7. Assembled = FlattenSeq(f)
  BY <1>6, Zenon DEF Assembled
<1> QED BY <1>4, <1>7

\* The invariant is strong enough.
LEMMA ReadFollows == IInv => ReadIsOnePage
<1> SUFFICES ASSUME IInv, read.result = "Ok"
             PROVE  /\ read.quiet => Units(Assembled) = Registers(read.page)
                    /\ (\A p, q \in Pages : p # q => Total(p) # Total(q)) =>
                           \E p \in Pages : Units(Assembled) = Registers(p)
  BY DEF ReadIsOnePage, Succeeded
<1>1. Complete
  BY DEF IInv, OkIsComplete
<1>2. ASSUME read.quiet PROVE Units(Assembled) = Registers(read.page)
  <2>1. read.page \in Pages /\ \A i \in DOMAIN read.got : read.got[i] = read.page
    BY <1>2 DEF IInv, TypeOK, OfItsPage
  <2> QED BY <1>1, <2>1, WholePage
<1>3. ASSUME \A p, q \in Pages : p # q => Total(p) # Total(q)
      PROVE  \E p \in Pages : Units(Assembled) = Registers(p)
  <2>1. DOMAIN read.got # {}
    <3>1. Cardinality(DOMAIN read.got) > 0
      BY <1>1 DEF Complete
    <3>2. Cardinality({}) = 0
      BY FS_EmptySet
    <3> QED BY <3>1, <3>2
  <2>2. PICK k : k \in DOMAIN read.got
    BY <2>1
  <2> DEFINE p == read.got[k]
  <2>3. p \in Pages /\ \A i \in DOMAIN read.got : read.got[i] \in Pages /\ Total(read.got[i]) = Total(p)
    BY <2>2 DEF IInv, TypeOK, OneTotal
  <2>4. \A i \in DOMAIN read.got : read.got[i] = p
    BY <1>3, <2>3, Zenon
  <2> HIDE DEF p
  <2>5. Units(Assembled) = Registers(p)
    BY <1>1, <2>3, <2>4, WholePage
  <2> QED BY <2>3, <2>5
<1> QED BY <1>2, <1>3

\* A read that began with nothing under way, and succeeds, has every register
\* of the page asked for with its own words, whatever was lost; and late
\* packets of another page never get between those of this one, if no two
\* pages take the same number of packets (TlvPacketCollector).
THEOREM ReadCorrect == Spec => []ReadIsOnePage
BY InitInv, NextInv, ReadFollows, PTL DEF Spec
=============================================================================
