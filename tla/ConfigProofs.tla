----------------------------- MODULE ConfigProofs -----------------------------
(***************************************************************************)
(* Proofs about the configuration, for any number of files that include    *)
(* each other in any way, any contents and any edits: the startup commands *)
(* are run once, and what is in force is what the files say or what was in *)
(* force before.                                                           *)
(*                                                                         *)
(* Loading, queueing and reading are recursive functions.  Such a function *)
(* can be unfolded once it is shown to exist (StepsExist, LoadingExists);  *)
(* what it computes then follows by looking at the least number of steps,  *)
(* or of files that are still to be loaded, at which the claim would fail. *)
(***************************************************************************)
EXTENDS ConfigProperties, FiniteSetTheorems, SequenceTheorems, WellFoundedInduction, TLAPS

-----------------------------------------------------------------------------
(***************************************************************************)
(* Numbers and steps                                                       *)
(***************************************************************************)
\* A set of numbers that is not empty has a least one.
LEMMA LeastNumber ==
  ASSUME NEW T, T \subseteq Nat, T # {}
  PROVE  \E x \in T : \A y \in T : x <= y
  <1>1. IsWellFoundedOn(OpToRel(<, Nat), Nat)
    BY NatLessThanWellFounded
  <1>2. PICK x \in T : \A y \in T : ~ (<<y, x>> \in OpToRel(<, Nat))
    BY <1>1, WFMin
  <1>3. \A y \in T : ~ (y < x)
    BY <1>2 DEF OpToRel
  <1>4. x \in Nat
    BY <1>2
  <1> QED  BY <1>3, <1>4

\* A value that the first step has and every step keeps, all of them have.
LEMMA StepsStay ==
  ASSUME NEW n \in Nat, NEW f, NEW V, f[0] \in V, \A i \in 1 .. n : f[i - 1] \in V => f[i] \in V
  PROVE  \A i \in 0 .. n : f[i] \in V
  <1> DEFINE bad == {i \in 0 .. n : f[i] \notin V}
  <1>1. SUFFICES ASSUME bad # {} PROVE FALSE
    OBVIOUS
  <1>2. PICK i \in bad : \A j \in bad : i <= j
    <2>1. bad \subseteq Nat
      OBVIOUS
    <2> HIDE DEF bad
    <2> QED  BY <1>1, <2>1, LeastNumber
  <1>3. i \in 1 .. n /\ f[i] \notin V
    BY <1>2
  <1>4. i - 1 \in 0 .. n /\ i - 1 \notin bad
    BY <1>2, <1>3
  <1> QED  BY <1>3, <1>4

\* Steps from value to value can be taken as often as one likes.
Walk(f, n, V, base, step) ==
  f \in [0 .. n -> V] /\ f[0] = base /\ \A i \in 1 .. n : f[i] = step[<<i, f[i - 1]>>]

LEMMA StepsExist ==
  ASSUME NEW n \in Nat, NEW V, NEW base \in V, NEW step \in [(1 .. n) \X V -> V]
  PROVE  \E f : Walk(f, n, V, base, step)
  <1> DEFINE Upto(f, k) == f[0] = base /\ \A i \in 1 .. k : f[i] = step[<<i, f[i - 1]>>]
             bad == {k \in 0 .. n : ~ \E f \in [0 .. n -> V] : Upto(f, k)}
  <1>1. SUFFICES ASSUME bad # {} PROVE FALSE
    <2>1. n \in 0 .. n
      OBVIOUS
    <2> QED  BY <2>1 DEF Walk
  <1>2. PICK k \in bad : \A j \in bad : k <= j
    <2>1. bad \subseteq Nat
      OBVIOUS
    <2> HIDE DEF bad
    <2> QED  BY <1>1, <2>1, LeastNumber
  <1>3. k \in 0 .. n /\ ~ \E f \in [0 .. n -> V] : Upto(f, k)
    BY <1>2
  <1>4. k # 0
    <2>1. [i \in 0 .. n |-> base] \in [0 .. n -> V] /\ Upto([i \in 0 .. n |-> base], 0)
      OBVIOUS
    <2> QED  BY <1>3, <2>1
  <1>5. k - 1 \in 0 .. n /\ k - 1 \notin bad /\ k \in 1 .. n
    <2>1. k - 1 \in 0 .. n /\ k \in 1 .. n /\ ~ (k <= k - 1)
      BY <1>3, <1>4
    <2> HIDE DEF bad
    <2> QED  BY <1>2, <2>1
  <1>6. PICK f \in [0 .. n -> V] : Upto(f, k - 1)
    BY <1>5
  <1> DEFINE g == [i \in 0 .. n |-> IF i = k THEN step[<<k, f[k - 1]>>] ELSE f[i]]
  <1>7. step[<<k, f[k - 1]>>] \in V
    BY <1>5
  <1>8. g \in [0 .. n -> V]
    BY <1>7
  <1>9. Upto(g, k)
    <2>1. g[0] = base
      BY <1>4, <1>6
    <2>2. ASSUME NEW i \in 1 .. k PROVE g[i] = step[<<i, g[i - 1]>>]
      <3>1. CASE i = k
        BY <1>5, <3>1
      <3>2. CASE i # k
        BY <1>5, <1>6, <3>2
      <3> QED  BY <3>1, <3>2
    <2> QED  BY <2>1, <2>2
  <1> HIDE DEF g, Upto
  <1> QED  BY <1>3, <1>8, <1>9

\* Induction up to n.
LEMMA UpTo ==
  ASSUME NEW n \in Nat, NEW T, 0 \in T, \A i \in 1 .. n : i - 1 \in T => i \in T
  PROVE  \A i \in 0 .. n : i \in T
  <1> DEFINE f == [i \in 0 .. n |-> i]
  <1>1. f[0] \in T /\ \A i \in 1 .. n : f[i - 1] \in T => f[i] \in T
    OBVIOUS
  <1>2. \A i \in 0 .. n : f[i] = i
    OBVIOUS
  <1> HIDE DEF f
  <1>3. \A i \in 0 .. n : f[i] \in T
    BY <1>1, StepsStay
  <1> QED  BY <1>2, <1>3

-----------------------------------------------------------------------------
(***************************************************************************)
(* Flattening                                                              *)
(***************************************************************************)
\* FlattenSeq, as the community module computes it and prefix by prefix.
FlattenSteps(f, seqs) ==
  f = [i \in 1 .. Len(seqs) |-> IF i = 1 THEN seqs[i] ELSE f[i - 1] \o seqs[i]]

Flattens(F, seqs) ==
  /\ F[0] = <<>>
  /\ \A i \in 1 .. Len(seqs) : F[i] = F[i - 1] \o seqs[i]

\* The prefixes of a flattened sequence.
\* There is such a function.
LEMMA FlattenStepsExist ==
  ASSUME NEW S, NEW seqs \in Seq(Seq(S)) PROVE \E g : FlattenSteps(g, seqs)
  <1> DEFINE n == Len(seqs)
             V == Seq(S)
             step == [iv \in (1 .. n) \X V |-> iv[2] \o seqs[iv[1]]]
  <1>1. n \in Nat /\ \A i \in 1 .. n : seqs[i] \in V
    OBVIOUS
  <1>2. ASSUME NEW i \in 1 .. n, NEW v \in V
        PROVE  step[<<i, v>>] = v \o seqs[i] /\ step[<<i, v>>] \in V
    <2>1. step[<<i, v>>] = v \o seqs[i]
      OBVIOUS
    <2>2. v \o seqs[i] \in V
      BY <1>1
    <2> HIDE DEF step
    <2> QED  BY <2>1, <2>2
  <1>3. step \in [(1 .. n) \X V -> V]
    <2>1. \A iv \in (1 .. n) \X V : step[iv] \in V
      BY <1>2
    <2>2. step = [iv \in (1 .. n) \X V |-> step[iv]]
      OBVIOUS
    <2> HIDE DEF step, V
    <2> QED  BY <2>1, <2>2
  <1>4. <<>> \in V /\ \A v \in V : <<>> \o v = v
    OBVIOUS
  <1> HIDE DEF step, n, V
  <1>5. PICK g : Walk(g, n, V, <<>>, step)
    BY <1>1, <1>3, <1>4, StepsExist
  <1>6. /\ g \in [0 .. n -> V] /\ g[0] = <<>>
        /\ \A i \in 1 .. n : g[i] = step[<<i, g[i - 1]>>]
    BY <1>5 DEF Walk
  <1> DEFINE h == [i \in 1 .. n |-> g[i]]
  <1>7. ASSUME NEW i \in 1 .. n PROVE h[i] = IF i = 1 THEN seqs[i] ELSE h[i - 1] \o seqs[i]
    <2>1. i - 1 \in 0 .. n /\ i \in 0 .. n /\ (i # 1 => i - 1 \in 1 .. n)
      BY <1>1
    <2>2. h[i] = g[i] /\ (i # 1 => h[i - 1] = g[i - 1]) /\ g[i - 1] \in V
      BY <1>6, <2>1
    <2>3. g[i] = g[i - 1] \o seqs[i]
      BY <1>2, <1>6, <2>2
    <2>4. ASSUME i = 1 PROVE g[i] = seqs[i]
      <3>1. i - 1 = 0 /\ seqs[i] \in V
        BY <1>1, <2>4
      <3>2. g[i] = <<>> \o seqs[i]
        BY <1>6, <2>3, <3>1
      <3> QED  BY <1>4, <3>1, <3>2
    <2> HIDE DEF h
    <2> QED  BY <2>2, <2>3, <2>4
  <1>8. h = [i \in 1 .. n |-> h[i]]
    OBVIOUS
  <1> HIDE DEF h
  <1>9. FlattenSteps(h, seqs)
    BY <1>7, <1>8 DEF FlattenSteps, n
  <1> QED  BY <1>9

LEMMA FlattenPrefixes ==
  ASSUME NEW S, NEW seqs \in Seq(Seq(S))
  PROVE  \E F \in [0 .. Len(seqs) -> Seq(S)] :
           Flattens(F, seqs) /\ FlattenSeq(seqs) = F[Len(seqs)]
  <1> DEFINE n == Len(seqs)
             V == Seq(S)
             f == CHOOSE g : FlattenSteps(g, seqs)
             F == [i \in 0 .. n |-> IF i = 0 THEN <<>> ELSE f[i]]
  <1>1. n \in Nat /\ \A i \in 1 .. n : seqs[i] \in V
    OBVIOUS
  <1>2. FlattenSeq(seqs) = IF n = 0 THEN seqs ELSE f[n]
    BY DEF FlattenSeq, FlattenSteps
  <1>3. FlattenSteps(f, seqs)
    BY FlattenStepsExist
  <1> HIDE DEF f
  <1>4. \A i \in 1 .. n : f[i] = IF i = 1 THEN seqs[i] ELSE f[i - 1] \o seqs[i]
    BY <1>3 DEF FlattenSteps
  <1>5. \A v \in V : <<>> \o v = v
    OBVIOUS
  <1>6. F[0] = <<>>
    <2>1. 0 \in 0 .. n
      BY <1>1
    <2> HIDE DEF n
    <2> QED  BY <2>1
  <1>7. ASSUME NEW i \in 1 .. n PROVE F[i] = F[i - 1] \o seqs[i]
    <2>1. i \in 0 .. n /\ i - 1 \in 0 .. n /\ i # 0 /\ seqs[i] \in V
      BY <1>1
    <2>2. F[i] = f[i]
      <3> HIDE DEF n
      <3> QED  BY <2>1
    <2>3. CASE i = 1
      <3>1. f[i] = seqs[i] /\ i - 1 = 0
        BY <1>4, <2>3
      <3> HIDE DEF n, V, F
      <3> QED  BY <1>5, <1>6, <2>1, <2>2, <3>1
    <2>4. CASE i # 1
      <3>1. f[i] = f[i - 1] \o seqs[i] /\ i - 1 # 0
        <4>1. i - 1 # 0
          BY <2>1, <2>4
        <4> HIDE DEF n, F, V
        <4> QED  BY <1>4, <2>4, <4>1
      <3>2. F[i - 1] = f[i - 1]
        <4> HIDE DEF n
        <4> QED  BY <2>1, <3>1
      <3> HIDE DEF n, V, F
      <3> QED  BY <2>2, <3>1, <3>2
    <2> QED  BY <2>3, <2>4
  <1>8. \A i \in 0 .. n : F[i] \in V
    <2>1. F[0] \in V
      BY <1>6
    <2>2. ASSUME NEW i \in 1 .. n, F[i - 1] \in V PROVE F[i] \in V
      <3>1. \A u, v \in V : u \o v \in V
        OBVIOUS
      <3> HIDE DEF F, V, n
      <3> QED  BY <1>1, <1>7, <2>2, <3>1
    <2> HIDE DEF F, V, n
    <2> QED  BY <1>1, <2>1, <2>2, StepsStay
  <1>9. FlattenSeq(seqs) = F[n]
    <2>1. CASE n = 0
      <3>1. seqs = <<>>
        BY <2>1
      <3> HIDE DEF F
      <3> QED  BY <1>2, <1>6, <2>1, <3>1
    <2>2. CASE n # 0
      <3>1. n \in 0 .. n
        BY <1>1
      <3> HIDE DEF n
      <3> QED  BY <1>2, <2>2, <3>1
    <2> QED  BY <2>1, <2>2
  <1>10. F \in [0 .. n -> V]
    <2>1. F = [i \in 0 .. n |-> F[i]]
      OBVIOUS
    <2> HIDE DEF F, n, V
    <2> QED  BY <1>8, <2>1
  <1>11. Flattens(F, seqs)
    <2> HIDE DEF F
    <2> QED  BY <1>6, <1>7 DEF Flattens
  <1> HIDE DEF F
  <1> QED  BY <1>9, <1>10, <1>11

\* Flattening sequences over S gives one.
LEMMA FlattenType ==
  ASSUME NEW S, NEW seqs \in Seq(Seq(S)) PROVE FlattenSeq(seqs) \in Seq(S)
  <1>1. PICK F \in [0 .. Len(seqs) -> Seq(S)] : FlattenSeq(seqs) = F[Len(seqs)]
    BY FlattenPrefixes
  <1>2. Len(seqs) \in 0 .. Len(seqs)
    OBVIOUS
  <1> QED  BY <1>1, <1>2

\* There is only one way to flatten.
LEMMA FlattenOnce ==
  ASSUME NEW S, NEW seqs \in Seq(Seq(S)), NEW F, Flattens(F, seqs)
  PROVE  FlattenSeq(seqs) = F[Len(seqs)]
  <1> DEFINE n == Len(seqs)
  <1>1. n \in Nat
    OBVIOUS
  <1>2. PICK G \in [0 .. n -> Seq(S)] : Flattens(G, seqs) /\ FlattenSeq(seqs) = G[n]
    BY FlattenPrefixes
  <1> DEFINE same == [i \in 0 .. n |-> F[i] = G[i]]
  <1>3. \A i \in 0 .. n : same[i] \in {TRUE}
    <2>1. same[0] \in {TRUE}
      <3>1. 0 \in 0 .. n
        BY <1>1
      <3>2. F[0] = G[0]
        BY <1>2 DEF Flattens
      <3> HIDE DEF n
      <3> QED  BY <3>1, <3>2
    <2>2. ASSUME NEW i \in 1 .. n, same[i - 1] \in {TRUE} PROVE same[i] \in {TRUE}
      <3>1. i - 1 \in 0 .. n /\ i \in 0 .. n
        BY <1>1
      <3>2. F[i - 1] = G[i - 1]
        BY <2>2, <3>1
      <3>3. F[i] = G[i]
        BY <1>2, <3>2 DEF Flattens
      <3> QED  BY <3>1, <3>3
    <2> HIDE DEF same, n
    <2> QED  BY <1>1, <2>1, <2>2, StepsStay
  <1>4. n \in 0 .. n
    BY <1>1
  <1> QED  BY <1>2, <1>3, <1>4

\* Concatenation is associative.
LEMMA Associative ==
  ASSUME NEW S, NEW a \in Seq(S), NEW b \in Seq(S), NEW c \in Seq(S)
  PROVE  (a \o b) \o c = a \o (b \o c)
  BY ConcatAssociative

\* Flattening distributes over concatenation.
LEMMA FlattenConcat ==
  ASSUME NEW S, NEW s \in Seq(Seq(S)), NEW t \in Seq(Seq(S))
  PROVE  FlattenSeq(s \o t) = FlattenSeq(s) \o FlattenSeq(t)
  <1> DEFINE V == Seq(S)
             m == Len(s)
             n == Len(t)
             st == s \o t
  <1>1. m \in Nat /\ n \in Nat /\ Len(st) = m + n /\ st \in Seq(V)
    OBVIOUS
  <1>2. /\ \A i \in 1 .. m : st[i] = s[i]
        /\ \A i \in m + 1 .. m + n : st[i] = t[i - m]
        /\ \A i \in 1 .. n : t[i] \in V
    OBVIOUS
  <1>3. PICK F \in [0 .. m -> V] : Flattens(F, s) /\ FlattenSeq(s) = F[m]
    BY FlattenPrefixes
  <1>4. PICK G \in [0 .. n -> V] : Flattens(G, t) /\ FlattenSeq(t) = G[n]
    BY FlattenPrefixes
  <1> DEFINE H == [i \in 0 .. m + n |-> IF i <= m THEN F[i] ELSE F[m] \o G[i - m]]
  <1>5. F[m] \in V /\ \A i \in 0 .. n : G[i] \in V
    <2> HIDE DEF V, m, n
    <2> QED  BY <1>1, <1>3, <1>4
  <1>6. H[0] = <<>>
    BY <1>1, <1>3 DEF Flattens
  <1>0. \A a, b, c \in Seq(S) : (a \o b) \o c = a \o (b \o c)
    <2> HIDE DEF H, V, m, n, st
    <2> QED  BY Associative
  <1>7. ASSUME NEW i \in 1 .. m + n PROVE H[i] = H[i - 1] \o st[i]
    <2>0. i \in 0 .. m + n /\ i - 1 \in 0 .. m + n
      BY <1>1
    <2>1. CASE i <= m
      <3>1. i \in 1 .. m /\ i - 1 <= m
        BY <1>1, <2>1
      <3>2. F[i] = F[i - 1] \o s[i]
        BY <1>3, <3>1 DEF Flattens
      <3> HIDE DEF m, n, st
      <3> QED  BY <1>2, <2>0, <2>1, <3>1, <3>2
    <2>2. CASE ~ (i <= m)
      <3>1. /\ i - m \in 1 .. n /\ i \in m + 1 .. m + n
            /\ (i - 1) - m = (i - m) - 1 /\ i - m - 1 \in 0 .. n
        BY <1>1, <2>2
      <3>2. G[i - m] = G[(i - m) - 1] \o t[i - m]
        BY <1>4, <3>1 DEF Flattens
      <3>3. F[m] \o G[i - m] = (F[m] \o G[(i - m) - 1]) \o t[i - m]
        <4>2. G[(i - m) - 1] \in Seq(S) /\ t[i - m] \in Seq(S) /\ F[m] \in Seq(S)
          BY <1>2, <1>5, <3>1
        <4> HIDE DEF H, V, m, n
        <4>3. (F[m] \o G[(i - m) - 1]) \o t[i - m] = F[m] \o (G[(i - m) - 1] \o t[i - m])
          BY <1>0, <4>2
        <4> QED  BY <3>2, <4>3
      <3>4. H[i] = F[m] \o G[i - m]
        BY <2>0, <2>2
      <3>5. H[i - 1] = F[m] \o G[(i - m) - 1]
        <4>1. CASE i - 1 <= m
          <5>1. i - 1 = m /\ (i - m) - 1 = 0
            BY <1>1, <2>2, <4>1
          <5>2. G[0] = <<>> /\ F[m] \o <<>> = F[m]
            BY <1>4, <1>5 DEF Flattens
          <5>3. H[i - 1] = F[i - 1]
            BY <2>0, <4>1
          <5> HIDE DEF H, m
          <5> QED  BY <5>1, <5>2, <5>3
        <4>2. CASE ~ (i - 1 <= m)
          <5>1. H[i - 1] = F[m] \o G[(i - 1) - m]
            BY <2>0, <4>2
          <5> HIDE DEF H, m, n
          <5> QED  BY <3>1, <5>1
        <4> QED  BY <4>1, <4>2
      <3>6. st[i] = t[i - m]
        BY <1>2, <3>1
      <3> HIDE DEF H, st, m, n
      <3> QED  BY <3>3, <3>4, <3>5, <3>6
    <2> QED  BY <2>1, <2>2
  <1>8. Flattens(H, st)
    <2> HIDE DEF H, st, m, n
    <2> QED  BY <1>1, <1>6, <1>7 DEF Flattens
  <1>9. FlattenSeq(st) = H[m + n]
    <2> HIDE DEF H, m, n, st
    <2> QED  BY <1>1, <1>8, FlattenOnce DEF V
  <1>10. H[m + n] = F[m] \o G[n]
    <2>1. m + n \in 0 .. m + n
      BY <1>1
    <2>2. CASE n = 0
      <3>1. G[0] = <<>> /\ F[m] \o <<>> = F[m]
        BY <1>4, <1>5 DEF Flattens
      <3>2. H[m + n] = F[m]
        BY <1>1, <2>1, <2>2
      <3> HIDE DEF H, m, n
      <3> QED  BY <2>2, <3>1, <3>2
    <2>3. CASE n # 0
      <3>1. ~ (m + n <= m) /\ (m + n) - m = n
        BY <1>1, <2>3
      <3> HIDE DEF m, n
      <3> QED  BY <2>1, <3>1
    <2> QED  BY <2>2, <2>3
  <1> HIDE DEF H, m, n
  <1> QED  BY <1>3, <1>4, <1>9, <1>10 DEF st

\* One sequence, and a sequence cut into its elements, are put together again.
LEMMA FlattenOne ==
  ASSUME NEW S, NEW s \in Seq(S) PROVE FlattenSeq(<<s>>) = s
  <1> DEFINE F == [i \in 0 .. 1 |-> IF i = 0 THEN <<>> ELSE s]
  <1>1. Flattens(F, <<s>>) /\ <<s>> \in Seq(Seq(S)) /\ Len(<<s>>) = 1 /\ F[1] = s
    BY DEF Flattens
  <1> HIDE DEF F
  <1> QED  BY <1>1, FlattenOnce

LEMMA FlattenSingles ==
  ASSUME NEW S, NEW s \in Seq(S) PROVE FlattenSeq([i \in DOMAIN s |-> <<s[i]>>]) = s
  <1> DEFINE n == Len(s)
             ss == [i \in DOMAIN s |-> <<s[i]>>]
             F == [i \in 0 .. n |-> SubSeq(s, 1, i)]
  <1>1. n \in Nat /\ ss \in Seq(Seq(S)) /\ Len(ss) = n /\ DOMAIN s = 1 .. n
    <2>1. n \in Nat /\ DOMAIN s = 1 .. n /\ \A i \in 1 .. n : s[i] \in S
      OBVIOUS
    <2>2. ss = [i \in 1 .. n |-> <<s[i]>>]
      BY <2>1
    <2>3. \A i \in 1 .. n : <<s[i]>> \in Seq(S)
      BY <2>1
    <2> HIDE DEF ss, n
    <2> QED  BY <2>1, <2>2, <2>3
  <1>2. F[0] = <<>> /\ F[n] = s
    <2>1. SubSeq(s, 1, 0) = <<>> /\ SubSeq(s, 1, n) = s
      OBVIOUS
    <2> QED  BY <1>1, <2>1
  <1>3. ASSUME NEW i \in 1 .. n PROVE F[i] = F[i - 1] \o ss[i]
    <2>1. SubSeq(s, 1, i) = SubSeq(s, 1, i - 1) \o <<s[i]>>
      BY SubSeqRecursiveSecond
    <2>2. i \in 0 .. n /\ i - 1 \in 0 .. n /\ ss[i] = <<s[i]>>
      BY <1>1
    <2> HIDE DEF ss, n
    <2> QED  BY <2>1, <2>2
  <1> HIDE DEF F, ss, n
  <1>4. Flattens(F, ss)
    BY <1>1, <1>2, <1>3 DEF Flattens
  <1> QED  BY <1>1, <1>2, <1>4, FlattenOnce DEF ss

-----------------------------------------------------------------------------
(***************************************************************************)
(* Loading files                                                           *)
(***************************************************************************)
\* One round of load_config_nodes, with the rounds for the files included from it.
ExpandedWith(f, stack, p, node) ==
  IF node.kind # "include" THEN <<node>>
  ELSE IF ~Included(node.path, stack \cup {p}) THEN Rejected
  ELSE IF disk[node.path] = Missing THEN <<>>
  ELSE f[stack \cup {p}][node.path]

FileWith(f, stack, p) ==
  IF disk[p] = Broken THEN Rejected
  ELSE LET parts == [i \in DOMAIN disk[p] |-> ExpandedWith(f, stack, p, disk[p][i])]
       IN IF \E i \in DOMAIN parts : parts[i] = Rejected THEN Rejected
          ELSE FlattenSeq(parts)

LoadedWith(f, stack) == [p \in Paths \ stack |-> FileWith(f, stack, p)]

Loading(f) == f = [stack \in SUBSET Paths |-> LoadedWith(f, stack)]

\* The recursive function is one that the rounds describe.
LEMMA LoadIsLoading == LoadConfigNodes = CHOOSE f : Loading(f)
  BY DEF LoadConfigNodes, Loading, LoadedWith, FileWith, ExpandedWith

Unloaded(stack) == Cardinality(Paths \ stack)

\* A file that is being loaded is one less to be loaded.
LEMMA UnloadedFalls ==
  ASSUME NEW stack \in SUBSET Paths
  PROVE  /\ Unloaded(stack) \in Nat
         /\ \A p \in Paths \ stack : stack \cup {p} \in SUBSET Paths
                                      /\ Unloaded(stack \cup {p}) = Unloaded(stack) - 1
  <1>1. IsFiniteSet(Paths \ stack)
    BY ConfigAssumption, FS_Subset
  <1>2. ASSUME NEW p \in Paths \ stack PROVE Unloaded(stack \cup {p}) = Unloaded(stack) - 1
    <2>1. Paths \ (stack \cup {p}) = (Paths \ stack) \ {p}
      OBVIOUS
    <2> QED  BY <1>1, <2>1, FS_RemoveElement DEF Unloaded
  <1> QED  BY <1>1, <1>2, FS_CardinalityType DEF Unloaded

\* A round looks at longer stacks only.
LEMMA LoadedAlike ==
  ASSUME NEW f, NEW g, NEW stack, \A p \in Paths \ stack : f[stack \cup {p}] = g[stack \cup {p}]
  PROVE  LoadedWith(f, stack) = LoadedWith(g, stack)
  <1>1. ASSUME NEW p \in Paths \ stack PROVE FileWith(f, stack, p) = FileWith(g, stack, p)
    <2>1. \A node : ExpandedWith(f, stack, p, node) = ExpandedWith(g, stack, p, node)
      BY DEF ExpandedWith
    <2> QED  BY <2>1 DEF FileWith
  <1> QED  BY <1>1 DEF LoadedWith

\* The recursion is well founded: the stack grows.
LEMMA LoadingExists == \E f : Loading(f)
  <1> DEFINE Upto(f, m) ==
               \A stack \in SUBSET Paths : Unloaded(stack) < m => f[stack] = LoadedWith(f, stack)
             bad == {m \in Nat : ~ \E f : Upto(f, m)}
  <1>1. bad = {}
    <2> SUFFICES ASSUME bad # {} PROVE FALSE
      OBVIOUS
    <2>1. PICK m \in bad : \A j \in bad : m <= j
      <3>1. bad \subseteq Nat
        OBVIOUS
      <3> HIDE DEF bad
      <3> QED  BY <3>1, LeastNumber
    <2>2. m \in Nat /\ ~ \E f : Upto(f, m)
      BY <2>1
    <2>3. m # 0
      <3>1. Upto(<<>>, 0)
        BY UnloadedFalls
      <3> QED  BY <2>2, <3>1
    <2>4. \E f : Upto(f, m - 1)
      <3>1. m - 1 \in Nat /\ ~ (m <= m - 1)
        BY <2>2, <2>3
      <3>2. m - 1 \notin bad
        <4> HIDE DEF bad
        <4> QED  BY <2>1, <3>1
      <3> HIDE DEF Upto
      <3> QED  BY <3>1, <3>2
    <2>5. PICK f : Upto(f, m - 1)
      BY <2>4
    <2> DEFINE g == [stack \in SUBSET Paths |->
                       IF Unloaded(stack) < m - 1 THEN f[stack] ELSE LoadedWith(f, stack)]
    <2>6. ASSUME NEW stack \in SUBSET Paths, Unloaded(stack) < m
          PROVE  g[stack] = LoadedWith(g, stack)
      <3>1. \A p \in Paths \ stack : f[stack \cup {p}] = g[stack \cup {p}]
        <4> TAKE p \in Paths \ stack
        <4>1. stack \cup {p} \in SUBSET Paths /\ Unloaded(stack \cup {p}) < m - 1
          BY <2>2, <2>6, UnloadedFalls
        <4> QED  BY <4>1
      <3>2. LoadedWith(f, stack) = LoadedWith(g, stack)
        <4> HIDE DEF g
        <4> QED  BY <3>1, LoadedAlike
      <3>3. g[stack] = LoadedWith(f, stack)
        BY <2>5
      <3> HIDE DEF g
      <3> QED  BY <3>2, <3>3
    <2>7. Upto(g, m)
      <3> HIDE DEF g
      <3> QED  BY <2>6
    <2> HIDE DEF g, Upto
    <2> QED  BY <2>2, <2>7
  <1> DEFINE all == Unloaded({}) + 1
  <1>2. all \in Nat /\ \A stack \in SUBSET Paths : Unloaded(stack) < all
    <2>1. IsFiniteSet(Paths)
      BY ConfigAssumption
    <2>2. ASSUME NEW stack \in SUBSET Paths PROVE Unloaded(stack) <= Unloaded({})
      BY <2>1, FS_Subset, Paths \ stack \in SUBSET (Paths \ {}), Paths \ {} = Paths DEF Unloaded
    <2>3. Unloaded({}) \in Nat /\ \A stack \in SUBSET Paths : Unloaded(stack) \in Nat
      BY UnloadedFalls
    <2> QED  BY <2>2, <2>3
  <1>3. \E f : Upto(f, all)
    <2> HIDE DEF all, Upto
    <2>1. all \notin bad
      BY <1>1
    <2> QED  BY <1>2, <2>1
  <1>4. PICK f : Upto(f, all)
    BY <1>3
  <1> DEFINE g == [stack \in SUBSET Paths |-> f[stack]]
  <1>5. ASSUME NEW stack \in SUBSET Paths PROVE g[stack] = LoadedWith(g, stack)
    <2>1. \A p \in Paths \ stack : f[stack \cup {p}] = g[stack \cup {p}]
      OBVIOUS
    <2>2. f[stack] = LoadedWith(f, stack) /\ g[stack] = f[stack]
      BY <1>2, <1>4
    <2> HIDE DEF g
    <2> QED  BY <2>1, <2>2, LoadedAlike
  <1>6. g = [stack \in SUBSET Paths |-> g[stack]]
    OBVIOUS
  <1> HIDE DEF g
  <1>7. Loading(g)
    BY <1>5, <1>6 DEF Loading
  <1> QED  BY <1>7

\* Each file holds one of the contents.
DiskType == disk \in [Paths -> Contents]

\* The nodes of a file are includes of files or nodes that stay.
LEMMA DiskFile ==
  ASSUME DiskType, NEW p \in Paths, disk[p] # Missing, disk[p] # Broken
  PROVE  /\ disk[p] \in Seq(FileNode)
         /\ \A i \in DOMAIN disk[p] :
              IF disk[p][i].kind = "include" THEN disk[p][i].path \in Paths
              ELSE disk[p][i] \in LoadedNode
  <1>1. disk[p] \in Seq(FileNode)
    BY ConfigAssumption DEF DiskType
  <1>2. \A node \in FileNode :
          IF node.kind = "include" THEN node.path \in Paths ELSE node \in LoadedNode
    BY DEF FileNode, LoadedNode
  <1> QED  BY <1>1, <1>2

\* What holds of a stack as soon as it holds of all longer ones holds of every stack.
LEMMA Descent ==
  ASSUME NEW G, \A s \in SUBSET Paths : (\A p \in Paths \ s : s \cup {p} \in G) => s \in G
  PROVE  \A s \in SUBSET Paths : s \in G
  <1> DEFINE bad == {m \in Nat : \E s \in SUBSET Paths : Unloaded(s) = m /\ s \notin G}
  <1>1. bad = {}
    <2> SUFFICES ASSUME bad # {} PROVE FALSE
      OBVIOUS
    <2>1. PICK m \in bad : \A j \in bad : m <= j
      <3>1. bad \subseteq Nat
        OBVIOUS
      <3> HIDE DEF bad
      <3> QED  BY <3>1, LeastNumber
    <2>2. PICK s \in SUBSET Paths : Unloaded(s) = m /\ s \notin G
      BY <2>1
    <2>3. ASSUME NEW p \in Paths \ s PROVE s \cup {p} \in G
      <3>1. /\ s \cup {p} \in SUBSET Paths /\ Unloaded(s \cup {p}) = m - 1
            /\ Unloaded(s \cup {p}) \in Nat /\ m \in Nat
        BY <2>1, <2>2, UnloadedFalls
      <3>2. m - 1 \notin bad
        <4>1. ~ (m <= m - 1)
          BY <3>1
        <4> HIDE DEF bad
        <4> QED  BY <2>1, <4>1
      <3> QED  BY <3>1, <3>2
    <2> QED  BY <2>2, <2>3
  <1>2. \A s \in SUBSET Paths : Unloaded(s) \in Nat
    BY UnloadedFalls
  <1> QED  BY <1>1, <1>2

\* Loading a file that is there gives a sequence of nodes, none of them an include.
LEMMA LoadType ==
  ASSUME DiskType, NEW f, Loading(f), NEW stack \in SUBSET Paths, NEW p \in Paths \ stack,
         disk[p] # Missing
  PROVE  f[stack][p] \in Seq(LoadedNode) \cup {Rejected}
  <1> DEFINE G == {s \in SUBSET Paths :
                     \A q \in Paths \ s : disk[q] # Missing
                                          => f[s][q] \in Seq(LoadedNode) \cup {Rejected}}
  <1>1. ASSUME NEW s \in SUBSET Paths, \A q \in Paths \ s : s \cup {q} \in G,
               NEW q \in Paths \ s, disk[q] # Missing
        PROVE  f[s][q] \in Seq(LoadedNode) \cup {Rejected}
    <2>1. f[s][q] = FileWith(f, s, q)
      <3>1. f[s] = LoadedWith(f, s)
        BY Zenon DEF Loading
      <3> QED  BY <3>1 DEF LoadedWith
    <2>2. SUFFICES ASSUME disk[q] # Broken PROVE f[s][q] \in Seq(LoadedNode) \cup {Rejected}
      BY <2>1 DEF FileWith
    <2> DEFINE parts == [i \in DOMAIN disk[q] |-> ExpandedWith(f, s, q, disk[q][i])]
    <2>3. \A r \in Paths \ (s \cup {q}) :
            disk[r] # Missing => f[s \cup {q}][r] \in Seq(LoadedNode) \cup {Rejected}
      BY <1>1
    <2> HIDE DEF G
    <2>4. ASSUME NEW i \in DOMAIN disk[q] PROVE parts[i] \in Seq(LoadedNode) \cup {Rejected}
      <3> DEFINE node == disk[q][i]
      <3>1. IF node.kind = "include" THEN node.path \in Paths ELSE node \in LoadedNode
        BY <1>1, <2>2, DiskFile
      <3>2. parts[i] = ExpandedWith(f, s, q, node)
        OBVIOUS
      <3> HIDE DEF parts, node
      <3>3. <<>> \in Seq(LoadedNode) /\ \A leaf \in LoadedNode : <<leaf>> \in Seq(LoadedNode)
        OBVIOUS
      <3> QED  BY <2>3, <3>1, <3>2, <3>3 DEF ExpandedWith, Included
    <2>5. f[s][q] = IF \E i \in DOMAIN parts : parts[i] = Rejected THEN Rejected
                    ELSE FlattenSeq(parts)
      BY <2>1, <2>2 DEF FileWith
    <2> DEFINE n == Len(disk[q])
               V == Seq(LoadedNode)
    <2>6. n \in Nat /\ DOMAIN disk[q] = 1 .. n
      <3>1. disk[q] \in Seq(FileNode)
        BY <1>1, <2>2, DiskFile
      <3> QED  BY <3>1
    <2>7. DOMAIN parts = 1 .. n /\ parts = [i \in 1 .. n |-> parts[i]]
      BY <2>6
    <2>8. ASSUME ~ \E i \in DOMAIN parts : parts[i] = Rejected
          PROVE  FlattenSeq(parts) \in Seq(LoadedNode)
      <3> HIDE DEF parts, n
      <3>1. \A i \in 1 .. n : parts[i] \in V
        BY <2>4, <2>6, <2>7, <2>8
      <3>2. parts \in Seq(V)
        <4> HIDE DEF V
        <4> QED  BY <2>6, <2>7, <3>1
      <3> QED  BY <3>2, FlattenType
    <2> HIDE DEF parts
    <2> QED  BY <2>5, <2>8
  <1>2. \A s \in SUBSET Paths : (\A q \in Paths \ s : s \cup {q} \in G) => s \in G
    BY <1>1
  <1>3. \A s \in SUBSET Paths : s \in G
    <2> HIDE DEF G
    <2> QED  BY <1>2, Descent
  <1> QED  BY <1>3

-----------------------------------------------------------------------------
(***************************************************************************)
(* The startup commands                                                    *)
(***************************************************************************)
ArgSteps(f, nodes, kind) ==
  f = [i \in 0 .. Len(nodes) |->
         IF i = 0 THEN <<>>
         ELSE IF nodes[i].kind = kind THEN Append(f[i - 1], nodes[i].arg) ELSE f[i - 1]]

\* The arguments of the nodes of a kind are numbers.
LEMMA ArgsType ==
  ASSUME NEW nodes \in Seq(LoadedNode), NEW kind PROVE Args(nodes, kind) \in Seq(Nat)
  <1> DEFINE n == Len(nodes)
             V == Seq(Nat)
             f == CHOOSE g : ArgSteps(g, nodes, kind)
  <1>1. n \in Nat /\ \A i \in 1 .. n : nodes[i].arg \in Nat
    <2>1. n \in Nat /\ \A i \in 1 .. n : nodes[i] \in LoadedNode
      OBVIOUS
    <2>2. \A node \in LoadedNode : node.arg \in Nat
      BY DEF LoadedNode
    <2> QED  BY <2>1, <2>2
  <1>2. Args(nodes, kind) = f[n]
    BY DEF Args, ArgSteps
  <1>3. \E g : ArgSteps(g, nodes, kind)
    <2> DEFINE step == [iv \in (1 .. n) \X V |->
                          IF nodes[iv[1]].kind = kind THEN Append(iv[2], nodes[iv[1]].arg) ELSE iv[2]]
    <2>1. ASSUME NEW i \in 1 .. n, NEW v \in V
          PROVE  /\ step[<<i, v>>] = IF nodes[i].kind = kind THEN Append(v, nodes[i].arg) ELSE v
                 /\ step[<<i, v>>] \in V
      <3>1. step[<<i, v>>] = IF nodes[i].kind = kind THEN Append(v, nodes[i].arg) ELSE v
        OBVIOUS
      <3>2. Append(v, nodes[i].arg) \in V
        BY <1>1
      <3> HIDE DEF step
      <3> QED  BY <3>1, <3>2
    <2>2. step \in [(1 .. n) \X V -> V]
      <3>1. \A iv \in (1 .. n) \X V : step[iv] \in V
        BY <2>1
      <3>2. step = [iv \in (1 .. n) \X V |-> step[iv]]
        OBVIOUS
      <3> HIDE DEF step, V
      <3> QED  BY <3>1, <3>2
    <2>3. <<>> \in V
      OBVIOUS
    <2> HIDE DEF step, n, V
    <2>4. PICK g : Walk(g, n, V, <<>>, step)
      BY <1>1, <2>2, <2>3, StepsExist
    <2>5. /\ g \in [0 .. n -> V] /\ g[0] = <<>>
          /\ \A i \in 1 .. n : g[i] = step[<<i, g[i - 1]>>]
      BY <2>4 DEF Walk
    <2>6. ASSUME NEW i \in 0 .. n
          PROVE  g[i] = IF i = 0 THEN <<>>
                        ELSE IF nodes[i].kind = kind THEN Append(g[i - 1], nodes[i].arg) ELSE g[i - 1]
      <3>1. CASE i = 0
        BY <2>5, <3>1
      <3>2. CASE i # 0
        <4>1. i \in 1 .. n /\ i - 1 \in 0 .. n
          BY <1>1, <3>2
        <4>2. g[i - 1] \in V /\ g[i] = step[<<i, g[i - 1]>>]
          BY <2>5, <4>1
        <4> QED  BY <2>1, <3>2, <4>1, <4>2
      <3> QED  BY <3>1, <3>2
    <2>7. g = [i \in 0 .. n |-> g[i]]
      BY <2>5
    <2>8. ArgSteps(g, nodes, kind)
      BY <2>6, <2>7 DEF ArgSteps, n
    <2> QED  BY <2>8
  <1>4. ArgSteps(f, nodes, kind)
    BY <1>3
  <1> HIDE DEF f
  <1>5. \A i \in 0 .. n : f[i] = IF i = 0 THEN <<>>
                                 ELSE IF nodes[i].kind = kind THEN Append(f[i - 1], nodes[i].arg)
                                 ELSE f[i - 1]
    BY <1>4 DEF ArgSteps
  <1>6. \A i \in 0 .. n : f[i] \in V
    <2>1. f[0] \in V
      <3>1. f[0] = <<>>
        BY <1>1, <1>5
      <3> QED  BY <3>1
    <2>2. ASSUME NEW i \in 1 .. n, f[i - 1] \in V PROVE f[i] \in V
      <3>1. f[i] = IF nodes[i].kind = kind THEN Append(f[i - 1], nodes[i].arg) ELSE f[i - 1]
        BY <1>1, <1>5
      <3> QED  BY <1>1, <2>2, <3>1
    <2> HIDE DEF V, n
    <2> QED  BY <1>1, <2>1, <2>2, StepsStay
  <1>7. n \in 0 .. n
    BY <1>1
  <1> HIDE DEF n, V
  <1>8. Args(nodes, kind) \in V
    BY <1>2, <1>6, <1>7
  <1> QED  BY <1>8 DEF V

StartupState == [queued : Seq(Nat), run : Seq(Nat), output : BOOLEAN]

\* Nothing waits while there is an Output.
Prompt(s) == s.output => s.queued = <<>>

\* Launching takes what waits, and loses nothing.
LEMMA LaunchedKeeps ==
  ASSUME NEW s \in StartupState
  PROVE  /\ Launched(s) \in StartupState /\ Prompt(Launched(s))
         /\ Launched(s).output = s.output
         /\ Launched(s).run \o Launched(s).queued = s.run \o s.queued
  <1>1. s.queued \in Seq(Nat) /\ s.run \in Seq(Nat) /\ s.output \in BOOLEAN
    BY DEF StartupState
  <1>2. CASE s.output
    <2>1. Launched(s) = [s EXCEPT !.queued = <<>>, !.run = s.run \o s.queued]
      BY <1>2 DEF Launched
    <2>2. /\ Launched(s).queued = <<>> /\ Launched(s).run = s.run \o s.queued
          /\ Launched(s).output = s.output
      BY <2>1 DEF StartupState
    <2>3. s.run \o s.queued \in Seq(Nat) /\ (s.run \o s.queued) \o <<>> = s.run \o s.queued
      BY <1>1
    <2>4. Launched(s) \in StartupState
      <3>1. Launched(s) = [queued |-> <<>>, run |-> s.run \o s.queued, output |-> s.output]
        BY <2>1 DEF StartupState
      <3>2. <<>> \in Seq(Nat)
        OBVIOUS
      <3> QED  BY <1>1, <2>3, <3>1, <3>2 DEF StartupState
    <2> QED  BY <2>2, <2>3, <2>4 DEF Prompt
  <1>3. CASE ~ s.output
    BY <1>3 DEF Launched, Prompt
  <1> QED  BY <1>2, <1>3

\* One command more: it comes after those before it, run or not.
LEMMA OneQueued ==
  ASSUME NEW s \in StartupState, NEW command \in Nat
  PROVE  LET t == Launched([s EXCEPT !.queued = Append(@, command)])
         IN  /\ t \in StartupState /\ Prompt(t)
             /\ t.run \o t.queued = Append(s.run \o s.queued, command)
  <1> DEFINE b == [s EXCEPT !.queued = Append(@, command)]
  <1>1. s.queued \in Seq(Nat) /\ s.run \in Seq(Nat) /\ s.output \in BOOLEAN
    BY DEF StartupState
  <1>2. Append(s.queued, command) \in Seq(Nat)
    BY <1>1
  <1>3. b = [queued |-> Append(s.queued, command), run |-> s.run, output |-> s.output]
    <2>1. \A q : [s EXCEPT !.queued = q] = [queued |-> q, run |-> s.run, output |-> s.output]
      BY DEF StartupState
    <2> QED  BY <2>1
  <1>4. b \in StartupState
    BY <1>1, <1>2, <1>3 DEF StartupState
  <1>5. b.run \o b.queued = Append(s.run \o s.queued, command)
    <2>1. s.run \o Append(s.queued, command) = Append(s.run \o s.queued, command)
      <3>1. \A t \in Seq(Nat) : Append(t, command) = t \o <<command>>
        OBVIOUS
      <3>2. <<command>> \in Seq(Nat) /\ s.run \o s.queued \in Seq(Nat)
        BY <1>1
      <3>3. (s.run \o s.queued) \o <<command>> = s.run \o (s.queued \o <<command>>)
        <4>1. \A a, t, c \in Seq(Nat) : (a \o t) \o c = a \o (t \o c)
          BY ConcatAssociative
        <4> QED  BY <1>1, <3>2, <4>1
      <3> QED  BY <1>1, <3>1, <3>2, <3>3
    <2>2. b.run = s.run /\ b.queued = Append(s.queued, command)
      BY <1>3
    <2> QED  BY <2>1, <2>2
  <1> HIDE DEF b
  <1>6. Launched(b) \in StartupState /\ Prompt(Launched(b))
        /\ Launched(b).run \o Launched(b).queued = Append(s.run \o s.queued, command)
    BY <1>4, <1>5, LaunchedKeeps
  <1> QED  BY <1>6 DEF b

QueueSteps(f, s, commands) ==
  f = [i \in 0 .. Len(commands) |->
         IF i = 0 THEN s ELSE Launched([f[i - 1] EXCEPT !.queued = Append(@, commands[i])])]

\* The steps of queueing exist.
LEMMA QueueExists ==
  ASSUME NEW commands \in Seq(Nat), NEW s \in StartupState
  PROVE  \E f : QueueSteps(f, s, commands)
  <1> DEFINE n == Len(commands)
             One(i, t) == Launched([t EXCEPT !.queued = Append(@, commands[i])])
             step == [iv \in (1 .. n) \X StartupState |-> One(iv[1], iv[2])]
  <1>1. n \in Nat /\ \A i \in 1 .. n : commands[i] \in Nat
    OBVIOUS
  <1>2. ASSUME NEW i \in 1 .. n, NEW t \in StartupState PROVE One(i, t) \in StartupState
    BY <1>1, OneQueued
  <1> HIDE DEF One, n
  <1>3. \A i \in 1 .. n, t \in StartupState : step[<<i, t>>] = One(i, t)
    OBVIOUS
  <1>4. step \in [(1 .. n) \X StartupState -> StartupState]
    <2>1. \A iv \in (1 .. n) \X StartupState : step[iv] \in StartupState
      BY <1>2
    <2>2. step = [iv \in (1 .. n) \X StartupState |-> step[iv]]
      OBVIOUS
    <2> HIDE DEF step
    <2> QED  BY <2>1, <2>2
  <1> HIDE DEF step
  <1>5. PICK g : Walk(g, n, StartupState, s, step)
    BY <1>1, <1>4, StepsExist
  <1>6. /\ g \in [0 .. n -> StartupState] /\ g[0] = s
        /\ \A i \in 1 .. n : g[i] = step[<<i, g[i - 1]>>]
    BY <1>5 DEF Walk
  <1>7. ASSUME NEW i \in 0 .. n PROVE g[i] = IF i = 0 THEN s ELSE One(i, g[i - 1])
    <2>1. CASE i = 0
      BY <1>6, <2>1
    <2>2. CASE i # 0
      <3>1. i \in 1 .. n /\ i - 1 \in 0 .. n
        BY <1>1, <2>2
      <3>2. g[i - 1] \in StartupState /\ g[i] = step[<<i, g[i - 1]>>]
        BY <1>6, <3>1
      <3> QED  BY <1>3, <2>2, <3>1, <3>2
    <2> QED  BY <2>1, <2>2
  <1>8. g = [i \in 0 .. n |-> g[i]]
    BY <1>6
  <1>9. QueueSteps(g, s, commands)
    BY <1>7, <1>8 DEF QueueSteps, One, n
  <1> QED  BY <1>9

\* The commands that are queued at the start are run or wait, in their order.
LEMMA QueuedInOrder ==
  ASSUME NEW commands \in Seq(Nat), NEW s \in StartupState, Prompt(s), s.run \o s.queued = <<>>
  PROVE  LET t == QueueStartup(s, commands)
         IN  t \in StartupState /\ Prompt(t) /\ t.run \o t.queued = commands
  <1> DEFINE n == Len(commands)
             f == CHOOSE g : QueueSteps(g, s, commands)
             Good(i) == /\ f[i] \in StartupState /\ Prompt(f[i])
                        /\ f[i].run \o f[i].queued = SubSeq(commands, 1, i)
             good == [i \in 0 .. n |-> Good(i)]
  <1>1. n \in Nat /\ \A i \in 1 .. n : commands[i] \in Nat
    OBVIOUS
  <1>2. QueueStartup(s, commands) = f[n]
    BY DEF QueueStartup, QueueSteps
  <1>3. QueueSteps(f, s, commands)
    BY QueueExists
  <1> HIDE DEF f
  <1>4. \A i \in 0 .. n :
          f[i] = IF i = 0 THEN s ELSE Launched([f[i - 1] EXCEPT !.queued = Append(@, commands[i])])
    BY <1>3 DEF QueueSteps
  <1>5. Good(0)
    <2>1. f[0] = s
      <3>1. 0 \in 0 .. n
        BY <1>1
      <3> HIDE DEF n
      <3> QED  BY <1>4, <3>1
    <2>2. SubSeq(commands, 1, 0) = <<>>
      OBVIOUS
    <2> QED  BY <2>1, <2>2
  <1>6. ASSUME NEW i \in 1 .. n, Good(i - 1) PROVE Good(i)
    <2>1. f[i] = Launched([f[i - 1] EXCEPT !.queued = Append(@, commands[i])])
      <3>1. i \in 0 .. n /\ i # 0
        BY <1>1
      <3> HIDE DEF n, Good
      <3> QED  BY <1>4, <3>1
    <2>2. /\ f[i] \in StartupState /\ Prompt(f[i])
          /\ f[i].run \o f[i].queued = Append(f[i - 1].run \o f[i - 1].queued, commands[i])
      BY <1>1, <1>6, <2>1, OneQueued
    <2>3. SubSeq(commands, 1, i) = Append(SubSeq(commands, 1, i - 1), commands[i])
      OBVIOUS
    <2> QED  BY <1>6, <2>2, <2>3
  <1>7. \A i \in 0 .. n : good[i] \in {TRUE}
    <2>1. good[0] \in {TRUE}
      <3>1. 0 \in 0 .. n
        BY <1>1
      <3> HIDE DEF Good
      <3> QED  BY <1>5, <3>1
    <2>2. ASSUME NEW i \in 1 .. n, good[i - 1] \in {TRUE} PROVE good[i] \in {TRUE}
      <3>1. i - 1 \in 0 .. n /\ i \in 0 .. n
        BY <1>1
      <3> HIDE DEF Good
      <3> QED  BY <1>6, <2>2, <3>1
    <2> HIDE DEF good, n
    <2> QED  BY <1>1, <2>1, <2>2, StepsStay
  <1>8. Good(n)
    <2>1. n \in 0 .. n
      BY <1>1
    <2> HIDE DEF Good
    <2> QED  BY <1>7, <2>1
  <1>9. SubSeq(commands, 1, n) = commands
    OBVIOUS
  <1> QED  BY <1>2, <1>8, <1>9

\* The commands of a configuration that is accepted.
LEMMA ParseFileType ==
  ASSUME DiskType, disk[Main] # Missing, ParseFile # Rejected
  PROVE  ParseFile.commands \in Seq(Nat)
  <1> DEFINE f == CHOOSE g : Loading(g)
             nodes == LoadConfigNodes[{}][Main]
  <1>1. Loading(f)
    BY LoadingExists
  <1>2. nodes \in Seq(LoadedNode) \cup {Rejected}
    <2>1. {} \in SUBSET Paths /\ Main \in Paths \ {}
      BY ConfigAssumption
    <2>2. nodes = f[{}][Main]
      BY LoadIsLoading
    <2> HIDE DEF f, nodes
    <2> QED  BY <1>1, <2>1, <2>2, LoadType
  <1>3. ParseFile = IF nodes = Rejected THEN Rejected ELSE ParseNodes(nodes)
    BY DEF ParseFile
  <1> HIDE DEF nodes
  <1>4. ParseNodes(nodes) # Rejected /\ nodes \in Seq(LoadedNode) /\ ParseFile = ParseNodes(nodes)
    BY <1>2, <1>3
  <1>5. ParseFile.commands = Args(nodes, "spawn")
    BY <1>4 DEF ParseNodes
  <1> QED  BY <1>4, <1>5, ArgsType

\* Nothing waits while there is an Output, and nothing has been run or queued
\* before the configuration is read.
ConfigInv ==
  /\ DiskType
  /\ startup \in StartupState /\ Prompt(startup)
  /\ error = "unread" => startup.run \o startup.queued = <<>>

StartupStep ==
  /\ startup.output => startup.queued = <<>>
  /\ error # "unread" => startup'.run \o startup'.queued = startup.run \o startup.queued
  /\ (error = "unread" /\ error' # "unread") =>
       startup'.run \o startup'.queued = config'.commands

\* A step runs what Mio has started with, and nothing else.
LEMMA ConfigKeeps ==
  ASSUME ConfigInv, [ConfigNext]_config_vars PROVE ConfigInv' /\ StartupStep
  <1>1. ASSUME NEW explicit \in BOOLEAN, Load(explicit) PROVE ConfigInv' /\ StartupStep
    <2>1. config'.commands \in Seq(Nat)
      <3>1. Default.commands \in Seq(Nat)
        BY DEF Default
      <3> QED  BY <1>1, <3>1, ParseFileType DEF Load, ConfigInv
    <2>2. /\ startup' = QueueStartup(startup, config'.commands)
          /\ error = "unread" /\ error' # "unread" /\ disk' = disk
      BY <1>1 DEF Load
    <2>3. startup' \in StartupState /\ Prompt(startup')
          /\ startup'.run \o startup'.queued = config'.commands
      BY <2>1, <2>2, QueuedInOrder DEF ConfigInv
    <2> QED  BY <2>2, <2>3 DEF ConfigInv, DiskType, StartupStep, Prompt
  <1>2. CASE Reload
    BY <1>2 DEF Reload, KeptStartup, ConfigInv, DiskType, StartupStep, Prompt
  <1>3. CASE ConnectOutput
    <2> DEFINE b == [startup EXCEPT !.output = TRUE]
    <2>1. startup' = Launched(b) /\ UNCHANGED <<disk, config, error, loads>>
      BY <1>3 DEF ConnectOutput
    <2>2. b \in StartupState /\ b.run = startup.run /\ b.queued = startup.queued
      BY DEF ConfigInv, StartupState
    <2> HIDE DEF b
    <2>3. startup' \in StartupState /\ Prompt(startup')
          /\ startup'.run \o startup'.queued = startup.run \o startup.queued
      BY <2>1, <2>2, LaunchedKeeps
    <2> QED  BY <2>1, <2>3 DEF ConfigInv, DiskType, StartupStep, Prompt
  <1>4. CASE DisconnectOutput
    <2>1. startup' = [startup EXCEPT !.output = FALSE] /\ UNCHANGED <<disk, config, error, loads>>
      BY <1>4 DEF DisconnectOutput
    <2>2. /\ startup' \in StartupState /\ ~ startup'.output
          /\ startup'.run = startup.run /\ startup'.queued = startup.queued
      BY <2>1 DEF ConfigInv, StartupState
    <2> QED  BY <2>1, <2>2 DEF ConfigInv, DiskType, StartupStep, Prompt
  <1>5. ASSUME NEW p \in Paths, Edit(p) PROVE ConfigInv' /\ StartupStep
    BY <1>5 DEF Edit, ConfigInv, DiskType, StartupStep, Prompt
  <1>6. CASE UNCHANGED config_vars
    BY <1>6 DEF config_vars, ConfigInv, DiskType, StartupStep, Prompt
  <1> QED  BY <1>1, <1>2, <1>3, <1>4, <1>5, <1>6 DEF ConfigNext

\* The startup commands of the configuration that Mio has started with are run once,
\* in their order and as soon as there is an Output, whatever is reloaded or unplugged
\* afterwards (queue_startup_command, reload_config).
THEOREM StartupRunsOnce == ConfigSpec => StartupOnce
  <1>1. ConfigInit => ConfigInv
    BY DEF ConfigInit, ConfigInv, DiskType, StartupState, Prompt
  <1>2. ConfigInv /\ [ConfigNext]_config_vars => ConfigInv' /\ [StartupStep]_config_vars
    BY ConfigKeeps
  <1> QED  BY <1>1, <1>2, PTL DEF ConfigSpec, StartupOnce, StartupStep

-----------------------------------------------------------------------------
(***************************************************************************)
(* Unfolding                                                               *)
(*                                                                         *)
(* A text is unfolded in rounds: each replaces the includes that there are *)
(* by the files they name.  Rounds distribute over concatenation, so that  *)
(* those of a file can be followed node by node, as loading does it.       *)
(***************************************************************************)
\* Texts, and what replacing the includes of one does.
Text == Seq(FileNode)

TextOf(p) == IF disk[p] = Missing THEN <<>>
             ELSE IF disk[p] = Broken THEN <<[kind |-> "bad", arg |-> 0]>>
             ELSE disk[p]

Unfolding(node) == IF node.kind = "include" THEN TextOf(node.path) ELSE <<node>>

\* Unfolded, with the operators of these proofs.
LEMMA UnfoldedIs ==
  ASSUME NEW nodes
  PROVE  Unfolded(nodes) = FlattenSeq([i \in DOMAIN nodes |-> Unfolding(nodes[i])])
  BY DEF Unfolded, Unfolding, TextOf

LEMMA UnfoldingType ==
  ASSUME DiskType, NEW node \in FileNode PROVE Unfolding(node) \in Text
  <1>1. \A p \in Paths : disk[p] # Missing /\ disk[p] # Broken => disk[p] \in Text
    BY ConfigAssumption DEF DiskType, Text
  <1>2. [kind |-> "bad", arg |-> 0] \in FileNode
    BY DEF FileNode, LoadedNode
  <1>3. node.kind = "include" => node.path \in Paths
    BY DEF FileNode, LoadedNode
  <1>4. <<>> \in Text /\ \A x \in FileNode : <<x>> \in Text
    BY DEF Text
  <1> QED  BY <1>1, <1>2, <1>3, <1>4 DEF Unfolding, TextOf

\* Unfolding a text gives a text.
LEMMA UnfoldedParts ==
  ASSUME DiskType, NEW s \in Text
  PROVE  [i \in DOMAIN s |-> Unfolding(s[i])] \in Seq(Text)
  <1> DEFINE n == Len(s)
             ss == [i \in DOMAIN s |-> Unfolding(s[i])]
  <1>1. n \in Nat /\ DOMAIN s = 1 .. n /\ \A i \in 1 .. n : s[i] \in FileNode
    BY DEF Text
  <1>2. \A i \in 1 .. n : Unfolding(s[i]) \in Text
    BY <1>1, UnfoldingType
  <1>3. ss = [i \in 1 .. n |-> Unfolding(s[i])]
    BY <1>1
  <1> HIDE DEF ss, n
  <1>4. ss \in Seq(Text)
    BY <1>1, <1>2, <1>3
  <1> QED  BY <1>4 DEF ss

LEMMA UnfoldedType ==
  ASSUME DiskType, NEW s \in Text PROVE Unfolded(s) \in Text
  BY UnfoldedParts, UnfoldedIs, FlattenType DEF Text

\* A sequence is the concatenation of those it begins and ends with.
LEMMA Concatenated ==
  ASSUME NEW S, NEW a \in Seq(S), NEW b \in Seq(S), NEW c \in Seq(S), Len(c) = Len(a) + Len(b),
         \A i \in 1 .. Len(a) : c[i] = a[i], \A i \in 1 .. Len(b) : c[Len(a) + i] = b[i]
  PROVE  c = a \o b
  <1> DEFINE ab == a \o b
  <1>1. ab \in Seq(S) /\ Len(c) = Len(ab)
    OBVIOUS
  <1>2. ASSUME NEW i \in 1 .. Len(c) PROVE c[i] = ab[i]
    <2>1. CASE i <= Len(a)
      BY <2>1
    <2>2. CASE ~ (i <= Len(a))
      <3>1. i - Len(a) \in 1 .. Len(b) /\ i = Len(a) + (i - Len(a))
        BY <2>2
      <3>2. c[i] = b[i - Len(a)]
        BY <3>1
      <3>3. ab[i] = b[i - Len(a)]
        BY <2>2
      <3> QED  BY <3>2, <3>3
    <2> QED  BY <2>1, <2>2
  <1>3. c = ab
    <2> HIDE DEF ab
    <2> QED  BY <1>1, <1>2, SeqEqual
  <1> QED  BY <1>3

\* It goes node by node.
LEMMA UnfoldedConcat ==
  ASSUME DiskType, NEW a \in Text, NEW b \in Text
  PROVE  Unfolded(a \o b) = Unfolded(a) \o Unfolded(b)
  <1> DEFINE P(s) == [i \in DOMAIN s |-> Unfolding(s[i])]
             ab == a \o b
             m == Len(a)
             n == Len(b)
  <1>1. /\ m \in Nat /\ n \in Nat /\ DOMAIN a = 1 .. m /\ DOMAIN b = 1 .. n
        /\ ab \in Text /\ Len(ab) = m + n /\ DOMAIN ab = 1 .. m + n
    BY DEF Text
  <1>2. /\ \A i \in 1 .. m : ab[i] = a[i]
        /\ \A i \in 1 .. n : ab[m + i] = b[i]
    BY DEF Text
  <1> HIDE DEF ab
  <1>3. /\ P(a) \in Seq(Text) /\ P(b) \in Seq(Text) /\ P(ab) \in Seq(Text)
        /\ Len(P(a)) = m /\ Len(P(b)) = n /\ Len(P(ab)) = m + n
    <2>1. P(a) \in Seq(Text) /\ P(b) \in Seq(Text) /\ P(ab) \in Seq(Text)
      BY <1>1, UnfoldedParts
    <2>2. DOMAIN P(a) = 1 .. m /\ DOMAIN P(b) = 1 .. n /\ DOMAIN P(ab) = 1 .. m + n
      BY <1>1
    <2> HIDE DEF P, m, n
    <2> QED  BY <1>1, <2>1, <2>2
  <1>4. ASSUME NEW i \in 1 .. m PROVE P(ab)[i] = P(a)[i]
    <2>1. i \in 1 .. m + n
      BY <1>1
    <2>2. P(ab)[i] = Unfolding(ab[i]) /\ P(a)[i] = Unfolding(a[i])
      BY <1>1, <2>1
    <2> QED  BY <1>2, <2>2
  <1>5. ASSUME NEW i \in 1 .. n PROVE P(ab)[m + i] = P(b)[i]
    <2>1. m + i \in 1 .. m + n
      BY <1>1
    <2>2. P(ab)[m + i] = Unfolding(ab[m + i]) /\ P(b)[i] = Unfolding(b[i])
      BY <1>1, <2>1
    <2> QED  BY <1>2, <2>2
  <1>6. Unfolded(a) = FlattenSeq(P(a)) /\ Unfolded(b) = FlattenSeq(P(b))
        /\ Unfolded(ab) = FlattenSeq(P(ab))
    BY UnfoldedIs
  <1>7. P(a) \in Seq(Seq(FileNode)) /\ P(b) \in Seq(Seq(FileNode))
    BY <1>3 DEF Text
  <1> HIDE DEF P, m, n
  <1>8. P(ab) = P(a) \o P(b)
    BY <1>3, <1>4, <1>5, Concatenated
  <1>9. FlattenSeq(P(a) \o P(b)) = FlattenSeq(P(a)) \o FlattenSeq(P(b))
    BY <1>7, FlattenConcat
  <1> QED  BY <1>6, <1>8, <1>9 DEF ab

LEMMA UnfoldedSmall ==
  ASSUME DiskType
  PROVE  /\ Unfolded(<<>>) = <<>>
         /\ \A node \in FileNode : Unfolded(<<node>>) = Unfolding(node)
  <1>1. Unfolded(<<>>) = <<>>
    <2>1. [i \in DOMAIN <<>> |-> Unfolding(<<>>[i])] = <<>>
      OBVIOUS
    <2>2. FlattenSeq(<<>>) = <<>>
      BY DEF FlattenSeq
    <2> QED  BY <2>1, <2>2, UnfoldedIs
  <1>2. ASSUME NEW node \in FileNode PROVE Unfolded(<<node>>) = Unfolding(node)
    <2>1. [i \in DOMAIN <<node>> |-> Unfolding(<<node>>[i])] = <<Unfolding(node)>>
      OBVIOUS
    <2>2. Unfolding(node) \in Seq(FileNode)
      BY UnfoldingType DEF Text
    <2> QED  BY <2>1, <2>2, UnfoldedIs, FlattenOne
  <1> QED  BY <1>1, <1>2

\* Rounds of unfolding, of every text.
Rounds(R, N) ==
  /\ R \in [0 .. N -> [Text -> Text]]
  /\ \A s \in Text : R[0][s] = s
  /\ \A i \in 1 .. N, s \in Text : R[i][s] = Unfolded(R[i - 1][s])

\* There are as many rounds as one likes.
LEMMA RoundsExist ==
  ASSUME DiskType, NEW N \in Nat PROVE \E R : Rounds(R, N)
  <1> DEFINE V == [Text -> Text]
             base == [s \in Text |-> s]
             step == [iv \in (1 .. N) \X V |-> [s \in Text |-> Unfolded(iv[2][s])]]
  <1>1. ASSUME NEW i \in 1 .. N, NEW v \in V
        PROVE  /\ step[<<i, v>>] \in V
               /\ \A s \in Text : step[<<i, v>>][s] = Unfolded(v[s])
    <2>1. step[<<i, v>>] = [s \in Text |-> Unfolded(v[s])]
      OBVIOUS
    <2>2. \A s \in Text : Unfolded(v[s]) \in Text
      BY UnfoldedType
    <2> HIDE DEF step
    <2> QED  BY <2>1, <2>2
  <1>2. step \in [(1 .. N) \X V -> V]
    <2>1. \A iv \in (1 .. N) \X V : step[iv] \in V
      <3> HIDE DEF step, V
      <3> QED  BY <1>1
    <2>2. step = [iv \in (1 .. N) \X V |-> step[iv]]
      OBVIOUS
    <2> HIDE DEF step, V
    <2> QED  BY <2>1, <2>2
  <1>3. base \in V /\ \A s \in Text : base[s] = s
    OBVIOUS
  <1> HIDE DEF step, V, base
  <1>4. PICK R : Walk(R, N, V, base, step)
    BY <1>2, <1>3, StepsExist
  <1>5. /\ R \in [0 .. N -> V] /\ R[0] = base
        /\ \A i \in 1 .. N : R[i] = step[<<i, R[i - 1]>>]
    BY <1>4 DEF Walk
  <1>6. ASSUME NEW i \in 1 .. N, NEW s \in Text PROVE R[i][s] = Unfolded(R[i - 1][s])
    <2>1. i - 1 \in 0 .. N
      OBVIOUS
    <2>2. R[i - 1] \in V /\ R[i] = step[<<i, R[i - 1]>>]
      BY <1>5, <2>1
    <2> QED  BY <1>1, <2>2
  <1>7. R \in [0 .. N -> [Text -> Text]]
    BY <1>5 DEF V
  <1>8. \A s \in Text : R[0][s] = s
    BY <1>3, <1>5
  <1>9. Rounds(R, N)
    BY <1>6, <1>7, <1>8 DEF Rounds
  <1> QED  BY <1>9

LEMMA RoundsType ==
  ASSUME NEW N \in Nat, NEW R, Rounds(R, N)
  PROVE  \A i \in 0 .. N, s \in Text : R[i][s] \in Text
  BY DEF Rounds

\* The first round may come first or last.
LEMMA RoundsShift ==
  ASSUME DiskType, NEW N \in Nat, NEW R, Rounds(R, N)
  PROVE  \A i \in 1 .. N, s \in Text : R[i][s] = R[i - 1][Unfolded(s)]
  <1> DEFINE T == {i \in 0 .. N : i >= 1 => \A s \in Text : R[i][s] = R[i - 1][Unfolded(s)]}
  <1>1. 0 \in T
    OBVIOUS
  <1>2. ASSUME NEW i \in 1 .. N, i - 1 \in T PROVE i \in T
    <2>1. i \in 0 .. N /\ i - 1 \in 0 .. N
      OBVIOUS
    <2>2. ASSUME NEW s \in Text PROVE R[i][s] = R[i - 1][Unfolded(s)]
      <3>1. R[i][s] = Unfolded(R[i - 1][s])
        BY DEF Rounds
      <3>2. Unfolded(s) \in Text
        BY UnfoldedType
      <3>3. CASE i = 1
        <4>1. R[0][s] = s /\ R[0][Unfolded(s)] = Unfolded(s) /\ i - 1 = 0
          BY <3>2, <3>3 DEF Rounds
        <4> QED  BY <3>1, <4>1
      <3>4. CASE i # 1
        <4>1. i - 1 \in 1 .. N /\ i - 1 >= 1
          BY <3>4
        <4>2. R[i - 1][s] = R[(i - 1) - 1][Unfolded(s)]
          BY <1>2, <4>1
        <4>3. R[i - 1][Unfolded(s)] = Unfolded(R[(i - 1) - 1][Unfolded(s)])
          BY <3>2, <4>1 DEF Rounds
        <4> QED  BY <3>1, <4>2, <4>3
      <3> QED  BY <3>3, <3>4
    <2> QED  BY <2>1, <2>2
  <1>3. \A i \in 0 .. N : i \in T
    <2> HIDE DEF T
    <2> QED  BY <1>1, <1>2, UpTo
  <1>4. \A i \in 1 .. N : i \in 0 .. N /\ i >= 1
    OBVIOUS
  <1> QED  BY <1>3, <1>4

\* u goes node by node.
Additive(u) == u[<<>>] = <<>> /\ \A a, b \in Text : u[a \o b] = u[a] \o u[b]

\* All rounds go node by node.
LEMMA RoundsConcat ==
  ASSUME DiskType, NEW N \in Nat, NEW R, Rounds(R, N)
  PROVE  \A i \in 0 .. N : Additive(R[i])
  <1> DEFINE T == {i \in 0 .. N : /\ R[i][<<>>] = <<>>
                                  /\ \A a, b \in Text : R[i][a \o b] = R[i][a] \o R[i][b]}
  <1>1. <<>> \in Text /\ \A a, b \in Text : a \o b \in Text
    BY DEF Text
  <1>2. 0 \in T
    <2>1. 0 \in 0 .. N
      OBVIOUS
    <2> QED  BY <1>1, <2>1 DEF Rounds
  <1>3. ASSUME NEW i \in 1 .. N, i - 1 \in T PROVE i \in T
    <2>1. i \in 0 .. N /\ i - 1 \in 0 .. N
      OBVIOUS
    <2>2. \A s \in Text : R[i][s] = Unfolded(R[i - 1][s])
      BY DEF Rounds
    <2>3. R[i][<<>>] = <<>>
      BY <1>1, <1>3, <2>2, UnfoldedSmall
    <2>4. ASSUME NEW a \in Text, NEW b \in Text PROVE R[i][a \o b] = R[i][a] \o R[i][b]
      <3>1. R[i - 1][a \o b] = R[i - 1][a] \o R[i - 1][b]
        BY <1>3
      <3>2. R[i - 1][a] \in Text /\ R[i - 1][b] \in Text
        BY <2>1, RoundsType
      <3>3. Unfolded(R[i - 1][a] \o R[i - 1][b]) = Unfolded(R[i - 1][a]) \o Unfolded(R[i - 1][b])
        BY <3>2, UnfoldedConcat
      <3> QED  BY <1>1, <2>2, <3>1, <3>3
    <2> QED  BY <2>1, <2>3, <2>4
  <1>4. \A i \in 0 .. N : i \in T
    <2> HIDE DEF T
    <2> QED  BY <1>2, <1>3, UpTo
  <1> QED  BY <1>4 DEF Additive

\* What is not an include stays as it is.
LEMMA RoundsLeaf ==
  ASSUME DiskType, NEW N \in Nat, NEW R, Rounds(R, N), NEW leaf \in LoadedNode
  PROVE  \A i \in 0 .. N : R[i][<<leaf>>] = <<leaf>>
  <1> DEFINE T == {i \in 0 .. N : R[i][<<leaf>>] = <<leaf>>}
  <1>1. leaf \in FileNode /\ leaf.kind # "include" /\ <<leaf>> \in Text
    BY DEF FileNode, LoadedNode, Text
  <1>2. Unfolded(<<leaf>>) = <<leaf>>
    BY <1>1, UnfoldedSmall DEF Unfolding
  <1>3. 0 \in T
    <2>1. 0 \in 0 .. N
      OBVIOUS
    <2> QED  BY <1>1, <2>1 DEF Rounds
  <1>4. ASSUME NEW i \in 1 .. N, i - 1 \in T PROVE i \in T
    <2>1. i \in 0 .. N
      OBVIOUS
    <2>2. R[i][<<leaf>>] = Unfolded(R[i - 1][<<leaf>>])
      BY <1>1 DEF Rounds
    <2> QED  BY <1>2, <1>4, <2>1, <2>2
  <1>5. \A i \in 0 .. N : i \in T
    <2> HIDE DEF T
    <2> QED  BY <1>3, <1>4, UpTo
  <1> QED  BY <1>5

\* Texts can be unfolded before they are put together.
LEMMA RoundsFlatten ==
  ASSUME DiskType, NEW N \in Nat, NEW R, Rounds(R, N), NEW k \in 0 .. N, NEW ss \in Seq(Text)
  PROVE  R[k][FlattenSeq(ss)] = FlattenSeq([j \in DOMAIN ss |-> R[k][ss[j]]])
  <1> DEFINE n == Len(ss)
             rr == [j \in DOMAIN ss |-> R[k][ss[j]]]
  <1>1. n \in Nat /\ DOMAIN ss = 1 .. n /\ \A j \in 1 .. n : ss[j] \in Text
    OBVIOUS
  <1>2. PICK F \in [0 .. n -> Text] : Flattens(F, ss) /\ FlattenSeq(ss) = F[n]
    <2>1. ss \in Seq(Seq(FileNode))
      BY DEF Text
    <2> QED  BY <2>1, FlattenPrefixes DEF Text
  <1> DEFINE G == [j \in 0 .. n |-> R[k][F[j]]]
  <1>3. rr \in Seq(Text) /\ Len(rr) = n /\ \A j \in 1 .. n : rr[j] = R[k][ss[j]]
    <2>1. \A j \in 1 .. n : R[k][ss[j]] \in Text
      BY <1>1, RoundsType
    <2>2. rr = [j \in 1 .. n |-> R[k][ss[j]]]
      BY <1>1
    <2> HIDE DEF rr, n
    <2> QED  BY <1>1, <2>1, <2>2
  <1>0. R[k][<<>>] = <<>> /\ \A a, b \in Text : R[k][a \o b] = R[k][a] \o R[k][b]
    <2>1. Additive(R[k])
      BY RoundsConcat
    <2> QED  BY <2>1 DEF Additive
  <1>4. G[0] = <<>>
    <2>1. 0 \in 0 .. n
      BY <1>1
    <2>2. F[0] = <<>>
      BY <1>2 DEF Flattens
    <2> HIDE DEF n
    <2> QED  BY <1>0, <2>1, <2>2
  <1>5. ASSUME NEW j \in 1 .. n PROVE G[j] = G[j - 1] \o rr[j]
    <2>1. j \in 0 .. n /\ j - 1 \in 0 .. n
      BY <1>1
    <2>2. F[j] = F[j - 1] \o ss[j]
      BY <1>2 DEF Flattens
    <2> HIDE DEF n, rr
    <2>3. G[j] = R[k][F[j]] /\ G[j - 1] = R[k][F[j - 1]]
      BY <2>1
    <2> HIDE DEF G
    <2>4. F[j - 1] \in Text /\ ss[j] \in Text
      BY <1>1, <1>2, <2>1
    <2>5. R[k][F[j - 1] \o ss[j]] = R[k][F[j - 1]] \o R[k][ss[j]]
      BY <1>0, <2>4
    <2> QED  BY <1>3, <2>2, <2>3, <2>5
  <1>6. G[n] = R[k][F[n]]
    <2>1. n \in 0 .. n
      BY <1>1
    <2> HIDE DEF n
    <2> QED  BY <2>1
  <1> HIDE DEF G, rr, n
  <1>7. Flattens(G, rr)
    BY <1>3, <1>4, <1>5 DEF Flattens
  <1>8. FlattenSeq(rr) = G[n]
    BY <1>3, <1>7, FlattenOnce DEF Text
  <1> QED  BY <1>2, <1>6, <1>8 DEF rr

\* The include of a file.
Naming(p) == [kind |-> "include", path |-> p]

\* The rounds of a file that is there are those of its nodes, one round less.
LEMMA RoundsFile ==
  ASSUME DiskType, NEW N \in Nat, NEW R, Rounds(R, N), NEW k \in 1 .. N, NEW p \in Paths
  PROVE  /\ <<Naming(p)>> \in Text
         /\ R[k][<<Naming(p)>>] = R[k - 1][TextOf(p)]
         /\ disk[p] # Missing /\ disk[p] # Broken =>
              R[k][<<Naming(p)>>] = FlattenSeq([j \in DOMAIN disk[p] |-> R[k - 1][<<disk[p][j]>>]])
  <1>1. Naming(p) \in FileNode /\ Naming(p).kind = "include" /\ Naming(p).path = p
    BY DEF Naming, FileNode
  <1>2. <<Naming(p)>> \in Text
    BY <1>1 DEF Text
  <1>3. Unfolded(<<Naming(p)>>) = TextOf(p)
    BY <1>1, UnfoldedSmall DEF Unfolding
  <1>4. R[k][<<Naming(p)>>] = R[k - 1][TextOf(p)]
    BY <1>2, <1>3, RoundsShift
  <1>5. ASSUME disk[p] # Missing, disk[p] # Broken
        PROVE  R[k - 1][TextOf(p)] = FlattenSeq([j \in DOMAIN disk[p] |-> R[k - 1][<<disk[p][j]>>]])
    <2> DEFINE s == disk[p]
               ss == [j \in DOMAIN s |-> <<s[j]>>]
    <2>1. s \in Seq(FileNode)
      BY <1>5, DiskFile
    <2>2. TextOf(p) = s
      BY <1>5 DEF TextOf
    <2> HIDE DEF s
    <2>3. ss \in Seq(Text) /\ DOMAIN ss = DOMAIN s
      <3>1. Len(s) \in Nat /\ DOMAIN s = 1 .. Len(s) /\ \A j \in DOMAIN s : s[j] \in FileNode
        BY <2>1
      <3>2. \A j \in DOMAIN s : <<s[j]>> \in Text
        BY <3>1 DEF Text
      <3> QED  BY <3>1, <3>2
    <2>4. FlattenSeq(ss) = s
      BY <2>1, FlattenSingles
    <2>5. k - 1 \in 0 .. N
      OBVIOUS
    <2>6. R[k - 1][FlattenSeq(ss)] = FlattenSeq([j \in DOMAIN ss |-> R[k - 1][ss[j]]])
      <3> HIDE DEF ss
      <3> QED  BY <2>3, <2>5, RoundsFlatten
    <2>7. [j \in DOMAIN ss |-> R[k - 1][ss[j]]] = [j \in DOMAIN s |-> R[k - 1][<<s[j]>>]]
      BY <2>3
    <2> HIDE DEF ss
    <2> QED  BY <2>2, <2>4, <2>6, <2>7 DEF s
  <1> QED  BY <1>2, <1>4, <1>5

-----------------------------------------------------------------------------
(***************************************************************************)
(* Loading is unfolding                                                    *)
(***************************************************************************)
\* What the nodes of a file turn into when it is loaded.
Parts(f, stack, p) == [i \in DOMAIN disk[p] |-> ExpandedWith(f, stack, p, disk[p][i])]

\* A file that is there: what its nodes turn into.
LEMMA FileParts ==
  ASSUME DiskType, NEW f, Loading(f), NEW stack \in SUBSET Paths, NEW p \in Paths \ stack,
         disk[p] # Missing, disk[p] # Broken
  PROVE  /\ f[stack][p] = IF \E i \in DOMAIN disk[p] : Parts(f, stack, p)[i] = Rejected
                          THEN Rejected ELSE FlattenSeq(Parts(f, stack, p))
         /\ \A i \in DOMAIN disk[p] :
              /\ Parts(f, stack, p)[i] = ExpandedWith(f, stack, p, disk[p][i])
              /\ Parts(f, stack, p)[i] \in Seq(LoadedNode) \cup {Rejected}
  <1>1. f[stack][p] = FileWith(f, stack, p)
    <2>1. f[stack] = LoadedWith(f, stack)
      BY Zenon DEF Loading
    <2> QED  BY <2>1 DEF LoadedWith
  <1> DEFINE parts == [i \in DOMAIN disk[p] |-> ExpandedWith(f, stack, p, disk[p][i])]
  <1>2. f[stack][p] = IF \E i \in DOMAIN parts : parts[i] = Rejected THEN Rejected
                      ELSE FlattenSeq(parts)
    BY <1>1 DEF FileWith
  <1>3. /\ DOMAIN parts = DOMAIN disk[p]
        /\ \A i \in DOMAIN disk[p] : parts[i] = ExpandedWith(f, stack, p, disk[p][i])
    OBVIOUS
  <1>4. ASSUME NEW i \in DOMAIN disk[p]
        PROVE  ExpandedWith(f, stack, p, disk[p][i]) \in Seq(LoadedNode) \cup {Rejected}
    <2> DEFINE node == disk[p][i]
    <2>1. IF node.kind = "include" THEN node.path \in Paths ELSE node \in LoadedNode
      BY DiskFile
    <2>2. \A q \in Paths \ (stack \cup {p}) : disk[q] # Missing =>
            f[stack \cup {p}][q] \in Seq(LoadedNode) \cup {Rejected}
      <3>1. stack \cup {p} \in SUBSET Paths
        OBVIOUS
      <3> QED  BY <3>1, LoadType
    <2> HIDE DEF node
    <2>3. <<>> \in Seq(LoadedNode) /\ \A leaf \in LoadedNode : <<leaf>> \in Seq(LoadedNode)
      OBVIOUS
    <2>4. ExpandedWith(f, stack, p, node) \in Seq(LoadedNode) \cup {Rejected}
      BY <2>1, <2>2, <2>3 DEF ExpandedWith, Included
    <2> QED  BY <2>4 DEF node
  <1>5. Parts(f, stack, p) = parts
    BY DEF Parts
  <1> HIDE DEF parts
  <1> QED  BY <1>2, <1>3, <1>4, <1>5

\* If none of them is rejected the file is not.
LEMMA PartsLoaded ==
  ASSUME DiskType, NEW f, Loading(f), NEW stack \in SUBSET Paths, NEW p \in Paths \ stack,
         disk[p] # Missing, disk[p] # Broken,
         \A i \in DOMAIN disk[p] : Parts(f, stack, p)[i] # Rejected
  PROVE  f[stack][p] # Rejected
  <1> DEFINE parts == Parts(f, stack, p)
             n == Len(disk[p])
             V == Seq(LoadedNode)
  <1>1. n \in Nat /\ DOMAIN disk[p] = 1 .. n
    <2>1. disk[p] \in Seq(FileNode)
      BY DiskFile
    <2> QED  BY <2>1
  <1>2. f[stack][p] = FlattenSeq(parts) /\ \A i \in 1 .. n : parts[i] \in V
    <2> HIDE DEF n, V
    <2>1. f[stack][p] = FlattenSeq(parts)
      BY FileParts
    <2>2. \A i \in DOMAIN disk[p] : parts[i] \in V
      <3>1. \A i \in DOMAIN disk[p] : Parts(f, stack, p)[i] \in Seq(LoadedNode) \cup {Rejected}
        BY FileParts
      <3> QED  BY <3>1 DEF V
    <2> QED  BY <1>1, <2>1, <2>2
  <1>3. parts = [i \in 1 .. n |-> parts[i]]
    BY <1>1 DEF Parts
  <1> HIDE DEF parts, n
  <1>4. parts \in Seq(V)
    <2> HIDE DEF V
    <2> QED  BY <1>1, <1>2, <1>3
  <1>5. FlattenSeq(parts) \in Seq(LoadedNode)
    BY <1>4, FlattenType
  <1> QED  BY <1>2, <1>5, ConfigAssumption

\* A node is an include of a file, or stays when the file is loaded.
LEMMA Includes ==
  ASSUME DiskType, NEW p \in Paths, disk[p] # Missing, disk[p] # Broken, NEW i \in DOMAIN disk[p]
  PROVE  \/ disk[p][i] \in LoadedNode /\ disk[p][i].kind # "include"
         \/ \E q \in Paths : disk[p][i] = Naming(q)
  <1>1. disk[p] \in Seq(FileNode)
    BY DiskFile
  <1>2. disk[p][i] \in FileNode
    BY <1>1
  <1> QED  BY <1>2 DEF FileNode, LoadedNode, Naming

\* Loading a file, when it succeeds, is unfolding it as often as there are files.
LEMMA LoadedIsUnfolded ==
  ASSUME DiskType, NEW N \in Nat, NEW R, Rounds(R, N), NEW f, Loading(f)
  PROVE  \A stack \in SUBSET Paths, p \in Paths, n \in 0 .. N :
           (/\ p \notin stack /\ Unloaded(stack) <= n
            /\ disk[p] # Missing /\ f[stack][p] # Rejected)
           => R[n][<<Naming(p)>>] = f[stack][p]
  <1> DEFINE Claim(s, p, n) == (/\ p \notin s /\ Unloaded(s) <= n
                                /\ disk[p] # Missing /\ f[s][p] # Rejected)
                               => R[n][<<Naming(p)>>] = f[s][p]
             G == {s \in SUBSET Paths : \A p \in Paths, n \in 0 .. N : Claim(s, p, n)}
  <1>1. ASSUME NEW s \in SUBSET Paths, \A p \in Paths \ s : s \cup {p} \in G,
               NEW p \in Paths, NEW n \in 0 .. N,
               p \notin s, Unloaded(s) <= n, disk[p] # Missing, f[s][p] # Rejected
        PROVE  R[n][<<Naming(p)>>] = f[s][p]
    <2> DEFINE t == s \cup {p}
    <2>1. /\ t \in SUBSET Paths /\ Unloaded(t) \in Nat /\ Unloaded(s) \in Nat
          /\ Unloaded(t) = Unloaded(s) - 1
      BY <1>1, UnloadedFalls
    <2>2. n \in 1 .. N /\ n - 1 \in 0 .. N /\ Unloaded(t) <= n - 1
      <3> HIDE DEF t
      <3> QED  BY <1>1, <2>1
    <2>3. \A q \in Paths : Claim(t, q, n - 1)
      BY <1>1, <2>2
    <2>4. disk[p] # Broken
      <3>1. f[s] = LoadedWith(f, s)
        BY Zenon DEF Loading
      <3>2. f[s][p] = FileWith(f, s, p)
        BY <1>1, <3>1 DEF LoadedWith
      <3> QED  BY <1>1, <3>2 DEF FileWith
    <2> DEFINE parts == Parts(f, s, p)
    <2> HIDE DEF G, t
    <2>5. /\ f[s][p] = FlattenSeq(parts)
          /\ \A i \in DOMAIN disk[p] : parts[i] # Rejected
                                       /\ parts[i] = ExpandedWith(f, s, p, disk[p][i])
      <3> HIDE DEF Claim
      <3> QED  BY <1>1, <2>4, FileParts
    <2>6. ASSUME NEW i \in DOMAIN disk[p] PROVE parts[i] = R[n - 1][<<disk[p][i]>>]
      <3>1. CASE disk[p][i] \in LoadedNode /\ disk[p][i].kind # "include"
        <4>1. parts[i] = <<disk[p][i]>>
          BY <2>5, <3>1 DEF ExpandedWith
        <4>2. R[n - 1][<<disk[p][i]>>] = <<disk[p][i]>>
          <5> HIDE DEF Claim
          <5> QED  BY <2>2, <3>1, RoundsLeaf
        <4> QED  BY <4>1, <4>2
      <3>2. ASSUME NEW q \in Paths, disk[p][i] = Naming(q) PROVE parts[i] = R[n - 1][<<disk[p][i]>>]
        <4>1. parts[i] = IF q \in t THEN Rejected
                         ELSE IF disk[q] = Missing THEN <<>> ELSE f[t][q]
          <5>1. Naming(q).kind = "include" /\ Naming(q).path = q
            BY DEF Naming
          <5>2. ExpandedWith(f, s, p, Naming(q)) = IF q \in t THEN Rejected
                         ELSE IF disk[q] = Missing THEN <<>> ELSE f[t][q]
            BY <5>1 DEF ExpandedWith, Included, t
          <5>3. parts[i] = ExpandedWith(f, s, p, disk[p][i])
            <6> HIDE DEF parts
            <6> QED  BY <2>5
          <5> HIDE DEF Claim, parts
          <5> QED  BY <3>2, <5>2, <5>3
        <4>2. q \notin t
          BY <2>5, <4>1
        <4>3. CASE disk[q] = Missing
          <5>1. Unloaded(t) >= 1
            <6>1. Unloaded(t \cup {q}) = Unloaded(t) - 1 /\ t \cup {q} \in SUBSET Paths
              BY <2>1, <4>2, UnloadedFalls
            <6>2. Unloaded(t \cup {q}) \in Nat
              BY <6>1, UnloadedFalls
            <6> QED  BY <2>1, <6>1, <6>2
          <5>2. n - 1 \in 1 .. N /\ (n - 1) - 1 \in 0 .. N
            BY <2>1, <2>2, <5>1
          <5>3. R[n - 1][<<Naming(q)>>] = R[(n - 1) - 1][TextOf(q)]
            <6> HIDE DEF Claim
            <6> QED  BY <5>2, RoundsFile
          <5>4. R[(n - 1) - 1][<<>>] = <<>>
            <6>1. Additive(R[(n - 1) - 1])
              <7> HIDE DEF Claim
              <7> QED  BY <5>2, RoundsConcat
            <6> QED  BY <6>1 DEF Additive
          <5>5. TextOf(q) = <<>>
            BY <4>3 DEF TextOf
          <5>6. parts[i] = <<>>
            BY <4>1, <4>2, <4>3
          <5> QED  BY <3>2, <5>3, <5>4, <5>5, <5>6
        <4>4. CASE disk[q] # Missing
          <5>1. parts[i] = f[t][q] /\ f[t][q] # Rejected
            BY <2>5, <4>1, <4>2, <4>4
          <5>2. R[n - 1][<<Naming(q)>>] = f[t][q]
            BY <2>2, <2>3, <4>2, <4>4, <5>1
          <5> QED  BY <3>2, <5>1, <5>2
        <4> QED  BY <4>3, <4>4
      <3>3. \/ disk[p][i] \in LoadedNode /\ disk[p][i].kind # "include"
            \/ \E q \in Paths : disk[p][i] = Naming(q)
        <4> HIDE DEF Claim
        <4> QED  BY <1>1, <2>4, Includes
      <3> QED  BY <3>1, <3>2, <3>3
    <2>7. R[n][<<Naming(p)>>] = FlattenSeq([j \in DOMAIN disk[p] |-> R[n - 1][<<disk[p][j]>>]])
      <3> HIDE DEF Claim
      <3> QED  BY <1>1, <2>2, <2>4, RoundsFile
    <2>8. parts = [j \in DOMAIN disk[p] |-> R[n - 1][<<disk[p][j]>>]]
      <3>1. parts = [j \in DOMAIN disk[p] |-> parts[j]]
        BY DEF Parts
      <3> HIDE DEF parts
      <3> QED  BY <2>6, <3>1
    <2> QED  BY <2>5, <2>7, <2>8
  <1>2. \A s \in SUBSET Paths : (\A p \in Paths \ s : s \cup {p} \in G) => s \in G
    BY <1>1
  <1>3. \A s \in SUBSET Paths : s \in G
    <2> HIDE DEF G
    <2> QED  BY <1>2, Descent
  <1> QED  BY <1>3

\* Nothing is left to be unfolded, and nothing that does not parse.
Clean(s) == \A i \in DOMAIN s : s[i].kind \notin {"include", "bad"}

\* The parts of a clean text are clean.
LEMMA CleanConcat ==
  ASSUME NEW a \in Text, NEW b \in Text, Clean(a \o b) PROVE Clean(a) /\ Clean(b)
  <1> DEFINE ab == a \o b
             m == Len(a)
             n == Len(b)
  <1>1. /\ m \in Nat /\ n \in Nat /\ DOMAIN a = 1 .. m /\ DOMAIN b = 1 .. n /\ DOMAIN ab = 1 .. m + n
        /\ \A i \in 1 .. m : ab[i] = a[i]
        /\ \A i \in 1 .. n : ab[m + i] = b[i]
    BY DEF Text
  <1>2. \A i \in DOMAIN ab : ab[i].kind \notin {"include", "bad"}
    BY DEF Clean
  <1> HIDE DEF ab, m, n
  <1>3. \A i \in 1 .. m : i \in DOMAIN ab
    BY <1>1
  <1>4. \A i \in 1 .. n : m + i \in DOMAIN ab
    BY <1>1
  <1>5. Clean(a)
    BY <1>1, <1>2, <1>3 DEF Clean
  <1>6. Clean(b)
    BY <1>1, <1>2, <1>4 DEF Clean
  <1> QED  BY <1>5, <1>6

LEMMA CleanParts ==
  ASSUME NEW ss \in Seq(Text), Clean(FlattenSeq(ss)), NEW j \in DOMAIN ss
  PROVE  Clean(ss[j])
  <1> DEFINE n == Len(ss)
  <1>1. n \in Nat /\ DOMAIN ss = 1 .. n /\ \A i \in 1 .. n : ss[i] \in Text
    OBVIOUS
  <1>2. PICK F \in [0 .. n -> Text] : Flattens(F, ss) /\ FlattenSeq(ss) = F[n]
    <2>1. ss \in Seq(Seq(FileNode))
      BY DEF Text
    <2> QED  BY <2>1, FlattenPrefixes DEF Text
  <1>3. \A i \in 1 .. n : F[i] = F[i - 1] \o ss[i]
    BY <1>2 DEF Flattens
  <1> DEFINE T == {i \in 0 .. n : Clean(F[n - i])}
  <1> HIDE DEF n
  <1>4. 0 \in T
    <2>1. 0 \in 0 .. n /\ n - 0 = n
      BY <1>1
    <2> QED  BY <1>2, <2>1
  <1>5. ASSUME NEW i \in 1 .. n, i - 1 \in T PROVE i \in T
    <2>1. i \in 0 .. n /\ n - (i - 1) \in 1 .. n /\ (n - (i - 1)) - 1 = n - i /\ n - i \in 0 .. n
      BY <1>1
    <2>2. Clean(F[n - (i - 1)])
      BY <1>5
    <2>3. F[n - (i - 1)] = F[n - i] \o ss[n - (i - 1)]
      BY <1>3, <2>1
    <2>4. F[n - i] \in Text /\ ss[n - (i - 1)] \in Text
      BY <1>1, <1>2, <2>1
    <2>5. Clean(F[n - i])
      BY <2>2, <2>3, <2>4, CleanConcat
    <2> QED  BY <2>1, <2>5
  <1>6. \A i \in 0 .. n : i \in T
    <2> HIDE DEF T
    <2> QED  BY <1>1, <1>4, <1>5, UpTo
  <1>7. j \in 1 .. n /\ n - j \in 0 .. n /\ n - (n - j) = j /\ j - 1 \in 0 .. n
    BY <1>1
  <1>8. Clean(F[j])
    <2>1. n - j \in T
      BY <1>6, <1>7
    <2>2. Clean(F[n - (n - j)])
      BY <2>1
    <2> QED  BY <1>7, <2>2
  <1>9. F[j] = F[j - 1] \o ss[j] /\ F[j - 1] \in Text /\ ss[j] \in Text
    BY <1>1, <1>2, <1>3, <1>7
  <1> QED  BY <1>8, <1>9, CleanConcat

\* A file is clean only after every file that it includes was.
LEMMA CleanBefore ==
  ASSUME DiskType, NEW N \in Nat, NEW R, Rounds(R, N), NEW p \in Paths, NEW n \in 0 .. N,
         Clean(R[n][<<Naming(p)>>])
  PROVE  /\ n \in 1 .. N
         /\ disk[p] # Missing => disk[p] # Broken
         /\ disk[p] # Missing => \A i \in DOMAIN disk[p], q \in Paths :
              disk[p][i] = Naming(q) => Clean(R[n - 1][<<Naming(q)>>])
  <1>1. <<Naming(p)>> \in Text
    BY DEF Text, Naming, FileNode
  <1>2. n \in 1 .. N
    <2> SUFFICES ASSUME n = 0 PROVE FALSE
      OBVIOUS
    <2>1. R[0][<<Naming(p)>>] = <<Naming(p)>>
      BY <1>1 DEF Rounds
    <2>2. ~ Clean(<<Naming(p)>>)
      <3>1. 1 \in DOMAIN <<Naming(p)>> /\ <<Naming(p)>>[1].kind = "include"
        BY DEF Naming
      <3> QED  BY <3>1 DEF Clean
    <2> QED  BY <2>1, <2>2
  <1>3. n - 1 \in 0 .. N
    BY <1>2
  <1>4. ASSUME disk[p] # Missing, disk[p] = Broken PROVE FALSE
    <2> DEFINE bad == [kind |-> "bad", arg |-> 0]
    <2>1. TextOf(p) = <<bad>>
      BY <1>4 DEF TextOf
    <2>2. bad \in LoadedNode
      BY DEF LoadedNode
    <2>3. R[n][<<Naming(p)>>] = R[n - 1][<<bad>>]
      <3>1. R[n][<<Naming(p)>>] = R[n - 1][TextOf(p)]
        BY <1>2, RoundsFile
      <3> QED  BY <2>1, <3>1
    <2>4. ~ Clean(<<bad>>)
      <3>1. 1 \in DOMAIN <<bad>> /\ <<bad>>[1].kind = "bad"
        OBVIOUS
      <3> QED  BY <3>1 DEF Clean
    <2> HIDE DEF bad
    <2>5. R[n - 1][<<bad>>] = <<bad>>
      BY <1>3, <2>2, RoundsLeaf
    <2> QED  BY <2>3, <2>4, <2>5
  <1>5. ASSUME disk[p] # Missing, NEW i \in DOMAIN disk[p], NEW q \in Paths, disk[p][i] = Naming(q)
        PROVE  Clean(R[n - 1][<<Naming(q)>>])
    <2> DEFINE s == disk[p]
               ss == [j \in DOMAIN s |-> R[n - 1][<<s[j]>>]]
    <2>1. s \in Seq(FileNode)
      BY <1>4, <1>5, DiskFile
    <2>2. R[n][<<Naming(p)>>] = FlattenSeq(ss)
      BY <1>2, <1>4, <1>5, RoundsFile
    <2> HIDE DEF s
    <2>3. ss \in Seq(Text) /\ DOMAIN ss = DOMAIN s
      <3>1. Len(s) \in Nat /\ DOMAIN s = 1 .. Len(s) /\ \A j \in DOMAIN s : s[j] \in FileNode
        BY <2>1
      <3>2. \A j \in DOMAIN s : <<s[j]>> \in Text
        BY <3>1 DEF Text
      <3>3. \A j \in DOMAIN s : R[n - 1][<<s[j]>>] \in Text
        BY <1>3, <3>2, RoundsType
      <3> QED  BY <3>1, <3>3
    <2>4. i \in DOMAIN s /\ ss[i] = R[n - 1][<<Naming(q)>>]
      BY <1>5 DEF s
    <2> HIDE DEF ss
    <2>5. Clean(FlattenSeq(ss))
      BY <2>2
    <2>6. Clean(ss[i])
      BY <2>3, <2>4, <2>5, CleanParts
    <2> QED  BY <2>4, <2>6
  <1> QED  BY <1>2, <1>4, <1>5

\* A file that is rejected has no clean unfolding, as long as the files being loaded
\* have none before it has.
LEMMA RejectedIsNeverClean ==
  ASSUME DiskType, NEW N \in Nat, NEW R, Rounds(R, N), NEW f, Loading(f)
  PROVE  \A stack \in SUBSET Paths, p \in Paths :
           (/\ p \notin stack /\ disk[p] # Missing /\ f[stack][p] = Rejected
            /\ \A q \in stack, n \in 0 .. N :
                 Clean(R[n][<<Naming(q)>>]) => \E m \in 0 .. n - 1 : Clean(R[m][<<Naming(p)>>]))
           => \A n \in 0 .. N : ~ Clean(R[n][<<Naming(p)>>])
  <1> DEFINE At(p, n) == Clean(R[n][<<Naming(p)>>])
             After(s, p) == \A q \in s, n \in 0 .. N : At(q, n) => \E m \in 0 .. n - 1 : At(p, m)
             Bad(s, p) == p \notin s /\ disk[p] # Missing /\ f[s][p] = Rejected
             Claim(s, p) == Bad(s, p) /\ After(s, p) => \A n \in 0 .. N : ~ At(p, n)
             G == {s \in SUBSET Paths : \A p \in Paths : Claim(s, p)}
  <1>1. ASSUME NEW s \in SUBSET Paths, \A p \in Paths \ s : s \cup {p} \in G,
               NEW p \in Paths, Bad(s, p), After(s, p)
        PROVE  \A n \in 0 .. N : ~ At(p, n)
    <2>1. ASSUME NEW n \in 0 .. N, At(p, n)
          PROVE  \E m \in 0 .. n - 1 : At(p, m)
      <3> DEFINE t == s \cup {p}
      <3>1. disk[p] # Missing /\ disk[p] # Broken /\ n \in 1 .. N /\ n - 1 \in 0 .. N
        <4>1. disk[p] # Missing /\ Clean(R[n][<<Naming(p)>>])
          BY <1>1, <2>1
        <4> HIDE DEF At, After, Bad, Claim, G, t
        <4>2. disk[p] # Broken /\ n \in 1 .. N
          BY <4>1, CleanBefore
        <4> QED  BY <4>1, <4>2
      <3>2. \A i \in DOMAIN disk[p], q \in Paths : disk[p][i] = Naming(q) => At(q, n - 1)
        <4>1. Clean(R[n][<<Naming(p)>>])
          BY <2>1
        <4> HIDE DEF After, Bad, Claim, G, t
        <4> QED  BY <3>1, <4>1, CleanBefore
      <3>3. PICK i \in DOMAIN disk[p] : Parts(f, s, p)[i] = Rejected
        <4>1. p \in Paths \ s /\ f[s][p] = Rejected
          BY <1>1
        <4> HIDE DEF At, After, Bad, Claim, G, t
        <4> QED  BY <3>1, <4>1, PartsLoaded
      <3>4. ExpandedWith(f, s, p, disk[p][i]) = Rejected
        <4>1. p \in Paths \ s
          BY <1>1
        <4> HIDE DEF At, After, Bad, Claim, G, t
        <4>2. Parts(f, s, p)[i] = ExpandedWith(f, s, p, disk[p][i])
          BY <3>1, <4>1, FileParts
        <4> QED  BY <3>3, <4>2
      <3>5. PICK q \in Paths : disk[p][i] = Naming(q)
        <4>1. CASE disk[p][i] \in LoadedNode /\ disk[p][i].kind # "include"
          <5>1. ExpandedWith(f, s, p, disk[p][i]) = <<disk[p][i]>>
            BY <4>1 DEF ExpandedWith
          <5>2. <<disk[p][i]>> \in Seq(LoadedNode)
            BY <4>1
          <5> QED  BY <3>4, <5>1, <5>2, ConfigAssumption
        <4>2. \/ disk[p][i] \in LoadedNode /\ disk[p][i].kind # "include"
              \/ \E q \in Paths : disk[p][i] = Naming(q)
          <5> HIDE DEF At, After, Bad, Claim, G, t
          <5> QED  BY <3>1, Includes
        <4> QED  BY <4>1, <4>2
      <3>6. q \in t \/ (q \notin t /\ disk[q] # Missing /\ f[t][q] = Rejected)
        <4>1. Naming(q).kind = "include" /\ Naming(q).path = q
          BY DEF Naming
        <4>2. ExpandedWith(f, s, p, Naming(q)) = IF q \in t THEN Rejected
                         ELSE IF disk[q] = Missing THEN <<>> ELSE f[t][q]
          BY <4>1 DEF ExpandedWith, Included
        <4>3. <<>> \in Seq(LoadedNode)
          OBVIOUS
        <4> HIDE DEF At, After, Bad, Claim, G, t
        <4> QED  BY <3>4, <3>5, <4>2, <4>3, ConfigAssumption
      <3>7. At(q, n - 1)
        BY <3>2, <3>5
      <3>8. n - 1 \in 0 .. n - 1
        BY <3>1
      <3>9. CASE q = p
        <4> HIDE DEF At
        <4> QED  BY <3>7, <3>8, <3>9
      <3>10. CASE q \in s
        <4>1. PICK m \in 0 .. (n - 1) - 1 : At(p, m)
          <5> HIDE DEF At
          <5> QED  BY <1>1, <3>1, <3>7, <3>10
        <4>2. m \in 0 .. n - 1
          BY <3>1
        <4> HIDE DEF At
        <4> QED  BY <4>1, <4>2
      <3>11. CASE q \notin t
        <4>1. After(t, q)
          <5>1. ASSUME NEW r \in t, NEW k \in 0 .. N, At(r, k)
                PROVE  \E m \in 0 .. k - 1 : At(q, m)
            <6>1. ASSUME NEW j \in 0 .. N, At(p, j) PROVE j \in 1 .. N /\ At(q, j - 1)
              <7>1. Clean(R[j][<<Naming(p)>>])
                BY <6>1
              <7> HIDE DEF After, Bad, Claim, G, t
              <7> QED  BY <3>1, <3>5, <7>1, CleanBefore
            <6>2. CASE r = p
              <7>1. k \in 1 .. N /\ At(q, k - 1)
                BY <5>1, <6>1, <6>2
              <7>2. k - 1 \in 0 .. k - 1
                BY <7>1
              <7> HIDE DEF At
              <7> QED  BY <7>1, <7>2
            <6>3. CASE r \in s
              <7>1. PICK m \in 0 .. k - 1 : At(p, m)
                <8> HIDE DEF At
                <8> QED  BY <1>1, <5>1, <6>3
              <7>2. m \in 0 .. N
                OBVIOUS
              <7>3. m \in 1 .. N /\ At(q, m - 1)
                <8> HIDE DEF At
                <8> QED  BY <6>1, <7>1, <7>2
              <7>4. m - 1 \in 0 .. k - 1
                BY <7>3
              <7> HIDE DEF At
              <7> QED  BY <7>3, <7>4
            <6> QED  BY <6>2, <6>3
          <5> HIDE DEF At, t
          <5> QED  BY <5>1
        <4>2. Bad(t, q)
          BY <3>6, <3>11
        <4>3. Claim(t, q)
          <5>1. t \in G
            BY <1>1
          <5> HIDE DEF Claim, t
          <5> QED  BY <5>1
        <4> HIDE DEF At, After, Bad, t
        <4>4. ~ At(q, n - 1)
          BY <3>1, <4>1, <4>2, <4>3
        <4> QED  BY <3>7, <4>4
      <3> QED  BY <3>9, <3>10, <3>11
    <2> DEFINE clean == {n \in 0 .. N : At(p, n)}
    <2>2. clean = {}
      <3> SUFFICES ASSUME clean # {} PROVE FALSE
        OBVIOUS
      <3>1. PICK n \in clean : \A m \in clean : n <= m
        <4>1. clean \subseteq Nat
          OBVIOUS
        <4> HIDE DEF clean
        <4> QED  BY <4>1, LeastNumber
      <3>2. n \in 0 .. N /\ At(p, n)
        OBVIOUS
      <3>3. PICK m \in 0 .. n - 1 : At(p, m)
        <4> HIDE DEF At, clean
        <4> QED  BY <2>1, <3>2
      <3>4. m \in clean /\ ~ (n <= m)
        BY <3>2, <3>3
      <3> HIDE DEF clean
      <3> QED  BY <3>1, <3>4
    <2> HIDE DEF At
    <2> QED  BY <2>2
  <1>2. \A s \in SUBSET Paths : (\A p \in Paths \ s : s \cup {p} \in G) => s \in G
    <2> HIDE DEF At, After, Bad
    <2> QED  BY <1>1
  <1>3. \A s \in SUBSET Paths : s \in G
    <2> HIDE DEF G
    <2> QED  BY <1>2, Descent
  <1> QED  BY <1>3

\* The rounds of Meaning, and what is made of the last one.
MeaningSteps(g) ==
  g = [n \in 0 .. Cardinality(Paths) |-> IF n = 0 THEN <<Naming(Main)>> ELSE Unfolded(g[n - 1])]

Read(nodes) ==
  IF \E i \in DOMAIN nodes : nodes[i].kind = "include" THEN Rejected ELSE ParseNodes(nodes)

\* The meaning of the files is what as many rounds as there are files lead to.
LEMMA MeaningIsRead ==
  ASSUME DiskType, NEW N, N = Cardinality(Paths), NEW R, Rounds(R, N), N \in Nat
  PROVE  Meaning = Read(R[N][<<Naming(Main)>>])
  <1> DEFINE g == CHOOSE h : MeaningSteps(h)
             k == [n \in 0 .. N |-> R[n][<<Naming(Main)>>]]
  <1>1. Meaning = Read(g[N])
    BY DEF Meaning, MeaningSteps, Read, Naming
  <1>2. <<Naming(Main)>> \in Text
    BY ConfigAssumption DEF Text, Naming, FileNode
  <1>3. ASSUME NEW n \in 0 .. N
        PROVE  k[n] = IF n = 0 THEN <<Naming(Main)>> ELSE Unfolded(k[n - 1])
    <2>1. CASE n = 0
      BY <1>2, <2>1 DEF Rounds
    <2>2. CASE n # 0
      <3>1. n \in 1 .. N /\ n - 1 \in 0 .. N
        BY <2>2
      <3>2. R[n][<<Naming(Main)>>] = Unfolded(R[n - 1][<<Naming(Main)>>])
        BY <1>2, <3>1 DEF Rounds
      <3>3. k[n] = R[n][<<Naming(Main)>>] /\ k[n - 1] = R[n - 1][<<Naming(Main)>>]
        BY <3>1
      <3> HIDE DEF k
      <3> QED  BY <2>2, <3>2, <3>3
    <2> QED  BY <2>1, <2>2
  <1>4. MeaningSteps(k)
    <2>1. k = [n \in 0 .. N |-> k[n]]
      OBVIOUS
    <2> HIDE DEF k
    <2> QED  BY <1>3, <2>1 DEF MeaningSteps
  <1>5. MeaningSteps(g)
    <2> HIDE DEF k
    <2> QED  BY <1>4
  <1> HIDE DEF g
  <1>6. \A n \in 0 .. N : g[n] = IF n = 0 THEN <<Naming(Main)>> ELSE Unfolded(g[n - 1])
    BY <1>5 DEF MeaningSteps
  <1> DEFINE T == {n \in 0 .. N : g[n] = k[n]}
  <1> HIDE DEF k
  <1>7. 0 \in T
    <2>1. 0 \in 0 .. N
      OBVIOUS
    <2> QED  BY <1>3, <1>6, <2>1
  <1>8. ASSUME NEW n \in 1 .. N, n - 1 \in T PROVE n \in T
    <2>1. n \in 0 .. N /\ n # 0
      OBVIOUS
    <2>2. g[n - 1] = k[n - 1]
      BY <1>8
    <2> QED  BY <1>3, <1>6, <2>1, <2>2
  <1>9. \A n \in 0 .. N : n \in T
    <2> HIDE DEF T
    <2> QED  BY <1>7, <1>8, UpTo
  <1>10. g[N] = k[N] /\ N \in 0 .. N
    BY <1>9
  <1>11. k[N] = R[N][<<Naming(Main)>>]
    BY <1>10 DEF k
  <1> QED  BY <1>1, <1>10, <1>11

\* Loading the configuration reads what the files say.
LEMMA ParseFileIsMeaning ==
  ASSUME DiskType, disk[Main] # Missing PROVE ParseFile = Meaning
  <1> DEFINE N == Cardinality(Paths)
             f == CHOOSE g : Loading(g)
  <1>1. N \in Nat /\ N = Unloaded({})
    <2>1. Paths \ {} = Paths
      OBVIOUS
    <2> QED  BY <2>1, ConfigAssumption, FS_CardinalityType DEF Unloaded
  <1>2. PICK R : Rounds(R, N)
    <2> HIDE DEF N
    <2> QED  BY <1>1, RoundsExist
  <1>3. Loading(f)
    BY LoadingExists
  <1> DEFINE nodes == f[{}][Main]
             text == R[N][<<Naming(Main)>>]
  <1>4. ParseFile = IF nodes = Rejected THEN Rejected ELSE ParseNodes(nodes)
    BY LoadIsLoading DEF ParseFile
  <1>5. Meaning = Read(text)
    BY <1>1, <1>2, MeaningIsRead
  <1>6. Main \in Paths /\ {} \in SUBSET Paths /\ N \in 0 .. N
    BY <1>1, ConfigAssumption
  <1> HIDE DEF f, N
  <1>7. CASE nodes # Rejected
    <2>1. text = nodes
      BY <1>1, <1>2, <1>3, <1>6, <1>7, LoadedIsUnfolded
    <2>2. nodes \in Seq(LoadedNode)
      <3>1. Main \in Paths \ {}
        BY <1>6
      <3>2. nodes \in Seq(LoadedNode) \cup {Rejected}
        BY <1>3, <1>6, <3>1, LoadType
      <3> QED  BY <1>7, <3>2
    <2> HIDE DEF nodes, text
    <2>3. \A i \in DOMAIN nodes : nodes[i] \in LoadedNode
      BY <2>2
    <2>4. \A i \in DOMAIN nodes : nodes[i].kind # "include"
      BY <2>3 DEF LoadedNode
    <2> QED  BY <1>4, <1>5, <1>7, <2>1, <2>4 DEF Read
  <1>8. CASE nodes = Rejected
    <2>1. ~ Clean(text)
      <3>1. \A n \in 0 .. N : ~ Clean(R[n][<<Naming(Main)>>])
        BY <1>1, <1>2, <1>3, <1>6, <1>8, RejectedIsNeverClean
      <3> QED  BY <1>6, <3>1
    <2> HIDE DEF nodes, text
    <2>2. Read(text) = Rejected
      BY <2>1 DEF Read, Clean, ParseNodes
    <2> QED  BY <1>4, <1>5, <1>8, <2>2
  <1> QED  BY <1>7, <1>8

\* Before the first load the built-in configuration is in force.
ReloadInv ==
  /\ DiskType
  /\ loads \in Nat
  /\ error = "unread" => config = Default /\ loads = 0

GoodStep ==
  loads' # loads =>
    \/ config' = Meaning /\ error' = "none"
    \/ config' = Default /\ error' = "none" /\ loads = 0 /\ disk[Main] = Missing
    \/ config' = config /\ error' = "shown" /\ (disk[Main] = Missing \/ Meaning = Rejected)

\* A load replaces the configuration by what the files say, or leaves it.
LEMMA ReloadKeeps ==
  ASSUME ReloadInv, [ConfigNext]_config_vars PROVE ReloadInv' /\ GoodStep
  <1>0. disk[Main] # Missing => ParseFile = Meaning
    BY ParseFileIsMeaning DEF ReloadInv
  <1>1. ASSUME NEW explicit \in BOOLEAN, Load(explicit) PROVE ReloadInv' /\ GoodStep
    BY <1>0, <1>1 DEF Load, ReloadInv, DiskType, GoodStep
  <1>2. CASE Reload
    BY <1>0, <1>2 DEF Reload, Replaced, ReloadInv, DiskType, GoodStep
  <1>3. CASE ConnectOutput
    BY <1>3 DEF ConnectOutput, ReloadInv, DiskType, GoodStep
  <1>4. CASE DisconnectOutput
    BY <1>4 DEF DisconnectOutput, ReloadInv, DiskType, GoodStep
  <1>5. ASSUME NEW p \in Paths, Edit(p) PROVE ReloadInv' /\ GoodStep
    BY <1>5 DEF Edit, ReloadInv, DiskType, GoodStep
  <1>6. CASE UNCHANGED config_vars
    BY <1>6 DEF config_vars, ReloadInv, DiskType, GoodStep
  <1> QED  BY <1>1, <1>2, <1>3, <1>4, <1>5, <1>6 DEF ConfigNext

\* What is in force after a load is what the files say, read as one text, or what was in
\* force before if they say nothing that is valid: loading them by recursion, with the
\* stack of the files being loaded to tell cycles, accepts exactly what unfolding the
\* includes accepts, and reads the same nodes in the same order (load_config_nodes,
\* parse_file, ConfigManager::reload).
THEOREM LastGoodIsKept == ConfigSpec => LastGoodCounts
  <1>1. ConfigInit => ReloadInv
    BY DEF ConfigInit, ReloadInv, DiskType
  <1>2. ReloadInv /\ [ConfigNext]_config_vars => ReloadInv' /\ [GoodStep]_config_vars
    BY ReloadKeeps
  <1> QED  BY <1>1, <1>2, PTL DEF ConfigSpec, LastGoodCounts, GoodStep
===============================================================================
