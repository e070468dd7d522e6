----------------------------- MODULE LoopProofs -----------------------------
(***************************************************************************)
(* What the loops compute, for every list.  Induction over the numbers is  *)
(* taken in the form of a least counterexample, a set of numbers, which    *)
(* the provers can instantiate.                                            *)
(***************************************************************************)
EXTENDS Loops, TLAPS, WellFoundedInduction

(* A set of numbers that is not empty has a least element.                 *)
LEMMA NatLeast ==
    ASSUME NEW T, T \subseteq Nat, T # {}
    PROVE  \E n \in T : \A m \in T : n <= m
<1>1. IsWellFoundedOn(OpToRel(<, Nat), Nat)
  BY NatLessThanWellFounded, Zenon
<1>2. PICK n \in T : \A m \in T : ~ (<<m, n>> \in OpToRel(<, Nat))
  BY <1>1, WFMin, Zenon
<1>3. \A m \in T : ~ (m < n)
  BY <1>2, Zenon DEF OpToRel
<1>. QED  BY <1>3

(* A set that has zero, and with a number the next, has them all.          *)
LEMMA SetInduction ==
    ASSUME NEW S, 0 \in S, \A n \in Nat : n \in S => n + 1 \in S
    PROVE  Nat \subseteq S
<1>. SUFFICES ASSUME Nat \ S # {} PROVE FALSE
  BY Zenon
<1>1. PICK n \in Nat \ S : \A m \in Nat \ S : n <= m
  BY NatLeast, Zenon
<1>2. n # 0 /\ n - 1 \in Nat
  BY <1>1
<1>3. n - 1 \in S
  BY <1>1, <1>2
<1>. QED  BY <1>1, <1>2, <1>3

(* The same up to a bound.                                                 *)
LEMMA BoundedInduction ==
    ASSUME NEW S, NEW n \in Nat, 0 \in S, \A i \in 1 .. n : i - 1 \in S => i \in S
    PROVE  0 .. n \subseteq S
<1>. DEFINE T == {i \in Nat : i <= n => i \in S}
<1>1. 0 \in T
  BY Zenon
<1>2. \A i \in Nat : i \in T => i + 1 \in T
  <2>. SUFFICES ASSUME NEW i \in Nat, i \in T, i + 1 <= n PROVE i + 1 \in S
    OBVIOUS
  <2>1. i + 1 \in 1 .. n /\ (i + 1) - 1 = i /\ i \in S
    OBVIOUS
  <2>. QED  BY <2>1, Zenon
<1>. HIDE DEF T
<1>3. Nat \subseteq T
  BY <1>1, <1>2, SetInduction, Zenon
<1>. QED  BY <1>3 DEF T

-----------------------------------------------------------------------------
(* The loops are defined: their recursive functions exist.                 *)

LEMMA TakenDef ==
    ASSUME NEW s, NEW K, Len(s) \in Nat
    PROVE  Taken(s, K) =
              [i \in 0 .. Len(s) |->
                 IF i = 0 THEN <<>>
                 ELSE IF i \in K THEN Append(Taken(s, K)[i - 1], s[i])
                                 ELSE Taken(s, K)[i - 1]]
<1>. DEFINE Step(f, i) == IF i = 0 THEN <<>>
                          ELSE IF i \in K THEN Append(f[i - 1], s[i]) ELSE f[i - 1]
            Defined(n) == \E f : f = [i \in 0 .. n |-> Step(f, i)]
            S == {n \in Nat : Defined(n)}
<1>1. 0 \in S
  <2>1. [i \in 0 .. 0 |-> <<>>] = [i \in 0 .. 0 |-> Step([j \in 0 .. 0 |-> <<>>], i)]
    OBVIOUS
  <2>. QED  BY <2>1, Zenon
<1>2. ASSUME NEW n \in Nat, n \in S PROVE n + 1 \in S
  <2>1. PICK f : f = [i \in 0 .. n |-> Step(f, i)]
    BY <1>2, Zenon
  <2>. DEFINE g == [i \in 0 .. n + 1 |-> IF i <= n THEN f[i] ELSE Step(f, i)]
  <2>2. \A i \in 0 .. n : f[i] = Step(f, i)
    BY <2>1, Zenon
  <2>3. ASSUME NEW i \in 0 .. n + 1 PROVE g[i] = Step(g, i)
    <3>1. i # 0 => i - 1 \in 0 .. n /\ g[i - 1] = f[i - 1]
      OBVIOUS
    <3>2. g[i] = Step(f, i)
      BY <2>2
    <3>. QED  BY <3>1, <3>2, Zenon
  <2>4. g = [i \in 0 .. n + 1 |-> Step(g, i)]
    BY <2>3, Zenon
  <2>. HIDE DEF g
  <2>5. Defined(n + 1)
    BY <2>4, Zenon
  <2>. HIDE DEF Defined
  <2>. QED  BY <2>5
<1>3. Nat \subseteq S
  <2>. HIDE DEF S
  <2>. QED  BY <1>1, <1>2, SetInduction, Zenon
<1>4. Defined(Len(s))
  BY <1>3, Zenon
<1>. QED  BY <1>4, Zenon DEF Taken

LEMMA SummedDef ==
    ASSUME NEW s, Len(s) \in Nat
    PROVE  Summed(s) =
              [i \in 0 .. Len(s) |-> IF i = 0 THEN 0 ELSE Summed(s)[i - 1] + s[i]]
<1>. DEFINE Step(f, i) == IF i = 0 THEN 0 ELSE f[i - 1] + s[i]
            Defined(n) == \E f : f = [i \in 0 .. n |-> Step(f, i)]
            S == {n \in Nat : Defined(n)}
<1>1. 0 \in S
  <2>1. [i \in 0 .. 0 |-> 0] = [i \in 0 .. 0 |-> Step([j \in 0 .. 0 |-> 0], i)]
    OBVIOUS
  <2>. QED  BY <2>1, Zenon
<1>2. ASSUME NEW n \in Nat, n \in S PROVE n + 1 \in S
  <2>1. PICK f : f = [i \in 0 .. n |-> Step(f, i)]
    BY <1>2, Zenon
  <2>. DEFINE g == [i \in 0 .. n + 1 |-> IF i <= n THEN f[i] ELSE Step(f, i)]
  <2>2. \A i \in 0 .. n : f[i] = Step(f, i)
    BY <2>1, Zenon
  <2>3. ASSUME NEW i \in 0 .. n + 1 PROVE g[i] = Step(g, i)
    <3>1. i # 0 => i - 1 \in 0 .. n /\ g[i - 1] = f[i - 1]
      OBVIOUS
    <3>2. g[i] = Step(f, i)
      BY <2>2
    <3>. QED  BY <3>1, <3>2, Zenon
  <2>4. g = [i \in 0 .. n + 1 |-> Step(g, i)]
    BY <2>3, Zenon
  <2>. HIDE DEF g
  <2>5. Defined(n + 1)
    BY <2>4, Zenon
  <2>. HIDE DEF Defined
  <2>. QED  BY <2>5
<1>3. Nat \subseteq S
  <2>. HIDE DEF S
  <2>. QED  BY <1>1, <1>2, SetInduction
<1>4. Defined(Len(s))
  BY <1>3, Zenon
<1>. QED  BY <1>4, Zenon DEF Summed

LEMMA JoinedDef ==
    ASSUME NEW ss, Len(ss) \in Nat
    PROVE  Joined(ss) =
              [i \in 0 .. Len(ss) |-> IF i = 0 THEN <<>> ELSE Joined(ss)[i - 1] \o ss[i]]
<1>. DEFINE Step(f, i) == IF i = 0 THEN <<>> ELSE f[i - 1] \o ss[i]
            Defined(n) == \E f : f = [i \in 0 .. n |-> Step(f, i)]
            S == {n \in Nat : Defined(n)}
<1>1. 0 \in S
  <2>1. [i \in 0 .. 0 |-> <<>>] = [i \in 0 .. 0 |-> Step([j \in 0 .. 0 |-> <<>>], i)]
    OBVIOUS
  <2>. QED  BY <2>1, Zenon
<1>2. ASSUME NEW n \in Nat, n \in S PROVE n + 1 \in S
  <2>1. PICK f : f = [i \in 0 .. n |-> Step(f, i)]
    BY <1>2, Zenon
  <2>. DEFINE g == [i \in 0 .. n + 1 |-> IF i <= n THEN f[i] ELSE Step(f, i)]
  <2>2. \A i \in 0 .. n : f[i] = Step(f, i)
    BY <2>1, Zenon
  <2>3. ASSUME NEW i \in 0 .. n + 1 PROVE g[i] = Step(g, i)
    <3>1. i # 0 => i - 1 \in 0 .. n /\ g[i - 1] = f[i - 1]
      OBVIOUS
    <3>2. g[i] = Step(f, i)
      BY <2>2
    <3>. QED  BY <3>1, <3>2, Zenon
  <2>4. g = [i \in 0 .. n + 1 |-> Step(g, i)]
    BY <2>3, Zenon
  <2>. HIDE DEF g
  <2>5. Defined(n + 1)
    BY <2>4, Zenon
  <2>. HIDE DEF Defined
  <2>. QED  BY <2>5
<1>3. Nat \subseteq S
  <2>. HIDE DEF S
  <2>. QED  BY <1>1, <1>2, SetInduction
<1>4. Defined(Len(ss))
  BY <1>3, Zenon
<1>. QED  BY <1>4, Zenon DEF Joined

-----------------------------------------------------------------------------
(* Select *)

(* g lists the numbers of P in increasing order.                           *)
Enumerates(g, n, P) ==
    /\ g \in [1 .. n -> P]
    /\ \A k, l \in 1 .. n : k < l => g[k] < g[l]
    /\ \A p \in P : \E k \in 1 .. n : g[k] = p

(* t is what s has at the places P, which g lists.                         *)
Picks(g, t, s, P) == Enumerates(g, Len(t), P) /\ \A k \in 1 .. Len(t) : t[k] = s[g[k]]

LEMMA ListsOnlyOnce ==
    ASSUME NEW P, NEW m, NEW n, NEW g, NEW h,
           P \in SUBSET Nat, m \in Nat, n \in Nat, Enumerates(g, m, P), Enumerates(h, n, P)
    PROVE  m = n /\ \A k \in 1 .. n : g[k] = h[k]
<1>1. \A k \in 1 .. m : k \in 1 .. n => g[k] = h[k]
  <2>. DEFINE T == {k \in Nat : k \in 1 .. m /\ k \in 1 .. n /\ g[k] # h[k]}
  <2>. SUFFICES ASSUME T # {} PROVE FALSE
    OBVIOUS
  <2>1. PICK k \in T : \A j \in T : k <= j
    <3>. HIDE DEF T
    <3>1. T \subseteq Nat
      BY Zenon DEF T
    <3>. QED  BY <3>1, NatLeast, Zenon
  <2>2. \A j \in 1 .. k - 1 : g[j] = h[j]
    BY <2>1
  <2>3. g[k] \in P /\ h[k] \in P /\ g[k] \in Nat /\ h[k] \in Nat
    BY <2>1, Zenon DEF Enumerates
  <2>4. CASE g[k] < h[k]
    <3>1. PICK j \in 1 .. n : h[j] = g[k]
      BY <2>3, Zenon DEF Enumerates
    <3>2. j < k
      BY <2>1, <2>3, <2>4, <3>1 DEF Enumerates
    <3>3. g[j] = g[k]
      BY <2>2, <3>1, <3>2
    <3>4. g[j] < g[k]
      BY <2>1, <3>2, <3>1 DEF Enumerates
    <3>. QED  BY <2>3, <3>3, <3>4
  <2>5. CASE h[k] < g[k]
    <3>1. PICK j \in 1 .. m : g[j] = h[k]
      BY <2>3, Zenon DEF Enumerates
    <3>2. j < k
      BY <2>1, <2>3, <2>5, <3>1 DEF Enumerates
    <3>3. h[j] = h[k]
      BY <2>2, <3>1, <3>2
    <3>4. h[j] < h[k]
      BY <2>1, <3>2, <3>1 DEF Enumerates
    <3>. QED  BY <2>3, <3>3, <3>4
  <2>. QED  BY <2>1, <2>3, <2>4, <2>5
<1>2. ~ (m < n)
  <2>. SUFFICES ASSUME m < n PROVE FALSE
    BY Zenon
  <2>0. m + 1 \in 1 .. n
    OBVIOUS
  <2>1. h[m + 1] \in P /\ h[m + 1] \in Nat
    BY <2>0, Zenon DEF Enumerates
  <2>2. PICK j \in 1 .. m : g[j] = h[m + 1]
    BY <2>1, Zenon DEF Enumerates
  <2>3. j \in 1 .. n /\ j < m + 1 /\ h[j] = h[m + 1]
    BY <1>1, <2>2
  <2>. QED  BY <2>0, <2>1, <2>3 DEF Enumerates
<1>3. ~ (n < m)
  <2>. SUFFICES ASSUME n < m PROVE FALSE
    BY Zenon
  <2>0. n + 1 \in 1 .. m
    OBVIOUS
  <2>1. g[n + 1] \in P /\ g[n + 1] \in Nat
    BY <2>0, Zenon DEF Enumerates
  <2>2. PICK j \in 1 .. n : h[j] = g[n + 1]
    BY <2>1, Zenon DEF Enumerates
  <2>3. j \in 1 .. m /\ j < n + 1 /\ g[j] = g[n + 1]
    BY <1>1, <2>2
  <2>. QED  BY <2>0, <2>1, <2>3 DEF Enumerates
<1>. QED  BY <1>1, <1>2, <1>3

(* A list of numbers that has the first two begins with them.              *)
LEMMA ListsFromTheTop ==
    ASSUME NEW m \in Nat, NEW n \in Nat, NEW K, NEW l, Enumerates(l, n, K),
           K \subseteq 1 .. m, \A i \in 1 .. m : i <= 2 => i \in K
    PROVE  \A k \in 1 .. n : l[k] \in K /\ (k <= 2 => l[k] = k) /\ (k > 2 => l[k] > 2)
<1>1. \A k \in 1 .. n : l[k] \in K /\ l[k] \in 1 .. m
  BY Zenon DEF Enumerates
<1>2. \A j, k \in 1 .. n : j < k => l[j] < l[k]
  BY Zenon DEF Enumerates
<1>3. ASSUME 1 \in 1 .. n PROVE l[1] = 1
  <2>1. 1 \in K
    BY <1>1, <1>3
  <2>2. PICK k \in 1 .. n : l[k] = 1
    BY <2>1, Zenon DEF Enumerates
  <2>3. ~ (1 < k)
    BY <1>1, <1>2, <1>3, <2>2
  <2>. QED  BY <2>2, <2>3
<1>4. ASSUME 2 \in 1 .. n PROVE l[2] = 2
  <2>1. 1 \in 1 .. n /\ l[1] = 1 /\ l[2] \in 1 .. m /\ l[1] < l[2]
    BY <1>1, <1>2, <1>3, <1>4
  <2>2. 2 \in K
    BY <2>1
  <2>3. PICK k \in 1 .. n : l[k] = 2
    BY <2>2, Zenon DEF Enumerates
  <2>4. ~ (2 < k)
    <3>. SUFFICES ASSUME 2 < k PROVE FALSE
      BY Zenon
    <3>1. l[2] < l[k]
      BY <1>2, <1>4, Zenon
    <3>. QED  BY <2>1, <2>3, <3>1
  <2>5. k # 1
    BY <2>1, <2>3
  <2>6. k = 2
    BY <2>4, <2>5
  <2>. QED  BY <2>3, <2>6, Zenon
<1>5. ASSUME NEW k \in 1 .. n, k > 2 PROVE l[k] > 2
  <2>1. 2 \in 1 .. n /\ l[2] = 2 /\ l[k] \in 1 .. m
    BY <1>1, <1>4, <1>5
  <2>2. l[2] < l[k]
    BY <1>2, <1>5, <2>1, Zenon
  <2>. QED  BY <2>1, <2>2, Zenon
<1>6. ASSUME NEW k \in 1 .. n, k <= 2 PROVE l[k] = k
  <2>1. k = 1 \/ k = 2
    BY <1>6
  <2>. QED  BY <1>3, <1>4, <2>1, Zenon
<1>. QED  BY <1>1, <1>5, <1>6, Zenon

(* Select keeps the elements at the places it is given, in their order,    *)
(* and no other.                                                           *)
LEMMA SelectPicks ==
    ASSUME NEW M, NEW s \in Seq(M), NEW K, K \subseteq DOMAIN s
    PROVE  Select(s, K) \in Seq(M) /\ \E g : Picks(g, Select(s, K), s, K)
<1>. DEFINE n == Len(s)
            taken == Taken(s, K)
            Right(i) == taken[i] \in Seq(M) /\ \E g : Picks(g, taken[i], s, K \cap 1 .. i)
            S == {i \in 0 .. n : Right(i)}
<1>0. n \in Nat /\ DOMAIN s = 1 .. n
  OBVIOUS
<1>1. taken[0] = <<>>
      /\ \A i \in 1 .. n : taken[i] = IF i \in K THEN Append(taken[i - 1], s[i])
                                                 ELSE taken[i - 1]
  <2>. DEFINE Step(f, i) == IF i = 0 THEN <<>>
                            ELSE IF i \in K THEN Append(f[i - 1], s[i]) ELSE f[i - 1]
  <2>1. taken = [i \in 0 .. n |-> Step(taken, i)]
    BY <1>0, TakenDef, Zenon
  <2>. HIDE DEF taken
  <2>2. \A i \in 0 .. n : taken[i] = Step(taken, i)
    BY <2>1, Zenon
  <2>. QED  BY <1>0, <2>2
<1>. HIDE DEF taken
<1>2. 0 \in S
  <2>1. Enumerates(<<>>, 0, K \cap 1 .. 0)
    BY DEF Enumerates
  <2>2. Picks(<<>>, taken[0], s, K \cap 1 .. 0) /\ taken[0] \in Seq(M)
    BY <1>1, <2>1 DEF Picks
  <2>. QED  BY <1>0, <2>2
<1>3. ASSUME NEW i \in 1 .. n, i - 1 \in S PROVE i \in S
  <2>. DEFINE t == taken[i - 1]
  <2>1. t \in Seq(M)
    BY <1>3, Zenon
  <2>2. PICK g : Picks(g, t, s, K \cap 1 .. i - 1)
    BY <1>3, Zenon
  <2>3. CASE i \notin K
    <3>1. taken[i] = t
      BY <1>1, <2>3, Zenon
    <3>2. K \cap 1 .. i - 1 = K \cap 1 .. i
      BY <2>3, <1>0
    <3>. HIDE DEF t
    <3>3. Picks(g, taken[i], s, K \cap 1 .. i) /\ taken[i] \in Seq(M)
      BY <2>1, <2>2, <3>1, <3>2, Zenon
    <3>. QED  BY <1>0, <3>3
  <2>4. CASE i \in K
    <3>. DEFINE h == [k \in 1 .. Len(t) + 1 |-> IF k <= Len(t) THEN g[k] ELSE i]
    <3>0. s[i] \in M
      BY <1>0
    <3>1. taken[i] = Append(t, s[i])
      BY <1>1, <2>4, Zenon
    <3>. HIDE DEF t
    <3>2. taken[i] \in Seq(M) /\ Len(taken[i]) = Len(t) + 1 /\ Len(t) \in Nat
      BY <2>1, <3>0, <3>1
    <3>3. Enumerates(h, Len(t) + 1, K \cap 1 .. i)
      <4>1. \A k \in 1 .. Len(t) : h[k] = g[k] /\ g[k] \in K \cap 1 .. i - 1
        BY <2>2, <3>2 DEF Picks, Enumerates
      <4>2. h[Len(t) + 1] = i /\ i \in K \cap 1 .. i
        BY <2>4, <3>2
      <4>0. ASSUME NEW k \in 1 .. Len(t) + 1
            PROVE  (IF k <= Len(t) THEN g[k] ELSE i) \in K \cap 1 .. i
        <5>1. CASE k <= Len(t)
          <6>1. k \in 1 .. Len(t)
            BY <3>2, <5>1
          <6>2. g[k] \in K /\ g[k] \in 1 .. i - 1
            BY <4>1, <6>1, Zenon
          <6>. QED  BY <5>1, <6>2
        <5>. QED  BY <4>2, <5>1, Zenon
      <4>3. h \in [1 .. Len(t) + 1 -> K \cap 1 .. i]
        BY <4>0, Zenon
      <4>4. ASSUME NEW k \in 1 .. Len(t) + 1, NEW l \in 1 .. Len(t) + 1, k < l
            PROVE  h[k] < h[l]
        <5>1. k \in 1 .. Len(t)
          BY <3>2, <4>4
        <5>2. CASE l = Len(t) + 1
          <6>1. g[k] \in 1 .. i - 1 /\ h[k] = g[k]
            BY <4>1, <5>1, Zenon
          <6>. HIDE DEF h
          <6>. QED  BY <6>1, <4>2, <5>2
        <5>3. CASE l # Len(t) + 1
          <6>1. l \in 1 .. Len(t)
            BY <5>3, <3>2
          <6>2. g[k] < g[l]
            BY <2>2, <4>4, <5>1, <6>1, Zenon DEF Picks, Enumerates
          <6>. QED  BY <4>1, <5>1, <6>1, <6>2, Zenon
        <5>. QED  BY <5>2, <5>3, Zenon
      <4>5. ASSUME NEW p \in K \cap 1 .. i PROVE \E k \in 1 .. Len(t) + 1 : h[k] = p
        <5>1. CASE p = i
          BY <3>2, <4>2, <5>1
        <5>2. CASE p # i
          <6>1. p \in K \cap 1 .. i - 1
            BY <5>2
          <6>2. PICK k \in 1 .. Len(t) : g[k] = p
            BY <2>2, <6>1, Zenon DEF Picks, Enumerates
          <6>. QED  BY <3>2, <4>1, <6>2
        <5>. QED  BY <5>1, <5>2, Zenon
      <4>. HIDE DEF h
      <4>. QED  BY <4>3, <4>4, <4>5, Zenon DEF Enumerates
    <3>4. \A k \in 1 .. Len(t) + 1 : taken[i][k] = s[h[k]]
      <4>. TAKE k \in 1 .. Len(t) + 1
      <4>1. CASE k <= Len(t)
        <5>1. k \in 1 .. Len(t) /\ t[k] = s[g[k]]
          BY <2>2, <3>2, <4>1 DEF Picks
        <5>2. taken[i][k] = t[k]
          BY <2>1, <3>1, <5>1
        <5>. QED  BY <5>1, <5>2, <4>1, Zenon
      <4>2. CASE k = Len(t) + 1
        BY <2>1, <3>1, <3>2, <4>2
      <4>. QED  BY <3>2, <4>1, <4>2
    <3>. HIDE DEF h
    <3>5. Picks(h, taken[i], s, K \cap 1 .. i)
      BY <3>2, <3>3, <3>4, Zenon DEF Picks
    <3>. QED  BY <3>2, <3>5
  <2>. QED  BY <2>3, <2>4, Zenon
<1>4. 0 .. n \subseteq S
  <2>. HIDE DEF S
  <2>. QED  BY <1>0, <1>2, <1>3, BoundedInduction, Zenon
<1>5. Right(n)
  BY <1>0, <1>4
<1>6. K \cap 1 .. n = K
  BY <1>0, Zenon
<1>. QED  BY <1>5, <1>6, Zenon DEF Select, taken

(* Two selections are the same if their places correspond in order, and    *)
(* the elements at them are the same.                                      *)
LEMMA SelectSame ==
    ASSUME NEW M, NEW s \in Seq(M), NEW K, K \subseteq DOMAIN s,
           NEW r \in Seq(M), NEW L, L \subseteq DOMAIN r,
           NEW f \in [K -> L],
           \A k, l \in K : k < l => f[k] < f[l],
           \A l \in L : \E k \in K : f[k] = l,
           \A k \in K : s[k] = r[f[k]]
    PROVE  Select(s, K) = Select(r, L)
<1>. DEFINE a == Select(s, K)
            b == Select(r, L)
<1>1. a \in Seq(M) /\ b \in Seq(M)
  BY SelectPicks, Zenon
<1>2. PICK g : Picks(g, a, s, K)
  BY SelectPicks, Zenon
<1>3. PICK h : Picks(h, b, r, L)
  BY SelectPicks, Zenon
<1>. HIDE DEF a, b
<1>. DEFINE fg == [k \in 1 .. Len(a) |-> f[g[k]]]
<1>4. \A k \in 1 .. Len(a) : g[k] \in K /\ fg[k] = f[g[k]] /\ a[k] = s[g[k]]
  BY <1>2, Zenon DEF Picks, Enumerates
<1>5. Enumerates(fg, Len(a), L)
  <2>1. fg \in [1 .. Len(a) -> L]
    BY <1>4, Zenon
  <2>2. ASSUME NEW k \in 1 .. Len(a), NEW l \in 1 .. Len(a), k < l PROVE fg[k] < fg[l]
    <3>1. g[k] < g[l]
      BY <1>2, <2>2, Zenon DEF Picks, Enumerates
    <3>. QED  BY <1>4, <3>1, Zenon
  <2>3. ASSUME NEW l \in L PROVE \E k \in 1 .. Len(a) : fg[k] = l
    <3>1. PICK k \in K : f[k] = l
      BY Zenon
    <3>2. PICK j \in 1 .. Len(a) : g[j] = k
      BY <1>2, Zenon DEF Picks, Enumerates
    <3>. QED  BY <1>4, <3>1, <3>2, Zenon
  <2>. HIDE DEF fg
  <2>. QED  BY <2>1, <2>2, <2>3, Zenon DEF Enumerates
<1>. HIDE DEF fg
<1>6. L \in SUBSET Nat /\ Len(a) \in Nat /\ Len(b) \in Nat
  BY <1>1
<1>7. Len(a) = Len(b) /\ \A k \in 1 .. Len(b) : fg[k] = h[k]
  <2>. DEFINE m == Len(a)
              n == Len(b)
  <2>1. m \in Nat /\ n \in Nat /\ Enumerates(fg, m, L) /\ Enumerates(h, n, L)
    BY <1>3, <1>5, <1>6, Zenon DEF Picks
  <2>. HIDE DEF m, n
  <2>2. m = n /\ \A k \in 1 .. n : fg[k] = h[k]
    BY <1>6, <2>1, ListsOnlyOnce
  <2>. QED  BY <2>2, Zenon DEF m, n
<1>8. \A k \in 1 .. Len(b) : a[k] = b[k]
  BY <1>3, <1>4, <1>7 DEF Picks
<1>. QED  BY <1>1, <1>7, <1>8 DEF a, b

-----------------------------------------------------------------------------
(* Sum *)

LEMMA SummedStep ==
    ASSUME NEW s, Len(s) \in Nat
    PROVE  /\ Summed(s)[0] = 0
           /\ \A i \in 1 .. Len(s) : Summed(s)[i] = Summed(s)[i - 1] + s[i]
<1>. DEFINE n == Len(s)
            summed == Summed(s)
            Step(f, i) == IF i = 0 THEN 0 ELSE f[i - 1] + s[i]
<1>1. summed = [i \in 0 .. n |-> Step(summed, i)]
  BY SummedDef, Zenon
<1>. HIDE DEF summed
<1>2. \A i \in 0 .. n : summed[i] = Step(summed, i)
  BY <1>1, Zenon
<1>3. summed[0] = 0 /\ \A i \in 1 .. n : summed[i] = summed[i - 1] + s[i]
  BY <1>2
<1>. QED  BY <1>3, Zenon DEF summed

LEMMA SumType ==
    ASSUME NEW s \in Seq(Nat)
    PROVE  Sum(s) \in Nat /\ \A i \in 0 .. Len(s) : Summed(s)[i] \in Nat
<1>. DEFINE S == {i \in Nat : i <= Len(s) => Summed(s)[i] \in Nat}
<1>0. Len(s) \in Nat
  OBVIOUS
<1>1. 0 \in S
  BY SummedStep
<1>2. ASSUME NEW i \in 1 .. Len(s), i - 1 \in S PROVE i \in S
  <2>1. s[i] \in Nat /\ Summed(s)[i - 1] \in Nat
    BY <1>2
  <2>2. Summed(s)[i] = Summed(s)[i - 1] + s[i]
    BY <1>0, SummedStep, Zenon
  <2>. QED  BY <2>1, <2>2
<1>. HIDE DEF S
<1>3. 0 .. Len(s) \subseteq S
  BY <1>0, <1>1, <1>2, BoundedInduction, Zenon
<1>4. \A i \in 0 .. Len(s) : Summed(s)[i] \in Nat
  BY <1>3 DEF S
<1>. QED  BY <1>0, <1>4 DEF Sum

(* What is left out of a sum without changing it is zero.                  *)
LEMMA SumPicked ==
    ASSUME NEW u \in Seq(Nat), NEW w \in Seq(Nat), NEW P, NEW g, Enumerates(g, Len(u), P),
           P \subseteq 1 .. Len(w),
           \A k \in 1 .. Len(u) : u[k] = w[g[k]],
           \A i \in 1 .. Len(w) : i \notin P => w[i] = 0
    PROVE  Sum(u) = Sum(w)
<1>. DEFINE m == Len(w)
            n == Len(u)
            Reached(i, k) == /\ Summed(w)[i] = Summed(u)[k]
                             /\ \A j \in 1 .. n : g[j] <= i <=> j <= k
            S == {i \in 0 .. m : \E k \in 0 .. n : Reached(i, k)}
<1>0. m \in Nat /\ n \in Nat
  OBVIOUS
<1>1. \A j \in 1 .. n : g[j] \in P /\ g[j] \in 1 .. m
  BY Zenon DEF Enumerates
<1>2. \A j, k \in 1 .. n : j < k => g[j] < g[k]
  BY Zenon DEF Enumerates
<1>3. 0 \in S
  <2>1. Summed(w)[0] = 0 /\ Summed(u)[0] = 0
    BY <1>0, SummedStep, Zenon
  <2>2. Reached(0, 0)
    BY <1>0, <1>1, <2>1
  <2>. HIDE DEF Reached
  <2>. QED  BY <1>0, <2>2
<1>4. ASSUME NEW i \in 1 .. m, i - 1 \in S PROVE i \in S
  <2>1. PICK k \in 0 .. n : Reached(i - 1, k)
    BY <1>4, Zenon
  <2>2. Summed(w)[i] = Summed(w)[i - 1] + w[i]
    BY <1>0, SummedStep, Zenon
  <2>3. Summed(w)[i - 1] \in Nat
    <3>1. i - 1 \in 0 .. Len(w)
      BY <1>0
    <3>. QED  BY <3>1, SumType, Zenon
  <2>4. CASE i \notin P
    <3>1. w[i] = 0 /\ Summed(w)[i] = Summed(u)[k]
      BY <2>1, <2>2, <2>3, <2>4
    <3>2. ASSUME NEW j \in 1 .. n PROVE g[j] <= i <=> j <= k
      <4>1. g[j] # i /\ g[j] \in 1 .. m
        BY <1>1, <2>4, Zenon
      <4>2. g[j] <= i - 1 <=> j <= k
        BY <2>1, Zenon
      <4>. QED  BY <1>0, <4>1, <4>2
    <3>3. Reached(i, k)
      BY <3>1, <3>2, Zenon
    <3>. HIDE DEF Reached
    <3>. QED  BY <1>0, <3>3
  <2>5. CASE i \in P
    <3>1. PICK j \in 1 .. n : g[j] = i
      BY <2>5, Zenon DEF Enumerates
    <3>2. ~ (j <= k)
      <4>1. g[j] <= i - 1 <=> j <= k
        BY <2>1
      <4>. QED  BY <3>1, <4>1
    <3>3. k + 1 \in 1 .. n
      BY <1>0, <3>2
    <3>4. ~ (k + 1 < j)
      <4>. SUFFICES ASSUME k + 1 < j PROVE FALSE
        BY Zenon
      <4>1. g[k + 1] < g[j] /\ g[k + 1] \in 1 .. m
        BY <1>1, <1>2, <3>3, Zenon
      <4>2. g[k + 1] <= i - 1
        BY <3>1, <4>1
      <4>3. g[k + 1] <= i - 1 <=> k + 1 <= k
        BY <2>1, <3>3, Zenon
      <4>. QED  BY <4>2, <4>3
    <3>5. j = k + 1
      BY <3>2, <3>4
    <3>6. Summed(u)[k + 1] = Summed(u)[k] + u[k + 1]
      <4>1. Summed(u)[k + 1] = Summed(u)[(k + 1) - 1] + u[k + 1]
        BY <1>0, <3>3, SummedStep, Zenon
      <4>. QED  BY <4>1
    <3>7. u[k + 1] = w[i]
      BY <3>1, <3>3, <3>5, Zenon
    <3>8. Summed(w)[i] = Summed(u)[k + 1]
      BY <2>1, <2>2, <3>6, <3>7, Zenon
    <3>9. ASSUME NEW l \in 1 .. n PROVE g[l] <= i <=> l <= k + 1
      <4>1. l < j => g[l] < i
        BY <1>2, <3>1, Zenon
      <4>2. j < l => i < g[l]
        BY <1>2, <3>1, Zenon
      <4>3. l = j => g[l] = i
        BY <3>1, Zenon
      <4>4. g[l] \in Int /\ j \in Int
        BY <1>1
      <4>5. g[l] <= i <=> l <= j
        BY <4>1, <4>2, <4>3, <4>4
      <4>. QED  BY <3>5, <4>5, Zenon
    <3>10. Reached(i, k + 1)
      BY <3>8, <3>9, Zenon
    <3>. HIDE DEF Reached
    <3>. QED  BY <1>0, <3>3, <3>10
  <2>. QED  BY <2>4, <2>5, Zenon
<1>5. 0 .. m \subseteq S
  <2>. HIDE DEF S
  <2>. QED  BY <1>0, <1>3, <1>4, BoundedInduction, Zenon
<1>6. PICK k \in 0 .. n : Reached(m, k)
  BY <1>0, <1>5
<1>7. k = n
  <2>. SUFFICES ASSUME k < n PROVE FALSE
    BY <1>0
  <2>1. n \in 1 .. n /\ g[n] <= m
    BY <1>0, <1>1
  <2>2. g[n] <= m <=> n <= k
    BY <1>6, <2>1, Zenon
  <2>. QED  BY <1>0, <2>1, <2>2
<1>. QED  BY <1>6, <1>7, Zenon DEF Sum

-----------------------------------------------------------------------------
(* Join *)

LEMMA JoinedStep ==
    ASSUME NEW ss, Len(ss) \in Nat
    PROVE  /\ Joined(ss)[0] = <<>>
           /\ \A i \in 1 .. Len(ss) : Joined(ss)[i] = Joined(ss)[i - 1] \o ss[i]
<1>. DEFINE n == Len(ss)
            joined == Joined(ss)
            Step(f, i) == IF i = 0 THEN <<>> ELSE f[i - 1] \o ss[i]
<1>1. joined = [i \in 0 .. n |-> Step(joined, i)]
  BY JoinedDef, Zenon
<1>. HIDE DEF joined
<1>2. \A i \in 0 .. n : joined[i] = Step(joined, i)
  BY <1>1, Zenon
<1>3. joined[0] = Step(joined, 0)
  BY <1>2
<1>4. ASSUME NEW i \in 1 .. n PROVE joined[i] = joined[i - 1] \o ss[i]
  <2>1. i \in 0 .. n /\ i # 0
    OBVIOUS
  <2>. QED  BY <1>2, <2>1, Zenon
<1>. QED  BY <1>3, <1>4, Zenon DEF joined

(* The joined list has the elements of the lists, and no others.           *)
LEMMA JoinHas ==
    ASSUME NEW S, NEW ss \in Seq(Seq(S))
    PROVE  /\ Join(ss) \in Seq(S)
           /\ \A i \in 1 .. Len(ss) : \A k \in 1 .. Len(ss[i]) :
                \E n \in 1 .. Len(Join(ss)) : Join(ss)[n] = ss[i][k]
           /\ \A n \in 1 .. Len(Join(ss)) :
                \E i \in 1 .. Len(ss) : \E k \in 1 .. Len(ss[i]) : Join(ss)[n] = ss[i][k]
<1>. DEFINE Has(s, j) == \A i \in 1 .. j : \A k \in 1 .. Len(ss[i]) :
                            \E n \in 1 .. Len(s) : s[n] = ss[i][k]
            From(s, j) == \A n \in 1 .. Len(s) :
                            \E i \in 1 .. j : \E k \in 1 .. Len(ss[i]) : s[n] = ss[i][k]
            Right(j) == /\ Joined(ss)[j] \in Seq(S)
                        /\ Has(Joined(ss)[j], j) /\ From(Joined(ss)[j], j)
            T == {j \in 0 .. Len(ss) : Right(j)}
<1>0. Len(ss) \in Nat /\ \A i \in 1 .. Len(ss) : ss[i] \in Seq(S)
  OBVIOUS
<1>1. 0 \in T
  <2>1. Joined(ss)[0] = <<>>
    BY <1>0, JoinedStep, Zenon
  <2>2. Right(0)
    BY <2>1
  <2>. HIDE DEF Right
  <2>. QED  BY <1>0, <2>2
<1>2. ASSUME NEW j \in 1 .. Len(ss), j - 1 \in T PROVE j \in T
  <2>. DEFINE a == Joined(ss)[j - 1]
              b == ss[j]
              c == Joined(ss)[j]
  <2>1. a \in Seq(S) /\ b \in Seq(S) /\ c = a \o b
    BY <1>0, <1>2, JoinedStep, Zenon
  <2>2. Has(a, j - 1) /\ From(a, j - 1)
    BY <1>2, Zenon
  <2>. HIDE DEF a, c
  <2>3. /\ c \in Seq(S) /\ Len(c) = Len(a) + Len(b) /\ Len(a) \in Nat /\ Len(b) \in Nat
        /\ \A n \in 1 .. Len(a) : c[n] = a[n]
        /\ \A k \in 1 .. Len(b) : c[Len(a) + k] = b[k]
    BY <2>1
  <2>4. Has(c, j)
    <3>. SUFFICES ASSUME NEW i \in 1 .. j, NEW k \in 1 .. Len(ss[i])
         PROVE  \E n \in 1 .. Len(c) : c[n] = ss[i][k]
      BY Zenon
    <3>1. CASE i = j
      <4>1. k \in 1 .. Len(b) /\ ss[i][k] = b[k]
        BY <3>1, Zenon
      <4>. HIDE DEF b
      <4>2. Len(a) + k \in 1 .. Len(c) /\ c[Len(a) + k] = b[k]
        BY <2>3, <4>1
      <4>. QED  BY <4>1, <4>2, Zenon
    <3>2. CASE i # j
      <4>1. i \in 1 .. j - 1
        BY <3>2
      <4>2. PICK n \in 1 .. Len(a) : a[n] = ss[i][k]
        BY <2>2, <4>1, Zenon
      <4>3. n \in 1 .. Len(c) /\ c[n] = ss[i][k]
        BY <2>3, <4>2
      <4>. QED  BY <4>3, Zenon
    <3>. QED  BY <3>1, <3>2, Zenon
  <2>5. From(c, j)
    <3>. SUFFICES ASSUME NEW n \in 1 .. Len(c)
         PROVE  \E i \in 1 .. j : \E k \in 1 .. Len(ss[i]) : c[n] = ss[i][k]
      BY Zenon
    <3>1. CASE n <= Len(a)
      <4>1. n \in 1 .. Len(a) /\ c[n] = a[n]
        BY <2>3, <3>1
      <4>2. PICK i \in 1 .. j - 1 : \E k \in 1 .. Len(ss[i]) : a[n] = ss[i][k]
        BY <2>2, <4>1, Zenon
      <4>3. i \in 1 .. j
        BY <4>2
      <4>. QED  BY <4>1, <4>2, <4>3, Zenon
    <3>2. CASE n > Len(a)
      <4>. DEFINE k == n - Len(a)
      <4>1. k \in 1 .. Len(b) /\ c[n] = b[k]
        <5>1. k \in 1 .. Len(b) /\ n = Len(a) + k
          BY <2>3, <3>2
        <5>. QED  BY <2>3, <5>1, Zenon
      <4>2. j \in 1 .. j
        OBVIOUS
      <4>. HIDE DEF k
      <4>. QED  BY <4>1, <4>2, Zenon
    <3>. QED  BY <2>3, <3>1, <3>2
  <2>. HIDE DEF Has, From
  <2>. QED  BY <2>3, <2>4, <2>5 DEF c
<1>. HIDE DEF T, Right
<1>3. 0 .. Len(ss) \subseteq T
  BY <1>0, <1>1, <1>2, BoundedInduction, Zenon
<1>4. Right(Len(ss))
  BY <1>0, <1>3 DEF T
<1>. QED  BY <1>4, Zenon DEF Join, Right

=============================================================================
