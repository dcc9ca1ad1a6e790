-------------------------- MODULE ConversionsProofs --------------------------
(***************************************************************************)
(* What the conversions compute, for every text.  They are loops, written  *)
(* as recursive functions over positions; each fact about all positions is *)
(* proved by looking at the least (or the last) one where it fails.        *)
(***************************************************************************)
EXTENDS Conversions, SequenceTheorems, FiniteSetTheorems, WellFoundedInduction, TLAPS

\* Every set of numbers has a least one.
LEMMA LeastOf ==
  ASSUME NEW T, T \subseteq Nat, T # {}
  PROVE  \E x \in T : \A y \in T : x <= y
  <1>1. PICK x \in T : \A y \in T : ~(<<y, x>> \in OpToRel(<, Nat))
    BY NatLessThanWellFounded, WFMin
  <1>2. \A y \in T : ~(y < x)
    BY <1>1 DEF OpToRel
  <1>3. QED
    BY <1>2

\* Every bounded set of numbers has a last one.
LEMMA LastIn ==
  ASSUME NEW n \in Nat, NEW T, T \subseteq 0 .. n, T # {}
  PROVE  \E x \in T : \A y \in T : y <= x
  <1>. DEFINE U == {m \in 0 .. n : n - m \in T}
  <1>1. PICK x \in T : x \in 0 .. n
    OBVIOUS
  <1>2. U \subseteq Nat /\ n - x \in U
    BY <1>1
  <1>3. PICK m \in U : \A k \in U : m <= k
    <2>. HIDE DEF U
    <2>1. QED
      BY <1>2, LeastOf
  <1>4. ASSUME NEW y \in T
        PROVE  y <= n - m
    <2>1. n - y \in 0 .. n /\ n - (n - y) = y
      BY <1>4
    <2>2. m <= n - y
      BY <1>3, <2>1
    <2>3. QED
      BY <1>4, <2>2
  <1>5. PICK z : z \in T /\ z = n - m
    BY <1>3
  <1>6. \A y \in T : y <= z
    BY <1>4, <1>5
  <1>7. QED
    BY <1>5, <1>6

-----------------------------------------------------------------------------
(* FlattenSeq.                                                             *)

\* What the parts up to the i-th give.
FlattenTo(f, seqs, n) ==
  f = [i \in 1 .. n |-> IF i = 1 THEN seqs[i] ELSE f[i - 1] \o seqs[i]]

\* The recursion has a solution.
LEMMA FlattenExists ==
  ASSUME NEW seqs, NEW n \in Nat
  PROVE  \E f : FlattenTo(f, seqs, n)
  <1>. DEFINE T == {m \in Nat : ~\E f : FlattenTo(f, seqs, m)}
  <1>1. SUFFICES ASSUME T # {} PROVE FALSE
    OBVIOUS
  <1>2. PICK m \in T : \A k \in T : m <= k
    BY <1>1, LeastOf
  <1>3. CASE m = 0
    <2>1. [i \in {} |-> {}] = [i \in 1 .. 0 |-> IF i = 1 THEN seqs[i] ELSE [j \in {} |-> {}][i - 1] \o seqs[i]]
      OBVIOUS
    <2>2. QED
      BY <1>2, <1>3, <2>1 DEF FlattenTo
  <1>4. CASE m # 0
    <2>1. m - 1 \in Nat /\ m - 1 \notin T /\ m \in Nat
      BY <1>2, <1>4
    <2>2. PICK g : FlattenTo(g, seqs, m - 1)
      BY <2>1
    <2>. DEFINE h == [i \in 1 .. m |-> IF i = m THEN IF m = 1 THEN seqs[m] ELSE g[m - 1] \o seqs[m] ELSE g[i]]
    <2>3. \A i \in 1 .. m - 1 : h[i] = g[i]
      BY <2>1
    <2>4. \A i \in 1 .. m - 1 : g[i] = IF i = 1 THEN seqs[i] ELSE g[i - 1] \o seqs[i]
      BY <2>2 DEF FlattenTo
    <2>5. \A i \in 1 .. m : h[i] = IF i = 1 THEN seqs[i] ELSE h[i - 1] \o seqs[i]
      <3>1. TAKE i \in 1 .. m
      <3>2. CASE i = m
        <4>1. h[i] = IF m = 1 THEN seqs[m] ELSE g[m - 1] \o seqs[m]
          BY <3>2
        <4>2. m # 1 => h[m - 1] = g[m - 1]
          BY <2>1, <2>3
        <4>3. QED
          BY <3>2, <4>1, <4>2
      <3>3. CASE i # m
        <4>1. i \in 1 .. m - 1 /\ (i # 1 => i - 1 \in 1 .. m - 1)
          BY <3>1, <3>3, <2>1
        <4>2. h[i] = g[i] /\ (i # 1 => h[i - 1] = g[i - 1])
          BY <4>1, <2>3
        <4>3. QED
          BY <2>4, <4>1, <4>2
      <3>4. QED
        BY <3>2, <3>3
    <2>6. FlattenTo(h, seqs, m)
      BY <2>5 DEF FlattenTo
    <2>7. QED
      BY <1>2, <2>6
  <1>5. QED
    BY <1>3, <1>4

LEMMA FlattenValue ==
  ASSUME NEW seqs, Len(seqs) \in Nat, Len(seqs) # 0
  PROVE  \E f : FlattenTo(f, seqs, Len(seqs)) /\ FlattenSeq(seqs) = f[Len(seqs)]
  <1>. DEFINE f == CHOOSE g : FlattenTo(g, seqs, Len(seqs))
  <1>1. FlattenTo(f, seqs, Len(seqs))
    BY FlattenExists
  <1>2. FlattenSeq(seqs) = f[Len(seqs)]
    BY DEF FlattenSeq, FlattenTo
  <1>3. QED
    BY <1>1, <1>2

(* The parts of seqs begin at 1, 1 + off[1], 1 + off[2] and so on. *)
IsOffset(off, seqs) ==
  /\ off \in [0 .. Len(seqs) -> Nat]
  /\ off[0] = 0
  /\ \A i \in 1 .. Len(seqs) : off[i] = off[i - 1] + Len(seqs[i])

(* t has the parts of seqs one after the other, and no more. *)
Joined(t, off, seqs) ==
  /\ IsOffset(off, seqs)
  /\ Len(t) = off[Len(seqs)]
  /\ \A i \in 1 .. Len(seqs) : \A k \in 1 .. Len(seqs[i]) :
       /\ off[i - 1] + k \in 1 .. Len(t)
       /\ t[off[i - 1] + k] = seqs[i][k]
  /\ \A p \in 1 .. Len(t) : \E i \in 1 .. Len(seqs) : p - off[i - 1] \in 1 .. Len(seqs[i])

\* The concatenation of parts: where each begins, and that there is no more.
LEMMA Flattened ==
  ASSUME NEW S, NEW seqs \in Seq(Seq(S))
  PROVE  /\ FlattenSeq(seqs) \in Seq(S)
         /\ \E off : Joined(FlattenSeq(seqs), off, seqs)
  <1>0. PICK n : n = Len(seqs)
    OBVIOUS
  <1>1. n \in Nat
    BY <1>0, LenProperties
  <1>2. \A i \in 1 .. n : seqs[i] \in Seq(S) /\ Len(seqs[i]) \in Nat
    BY <1>0, LenProperties, ElementOfSeq
  <1>3. CASE n = 0
    <2>1. seqs = <<>> /\ FlattenSeq(seqs) = <<>>
      BY <1>0, <1>3, EmptySeq DEF FlattenSeq
    <2>. DEFINE off == [i \in 0 .. 0 |-> 0]
    <2>2. IsOffset(off, seqs) /\ off[Len(seqs)] = 0
      <3>1. off \in [0 .. 0 -> Nat] /\ off[0] = 0
        OBVIOUS
      <3>2. QED
        BY <1>0, <1>3, <3>1 DEF IsOffset
    <2>3. FlattenSeq(seqs) \in Seq(S) /\ Len(FlattenSeq(seqs)) = 0
      BY <2>1, EmptySeq
    <2>4. QED
      BY <1>0, <1>3, <2>2, <2>3 DEF Joined
  <1>4. CASE n # 0
    <2>1. PICK f : FlattenTo(f, seqs, n) /\ FlattenSeq(seqs) = f[n]
      BY <1>0, <1>1, <1>4, FlattenValue
    <2>2. f[1] = seqs[1] /\ \A i \in 2 .. n : f[i] = f[i - 1] \o seqs[i]
      <3>1. \A i \in 1 .. n : f[i] = IF i = 1 THEN seqs[i] ELSE f[i - 1] \o seqs[i]
        BY <2>1 DEF FlattenTo
      <3>2. 1 \in 1 .. n /\ \A i \in 2 .. n : i \in 1 .. n /\ i # 1
        BY <1>1, <1>4
      <3>3. QED
        BY <3>1, <3>2
    <2>3. PICK off : /\ DOMAIN off = 0 .. n /\ off = [i \in 0 .. n |-> off[i]]
                     /\ off[0] = 0
                     /\ \A i \in 1 .. n : off[i] = Len(f[i])
      <3>. DEFINE o == [i \in 0 .. n |-> IF i = 0 THEN 0 ELSE Len(f[i])]
      <3>1. DOMAIN o = 0 .. n /\ o = [i \in 0 .. n |-> o[i]] /\ o[0] = 0 /\ \A i \in 1 .. n : o[i] = Len(f[i])
        BY <1>1
      <3>. HIDE DEF o
      <3>2. QED
        BY <3>1
    <2>. DEFINE
         Good(i) ==
           /\ f[i] \in Seq(S) /\ Len(f[i]) \in Nat
           /\ off[i] = off[i - 1] + Len(seqs[i])
           /\ \A j \in 1 .. i : \A k \in 1 .. Len(seqs[j]) :
                off[j - 1] + k \in 1 .. off[i] /\ f[i][off[j - 1] + k] = seqs[j][k]
           /\ \A p \in 1 .. off[i] : \E j \in 1 .. i : p - off[j - 1] \in 1 .. Len(seqs[j])
    <2>4. Good(1)
      <3>1. 1 \in 1 .. n /\ 1 .. 1 = {1} /\ 1 - 1 = 0
        BY <1>1, <1>4
      <3>2. /\ f[1] \in Seq(S) /\ Len(f[1]) \in Nat
            /\ off[1] = Len(seqs[1]) /\ f[1] = seqs[1] /\ off[0] = 0
        BY <1>2, <2>2, <2>3, <3>1
      <3>3. \A k \in 1 .. Len(seqs[1]) : 0 + k = k /\ k - 0 = k
        BY <3>2
      <3>4. off[1] = 0 + Len(seqs[1])
        BY <3>2
      <3>5. QED
        BY <3>1, <3>2, <3>3, <3>4
    <2>5. ASSUME NEW i \in 2 .. n, Good(i - 1)
          PROVE  Good(i)
      <3>0. PICK a, b : a = off[i - 1] /\ b = Len(seqs[i])
        OBVIOUS
      <3>1. i \in 1 .. n /\ i - 1 \in 1 .. n /\ i - 1 \in 1 .. i /\ i \in Nat
        BY <1>1
      <3>2. /\ f[i] = f[i - 1] \o seqs[i]
            /\ f[i - 1] \in Seq(S) /\ Len(f[i - 1]) = a /\ a \in Nat
            /\ seqs[i] \in Seq(S) /\ b \in Nat
        BY <1>2, <2>2, <2>3, <2>5, <3>0, <3>1
      <3>3. /\ f[i] \in Seq(S) /\ Len(f[i]) = a + b
            /\ \A k \in 1 .. a + b : f[i][k] = IF k <= a THEN f[i - 1][k] ELSE seqs[i][k - a]
        <4>1. PICK s, t : s \in Seq(S) /\ t \in Seq(S) /\ s = f[i - 1] /\ t = seqs[i]
          BY <3>2
        <4>2. Len(s) = a /\ Len(t) = b /\ f[i] = s \o t
          BY <3>0, <3>2, <4>1
        <4>3. /\ s \o t \in Seq(S) /\ Len(s \o t) = Len(s) + Len(t)
              /\ \A k \in 1 .. Len(s) + Len(t) : (s \o t)[k] = IF k <= Len(s) THEN s[k] ELSE t[k - Len(s)]
          BY <4>1, ConcatProperties
        <4>4. QED
          BY <4>1, <4>2, <4>3
      <3>4. off[i] = a + b
        BY <2>3, <3>1, <3>3
      <3>5. ASSUME NEW j \in 1 .. i, NEW k \in 1 .. Len(seqs[j])
            PROVE  off[j - 1] + k \in 1 .. off[i] /\ f[i][off[j - 1] + k] = seqs[j][k]
        <4>1. CASE j = i
          <5>1. k \in 1 .. b
            BY <3>0, <4>1
          <5>2. a + k \in 1 .. a + b /\ ~(a + k <= a) /\ a + k - a = k
            BY <3>2, <5>1
          <5>3. off[j - 1] = a /\ seqs[j] = seqs[i]
            BY <3>0, <4>1
          <5>4. \A z \in 1 .. a + b : ~(z <= a) => f[i][z] = seqs[i][z - a]
            BY <3>3
          <5>5. QED
            <6>1. PICK z : z = a + k
              OBVIOUS
            <6>2. z \in 1 .. a + b /\ ~(z <= a) /\ z - a = k
              BY <3>2, <5>1, <6>1
            <6>3. f[i][z] = seqs[i][k]
              BY <5>4, <6>2
            <6>4. QED
              BY <3>4, <5>3, <6>1, <6>2, <6>3
        <4>2. CASE j # i
          <5>1. off[j - 1] + k \in 1 .. a /\ f[i - 1][off[j - 1] + k] = seqs[j][k]
            BY <2>5, <3>0, <3>1, <4>2
          <5>2. off[j - 1] + k \in 1 .. a + b /\ off[j - 1] + k <= a
            BY <3>2, <5>1
          <5>3. QED
            BY <3>3, <3>4, <5>1, <5>2
        <4>3. QED
          BY <4>1, <4>2
      <3>6. ASSUME NEW p \in 1 .. off[i]
            PROVE  \E j \in 1 .. i : p - off[j - 1] \in 1 .. Len(seqs[j])
        <4>1. CASE p <= a
          <5>1. p \in 1 .. a
            BY <3>2, <3>4, <4>1
          <5>2. \E j \in 1 .. i - 1 : p - off[j - 1] \in 1 .. Len(seqs[j])
            BY <2>5, <3>0, <5>1
          <5>3. QED
            BY <3>1, <5>2
        <4>2. CASE ~(p <= a)
          <5>1. p - a \in 1 .. b
            BY <3>2, <3>4, <4>2
          <5>2. QED
            BY <3>0, <3>1, <5>1
        <4>3. QED
          BY <4>1, <4>2
      <3>7. QED
        <4>1. a + b \in Nat
          BY <3>2
        <4>2. off[i] = off[i - 1] + Len(seqs[i]) /\ f[i] \in Seq(S) /\ Len(f[i]) \in Nat
          BY <3>0, <3>3, <3>4, <4>1
        <4>3. QED
          BY <3>5, <3>6, <4>2
    <2>. HIDE DEF Good
    <2>6. \A i \in 1 .. n : Good(i)
      <3>. DEFINE T == {i \in 1 .. n : ~Good(i)}
      <3>1. SUFFICES ASSUME T # {} PROVE FALSE
        OBVIOUS
      <3>2. PICK i \in T : \A k \in T : i <= k
        <4>1. T \subseteq Nat
          OBVIOUS
        <4>. HIDE DEF T
        <4>2. QED
          BY <3>1, <4>1, LeastOf
      <3>3. i # 1
        BY <2>4
      <3>4. i \in 2 .. n /\ i - 1 \in 1 .. n /\ i - 1 \notin T
        BY <1>1, <3>2, <3>3
      <3>5. QED
        BY <2>5, <3>4
    <2>7. Good(n)
      BY <1>1, <1>4, <2>6
    <2>8. off \in [0 .. n -> Nat]
      <3>1. \A i \in 1 .. n : off[i] \in Nat
        BY <2>3, <2>6 DEF Good
      <3>2. \A i \in 0 .. n : i = 0 \/ i \in 1 .. n
        BY <1>1
      <3>3. ASSUME NEW i \in 0 .. n
            PROVE  off[i] \in Nat
        <4>1. off[0] \in Nat
          BY <2>3
        <4>2. QED
          BY <3>1, <3>2, <4>1, Zenon
      <3>4. QED
        BY <2>3, <3>3
    <2>9. \A i \in 1 .. n : off[i] = off[i - 1] + Len(seqs[i])
      BY <2>6 DEF Good
    <2>10. IsOffset(off, seqs)
      BY <1>0, <2>3, <2>8, <2>9 DEF IsOffset
    <2>11. off[n] = Len(f[n])
      BY <1>1, <1>4, <2>3
    <2>12. FlattenSeq(seqs) \in Seq(S) /\ Len(FlattenSeq(seqs)) = off[n]
      BY <2>1, <2>7, <2>11 DEF Good
    <2>13. \A i \in 1 .. n : \A k \in 1 .. Len(seqs[i]) :
             /\ off[i - 1] + k \in 1 .. off[n]
             /\ FlattenSeq(seqs)[off[i - 1] + k] = seqs[i][k]
      BY <2>1, <2>7 DEF Good
    <2>14. \A p \in 1 .. off[n] : \E i \in 1 .. n : p - off[i - 1] \in 1 .. Len(seqs[i])
      BY <2>7 DEF Good
    <2>15. QED
      <3>1. Joined(FlattenSeq(seqs), off, seqs)
        BY <1>0, <2>10, <2>12, <2>13, <2>14 DEF Joined
      <3>2. QED
        BY <2>12, <3>1
  <1>5. QED
    BY <1>3, <1>4

\* The lengths that parts have: parameters, groups of base64, groups of URLS.
PartLengths == {2, 3, 4, 5}

\* The first n parts have one length.
Even(seqs, n, L) == \A i \in 1 .. n : Len(seqs[i]) = L

\* Parts of one length begin at its multiples.
LEMMA EvenOffsets ==
  ASSUME NEW seqs, Len(seqs) \in Nat, NEW off, IsOffset(off, seqs),
         NEW L \in PartLengths, NEW n \in 0 .. Len(seqs),
         Even(seqs, n, L)
  PROVE  \A i \in 0 .. n : off[i] = L * i
  <1>. DEFINE T == {i \in 0 .. n : off[i] # L * i}
  <1>1. SUFFICES ASSUME T # {} PROVE FALSE
    OBVIOUS
  <1>2. PICK i \in T : \A k \in T : i <= k
    <2>1. T \subseteq Nat
      OBVIOUS
    <2>. HIDE DEF T
    <2>2. QED
      BY <1>1, <2>1, LeastOf
  <1>3. Len(seqs) \in Nat
    OBVIOUS
  <1>4. CASE i = 0
    <2>1. off[0] = 0 /\ L * 0 = 0
      BY DEF IsOffset, PartLengths
    <2>2. QED
      BY <1>2, <1>4, <2>1
  <1>5. CASE i # 0
    <2>1. i - 1 \in 0 .. n /\ i \in 1 .. n /\ i \in 1 .. Len(seqs) /\ i - 1 \notin T
      BY <1>2, <1>3, <1>5
    <2>2. off[i - 1] = L * (i - 1) /\ off[i] = off[i - 1] + L
      BY <2>1 DEF IsOffset, Even
    <2>3. L * (i - 1) + L = L * i
      <3>1. CASE L = 2
        BY <2>1, <3>1
      <3>2. CASE L = 3
        BY <2>1, <3>2
      <3>3. CASE L = 4
        BY <2>1, <3>3
      <3>4. CASE L = 5
        BY <2>1, <3>4
      <3>5. QED
        BY <3>1, <3>2, <3>3, <3>4 DEF PartLengths
    <2>4. QED
      BY <1>2, <2>2, <2>3
  <1>6. QED
    BY <1>4, <1>5

-----------------------------------------------------------------------------
(* The time to live of an order.                                           *)

\* The time to live e of an order for d days, as ExpiryNotEarly has it.
IsExpiry(e, d) ==
  /\ d \in 1 .. 24855 => e = d * DayUnits
  /\ d <= 49710 => e \in {d * DayUnits, Forever} /\ e # 0

\* OrderExpiry keeps the days it was given, or gives none at all.
LEMMA ExpiryFits ==
  ASSUME NEW d \in Nat
  PROVE  IsExpiry(OrderExpiry(d), d)
  <1>1. ASSUME 1 <= d, d <= 24855
        PROVE  OrderExpiry(d) = d * DayUnits /\ d * DayUnits > 0
    <2>1. int32(d * DayUnits) = d * DayUnits /\ d * DayUnits > 0
      BY <1>1, SMT DEF int32, DayUnits
    <2>2. QED
      BY <2>1, SMT DEF OrderExpiry
  <1>2. ASSUME 24856 <= d, d <= 49710
        PROVE  OrderExpiry(d) = Forever
    <2>1. ASSUME NEW v \in Nat, 33554432 <= v, v < 67108864
          PROVE  v % 33554432 = v - 33554432
      BY <2>1, SMT
    <2>2. PICK v \in Nat : v = d * DayUnits + 16777216
      BY SMT DEF DayUnits
    <2>3. 33554432 <= v /\ v <= 50331466
      BY <1>2, <2>2, SMT DEF DayUnits
    <2>4. int32(d * DayUnits) = v - 33554432 - 16777216
      BY <2>1, <2>2, <2>3, SMT DEF int32
    <2>5. int32(d * DayUnits) <= 0
      BY <2>3, <2>4, SMT
    <2>6. QED
      BY <2>4, <2>5, SMT DEF OrderExpiry
  <1>3. d = 0 => OrderExpiry(d) = Forever
    <2>1. int32(0 * DayUnits) = 0
      BY SMT DEF int32, DayUnits
    <2>2. QED
      BY <2>1, SMT DEF OrderExpiry
  <1>4. Forever # 0
    BY SMT DEF Forever
  <1>5. (1 <= d /\ d <= 24855) \/ (24856 <= d /\ d <= 49710) \/ d = 0 \/ ~(d <= 49710)
    BY SMT
  <1>6. d * DayUnits > 0 => d * DayUnits # 0
    BY SMT DEF DayUnits
  <1>7. d \in 1 .. 24855 => 1 <= d /\ d <= 24855
    BY SMT
  <1>8. ASSUME d \in 1 .. 24855
        PROVE  OrderExpiry(d) = d * DayUnits
    BY <1>1, <1>7, <1>8, SMT
  <1>9. ASSUME d <= 49710
        PROVE  OrderExpiry(d) \in {d * DayUnits, Forever} /\ OrderExpiry(d) # 0
    BY <1>1, <1>2, <1>3, <1>4, <1>5, <1>6, <1>9, SMT
  <1>10. QED
    BY <1>8, <1>9, SMT DEF IsExpiry

-----------------------------------------------------------------------------
(* The parameters of a request.                                            *)

\* A good parameter: all parts up to its own have two tokens, and its key does
\* not come again in a later part.
LEMMA ParamKept ==
  ASSUME NEW W, NEW q \in Seq(Seq(W)), NEW i \in 1 .. Len(q),
         \A j \in 1 .. i : Len(q[j]) = 2,
         \A j \in 1 .. Len(q) : j > i => \A k \in 1 .. Len(q[j]) : q[j][k] # q[i][1]
  PROVE  q[i][1] \in DOMAIN Params(q) /\ Params(q)[q[i][1]] = q[i][2]
  <1>1. PICK t : t = FlattenSeq(q)
    OBVIOUS
  <1>0. t \in Seq(W)
    BY <1>1, Flattened
  <1>2. PICK off : /\ IsOffset(off, q)
                   /\ \A j \in 1 .. Len(q) : \A k \in 1 .. Len(q[j]) :
                        /\ off[j - 1] + k \in 1 .. Len(t)
                        /\ t[off[j - 1] + k] = q[j][k]
                   /\ \A p \in 1 .. Len(t) : \E j \in 1 .. Len(q) :
                        p - off[j - 1] \in 1 .. Len(q[j])
    <2>1. PICK off : Joined(t, off, q)
      BY <1>1, Flattened
    <2>2. QED
      BY <2>1 DEF Joined
  <1>3. Len(q) \in Nat /\ Len(t) \in Nat /\ DOMAIN t = 1 .. Len(t)
    BY <1>0, LenProperties
  <1>4. \A j \in 0 .. i : off[j] = 2 * j
    <2>1. i \in 0 .. Len(q)
      BY <1>3
    <2>2. IsOffset(off, q)
      BY <1>2
    <2>3. PICK L \in PartLengths : L = 2
      BY DEF PartLengths
    <2>4. Even(q, i, L)
      BY <2>3 DEF Even
    <2>5. \A j \in 0 .. i : off[j] = L * j
      BY <1>3, <2>1, <2>2, <2>4, EvenOffsets
    <2>6. QED
      BY <2>3, <2>5
  <1>5. /\ 2 * i - 1 \in 1 .. Len(t) /\ t[2 * i - 1] = q[i][1]
        /\ 2 * i \in 1 .. Len(t) /\ t[2 * i] = q[i][2]
    <2>1. i - 1 \in 0 .. i /\ i \in 1 .. i /\ i \in Int
      OBVIOUS
    <2>2. off[i - 1] = 2 * (i - 1) /\ Len(q[i]) = 2
      BY <1>4, <2>1
    <2>3. off[i - 1] + 1 = 2 * i - 1 /\ off[i - 1] + 2 = 2 * i
      BY <2>1, <2>2
    <2>4. /\ off[i - 1] + 1 \in 1 .. Len(t) /\ t[off[i - 1] + 1] = q[i][1]
          /\ off[i - 1] + 2 \in 1 .. Len(t) /\ t[off[i - 1] + 2] = q[i][2]
      <3>1. 1 \in 1 .. Len(q[i]) /\ 2 \in 1 .. Len(q[i])
        BY <2>2
      <3>2. QED
        BY <1>2, <3>1, Zenon
    <2>5. QED
      BY <2>3, <2>4
  <1>6. ASSUME NEW p \in 1 .. Len(t), p > 2 * i
        PROVE  t[p] # q[i][1]
    <2>1. PICK j \in 1 .. Len(q) : p - off[j - 1] \in 1 .. Len(q[j])
      BY <1>2, Zenon
    <2>2. PICK o : o = off[j - 1] /\ o \in Nat
      <3>1. j - 1 \in 0 .. Len(q)
        BY <1>3
      <3>2. QED
        BY <1>2, <3>1 DEF IsOffset
    <2>3. PICK k : k = p - o /\ k \in 1 .. Len(q[j]) /\ o + k = p
      BY <2>1, <2>2
    <2>4. t[p] = q[j][k]
      <3>1. t[off[j - 1] + k] = q[j][k]
        BY <1>2, <2>3, Zenon
      <3>2. QED
        BY <2>2, <2>3, <3>1
    <2>5. j > i
      <3>1. SUFFICES ASSUME j \in 1 .. i PROVE FALSE
        BY <1>3
      <3>2. j - 1 \in 0 .. i /\ j \in Int /\ i \in Int
        BY <3>1
      <3>3. o = 2 * (j - 1) /\ k <= 2
        <4>1. off[j - 1] = 2 * (j - 1)
          BY <1>4, <3>2
        <4>2. Len(q[j]) = 2
          BY <3>1
        <4>3. QED
          BY <2>2, <2>3, <4>1, <4>2
      <3>4. QED
        BY <1>6, <2>3, <3>1, <3>2, <3>3
    <2>6. QED
      BY <2>3, <2>4, <2>5
  <1>. DEFINE values == {n \in DOMAIN t : n % 2 = 0}
              of(k) == {n \in values : t[n - 1] = k}
              last(k) == CHOOSE n \in of(k) : \A j \in of(k) : j <= n
  <1>7. Params(q) = [k \in {t[n - 1] : n \in values} |-> t[last(k)]]
    BY <1>1 DEF Params
  <1>8. 2 * i \in of(q[i][1])
    BY <1>3, <1>5
  <1>9. \A n \in of(q[i][1]) : n <= 2 * i
    <2>1. SUFFICES ASSUME NEW n \in of(q[i][1]), n > 2 * i PROVE FALSE
      BY <1>3
    <2>2. n \in 1 .. Len(t) /\ n % 2 = 0 /\ t[n - 1] = q[i][1]
      BY <1>3, <2>1
    <2>3. n - 1 \in 1 .. Len(t) /\ n - 1 > 2 * i
      <3>1. i \in Int /\ n \in Int
        BY <2>2
      <3>2. (2 * i + 1) % 2 = 1
        BY <3>1
      <3>3. n # 2 * i + 1
        BY <2>2, <3>2
      <3>4. n > 2 * i /\ n <= Len(t) /\ i >= 1
        BY <2>1, <2>2
      <3>5. PICK e \in Int : e = 2 * i
        BY <3>1
      <3>6. n - 1 > e /\ e >= 2
        BY <3>1, <3>3, <3>4, <3>5
      <3>7. QED
        <4>1. n - 1 \in Int /\ n - 1 >= 1 /\ n - 1 <= Len(t)
          BY <1>3, <3>1, <3>4, <3>6
        <4>2. QED
          BY <3>5, <3>6, <4>1
    <2>4. QED
      BY <1>6, <2>2, <2>3
  <1>10. last(q[i][1]) = 2 * i
    <2>1. \A n \in of(q[i][1]) : n \in Int
      BY <1>3
    <2>2. last(q[i][1]) \in of(q[i][1]) /\ \A j \in of(q[i][1]) : j <= last(q[i][1])
      BY <1>8, <1>9
    <2>. HIDE DEF last, of
    <2>3. last(q[i][1]) <= 2 * i /\ 2 * i <= last(q[i][1])
      BY <1>8, <1>9, <2>2
    <2>4. QED
      BY <1>8, <2>1, <2>2, <2>3
  <1>11. q[i][1] \in {t[n - 1] : n \in values}
    BY <1>8
  <1>12. QED
    <2>. HIDE DEF last, values
    <2>1. Params(q)[q[i][1]] = t[last(q[i][1])] /\ q[i][1] \in DOMAIN Params(q)
      BY <1>7, <1>11
    <2>2. QED
      BY <1>5, <1>10, <2>1

-----------------------------------------------------------------------------
(* Escapes.                                                                *)

\* The four bits of an or.
LEMMA Or4Facts ==
  ASSUME NEW a \in 0 .. 15, NEW b \in 0 .. 15
  PROVE  Or4(a, b) \in 0 .. 15 /\ Or4(a, 0) = a
  <1>. DEFINE bit(c, e) == IF (a \div e) % 2 = 1 \/ (c \div e) % 2 = 1 THEN e ELSE 0
  <1>1. \A c : Or4(a, c) = bit(c, 8) + bit(c, 4) + bit(c, 2) + bit(c, 1)
    BY DEF Or4
  <1>2. bit(b, 8) \in {0, 8} /\ bit(b, 4) \in {0, 4} /\ bit(b, 2) \in {0, 2} /\ bit(b, 1) \in {0, 1}
    OBVIOUS
  <1>3. \A e \in {8, 4, 2, 1} : (0 \div e) % 2 = 0 /\ (a \div e) % 2 \in {0, 1}
    OBVIOUS
  <1>4. \A e \in {8, 4, 2, 1} : bit(0, e) = e * ((a \div e) % 2)
    BY <1>3
  <1>5. a = 8 * ((a \div 8) % 2) + 4 * ((a \div 4) % 2) + 2 * ((a \div 2) % 2) + ((a \div 1) % 2)
    OBVIOUS
  <1>6. PICK x8 \in {0, 8}, x4 \in {0, 4}, x2 \in {0, 2}, x1 \in {0, 1} : Or4(a, b) = x8 + x4 + x2 + x1
    <2>. HIDE DEF bit
    <2>1. QED
      BY <1>1, <1>2
  <1>7. Or4(a, b) \in 0 .. 15
    BY <1>6
  <1>8. /\ bit(0, 8) = 8 * ((a \div 8) % 2) /\ bit(0, 4) = 4 * ((a \div 4) % 2)
        /\ bit(0, 2) = 2 * ((a \div 2) % 2) /\ bit(0, 1) = 1 * ((a \div 1) % 2)
    <2>. HIDE DEF bit
    <2>1. QED
      BY <1>4
  <1>9. Or4(a, 0) = a
    <2>. HIDE DEF bit
    <2>1. QED
      BY <1>1, <1>5, <1>8
  <1>10. QED
    BY <1>7, <1>9

\* Two characters make a byte, whatever they are.
LEMMA HexByteRange ==
  ASSUME NEW hi \in Int, NEW lo \in Int
  PROVE  HexByte(hi, lo) \in 0 .. 255
  <1>1. hi % 16 \in 0 .. 15 /\ (lo % 256) \div 16 \in 0 .. 15 /\ lo % 16 \in 0 .. 15
    OBVIOUS
  <1>2. PICK r \in 0 .. 15 : r = Or4(hi % 16, (lo % 256) \div 16)
    BY <1>1, Or4Facts
  <1>3. QED
    BY <1>1, <1>2 DEF HexByte

LEMMA FromHexInt ==
  ASSUME NEW ch \in Int
  PROVE  from_hex(ch) \in Int
  BY DEF from_hex

\* The digits of a byte give it back.
LEMMA HexRoundTrip ==
  ASSUME NEW c \in 0 .. 255
  PROVE  HexByte(from_hex(to_hex(c \div 16)), from_hex(to_hex(c % 16))) = c
  <1>1. ASSUME NEW x \in 0 .. 15
        PROVE  from_hex(to_hex(x)) = x
    BY DEF from_hex, to_hex, Digits, Upper
  <1>2. PICK h \in 0 .. 15, l \in 0 .. 15 : h = c \div 16 /\ l = c % 16 /\ c = 16 * h + l
    OBVIOUS
  <1>3. h % 16 = h /\ l % 256 = l /\ l \div 16 = 0 /\ l % 16 = l
    OBVIOUS
  <1>4. HexByte(h, l) = 16 * Or4(h, 0) + l
    BY <1>3 DEF HexByte
  <1>5. QED
    BY <1>1, <1>2, <1>4, Or4Facts

-----------------------------------------------------------------------------
(* url_decode: the loop.                                                   *)

\* If something holds from p + 1 on it holds at p: then it holds everywhere.
LEMMA Downward ==
  ASSUME NEW n \in Nat, NEW T,
         \A p \in 0 .. n : (\A r \in p + 1 .. n : r \in T) => p \in T
  PROVE  \A p \in 0 .. n : p \in T
  <1>. DEFINE U == {p \in 0 .. n : p \notin T}
  <1>1. SUFFICES ASSUME U # {} PROVE FALSE
    OBVIOUS
  <1>2. PICK p \in U : \A r \in U : r <= p
    <2>1. U \subseteq 0 .. n
      OBVIOUS
    <2>. HIDE DEF U
    <2>2. QED
      BY <1>1, <2>1, LastIn
  <1>3. \A r \in p + 1 .. n : r \in T
    BY <1>2
  <1>4. QED
    BY <1>3

\* One turn of the loop, d being what the rest gives.
DecodeStep(d, s, p) ==
  IF p > Len(s) THEN << >>
  ELSE IF s[p] = Percent /\ p + 2 <= Len(s)
       THEN <<HexByte(from_hex(s[p + 1]), from_hex(s[p + 2]))>> \o d[p + 3]
  ELSE IF s[p] = Percent THEN d[p + 1]
  ELSE IF s[p] = Plus THEN <<Space>> \o d[p + 1]
  ELSE <<s[p]>> \o d[p + 1]

LEMMA DecodeStepSame ==
  ASSUME NEW s, Len(s) \in Nat, NEW d, NEW e, NEW p \in 1 .. Len(s) + 3,
         \A r \in p + 1 .. Len(s) + 3 : d[r] = e[r]
  PROVE  DecodeStep(d, s, p) = DecodeStep(e, s, p)
  <1>1. CASE p > Len(s)
    BY <1>1 DEF DecodeStep
  <1>2. CASE ~(p > Len(s))
    <2>1. d[p + 1] = e[p + 1] /\ d[p + 3] = e[p + 3]
      BY <1>2
    <2>2. QED
      BY <2>1 DEF DecodeStep
  <1>3. QED
    BY <1>1, <1>2

DecodeTo(d, s) == d = [p \in 1 .. Len(s) + 3 |-> DecodeStep(d, s, p)]

LEMMA DecodeExists ==
  ASSUME NEW s, Len(s) \in Nat
  PROVE  \E d : DecodeTo(d, s)
  <1>0. PICK n \in Nat : n = Len(s) + 3
    OBVIOUS
  <1>. DEFINE From(p) == \E d : /\ d = [r \in 1 .. n |-> d[r]]
                               /\ \A r \in 1 .. n : r > p => d[r] = DecodeStep(d, s, r)
              T == {p \in 0 .. n : From(p)}
  <1>1. ASSUME NEW p \in 0 .. n, \A r \in p + 1 .. n : r \in T
        PROVE  p \in T
    <2>1. CASE p = n
      <3>. DEFINE d == [r \in 1 .. n |-> 0]
      <3>1. d = [r \in 1 .. n |-> d[r]] /\ \A r \in 1 .. n : ~(r > p)
        BY <2>1
      <3>. HIDE DEF d
      <3>2. QED
        BY <3>1
    <2>2. CASE p # n
      <3>1. p + 1 \in T /\ p + 1 \in 1 .. n
        BY <1>1, <2>2
      <3>2. PICK d : /\ d = [r \in 1 .. n |-> d[r]]
                     /\ \A r \in 1 .. n : r > p + 1 => d[r] = DecodeStep(d, s, r)
        BY <3>1
      <3>3. PICK e : /\ e = [r \in 1 .. n |-> e[r]]
                     /\ e[p + 1] = DecodeStep(d, s, p + 1)
                     /\ \A r \in 1 .. n : r # p + 1 => e[r] = d[r]
        <4>. DEFINE h == [r \in 1 .. n |-> IF r = p + 1 THEN DecodeStep(d, s, p + 1) ELSE d[r]]
        <4>1. /\ h = [r \in 1 .. n |-> h[r]]
              /\ h[p + 1] = DecodeStep(d, s, p + 1)
              /\ \A r \in 1 .. n : r # p + 1 => h[r] = d[r]
          BY <3>1
        <4>. HIDE DEF h
        <4>2. QED
          BY <4>1
      <3>4. ASSUME NEW r \in 1 .. n, r > p
            PROVE  e[r] = DecodeStep(e, s, r)
        <4>1. \A k \in r + 1 .. Len(s) + 3 : d[k] = e[k]
          BY <1>0, <3>3, <3>4
        <4>2. DecodeStep(d, s, r) = DecodeStep(e, s, r)
          BY <1>0, <4>1, DecodeStepSame
        <4>3. QED
          BY <3>1, <3>2, <3>3, <3>4, <4>2
      <3>5. QED
        BY <3>3, <3>4
    <2>3. QED
      BY <2>1, <2>2
  <1>2. 0 \in T
    <2>1. 0 \in 0 .. n
      OBVIOUS
    <2>. HIDE DEF T
    <2>2. QED
      BY <1>1, <2>1, Downward
  <1>3. PICK d : d = [r \in 1 .. n |-> d[r]] /\ \A r \in 1 .. n : r > 0 => d[r] = DecodeStep(d, s, r)
    BY <1>2
  <1>4. \A r \in 1 .. n : d[r] = DecodeStep(d, s, r)
    BY <1>3
  <1>5. QED
    BY <1>0, <1>3, <1>4 DEF DecodeTo

\* What DecodeAt gives.
LEMMA DecodeLoop ==
  ASSUME NEW s, Len(s) \in Nat
  PROVE  \E d : /\ DecodeAt(s) = d[1]
                /\ \A p \in 1 .. Len(s) + 3 : d[p] = DecodeStep(d, s, p)
  <1>. DEFINE d == CHOOSE e : DecodeTo(e, s)
  <1>1. DecodeTo(d, s)
    BY DecodeExists
  <1>2. DecodeAt(s) = d[1]
    BY DEF DecodeAt, DecodeTo, DecodeStep
  <1>. HIDE DEF d
  <1>3. \A p \in 1 .. Len(s) + 3 : d[p] = DecodeStep(d, s, p)
    BY <1>1 DEF DecodeTo
  <1>4. QED
    BY <1>2, <1>3

\* What is left of a text when it is cut: its beginning, up to the first c.
LEMMA CutFacts ==
  ASSUME NEW S, NEW s \in Seq(S), NEW c
  PROVE  /\ CutAt(s, c) \in Seq(S) /\ Len(CutAt(s, c)) <= Len(s)
         /\ \A i \in 1 .. Len(CutAt(s, c)) : CutAt(s, c)[i] = s[i] /\ s[i] # c
         /\ Len(CutAt(s, c)) = Len(s) \/ s[Len(CutAt(s, c)) + 1] = c
         /\ (\A i \in 1 .. Len(s) : s[i] # c) => CutAt(s, c) = s
  <1>. DEFINE at == {i \in DOMAIN s : s[i] = c}
  <1>1. Len(s) \in Nat /\ DOMAIN s = 1 .. Len(s) /\ \A i \in 1 .. Len(s) : s[i] \in S
    BY LenProperties, ElementOfSeq
  <1>2. CASE at = {}
    <2>1. CutAt(s, c) = s
      BY <1>2 DEF CutAt
    <2>2. QED
      BY <1>1, <1>2, <2>1
  <1>3. CASE at # {}
    <2>1. PICK m \in at : \A i \in at : m <= i
      <3>1. at \subseteq Nat
        BY <1>1
      <3>. HIDE DEF at
      <3>2. QED
        BY <1>3, <3>1, LeastOf
    <2>2. m = CHOOSE i \in at : \A j \in at : i <= j
      <3>. DEFINE k == CHOOSE i \in at : \A j \in at : i <= j
      <3>1. k \in at /\ \A j \in at : k <= j
        BY <2>1
      <3>2. at \subseteq Int
        BY <1>1
      <3>. HIDE DEF at, k
      <3>3. k <= m /\ m <= k /\ k \in Int /\ m \in Int
        BY <2>1, <3>1, <3>2
      <3>4. m = k
        BY <3>3
      <3>5. QED
        BY <3>4 DEF k
    <2>3. CutAt(s, c) = SubSeq(s, 1, m - 1)
      BY <1>3, <2>2 DEF CutAt
    <2>4. m \in 1 .. Len(s) /\ s[m] = c /\ \A i \in 1 .. m - 1 : i \in 1 .. Len(s) /\ s[i] # c
      BY <1>1, <2>1
    <2>5. \A i \in 1 .. m - 1 : s[i] \in S
      BY <1>1, <2>4
    <2>6. /\ SubSeq(s, 1, m - 1) \in Seq(S) /\ Len(SubSeq(s, 1, m - 1)) = m - 1
          /\ \A i \in 1 .. m - 1 : SubSeq(s, 1, m - 1)[i] = s[i]
      <3>1. 1 \in Int /\ m - 1 \in Int /\ m - 1 >= 0
        BY <1>1, <2>4
      <3>2. /\ SubSeq(s, 1, m - 1) \in Seq(S)
            /\ Len(SubSeq(s, 1, m - 1)) = IF 1 <= m - 1 THEN (m - 1) - 1 + 1 ELSE 0
            /\ \A i \in 1 .. (m - 1) - 1 + 1 : SubSeq(s, 1, m - 1)[i] = s[1 + i - 1]
        BY <2>5, <3>1, SubSeqProperties
      <3>3. \A i \in 1 .. m - 1 : 1 + i - 1 = i /\ i \in 1 .. (m - 1) - 1 + 1
        BY <3>1
      <3>4. QED
        BY <3>1, <3>2, <3>3
    <2>7. QED
      BY <1>1, <2>3, <2>4, <2>6
  <1>4. QED
    BY <1>2, <1>3

\* One character more in front.
LEMMA Prepend ==
  ASSUME NEW S, NEW c \in S, NEW t \in Seq(S)
  PROVE  /\ <<c>> \o t \in Seq(S)
         /\ Len(<<c>> \o t) = Len(t) + 1
         /\ (<<c>> \o t)[1] = c
         /\ \A i \in 1 .. Len(t) : (<<c>> \o t)[i + 1] = t[i]
  <1>0. <<c>> \in Seq(S) /\ Len(<<c>>) = 1 /\ <<c>>[1] = c
    OBVIOUS
  <1>1. PICK u \in Seq(S) : u = <<c>> /\ Len(u) = 1 /\ u[1] = c
    BY <1>0
  <1>2. /\ u \o t \in Seq(S) /\ Len(u \o t) = Len(u) + Len(t)
        /\ \A i \in 1 .. Len(u) + Len(t) : (u \o t)[i] = IF i <= Len(u) THEN u[i] ELSE t[i - Len(u)]
    BY ConcatProperties
  <1>3. Len(t) \in Nat
    BY LenProperties
  <1>4. (u \o t)[1] = c
    BY <1>1, <1>2, <1>3
  <1>5. ASSUME NEW i \in 1 .. Len(t)
        PROVE  (u \o t)[i + 1] = t[i]
    <2>1. PICK k : k = i + 1
      OBVIOUS
    <2>2. k \in 1 .. Len(u) + Len(t) /\ ~(k <= Len(u)) /\ k - Len(u) = i
      BY <1>1, <1>3, <2>1
    <2>3. QED
      BY <1>2, <2>1, <2>2
  <1>6. QED
    BY <1>1, <1>2, <1>3, <1>4, <1>5

\* Nothing is decoded to more bytes than it has.
LEMMA DecodeBounds ==
  ASSUME NEW s \in Seq(1 .. 255)
  PROVE  DecodeAt(s) \in Seq(0 .. 255) /\ Len(DecodeAt(s)) <= Len(s)
  <1>1. Len(s) \in Nat /\ \A i \in 1 .. Len(s) : s[i] \in 1 .. 255
    BY LenProperties, ElementOfSeq
  <1>2. PICK d : /\ DecodeAt(s) = d[1]
                 /\ \A p \in 1 .. Len(s) + 3 : d[p] = DecodeStep(d, s, p)
    BY <1>1, DecodeLoop
  <1>3. PICK n \in Nat : n = Len(s) + 3
    BY <1>1
  <1>. DEFINE Good(p) == /\ d[p] \in Seq(0 .. 255) /\ Len(d[p]) \in Nat
                         /\ Len(d[p]) <= IF p <= Len(s) THEN Len(s) + 1 - p ELSE 0
              T == {p \in 0 .. n : p >= 1 => Good(p)}
  <1>4. ASSUME NEW p \in 1 .. n, \A r \in p + 1 .. n : Good(r)
        PROVE  Good(p)
    <2>1. d[p] = DecodeStep(d, s, p)
      BY <1>2, <1>3
    <2>2. CASE p > Len(s)
      <3>1. d[p] = <<>>
        BY <2>1, <2>2 DEF DecodeStep
      <3>2. QED
        BY <1>1, <2>2, <3>1, EmptySeq
    <2>3. CASE ~(p > Len(s))
      <3>1. Good(p + 1) /\ Good(p + 3) /\ p \in 1 .. Len(s)
        BY <1>1, <1>3, <1>4, <2>3
      <3>. DEFINE rest == IF s[p] = Percent /\ p + 2 <= Len(s) THEN d[p + 3] ELSE d[p + 1]
      <3>2. rest \in Seq(0 .. 255) /\ Len(rest) \in Nat /\ Len(rest) <= Len(s) - p
        BY <1>1, <3>1
      <3>3. d[p] = rest \/ \E c \in 0 .. 255 : d[p] = <<c>> \o rest
        <4>1. CASE s[p] = Percent /\ p + 2 <= Len(s)
          <5>1. from_hex(s[p + 1]) \in Int /\ from_hex(s[p + 2]) \in Int
            <6>1. p + 1 \in 1 .. Len(s) /\ p + 2 \in 1 .. Len(s)
              BY <1>1, <3>1, <4>1
            <6>2. s[p + 1] \in Int /\ s[p + 2] \in Int
              <7>0. \A c \in 1 .. 255 : c \in Int
                OBVIOUS
              <7>1. \A i \in 1 .. Len(s) : s[i] \in Int
                BY <1>1, <7>0, Zenon
              <7>2. QED
                BY <6>1, <7>1, Zenon
            <6>3. QED
              BY <6>2, FromHexInt
          <5>2. HexByte(from_hex(s[p + 1]), from_hex(s[p + 2])) \in 0 .. 255
            BY <5>1, HexByteRange
          <5>3. QED
            BY <2>1, <2>3, <4>1, <5>2 DEF DecodeStep
        <4>2. CASE ~(s[p] = Percent /\ p + 2 <= Len(s))
          <5>1. s[p] \in 0 .. 255 /\ Space \in 0 .. 255
            BY <1>1, <3>1 DEF Space
          <5>2. QED
            BY <2>1, <2>3, <4>2, <5>1 DEF DecodeStep
        <4>3. QED
          BY <4>1, <4>2
      <3>. HIDE DEF rest
      <3>4. d[p] \in Seq(0 .. 255) /\ Len(d[p]) \in Nat /\ Len(d[p]) <= Len(rest) + 1
        <4>1. CASE d[p] = rest
          BY <3>2, <4>1
        <4>2. ASSUME NEW c \in 0 .. 255, d[p] = <<c>> \o rest
              PROVE  d[p] \in Seq(0 .. 255) /\ Len(d[p]) \in Nat /\ Len(d[p]) <= Len(rest) + 1
          <5>1. d[p] \in Seq(0 .. 255) /\ Len(d[p]) = Len(rest) + 1
            BY <3>2, <4>2, Prepend
          <5>2. QED
            BY <3>2, <5>1
        <4>3. Len(d[p]) = Len(rest) => Len(d[p]) <= Len(rest) + 1
          BY <3>2
        <4>4. QED
          BY <3>2, <3>3, <4>1, <4>2, <4>3, Zenon
      <3>5. QED
        BY <1>1, <3>1, <3>2, <3>4
    <2>4. QED
      BY <2>2, <2>3
  <1>5. 1 \in T
    <2>1. ASSUME NEW p \in 0 .. n, \A r \in p + 1 .. n : r \in T
          PROVE  p \in T
      <3>1. \A r \in p + 1 .. n : r >= 1
        OBVIOUS
      <3>. HIDE DEF Good
      <3>2. \A r \in p + 1 .. n : Good(r)
        BY <2>1, <3>1
      <3>3. QED
        BY <1>4, <3>2
    <2>2. 1 \in 0 .. n
      BY <1>1, <1>3
    <2>. HIDE DEF T
    <2>3. QED
      BY <2>1, <2>2, Downward
  <1>6. Good(1)
    BY <1>5
  <1>7. QED
    BY <1>1, <1>2, <1>6

\* A text without a whole escape: what is dropped is its percent signs.
LEMMA DecodePlain ==
  ASSUME NEW s \in Seq(1 .. 255),
         \A p \in 1 .. Len(s) : s[p] = Percent => p + 2 > Len(s)
  PROVE  /\ DecodeAt(s) \in Seq(1 .. 255)
         /\ Len(DecodeAt(s)) = Cardinality({p \in 1 .. Len(s) : s[p] # Percent})
  <1>1. Len(s) \in Nat /\ \A i \in 1 .. Len(s) : s[i] \in 1 .. 255
    BY LenProperties, ElementOfSeq
  <1>2. PICK d : /\ DecodeAt(s) = d[1]
                 /\ \A p \in 1 .. Len(s) + 3 : d[p] = DecodeStep(d, s, p)
    BY <1>1, DecodeLoop
  <1>3. PICK n \in Nat : n = Len(s) + 3
    BY <1>1
  <1>. DEFINE Kept(p) == {q \in p .. Len(s) : s[q] # Percent}
              Good(p) == d[p] \in Seq(1 .. 255) /\ Len(d[p]) = Cardinality(Kept(p))
              T == {p \in 0 .. n : p >= 1 => Good(p)}
  <1>4. ASSUME NEW p \in 1 .. n, \A r \in p + 1 .. n : Good(r)
        PROVE  Good(p)
    <2>1. d[p] = DecodeStep(d, s, p)
      BY <1>2, <1>3
    <2>2. CASE p > Len(s)
      <3>1. d[p] = <<>> /\ Kept(p) = {}
        BY <1>1, <2>1, <2>2 DEF DecodeStep
      <3>2. QED
        BY <3>1, EmptySeq, FS_EmptySet
    <2>3. CASE ~(p > Len(s))
      <3>0. p + 1 \in p + 1 .. n /\ p \in 1 .. Len(s)
        BY <1>1, <1>3, <2>3
      <3>1. Good(p + 1) /\ p \in 1 .. Len(s)
        <4>. HIDE DEF Good
        <4>1. QED
          BY <1>4, <3>0
      <3>2. IsFiniteSet(Kept(p + 1)) /\ Cardinality(Kept(p + 1)) \in Nat /\ p \notin Kept(p + 1)
        <4>1. Kept(p + 1) \in SUBSET (p + 1 .. Len(s)) /\ p \notin Kept(p + 1)
          OBVIOUS
        <4>2. p + 1 \in Int /\ Len(s) \in Int
          BY <1>1
        <4>3. IsFiniteSet(p + 1 .. Len(s))
          BY <4>2, FS_Interval
        <4>. HIDE DEF Kept
        <4>4. IsFiniteSet(Kept(p + 1))
          BY <4>1, <4>3, FS_Subset
        <4>5. QED
          BY <4>1, <4>4, FS_CardinalityType
      <3>3. CASE s[p] = Percent
        <4>1. d[p] = d[p + 1]
          BY <2>1, <2>3, <3>1, <3>3 DEF DecodeStep
        <4>2. Kept(p) = Kept(p + 1)
          BY <1>1, <3>1, <3>3
        <4>3. QED
          BY <3>1, <4>1, <4>2
      <3>4. CASE s[p] # Percent
        <4>1. Kept(p) = Kept(p + 1) \cup {p}
          BY <1>1, <3>1, <3>4
        <4>2. PICK c \in 1 .. 255 : d[p] = <<c>> \o d[p + 1]
          <5>1. s[p] \in 1 .. 255 /\ Space \in 1 .. 255
            BY <1>1, <3>0 DEF Space
          <5>2. d[p] = <<Space>> \o d[p + 1] \/ d[p] = <<s[p]>> \o d[p + 1]
            BY <2>1, <2>3, <3>4 DEF DecodeStep
          <5>3. QED
            BY <5>1, <5>2
        <4>3. d[p] \in Seq(1 .. 255) /\ Len(d[p]) = Len(d[p + 1]) + 1
          BY <3>1, <4>2, Prepend
        <4>4. Cardinality(Kept(p + 1) \cup {p}) = Cardinality(Kept(p + 1)) + 1
          <5>. HIDE DEF Kept
          <5>1. QED
            BY <3>2, FS_AddElement
        <4>5. QED
          BY <3>1, <4>1, <4>3, <4>4
      <3>5. QED
        BY <3>3, <3>4
    <2>4. QED
      BY <2>2, <2>3
  <1>5. 1 \in T
    <2>1. ASSUME NEW p \in 0 .. n, \A r \in p + 1 .. n : r \in T
          PROVE  p \in T
      <3>1. \A r \in p + 1 .. n : r >= 1
        OBVIOUS
      <3>. HIDE DEF Good
      <3>2. \A r \in p + 1 .. n : Good(r)
        BY <2>1, <3>1
      <3>3. QED
        BY <1>4, <3>2
    <2>2. 1 \in 0 .. n
      BY <1>1, <1>3
    <2>. HIDE DEF T
    <2>3. QED
      BY <2>1, <2>2, Downward
  <1>6. Good(1)
    BY <1>5
  <1>7. QED
    BY <1>2, <1>6

\* What becomes of one character of a text without NUL.
LEMMA EncodeCharFacts ==
  ASSUME NEW c \in 1 .. 255
  PROVE  /\ EncodeChar(c) \in Seq(1 .. 255)
         /\ \/ EncodeChar(c) = <<c>> /\ c # Percent /\ c # Plus
            \/ EncodeChar(c) = <<Plus>> /\ c = Space
            \/ EncodeChar(c) = <<Percent, to_hex(c \div 16), to_hex(c % 16)>>
  <1>1. to_hex(c \div 16) \in 1 .. 255 /\ to_hex(c % 16) \in 1 .. 255
    <2>1. c \div 16 \in 0 .. 15 /\ c % 16 \in 0 .. 15
      OBVIOUS
    <2>2. ASSUME NEW x \in 0 .. 15
          PROVE  to_hex(x) \in 1 .. 255
      BY DEF to_hex
    <2>3. QED
      BY <2>1, <2>2
  <1>2. Percent \in 1 .. 255 /\ Plus \in 1 .. 255 /\ Percent \notin Plain /\ Plus \notin Plain
    BY DEF Percent, Plus, Plain, Alnum, Digits, Upper, Lower
  <1>3. CASE c \in Plain
    <2>1. EncodeChar(c) = <<c>> /\ c # Percent /\ c # Plus
      BY <1>2, <1>3 DEF EncodeChar
    <2>2. QED
      BY <2>1
  <1>4. CASE c \notin Plain /\ c = Space
    <2>1. EncodeChar(c) = <<Plus>>
      BY <1>4 DEF EncodeChar
    <2>2. QED
      BY <1>2, <1>4, <2>1
  <1>5. CASE c \notin Plain /\ c # Space
    <2>1. EncodeChar(c) = <<Percent, to_hex(c \div 16), to_hex(c % 16)>>
      BY <1>5 DEF EncodeChar
    <2>2. QED
      BY <1>1, <1>2, <2>1
  <1>6. QED
    BY <1>3, <1>4, <1>5

\* url_decode gives back what url_encode was given.
LEMMA UrlRoundTrip ==
  ASSUME NEW s \in Seq(1 .. 255)
  PROVE  url_decode(url_encode(s)) = s
  <1>1. Len(s) \in Nat /\ DOMAIN s = 1 .. Len(s) /\ \A i \in 1 .. Len(s) : s[i] \in 1 .. 255
    BY LenProperties, ElementOfSeq
  <1>2. PICK parts : /\ parts = [i \in 1 .. Len(s) |-> EncodeChar(s[i])]
                     /\ parts \in Seq(Seq(1 .. 255)) /\ Len(parts) = Len(s)
                     /\ \A i \in 1 .. Len(s) : parts[i] = EncodeChar(s[i])
    <2>. DEFINE ps == [i \in 1 .. Len(s) |-> EncodeChar(s[i])]
    <2>1. \A i \in 1 .. Len(s) : EncodeChar(s[i]) \in Seq(1 .. 255)
      BY <1>1, EncodeCharFacts
    <2>2. ps \in Seq(Seq(1 .. 255)) /\ Len(ps) = Len(s) /\ \A i \in 1 .. Len(s) : ps[i] = EncodeChar(s[i])
      BY <1>1, <2>1
    <2>3. QED
      BY <2>2
  <1>3. PICK t : t = url_encode(s) /\ t = FlattenSeq(parts)
    BY <1>1, <1>2 DEF url_encode
  <1>4. t \in Seq(1 .. 255) /\ Len(t) \in Nat
    <2>1. t \in Seq(1 .. 255)
      BY <1>2, <1>3, Flattened, Zenon
    <2>2. QED
      BY <2>1, LenProperties
  <1>5. PICK off : /\ IsOffset(off, parts) /\ Len(t) = off[Len(parts)]
                   /\ \A i \in 1 .. Len(parts) : \A k \in 1 .. Len(parts[i]) :
                        /\ off[i - 1] + k \in 1 .. Len(t)
                        /\ t[off[i - 1] + k] = parts[i][k]
    <2>1. PICK off : Joined(t, off, parts)
      BY <1>2, <1>3, Flattened, Zenon
    <2>2. QED
      BY <2>1, Zenon DEF Joined
  <1>6. PICK d : /\ DecodeAt(t) = d[1]
                 /\ \A p \in 1 .. Len(t) + 3 : d[p] = DecodeStep(d, t, p)
    BY <1>4, DecodeLoop
  <1>7. PICK n \in Nat : n = Len(s)
    BY <1>1
  <1>. DEFINE Good(i) == d[off[i] + 1] = SubSeq(s, i + 1, n)
              T == {i \in 0 .. n : Good(i)}
  <1>8. off \in [0 .. n -> Nat] /\ off[0] = 0 /\ \A i \in 1 .. n : off[i] = off[i - 1] + Len(parts[i])
    BY <1>2, <1>5, <1>7 DEF IsOffset
  <1>9. Good(n)
    <2>1. off[n] + 1 = Len(t) + 1 /\ Len(t) + 1 \in 1 .. Len(t) + 3 /\ Len(t) + 1 > Len(t)
      BY <1>2, <1>4, <1>5, <1>7
    <2>2. d[off[n] + 1] = <<>>
      BY <1>6, <2>1 DEF DecodeStep
    <2>3. SubSeq(s, n + 1, n) = <<>>
      BY SubSeqEmpty
    <2>4. QED
      BY <2>2, <2>3
  <1>10. ASSUME NEW i \in 1 .. n, Good(i)
         PROVE  Good(i - 1)
    <2>1. PICK p \in Nat : p = off[i - 1] + 1
      BY <1>8
    <2>2. PICK c \in 1 .. 255 : c = s[i]
      BY <1>1, <1>7
    <2>3. /\ off[i] + 1 = p + Len(parts[i]) /\ parts[i] = EncodeChar(c)
          /\ \A k \in 1 .. Len(EncodeChar(c)) : off[i - 1] + k \in 1 .. Len(t) /\ t[off[i - 1] + k] = EncodeChar(c)[k]
      <3>1. parts[i] = EncodeChar(c) /\ i \in 1 .. Len(parts)
        BY <1>2, <1>7, <2>2
      <3>2. Len(EncodeChar(c)) \in Nat
        BY EncodeCharFacts, LenProperties
      <3>3. off[i] = off[i - 1] + Len(parts[i]) /\ off[i - 1] \in Nat
        BY <1>8
      <3>4. off[i] + 1 = p + Len(parts[i])
        BY <2>1, <3>1, <3>2, <3>3
      <3>5. QED
        BY <1>5, <3>1, <3>4
    <2>4. d[p] = <<c>> \o d[off[i] + 1]
      <3>1. ASSUME NEW e, EncodeChar(c) = <<e>>
            PROVE  p \in 1 .. Len(t) /\ t[p] = e /\ off[i] + 1 = p + 1
        <4>1. Len(EncodeChar(c)) = 1 /\ EncodeChar(c)[1] = e
          BY <3>1
        <4>2. 1 \in 1 .. Len(EncodeChar(c))
          BY <4>1
        <4>3. off[i - 1] + 1 \in 1 .. Len(t) /\ t[off[i - 1] + 1] = EncodeChar(c)[1]
          BY <2>3, <4>2, Zenon
        <4>4. QED
          BY <2>1, <2>3, <4>1, <4>3
      <3>2. CASE EncodeChar(c) = <<c>> /\ c # Percent /\ c # Plus
        <4>1. p \in 1 .. Len(t) /\ t[p] = c /\ off[i] + 1 = p + 1
          BY <3>1, <3>2
        <4>2. d[p] = DecodeStep(d, t, p) /\ ~(p > Len(t))
          BY <1>4, <1>6, <4>1
        <4>3. QED
          BY <3>2, <4>1, <4>2 DEF DecodeStep
      <3>3. CASE EncodeChar(c) = <<Plus>> /\ c = Space
        <4>1. p \in 1 .. Len(t) /\ t[p] = Plus /\ off[i] + 1 = p + 1
          BY <3>1, <3>3
        <4>2. d[p] = DecodeStep(d, t, p) /\ ~(p > Len(t)) /\ Plus # Percent
          BY <1>4, <1>6, <4>1 DEF Plus, Percent
        <4>3. QED
          BY <3>3, <4>1, <4>2 DEF DecodeStep
      <3>4. CASE EncodeChar(c) = <<Percent, to_hex(c \div 16), to_hex(c % 16)>>
        <4>1. PICK h, l : h = to_hex(c \div 16) /\ l = to_hex(c % 16)
          OBVIOUS
        <4>2. /\ Len(EncodeChar(c)) = 3 /\ EncodeChar(c)[1] = Percent
              /\ EncodeChar(c)[2] = h /\ EncodeChar(c)[3] = l
          BY <3>4, <4>1
        <4>3. 1 \in 1 .. Len(EncodeChar(c)) /\ 2 \in 1 .. Len(EncodeChar(c)) /\ 3 \in 1 .. Len(EncodeChar(c))
          BY <4>2
        <4>4. /\ off[i - 1] + 1 \in 1 .. Len(t) /\ t[off[i - 1] + 1] = EncodeChar(c)[1]
              /\ t[off[i - 1] + 2] = EncodeChar(c)[2]
              /\ off[i - 1] + 3 \in 1 .. Len(t) /\ t[off[i - 1] + 3] = EncodeChar(c)[3]
          BY <2>3, <4>3, Zenon
        <4>5. off[i - 1] + 1 = p /\ off[i - 1] + 2 = p + 1 /\ off[i - 1] + 3 = p + 2 /\ off[i] + 1 = p + 3
          <5>1. off[i - 1] \in Nat
            BY <1>8
          <5>2. off[i] + 1 = p + 3
            BY <2>3, <4>2
          <5>3. QED
            BY <2>1, <5>1, <5>2
        <4>6. /\ p \in 1 .. Len(t) /\ t[p] = Percent
              /\ p + 2 \in 1 .. Len(t) /\ t[p + 1] = h /\ t[p + 2] = l
          BY <4>2, <4>4, <4>5
        <4>7. d[p] = DecodeStep(d, t, p) /\ ~(p > Len(t)) /\ p + 2 <= Len(t)
          BY <1>4, <1>6, <4>6
        <4>8. HexByte(from_hex(h), from_hex(l)) = c
          <5>1. c \in 0 .. 255
            OBVIOUS
          <5>2. QED
            BY <4>1, <5>1, HexRoundTrip
        <4>9. QED
          BY <4>5, <4>6, <4>7, <4>8 DEF DecodeStep
      <3>5. QED
        BY <3>2, <3>3, <3>4, EncodeCharFacts
    <2>5. SubSeq(s, i, n) = <<c>> \o SubSeq(s, i + 1, n)
      BY <1>1, <1>7, <2>2, SubSeqRecursiveFirst
    <2>6. QED
      <3>1. off[i - 1] + 1 = p /\ i - 1 + 1 = i
        BY <2>1
      <3>2. QED
        BY <1>10, <2>4, <2>5, <3>1
  <1>11. Good(0)
    <2>. DEFINE U == {i \in 0 .. n : ~Good(i)}
    <2>1. SUFFICES ASSUME U # {} PROVE FALSE
      OBVIOUS
    <2>2. PICK i \in U : \A j \in U : j <= i
      <3>1. U \subseteq 0 .. n
        OBVIOUS
      <3>. HIDE DEF U
      <3>2. QED
        BY <2>1, <3>1, LastIn
    <2>. HIDE DEF Good
    <2>3. i # n
      BY <1>9, <2>2
    <2>4. i + 1 \in 1 .. n /\ i + 1 \notin U /\ i + 1 - 1 = i
      BY <2>2, <2>3
    <2>5. Good(i + 1)
      BY <2>4
    <2>6. QED
      BY <1>10, <2>2, <2>4, <2>5
  <1>12. DecodeAt(t) = s
    <2>1. off[0] + 1 = 1 /\ 0 + 1 = 1
      BY <1>8
    <2>2. SubSeq(s, 1, n) = s
      BY <1>7, SubSeqFull
    <2>3. QED
      BY <1>6, <1>11, <2>1, <2>2
  <1>13. CutAt(s, NUL) = s
    <2>1. \A i \in 1 .. Len(s) : s[i] # NUL
      <3>1. \A c \in 1 .. 255 : c # NUL
        BY DEF NUL
      <3>2. QED
        BY <1>1, <3>1, Zenon
    <2>2. QED
      BY <2>1, CutFacts
  <1>14. QED
    BY <1>3, <1>12, <1>13 DEF url_decode

-----------------------------------------------------------------------------
(* base64.                                                                 *)

\* The g-th group of three or four of l characters begins within them.
LEMMA GroupBounds ==
  ASSUME NEW l \in Nat, NEW n \in {3, 4}, NEW g \in 1 .. (l + n - 1) \div n
  PROVE  /\ g \in Nat /\ n * (g - 1) \in Nat /\ n * g = n * (g - 1) + n
         /\ n * (g - 1) + 1 <= l
  <1>1. CASE n = 3
    <2>1. PICK q \in Nat : q = (l + 2) \div 3 /\ 3 * q <= l + 2
      OBVIOUS
    <2>2. (l + n - 1) \div n = q
      BY <1>1, <2>1
    <2>3. g \in 1 .. q
      BY <2>2
    <2>4. 3 * (g - 1) + 1 <= l /\ g \in Nat /\ 3 * (g - 1) \in Nat /\ 3 * g = 3 * (g - 1) + 3
      BY <2>1, <2>3
    <2>5. QED
      BY <1>1, <2>4
  <1>2. CASE n = 4
    <2>1. PICK q \in Nat : q = (l + 3) \div 4 /\ 4 * q <= l + 3
      OBVIOUS
    <2>2. (l + n - 1) \div n = q
      BY <1>2, <2>1
    <2>3. g \in 1 .. q
      BY <2>2
    <2>4. 4 * (g - 1) + 1 <= l /\ g \in Nat /\ 4 * (g - 1) \in Nat /\ 4 * g = 4 * (g - 1) + 4
      BY <2>1, <2>3
    <2>5. QED
      BY <1>2, <2>4
  <1>3. QED
    BY <1>1, <1>2

\* b is the g-th group of n of s.
IsGroup(b, s, n, g) ==
  /\ Len(b) = IF n * g <= Len(s) THEN n ELSE Len(s) - n * (g - 1)
  /\ Len(b) \in 1 .. n
  /\ \A k \in 1 .. Len(b) : n * (g - 1) + k \in 1 .. Len(s) /\ b[k] = s[n * (g - 1) + k]

\* The groups a text is cut into: all of n, but the last may be shorter.
LEMMA GroupFacts ==
  ASSUME NEW S, NEW s \in Seq(S), NEW n \in {3, 4}, NEW g \in 1 .. (Len(s) + n - 1) \div n
  PROVE  Groups(s, n)[g] \in Seq(S) /\ IsGroup(Groups(s, n)[g], s, n, g)
  <1>1. Len(s) \in Nat /\ \A i \in 1 .. Len(s) : s[i] \in S
    BY LenProperties, ElementOfSeq
  <1>2. PICK a \in Nat : a = n * (g - 1) /\ n * g = a + n /\ a + 1 <= Len(s)
    BY <1>1, GroupBounds
  <1>3. PICK e \in Nat : e = IF n * g <= Len(s) THEN n * g ELSE Len(s)
    BY <1>1, <1>2
  <1>4. a + 1 <= e /\ e <= Len(s) /\ e - a = (IF n * g <= Len(s) THEN n ELSE Len(s) - a) /\ e - a <= n
    <2>1. CASE n * g <= Len(s)
      <3>1. e = a + n /\ n \in 1 .. 4
        BY <1>2, <1>3, <2>1
      <3>2. QED
        BY <1>1, <1>2, <2>1, <3>1
    <2>2. CASE ~(n * g <= Len(s))
      <3>1. e = Len(s) /\ Len(s) < a + n /\ n \in 1 .. 4
        BY <1>1, <1>2, <1>3, <2>2
      <3>2. QED
        BY <1>1, <1>2, <2>2, <3>1
    <2>3. QED
      BY <2>1, <2>2
  <1>5. Groups(s, n)[g] = SubSeq(s, a + 1, e)
    BY <1>2, <1>3 DEF Groups
  <1>6. \A i \in a + 1 .. e : s[i] \in S
    BY <1>1, <1>4
  <1>7. /\ SubSeq(s, a + 1, e) \in Seq(S) /\ Len(SubSeq(s, a + 1, e)) = e - a
        /\ \A k \in 1 .. e - a : a + k \in 1 .. Len(s) /\ SubSeq(s, a + 1, e)[k] = s[a + k]
    <2>1. PICK b \in Int : b = a + 1
      OBVIOUS
    <2>2. /\ SubSeq(s, b, e) \in Seq(S)
          /\ Len(SubSeq(s, b, e)) = IF b <= e THEN e - b + 1 ELSE 0
          /\ \A k \in 1 .. e - b + 1 : SubSeq(s, b, e)[k] = s[b + k - 1]
      BY <1>6, <2>1, SubSeqProperties
    <2>3. b <= e /\ e - b + 1 = e - a /\ \A k \in 1 .. e - a : b + k - 1 = a + k /\ a + k \in 1 .. Len(s)
      BY <1>1, <1>4, <2>1
    <2>4. QED
      BY <2>1, <2>2, <2>3
  <1>8. e - a \in 1 .. n
    BY <1>4
  <1>9. Len(Groups(s, n)[g]) = IF n * g <= Len(s) THEN n ELSE Len(s) - n * (g - 1)
    BY <1>2, <1>4, <1>5, <1>7
  <1>10. QED
    BY <1>2, <1>5, <1>7, <1>8, <1>9 DEF IsGroup

\* Groups put together again.
LEMMA GroupsJoin ==
  ASSUME NEW S, NEW s \in Seq(S)
  PROVE  FlattenSeq(Groups(s, 3)) = s
  <1>1. Len(s) \in Nat
    BY LenProperties
  <1>2. PICK G \in Nat : G = (Len(s) + 2) \div 3 /\ G = (Len(s) + 3 - 1) \div 3
    BY <1>1
  <1>3. PICK gs : gs = Groups(s, 3)
    OBVIOUS
  <1>4. ASSUME NEW g \in 1 .. G
        PROVE  /\ gs[g] \in Seq(S)
               /\ Len(gs[g]) = IF 3 * g <= Len(s) THEN 3 ELSE Len(s) - 3 * (g - 1)
               /\ \A k \in 1 .. Len(gs[g]) : gs[g][k] = s[3 * (g - 1) + k]
    <2>1. PICK n \in {3, 4} : n = 3
      OBVIOUS
    <2>2. g \in 1 .. (Len(s) + n - 1) \div n
      BY <1>2, <2>1
    <2>3. gs = Groups(s, n)
      BY <1>3, <2>1
    <2>4. QED
      <3>1. /\ gs[g] \in Seq(S)
            /\ Len(gs[g]) = IF n * g <= Len(s) THEN n ELSE Len(s) - n * (g - 1)
            /\ \A k \in 1 .. Len(gs[g]) : gs[g][k] = s[n * (g - 1) + k]
        <4>1. Groups(s, n)[g] \in Seq(S) /\ IsGroup(Groups(s, n)[g], s, n, g)
          BY <2>2, GroupFacts
        <4>2. QED
          BY <2>3, <4>1 DEF IsGroup
      <3>2. QED
        BY <2>1, <3>1
  <1>5. gs \in Seq(Seq(S)) /\ Len(gs) = G
    <2>1. gs = [g \in 1 .. G |-> gs[g]]
      BY <1>2, <1>3 DEF Groups
    <2>2. \A g \in 1 .. G : gs[g] \in Seq(S)
      BY <1>4
    <2>3. QED
      BY <2>1, <2>2
  <1>6. PICK t : t = FlattenSeq(gs)
    OBVIOUS
  <1>7. t \in Seq(S)
    BY <1>5, <1>6, Flattened, Zenon
  <1>8. PICK off : Joined(t, off, gs)
    BY <1>5, <1>6, Flattened, Zenon
  <1>9. IsOffset(off, gs) /\ Len(t) = off[G]
    BY <1>5, <1>8 DEF Joined
  <1>10. \A i \in 0 .. G - 1 : off[i] = 3 * i
    <2>1. CASE G = 0
      BY <2>1
    <2>2. CASE G # 0
      <3>1. PICK L \in PartLengths : L = 3
        BY DEF PartLengths
      <3>2. \A i \in 1 .. G - 1 : i \in 1 .. G /\ 3 * i <= Len(s)
        BY <1>1, <1>2
      <3>3. Even(gs, G - 1, L)
        BY <1>4, <3>1, <3>2 DEF Even
      <3>4. G - 1 \in 0 .. Len(gs) /\ Len(gs) \in Nat
        BY <1>5, <2>2
      <3>5. \A i \in 0 .. G - 1 : off[i] = L * i
        BY <1>9, <3>3, <3>4, EvenOffsets
      <3>6. QED
        BY <3>1, <3>5
    <2>3. QED
      BY <2>1, <2>2
  <1>11. Len(t) = Len(s)
    <2>1. CASE G = 0
      <3>1. off[0] = 0
        BY <1>9 DEF IsOffset
      <3>2. QED
        BY <1>1, <1>2, <1>9, <2>1, <3>1
    <2>2. CASE G # 0
      <3>1. G \in 1 .. Len(gs) /\ G \in 1 .. G /\ G - 1 \in 0 .. G - 1
        BY <1>5, <2>2
      <3>2. off[G] = off[G - 1] + Len(gs[G])
        BY <1>9, <3>1 DEF IsOffset
      <3>3. off[G - 1] = 3 * (G - 1)
        BY <1>10, <3>1
      <3>4. Len(gs[G]) = Len(s) - 3 * (G - 1)
        <4>1. Len(gs[G]) = IF 3 * G <= Len(s) THEN 3 ELSE Len(s) - 3 * (G - 1)
          BY <1>4, <3>1
        <4>2. 3 * G >= Len(s) /\ (3 * G = Len(s) => 3 = Len(s) - 3 * (G - 1))
          BY <1>1, <1>2
        <4>3. CASE 3 * G <= Len(s)
          <5>1. 3 * G = Len(s)
            BY <1>1, <4>2, <4>3
          <5>2. QED
            BY <4>1, <4>2, <4>3, <5>1
        <4>4. QED
          BY <4>1, <4>3
      <3>5. QED
        BY <1>1, <1>9, <3>2, <3>3, <3>4
    <2>3. QED
      BY <2>1, <2>2
  <1>12. ASSUME NEW p \in 1 .. Len(s)
         PROVE  t[p] = s[p]
    <2>1. PICK g \in 1 .. G : p - off[g - 1] \in 1 .. Len(gs[g])
      BY <1>5, <1>8, <1>11 DEF Joined
    <2>2. off[g - 1] = 3 * (g - 1)
      BY <1>10, <2>1
    <2>3. PICK k \in 1 .. Len(gs[g]) : k = p - 3 * (g - 1)
      BY <2>1, <2>2
    <2>4. 3 * (g - 1) + k = p
      BY <1>1, <2>3
    <2>5. t[off[g - 1] + k] = gs[g][k]
      BY <1>5, <1>8, <2>3 DEF Joined
    <2>6. gs[g][k] = s[3 * (g - 1) + k]
      BY <1>4, <2>3
    <2>7. QED
      BY <2>2, <2>4, <2>5, <2>6
  <1>13. QED
    BY <1>3, <1>6, <1>7, <1>11, <1>12, SeqEqual

\* Byte k of a group, and of one that is filled up.
Filled(b, k, fill) == IF k <= Len(b) THEN b[k] ELSE fill

FilledTo(u, b, n, fill) ==
  /\ u \in Seq(0 .. 255) /\ Len(u) = n
  /\ \A k \in 1 .. n : u[k] = Filled(b, k, fill) /\ u[k] \in 0 .. 255

LEMMA Filling ==
  ASSUME NEW n \in {3, 4}, NEW b \in Seq(0 .. 255), Len(b) \in 1 .. n, NEW fill \in 0 .. 255
  PROVE  FilledTo(b \o [j \in 1 .. n - Len(b) |-> fill], b, n, fill)
  <1>1. PICK m \in 0 .. n : m = n - Len(b)
    OBVIOUS
  <1>2. PICK z \in Seq(0 .. 255) : /\ z = [j \in 1 .. m |-> fill] /\ Len(z) = m
                                  /\ \A j \in 1 .. m : z[j] = fill
    <2>1. m \in Nat
      OBVIOUS
    <2>2. [j \in 1 .. m |-> fill] \in Seq(0 .. 255) /\ Len([j \in 1 .. m |-> fill]) = m
      BY <2>1
    <2>3. QED
      BY <2>2
  <1>3. PICK u : u = b \o z
    OBVIOUS
  <1>4. /\ u \in Seq(0 .. 255) /\ Len(u) = Len(b) + Len(z)
        /\ \A i \in 1 .. Len(b) + Len(z) : u[i] = IF i <= Len(b) THEN b[i] ELSE z[i - Len(b)]
    BY <1>3, ConcatProperties
  <1>5. Len(u) = n /\ \A i \in 1 .. n : i <= Len(b) \/ i - Len(b) \in 1 .. m
    BY <1>1, <1>2, <1>4
  <1>6. \A k \in 1 .. n : u[k] = Filled(b, k, fill)
    BY <1>1, <1>2, <1>4, <1>5 DEF Filled
  <1>7. \A k \in 1 .. n : u[k] \in 0 .. 255
    BY <1>4, <1>5, ElementOfSeq
  <1>8. QED
    BY <1>1, <1>2, <1>3, <1>4, <1>5, <1>6, <1>7 DEF FilledTo

\* char_array_4: four codes.
LEMMA FourOfCodes ==
  ASSUME NEW u, NEW b, NEW fill, FilledTo(u, b, 3, fill)
  PROVE  \A j \in 1 .. 4 : FourOf(u)[j] \in 0 .. 63
  <1>0. u[1] \in 0 .. 255 /\ u[2] \in 0 .. 255 /\ u[3] \in 0 .. 255
    BY DEF FilledTo
  <1>1. PICK x \in 0 .. 255, y \in 0 .. 255, z \in 0 .. 255 : x = u[1] /\ y = u[2] /\ z = u[3]
    BY <1>0
  <1>2. FourOf(u) = <<x \div 4, (x % 4) * 16 + (y \div 16), (y % 16) * 4 + (z \div 64), z % 64>>
    BY <1>1 DEF FourOf
  <1>3. /\ x \div 4 \in 0 .. 63 /\ (x % 4) * 16 + (y \div 16) \in 0 .. 63
        /\ (y % 16) * 4 + (z \div 64) \in 0 .. 63 /\ z % 64 \in 0 .. 63
    OBVIOUS
  <1>4. \A j \in 1 .. 4 : j = 1 \/ j = 2 \/ j = 3 \/ j = 4
    OBVIOUS
  <1>5. QED
    BY <1>2, <1>3, <1>4

\* A group, encoded: the codes of its bytes and then padding.
LEMMA EncodeGroupFacts ==
  ASSUME NEW b \in Seq(0 .. 255), Len(b) \in 1 .. 3
  PROVE  /\ EncodeGroup(b) \in Seq(0 .. 64) /\ Len(EncodeGroup(b)) = 4
         /\ \E u : /\ FilledTo(u, b, 3, 0)
                   /\ \A j \in 1 .. 4 : /\ FourOf(u)[j] \in 0 .. 63
                                         /\ EncodeGroup(b)[j] = IF j <= Len(b) + 1 THEN FourOf(u)[j] ELSE Pad
  <1>1. PICK n \in {3, 4}, fill \in 0 .. 255 : n = 3 /\ fill = 0 /\ Len(b) \in 1 .. n
    OBVIOUS
  <1>2. PICK u : u = b \o [j \in 1 .. n - Len(b) |-> fill] /\ FilledTo(u, b, n, fill)
    BY <1>1, Filling
  <1>3. EncodeGroup(b) = [j \in 1 .. 4 |-> IF j <= Len(b) + 1 THEN FourOf(u)[j] ELSE Pad]
    BY <1>1, <1>2 DEF EncodeGroup
  <1>4. FilledTo(u, b, 3, 0)
    BY <1>1, <1>2
  <1>5. \A j \in 1 .. 4 : FourOf(u)[j] \in 0 .. 63
    BY <1>4, FourOfCodes
  <1>6. \A j \in 1 .. 4 : (IF j <= Len(b) + 1 THEN FourOf(u)[j] ELSE Pad) \in 0 .. 64
    <2>1. Pad \in 0 .. 64 /\ \A x \in 0 .. 63 : x \in 0 .. 64
      BY DEF Pad
    <2>2. QED
      BY <1>5, <2>1, Zenon
  <1>7. EncodeGroup(b) \in Seq(0 .. 64) /\ Len(EncodeGroup(b)) = 4
    BY <1>3, <1>6
  <1>8. \A j \in 1 .. 4 : EncodeGroup(b)[j] = IF j <= Len(b) + 1 THEN FourOf(u)[j] ELSE Pad
    BY <1>3
  <1>9. QED
    BY <1>4, <1>5, <1>7, <1>8

\* char_array_3: the bytes whose codes were made.
BytesBack(v, x, y, z) ==
  /\ v[1] = x \div 4 /\ v[2] = (x % 4) * 16 + (y \div 16) => ThreeOf(v)[1] = x
  /\ v[2] = (x % 4) * 16 + (y \div 16) /\ v[3] = (y % 16) * 4 + (z \div 64) => ThreeOf(v)[2] = y
  /\ v[3] = (y % 16) * 4 + (z \div 64) /\ v[4] = z % 64 => ThreeOf(v)[3] = z

LEMMA BytesOfCodes ==
  ASSUME NEW x \in 0 .. 255, NEW y \in 0 .. 255, NEW z \in 0 .. 255, NEW v
  PROVE  BytesBack(v, x, y, z)
  <1>1. ((x \div 4) * 4 + ((((x % 4) * 16 + (y \div 16)) \div 16) % 4)) % 256 = x
    <2>1. PICK h \in 0 .. 63, l \in 0 .. 3 : h = x \div 4 /\ l = x % 4 /\ x = 4 * h + l
      OBVIOUS
    <2>2. PICK m \in 0 .. 15 : m = y \div 16
      OBVIOUS
    <2>3. (l * 16 + m) \div 16 = l /\ l % 4 = l
      OBVIOUS
    <2>4. QED
      BY <2>1, <2>2, <2>3
  <1>2. ((((x % 4) * 16 + (y \div 16)) % 16) * 16 + ((((y % 16) * 4 + (z \div 64)) \div 4) % 16)) % 256 = y
    <2>1. PICK h \in 0 .. 15, l \in 0 .. 15 : h = y \div 16 /\ l = y % 16 /\ y = 16 * h + l
      OBVIOUS
    <2>2. PICK k \in 0 .. 3, m \in 0 .. 3 : k = x % 4 /\ m = z \div 64
      OBVIOUS
    <2>3. (k * 16 + h) % 16 = h /\ (l * 4 + m) \div 4 = l /\ l % 16 = l
      OBVIOUS
    <2>4. QED
      BY <2>1, <2>2, <2>3
  <1>3. ((((y % 16) * 4 + (z \div 64)) % 4) * 64 + (z % 64)) % 256 = z
    <2>1. PICK h \in 0 .. 3, l \in 0 .. 63 : h = z \div 64 /\ l = z % 64 /\ z = 64 * h + l
      OBVIOUS
    <2>2. PICK k \in 0 .. 15 : k = y % 16
      OBVIOUS
    <2>3. (k * 4 + h) % 4 = h
      OBVIOUS
    <2>4. QED
      BY <2>1, <2>2, <2>3
  <1>4. QED
    BY <1>1, <1>2, <1>3 DEF ThreeOf, BytesBack

\* The sizes of a group of m bytes and of its m + 1 codes.
LEMMA GroupSizes ==
  ASSUME NEW m \in 1 .. 3
  PROVE  /\ m + 1 \in 1 .. 4 /\ \A j \in 1 .. m + 1 : j \in 1 .. 4
         /\ 1 \in 1 .. m + 1 /\ 2 \in 1 .. m + 1
         /\ (m >= 2 => 3 \in 1 .. m + 1) /\ (m = 3 => 4 \in 1 .. m + 1 /\ m >= 2)
  OBVIOUS

\* c holds the codes of a group, without the padding.
CodesOf(c, b) == Len(c) = Len(b) + 1 /\ \A j \in 1 .. Len(b) + 1 : c[j] = EncodeGroup(b)[j]

\* A group is decoded to what it was encoded from.
LEMMA GroupRoundTrip ==
  ASSUME NEW b \in Seq(0 .. 255), Len(b) \in 1 .. 3, NEW c \in Seq(0 .. 255), CodesOf(c, b)
  PROVE  DecodeGroup(c) = b
  <1>1. PICK u : /\ FilledTo(u, b, 3, 0)
                 /\ \A j \in 1 .. 4 : EncodeGroup(b)[j] = IF j <= Len(b) + 1 THEN FourOf(u)[j] ELSE Pad
    BY EncodeGroupFacts
  <1>2. PICK m \in 1 .. 3 : m = Len(b)
    OBVIOUS
  <1>3. Len(c) = m + 1 /\ \A j \in 1 .. m + 1 : c[j] = EncodeGroup(b)[j]
    BY <1>2 DEF CodesOf
  <1>4. \A j \in 1 .. m + 1 : j \in 1 .. 4
    BY GroupSizes, Zenon
  <1>5. \A k \in 1 .. m : u[k] = b[k]
    <2>1. \A k \in 1 .. 3 : u[k] = IF k <= m THEN b[k] ELSE 0
      BY <1>1, <1>2 DEF FilledTo, Filled
    <2>2. \A k \in 1 .. m : k \in 1 .. 3 /\ k <= m
      BY <1>2
    <2>3. QED
      BY <2>1, <2>2, Zenon
  <1>6. PICK x \in 0 .. 255, y \in 0 .. 255, z \in 0 .. 255 : x = u[1] /\ y = u[2] /\ z = u[3]
    <2>1. u[1] \in 0 .. 255 /\ u[2] \in 0 .. 255 /\ u[3] \in 0 .. 255
      BY <1>1 DEF FilledTo
    <2>2. QED
      BY <2>1
  <1>7. PICK n \in {3, 4}, fill \in 0 .. 255 : n = 4 /\ fill = 255
    OBVIOUS
  <1>8. Len(c) \in 1 .. n
    BY <1>3, <1>7, GroupSizes, Zenon
  <1>9. PICK v : v = c \o [j \in 1 .. n - Len(c) |-> fill] /\ FilledTo(v, c, n, fill)
    BY <1>8, Filling, Zenon
  <1>10. DecodeGroup(c) = SubSeq(ThreeOf(v), 1, IF Len(c) = 4 THEN 3 ELSE Len(c) - 1)
    BY <1>7, <1>9 DEF DecodeGroup
  <1>11. DecodeGroup(c) = SubSeq(ThreeOf(v), 1, m)
    <2>1. (IF Len(c) = 4 THEN 3 ELSE Len(c) - 1) = m
      BY <1>2, <1>3
    <2>2. QED
      BY <1>10, <2>1, Zenon
  <1>12. \A j \in 1 .. m + 1 : v[j] = FourOf(u)[j]
    <2>1. \A j \in 1 .. 4 : v[j] = IF j <= m + 1 THEN c[j] ELSE fill
      BY <1>3, <1>7, <1>9 DEF FilledTo, Filled
    <2>2. \A j \in 1 .. m + 1 : j <= m + 1
      BY <1>2
    <2>3. \A j \in 1 .. m + 1 : v[j] = c[j]
      BY <1>4, <2>1, <2>2, Zenon
    <2>4. \A j \in 1 .. m + 1 : EncodeGroup(b)[j] = FourOf(u)[j]
      BY <1>1, <1>2, <1>4, <2>2, Zenon
    <2>5. QED
      BY <1>3, <2>3, <2>4, Zenon
  <1>13. FourOf(u) = <<x \div 4, (x % 4) * 16 + (y \div 16), (y % 16) * 4 + (z \div 64), z % 64>>
    BY <1>6 DEF FourOf
  <1>14. /\ v[1] = x \div 4 /\ v[2] = (x % 4) * 16 + (y \div 16)
         /\ m >= 2 => v[3] = (y % 16) * 4 + (z \div 64)
         /\ m = 3 => v[4] = z % 64
    <2>1. 1 \in 1 .. m + 1 /\ 2 \in 1 .. m + 1 /\ (m >= 2 => 3 \in 1 .. m + 1) /\ (m = 3 => 4 \in 1 .. m + 1)
      BY GroupSizes, Zenon
    <2>2. v[1] = FourOf(u)[1] /\ v[2] = FourOf(u)[2] /\ (m >= 2 => v[3] = FourOf(u)[3]) /\ (m = 3 => v[4] = FourOf(u)[4])
      BY <1>12, <2>1, Zenon
    <2>3. QED
      BY <1>13, <2>2
  <1>15. PICK w : w = ThreeOf(v)
    OBVIOUS
  <1>16. w[1] = x /\ (m >= 2 => w[2] = y) /\ (m = 3 => w[3] = z)
    <2>1. BytesBack(v, x, y, z)
      BY BytesOfCodes, Zenon
    <2>2. m = 3 => m >= 2
      BY GroupSizes, Zenon
    <2>3. QED
      BY <1>14, <1>15, <2>1, <2>2, Zenon DEF BytesBack
  <1>17. \A k \in 1 .. m : w[k] = b[k]
    <2>1. \A k \in 1 .. m : k = 1 \/ (k = 2 /\ m >= 2) \/ (k = 3 /\ m = 3)
      BY <1>2
    <2>2. QED
      BY <1>5, <1>6, <1>16, <2>1, Zenon
  <1>18. \A k \in 1 .. m : b[k] \in 0 .. 255
    BY <1>2, ElementOfSeq
  <1>19. /\ SubSeq(w, 1, m) \in Seq(0 .. 255) /\ Len(SubSeq(w, 1, m)) = m
         /\ \A k \in 1 .. m : SubSeq(w, 1, m)[k] = w[k]
    <2>1. \A k \in 1 .. m : w[k] \in 0 .. 255
      BY <1>17, <1>18, Zenon
    <2>2. PICK one \in Int : one = 1
      OBVIOUS
    <2>3. m \in Int /\ \A i \in one .. m : w[i] \in 0 .. 255
      BY <2>1, <2>2
    <2>4. /\ SubSeq(w, one, m) \in Seq(0 .. 255)
          /\ Len(SubSeq(w, one, m)) = IF one <= m THEN m - one + 1 ELSE 0
          /\ \A k \in 1 .. m - one + 1 : SubSeq(w, one, m)[k] = w[one + k - 1]
      BY <2>3, SubSeqProperties
    <2>5. m - one + 1 = m /\ one <= m /\ \A k \in 1 .. m : one + k - 1 = k
      BY <2>2
    <2>6. QED
      BY <2>2, <2>4, <2>5, Zenon
  <1>20. QED
    <2>1. PICK t \in Seq(0 .. 255) : t = SubSeq(w, 1, m) /\ Len(t) = m /\ \A k \in 1 .. m : t[k] = b[k]
      BY <1>17, <1>19, Zenon
    <2>2. t = b
      BY <1>2, <2>1, SeqEqual
    <2>3. QED
      BY <1>11, <1>15, <2>1, <2>2, Zenon

\* A text is encoded in groups of three bytes: how many, and which.
GroupCount(s) == (Len(s) + 2) \div 3

LEMMA ThreeByteGroups ==
  ASSUME NEW s \in Seq(0 .. 255)
  PROVE  /\ GroupCount(s) \in Nat
         /\ \A g \in 1 .. GroupCount(s) :
              Groups(s, 3)[g] \in Seq(0 .. 255) /\ IsGroup(Groups(s, 3)[g], s, 3, g)
  <1>1. Len(s) \in Nat
    BY LenProperties
  <1>2. GroupCount(s) \in Nat
    BY <1>1 DEF GroupCount
  <1>3. ASSUME NEW g \in 1 .. GroupCount(s)
        PROVE  Groups(s, 3)[g] \in Seq(0 .. 255) /\ IsGroup(Groups(s, 3)[g], s, 3, g)
    <2>1. PICK n \in {3, 4} : n = 3
      OBVIOUS
    <2>2. g \in 1 .. (Len(s) + n - 1) \div n
      BY <1>1, <1>3, <2>1 DEF GroupCount
    <2>3. Groups(s, n)[g] \in Seq(0 .. 255) /\ IsGroup(Groups(s, n)[g], s, n, g)
      BY <2>2, GroupFacts
    <2>4. QED
      BY <2>1, <2>3
  <1>4. QED
    BY <1>2, <1>3

\* t is the encoding of s: four characters for each group.
IsEncoded(t, s) ==
  /\ t \in Seq(0 .. 64) /\ Len(t) = 4 * GroupCount(s)
  /\ \A g \in 1 .. GroupCount(s) : \A j \in 1 .. 4 :
       t[4 * (g - 1) + j] = EncodeGroup(Groups(s, 3)[g])[j]

LEMMA EncodedGroups ==
  ASSUME NEW s \in Seq(0 .. 255)
  PROVE  IsEncoded(base64_encode(s), s)
  <1>1. PICK n \in Nat : n = GroupCount(s)
    BY ThreeByteGroups
  <1>2. PICK es : es = [g \in 1 .. n |-> EncodeGroup(Groups(s, 3)[g])]
    OBVIOUS
  <1>3. PICK t : t = FlattenSeq(es)
    OBVIOUS
  <1>4. t = base64_encode(s)
    BY <1>1, <1>2, <1>3 DEF base64_encode, GroupCount
  <1>5. ASSUME NEW g \in 1 .. n
        PROVE  es[g] \in Seq(0 .. 64) /\ Len(es[g]) = 4
    <2>1. PICK b \in Seq(0 .. 255) : b = Groups(s, 3)[g] /\ IsGroup(b, s, 3, g)
      BY <1>1, ThreeByteGroups
    <2>2. Len(b) \in 1 .. 3
      BY <2>1 DEF IsGroup
    <2>3. EncodeGroup(b) \in Seq(0 .. 64) /\ Len(EncodeGroup(b)) = 4
      BY <2>2, EncodeGroupFacts
    <2>4. es[g] = EncodeGroup(b)
      BY <1>2, <2>1
    <2>5. QED
      BY <2>3, <2>4
  <1>6. es \in Seq(Seq(0 .. 64)) /\ Len(es) = n
    <2>1. es = [g \in 1 .. n |-> es[g]]
      BY <1>2
    <2>2. PICK T : T = Seq(0 .. 64)
      OBVIOUS
    <2>3. \A g \in 1 .. n : es[g] \in T
      BY <1>5, <2>2
    <2>4. es \in Seq(T) /\ Len(es) = n
      BY <1>1, <2>1, <2>3
    <2>5. QED
      BY <2>2, <2>4
  <1>7. t \in Seq(0 .. 64)
    BY <1>3, <1>6, Flattened, Zenon
  <1>8. PICK off : Joined(t, off, es)
    BY <1>3, <1>6, Flattened, Zenon
  <1>9. \A i \in 0 .. n : off[i] = 4 * i
    <2>1. PICK L \in PartLengths : L = 4
      BY DEF PartLengths
    <2>2. Even(es, n, L)
      BY <1>5, <2>1 DEF Even
    <2>3. IsOffset(off, es) /\ Len(es) \in Nat /\ n \in 0 .. Len(es)
      BY <1>1, <1>6, <1>8 DEF Joined
    <2>4. \A i \in 0 .. n : off[i] = L * i
      BY <2>2, <2>3, EvenOffsets
    <2>5. QED
      BY <2>1, <2>4
  <1>10. Len(t) = 4 * n
    <2>1. Len(t) = off[n] /\ n \in 0 .. n
      BY <1>1, <1>6, <1>8 DEF Joined
    <2>2. QED
      BY <1>9, <2>1
  <1>11. ASSUME NEW g \in 1 .. n, NEW j \in 1 .. 4
         PROVE  t[4 * (g - 1) + j] = EncodeGroup(Groups(s, 3)[g])[j]
    <2>1. g \in 1 .. Len(es) /\ j \in 1 .. Len(es[g])
      BY <1>5, <1>6, <1>11, Zenon
    <2>2. g - 1 \in 0 .. n
      BY <1>1, <1>11
    <2>3. t[off[g - 1] + j] = es[g][j]
      BY <1>8, <2>1 DEF Joined
    <2>4. off[g - 1] = 4 * (g - 1)
      BY <1>9, <2>2, Zenon
    <2>5. QED
      BY <1>2, <1>11, <2>3, <2>4
  <1>12. QED
    BY <1>1, <1>4, <1>7, <1>10, <1>11 DEF IsEncoded

\* The groups are of three bytes, but for the last, which has what is left.
LEMMA GroupLengths ==
  ASSUME NEW s \in Seq(0 .. 255), NEW g \in 1 .. GroupCount(s)
  PROVE  /\ Len(Groups(s, 3)[g]) \in 1 .. 3
         /\ g # GroupCount(s) => Len(Groups(s, 3)[g]) = 3 /\ g < GroupCount(s)
         /\ g = GroupCount(s) => Len(s) = 3 * (g - 1) + Len(Groups(s, 3)[g])
  <1>1. PICK l \in Nat : l = Len(s)
    BY LenProperties
  <1>2. PICK n \in Nat : n = GroupCount(s) /\ n = (l + 2) \div 3
    BY <1>1 DEF GroupCount
  <1>3. PICK m : m = Len(Groups(s, 3)[g])
    OBVIOUS
  <1>4. m = (IF 3 * g <= l THEN 3 ELSE l - 3 * (g - 1)) /\ m \in 1 .. 3
    <2>1. IsGroup(Groups(s, 3)[g], s, 3, g)
      BY ThreeByteGroups
    <2>2. QED
      BY <1>1, <1>3, <2>1 DEF IsGroup
  <1>5. g \in 1 .. n
    BY <1>2
  <1>6. g # n => g < n /\ 3 * g <= l
    BY <1>2, <1>5
  <1>7. g = n => l <= 3 * g
    BY <1>2, <1>5
  <1>8. g = n => l = 3 * (g - 1) + m
    BY <1>4, <1>5, <1>7
  <1>9. g # n => m = 3 /\ g < n
    BY <1>4, <1>6
  <1>10. QED
    BY <1>1, <1>2, <1>3, <1>4, <1>8, <1>9, Zenon

\* No code is the padding, and how far the codes of n groups go.
LEMMA CodeIsNotPad ==
  ASSUME NEW v \in 0 .. 63
  PROVE  v # Pad
  BY DEF Pad

LastCodeAt(n, m, l) ==
  /\ n \in 1 .. n /\ ~(m + 2 <= m + 1)
  /\ m = 3 => l <= 4 * (n - 1) + m + 1
  /\ m # 3 => m + 2 \in 1 .. 4
  /\ 4 * (n - 1) + (m + 2) \notin 1 .. l => l <= 4 * (n - 1) + m + 1
  /\ l < 4 * (n - 1) + m + 1 =>
       /\ l # 4 * n /\ l + 1 \in 1 .. 4 * n
       /\ \A j \in 1 .. 4 : l + 1 = 4 * (n - 1) + j => j <= m + 1
  /\ ~(l < 4 * (n - 1) + m + 1) /\ l <= 4 * (n - 1) + m + 1 => l = 4 * (n - 1) + m + 1

LEMMA LastCode ==
  ASSUME NEW n \in Nat, n # 0, NEW m \in 1 .. 3, NEW l \in Nat, l <= 4 * n
  PROVE  LastCodeAt(n, m, l)
  BY DEF LastCodeAt

\* Which of the four characters of a group are padding.
LEMMA PadsOfGroup ==
  ASSUME NEW b \in Seq(0 .. 255), Len(b) \in 1 .. 3, NEW j \in 1 .. 4
  PROVE  EncodeGroup(b)[j] # Pad <=> j <= Len(b) + 1
  <1>1. PICK u : \A i \in 1 .. 4 : /\ FourOf(u)[i] \in 0 .. 63
                                   /\ EncodeGroup(b)[i] = IF i <= Len(b) + 1 THEN FourOf(u)[i] ELSE Pad
    BY EncodeGroupFacts
  <1>2. PICK v : v = FourOf(u)[j] /\ v \in 0 .. 63
    BY <1>1
  <1>3. v # Pad
    BY <1>2, CodeIsNotPad, Zenon
  <1>4. EncodeGroup(b)[j] = IF j <= Len(b) + 1 THEN v ELSE Pad
    BY <1>1, <1>2, Zenon
  <1>5. QED
    BY <1>3, <1>4, Zenon

\* A position of n groups of four: in which group, and where in it.
LEMMA PlaceOf ==
  ASSUME NEW n \in Nat, NEW p \in 1 .. 4 * n
  PROVE  \E g \in 1 .. n : \E j \in 1 .. 4 : p = 4 * (g - 1) + j
  <1>1. PICK q \in Nat, j \in 0 .. 3 : p - 1 = 4 * q + j
    <2>1. PICK r \in Nat : r = p - 1
      OBVIOUS
    <2>2. r = 4 * (r \div 4) + (r % 4) /\ r \div 4 \in Nat /\ r % 4 \in 0 .. 3
      BY <2>1
    <2>3. QED
      BY <2>1, <2>2
  <1>2. q + 1 \in 1 .. n /\ j + 1 \in 1 .. 4 /\ p = 4 * ((q + 1) - 1) + (j + 1)
    BY <1>1
  <1>3. QED
    BY <1>2

\* l codes of n groups, the last one of which is b.
IsCodeCount(l, n, b) == \E m \in 1 .. 3 : m = Len(b) /\ l = 4 * (n - 1) + m + 1

\* The decoder's loop stops behind the last code: with four for each group, but
\* for the last one, which has one more than it has bytes.
LEMMA CutEncoded ==
  ASSUME NEW s \in Seq(0 .. 255), NEW t, IsEncoded(t, s), NEW n \in Nat, n = GroupCount(s)
  PROVE  /\ CutAt(t, Pad) \in Seq(0 .. 64) /\ Len(CutAt(t, Pad)) \in Nat
         /\ \A i \in 1 .. Len(CutAt(t, Pad)) : CutAt(t, Pad)[i] = t[i]
         /\ n = 0 => Len(CutAt(t, Pad)) = 0
         /\ n # 0 => IsCodeCount(Len(CutAt(t, Pad)), n, Groups(s, 3)[n])
  <1>1. PICK c : c = CutAt(t, Pad)
    OBVIOUS
  <1>2. t \in Seq(0 .. 64) /\ Len(t) = 4 * n
    BY DEF IsEncoded
  <1>3. /\ c \in Seq(0 .. 64) /\ Len(c) <= Len(t)
        /\ \A i \in 1 .. Len(c) : c[i] = t[i] /\ t[i] # Pad
        /\ Len(c) = Len(t) \/ t[Len(c) + 1] = Pad
    <2>1. /\ CutAt(t, Pad) \in Seq(0 .. 64) /\ Len(CutAt(t, Pad)) <= Len(t)
          /\ \A i \in 1 .. Len(CutAt(t, Pad)) : CutAt(t, Pad)[i] = t[i] /\ t[i] # Pad
          /\ Len(CutAt(t, Pad)) = Len(t) \/ t[Len(CutAt(t, Pad)) + 1] = Pad
      BY <1>2, CutFacts
    <2>2. QED
      BY <1>1, <2>1, Zenon
  <1>4. PICK l \in Nat : l = Len(c)
    BY <1>3, LenProperties
  <1>5. l <= 4 * n /\ (\A i \in 1 .. l : t[i] # Pad) /\ (l = 4 * n \/ t[l + 1] = Pad)
    BY <1>2, <1>3, <1>4
  <1>6. ASSUME NEW g \in 1 .. n, NEW j \in 1 .. 4
        PROVE  t[4 * (g - 1) + j] # Pad <=> j <= Len(Groups(s, 3)[g]) + 1
    <2>1. t[4 * (g - 1) + j] = EncodeGroup(Groups(s, 3)[g])[j]
      BY <1>6, Zenon DEF IsEncoded
    <2>2. Groups(s, 3)[g] \in Seq(0 .. 255) /\ Len(Groups(s, 3)[g]) \in 1 .. 3
      BY <1>6, ThreeByteGroups, GroupLengths
    <2>3. QED
      BY <1>6, <2>1, <2>2, PadsOfGroup
  <1>7. ASSUME n # 0
        PROVE  IsCodeCount(l, n, Groups(s, 3)[n])
    <2>1. PICK m \in 1 .. 3 : m = Len(Groups(s, 3)[n])
      <3>1. n \in 1 .. GroupCount(s)
        BY <1>7
      <3>2. QED
        BY <3>1, GroupLengths, Zenon
    <2>2. LastCodeAt(n, m, l)
      BY <1>4, <1>5, <1>7, <2>1, LastCode, Zenon
    <2>3. l <= 4 * (n - 1) + m + 1
      <3>1. CASE m = 3
        BY <2>2, <3>1, Zenon DEF LastCodeAt
      <3>2. CASE m # 3
        <4>1. m + 2 \in 1 .. 4 /\ n \in 1 .. n /\ ~(m + 2 <= m + 1)
          BY <2>2, <3>2, Zenon DEF LastCodeAt
        <4>2. t[4 * (n - 1) + (m + 2)] = Pad
          BY <1>6, <2>1, <4>1, Zenon
        <4>3. 4 * (n - 1) + (m + 2) \notin 1 .. l
          BY <1>5, <4>2, Zenon
        <4>4. QED
          BY <2>2, <4>3, Zenon DEF LastCodeAt
      <3>3. QED
        BY <3>1, <3>2, Zenon
    <2>4. ASSUME l < 4 * (n - 1) + m + 1
          PROVE  FALSE
      <3>1. /\ l # 4 * n /\ l + 1 \in 1 .. 4 * n
            /\ \A j \in 1 .. 4 : l + 1 = 4 * (n - 1) + j => j <= m + 1
        BY <2>2, <2>4, Zenon DEF LastCodeAt
      <3>2. t[l + 1] = Pad
        BY <1>5, <3>1, Zenon
      <3>3. PICK g \in 1 .. n, j \in 1 .. 4 : l + 1 = 4 * (g - 1) + j
        BY <3>1, PlaceOf
      <3>4. ~(j <= Len(Groups(s, 3)[g]) + 1)
        BY <1>6, <3>2, <3>3, Zenon
      <3>5. CASE g # n
        <4>1. Len(Groups(s, 3)[g]) = 3
          BY <3>3, <3>5, GroupLengths
        <4>2. ~(j <= 3 + 1)
          BY <3>4, <4>1, Zenon
        <4>3. QED
          BY <3>3, <4>2
      <3>6. CASE g = n
        BY <2>1, <3>1, <3>3, <3>4, <3>6, Zenon
      <3>7. QED
        BY <3>5, <3>6, Zenon
    <2>5. l = 4 * (n - 1) + m + 1
      BY <2>2, <2>3, <2>4, Zenon DEF LastCodeAt
    <2>6. QED
      BY <2>1, <2>5 DEF IsCodeCount
  <1>8. n = 0 => l = 0
    BY <1>4, <1>5
  <1>9. QED
    BY <1>1, <1>3, <1>4, <1>7, <1>8

\* l codes of n groups, the last with m bytes, are cut into n groups again; the
\* g-th, of k bytes, has k + 1 of them.
CodeGroupAt(n, l, g, k) ==
  /\ g \in 1 .. (l + 4 - 1) \div 4
  /\ \A e : e = (IF 4 * g <= l THEN 4 ELSE l - 4 * (g - 1)) => e = k + 1
  /\ k + 1 \in 1 .. 4 /\ \A j \in 1 .. k + 1 : j \in 1 .. 4

LEMMA CodeGroups ==
  ASSUME NEW n \in Nat, n # 0, NEW m \in 1 .. 3, NEW l \in Nat, l = 4 * (n - 1) + m + 1
  PROVE  /\ (l + 3) \div 4 = n
         /\ \A g \in 1 .. n : \A k \in 1 .. 3 :
              (g # n => k = 3 /\ g < n) /\ (g = n => k = m) => CodeGroupAt(n, l, g, k)
  <1>1. (l + 3) \div 4 = n /\ l + 4 - 1 = l + 3
    OBVIOUS
  <1>2. ASSUME NEW g \in 1 .. n, NEW k \in 1 .. 3, g # n => k = 3 /\ g < n, g = n => k = m
        PROVE  CodeGroupAt(n, l, g, k)
    <2>1. (IF 4 * g <= l THEN 4 ELSE l - 4 * (g - 1)) = k + 1
      <3>1. CASE g = n
        BY <1>2, <3>1
      <3>2. CASE g # n
        BY <1>2, <3>2
      <3>3. QED
        BY <3>1, <3>2
    <2>2. k + 1 \in 1 .. 4 /\ \A j \in 1 .. k + 1 : j \in 1 .. 4
      OBVIOUS
    <2>3. g \in 1 .. (l + 4 - 1) \div 4
      BY <1>1
    <2>4. QED
      BY <2>1, <2>2, <2>3 DEF CodeGroupAt
  <1>3. QED
    BY <1>1, <1>2

\* The decoder's groups are those of the encoder.
LEMMA DecodedGroup ==
  ASSUME NEW s \in Seq(0 .. 255), NEW t, IsEncoded(t, s), NEW g \in 1 .. GroupCount(s)
  PROVE  /\ (Len(CutAt(t, Pad)) + 3) \div 4 = GroupCount(s)
         /\ DecodeGroup(Groups(CutAt(t, Pad), 4)[g]) = Groups(s, 3)[g]
  <1>1. PICK n \in Nat : n = GroupCount(s) /\ g \in 1 .. n
    BY ThreeByteGroups
  <1>2. n # 0 /\ n \in 1 .. n
    BY <1>1
  <1>3. PICK c \in Seq(0 .. 64) : /\ c = CutAt(t, Pad) /\ Len(c) \in Nat
                                  /\ \A i \in 1 .. Len(c) : c[i] = t[i]
                                  /\ IsCodeCount(Len(c), n, Groups(s, 3)[n])
    <2>1. /\ CutAt(t, Pad) \in Seq(0 .. 64) /\ Len(CutAt(t, Pad)) \in Nat
          /\ \A i \in 1 .. Len(CutAt(t, Pad)) : CutAt(t, Pad)[i] = t[i]
          /\ IsCodeCount(Len(CutAt(t, Pad)), n, Groups(s, 3)[n])
      BY <1>1, <1>2, CutEncoded
    <2>2. QED
      BY <2>1, Zenon
  <1>4. PICK l \in Nat, m \in 1 .. 3 : l = Len(c) /\ m = Len(Groups(s, 3)[n]) /\ l = 4 * (n - 1) + m + 1
    <2>1. PICK l \in Nat : l = Len(c) /\ IsCodeCount(l, n, Groups(s, 3)[n])
      BY <1>3, Zenon
    <2>2. QED
      BY <2>1, Zenon DEF IsCodeCount
  <1>5. PICK b \in Seq(0 .. 255) : b = Groups(s, 3)[g] /\ Len(b) \in 1 .. 3
    BY <1>1, ThreeByteGroups, GroupLengths, Zenon
  <1>6. (l + 3) \div 4 = n /\ CodeGroupAt(n, l, g, Len(b))
    <2>1. /\ g # n => Len(b) = 3 /\ g < n
          /\ g = n => Len(b) = m
      BY <1>1, <1>4, <1>5, GroupLengths, Zenon
    <2>2. QED
      BY <1>1, <1>2, <1>4, <1>5, <2>1, CodeGroups, Zenon
  <1>7. PICK k \in {3, 4} : k = 4
    OBVIOUS
  <1>8. PICK d \in Seq(0 .. 64) : d = Groups(c, k)[g] /\ IsGroup(d, c, k, g)
    <2>1. g \in 1 .. (Len(c) + k - 1) \div k
      BY <1>4, <1>6, <1>7, Zenon DEF CodeGroupAt
    <2>2. Groups(c, k)[g] \in Seq(0 .. 64) /\ IsGroup(Groups(c, k)[g], c, k, g)
      BY <2>1, GroupFacts
    <2>3. QED
      BY <2>2, Zenon
  <1>9. CodesOf(d, b)
    <2>1. Len(d) = (IF 4 * g <= l THEN 4 ELSE l - 4 * (g - 1))
      BY <1>4, <1>7, <1>8, Zenon DEF IsGroup
    <2>2. Len(d) = Len(b) + 1
      BY <1>6, <2>1, Zenon DEF CodeGroupAt
    <2>3. \A j \in 1 .. Len(d) : 4 * (g - 1) + j \in 1 .. Len(c) /\ d[j] = c[4 * (g - 1) + j]
      BY <1>7, <1>8, Zenon DEF IsGroup
    <2>4. \A j \in 1 .. Len(b) + 1 : j \in 1 .. 4
      BY <1>6, Zenon DEF CodeGroupAt
    <2>5. \A j \in 1 .. 4 : t[4 * (g - 1) + j] = EncodeGroup(b)[j]
      BY <1>1, <1>5, Zenon DEF IsEncoded
    <2>6. \A j \in 1 .. Len(b) + 1 : d[j] = EncodeGroup(b)[j]
      BY <1>3, <2>2, <2>3, <2>4, <2>5, Zenon
    <2>7. QED
      BY <2>2, <2>6, Zenon DEF CodesOf
  <1>10. d \in Seq(0 .. 255)
    <2>1. \A j \in 1 .. Len(d) : d[j] \in 0 .. 64
      BY <1>8, ElementOfSeq
    <2>2. Len(d) \in Nat /\ d = [j \in 1 .. Len(d) |-> d[j]]
      BY <1>8, LenProperties
    <2>3. \A j \in 1 .. Len(d) : d[j] \in 0 .. 255
      <3>1. \A x \in 0 .. 64 : x \in 0 .. 255
        OBVIOUS
      <3>2. QED
        BY <2>1, <3>1
    <2>4. QED
      BY <2>2, <2>3
  <1>11. DecodeGroup(d) = b
    BY <1>5, <1>9, <1>10, GroupRoundTrip, Zenon
  <1>12. QED
    BY <1>1, <1>3, <1>4, <1>5, <1>6, <1>7, <1>8, <1>11, Zenon

\* base64_decode gives back what base64_encode was given.
LEMMA Base64RoundTrip ==
  ASSUME NEW s \in Seq(0 .. 255)
  PROVE  base64_decode(base64_encode(s)) = s
  <1>1. PICK t : t = base64_encode(s) /\ IsEncoded(t, s)
    BY EncodedGroups
  <1>2. PICK c : c = CutAt(t, Pad)
    OBVIOUS
  <1>3. PICK n \in Nat : n = GroupCount(s)
    BY ThreeByteGroups
  <1>4. (Len(c) + 3) \div 4 = n
    <2>1. CASE n = 0
      <3>1. Len(c) = 0
        BY <1>1, <1>2, <1>3, <2>1, CutEncoded
      <3>2. QED
        BY <2>1, <3>1
    <2>2. CASE n # 0
      <3>1. n \in 1 .. n
        BY <2>2
      <3>2. QED
        BY <1>1, <1>2, <1>3, <3>1, DecodedGroup, Zenon
    <2>3. QED
      BY <2>1, <2>2
  <1>5. \A g \in 1 .. n : DecodeGroup(Groups(c, 4)[g]) = Groups(s, 3)[g]
    BY <1>1, <1>2, <1>3, DecodedGroup, Zenon
  <1>6. Groups(s, 3) = [g \in 1 .. n |-> Groups(s, 3)[g]]
    <2>1. Len(s) + 3 - 1 = Len(s) + 2
      <3>1. Len(s) \in Nat
        BY LenProperties
      <3>2. QED
        BY <3>1
    <2>2. QED
      BY <1>3, <2>1, Zenon DEF Groups, GroupCount
  <1>7. [g \in 1 .. n |-> DecodeGroup(Groups(c, 4)[g])] = Groups(s, 3)
    BY <1>5, <1>6
  <1>8. base64_decode(t) = FlattenSeq([g \in 1 .. n |-> DecodeGroup(Groups(c, 4)[g])])
    BY <1>2, <1>4 DEF base64_decode
  <1>9. FlattenSeq(Groups(s, 3)) = s
    BY GroupsJoin
  <1>10. QED
    BY <1>1, <1>7, <1>8, <1>9

\* The bits of a byte, and what its upper and its lower parts are of them.
BitsOf(x) ==
  /\ x \div 4 = 32 * ((x \div 128) % 2) + 16 * ((x \div 64) % 2) + 8 * ((x \div 32) % 2)
                + 4 * ((x \div 16) % 2) + 2 * ((x \div 8) % 2) + ((x \div 4) % 2)
  /\ x % 4 = 2 * ((x \div 2) % 2) + ((x \div 1) % 2)
  /\ x \div 16 = 8 * ((x \div 128) % 2) + 4 * ((x \div 64) % 2) + 2 * ((x \div 32) % 2) + ((x \div 16) % 2)
  /\ x % 16 = 8 * ((x \div 8) % 2) + 4 * ((x \div 4) % 2) + 2 * ((x \div 2) % 2) + ((x \div 1) % 2)
  /\ x \div 64 = 2 * ((x \div 128) % 2) + ((x \div 64) % 2)
  /\ x % 64 = 32 * ((x \div 32) % 2) + 16 * ((x \div 16) % 2) + 8 * ((x \div 8) % 2)
              + 4 * ((x \div 4) % 2) + 2 * ((x \div 2) % 2) + ((x \div 1) % 2)

LEMMA ByteBits ==
  ASSUME NEW x \in 0 .. 255
  PROVE  BitsOf(x)
  <1>1. /\ x \div 1 = x
        /\ x \div 2 \in 0 .. 127 /\ x = 2 * (x \div 2) + (x % 2)
        /\ x \div 4 \in 0 .. 63 /\ x \div 2 = 2 * (x \div 4) + ((x \div 2) % 2)
        /\ x \div 8 \in 0 .. 31 /\ x \div 4 = 2 * (x \div 8) + ((x \div 4) % 2)
        /\ x \div 16 \in 0 .. 15 /\ x \div 8 = 2 * (x \div 16) + ((x \div 8) % 2)
        /\ x \div 32 \in 0 .. 7 /\ x \div 16 = 2 * (x \div 32) + ((x \div 16) % 2)
        /\ x \div 64 \in 0 .. 3 /\ x \div 32 = 2 * (x \div 64) + ((x \div 32) % 2)
        /\ x \div 128 \in 0 .. 1 /\ x \div 64 = 2 * (x \div 128) + ((x \div 64) % 2)
        /\ (x \div 128) % 2 = x \div 128
    OBVIOUS
  <1>2. x % 4 = x - 4 * (x \div 4) /\ x % 16 = x - 16 * (x \div 16) /\ x % 64 = x - 64 * (x \div 64)
    OBVIOUS
  <1>3. QED
    BY <1>1, <1>2 DEF BitsOf

\* Bit n of a text, and code k of its bits, as Base64Bits has them.
Weights == <<128, 64, 32, 16, 8, 4, 2, 1>>

BitOf(s, n) == IF n \div 8 < Len(s) THEN (s[(n \div 8) + 1] \div Weights[(n % 8) + 1]) % 2 ELSE 0

CodeOf(s, k) ==
  32 * BitOf(s, 6*k) + 16 * BitOf(s, 6*k + 1) + 8 * BitOf(s, 6*k + 2)
  + 4 * BitOf(s, 6*k + 3) + 2 * BitOf(s, 6*k + 4) + BitOf(s, 6*k + 5)

\* Bit o of three bytes.
GroupBit(u, o) == (u[(o \div 8) + 1] \div Weights[(o % 8) + 1]) % 2

GroupCode(u, o) ==
  32 * GroupBit(u, o) + 16 * GroupBit(u, o + 1) + 8 * GroupBit(u, o + 2)
  + 4 * GroupBit(u, o + 3) + 2 * GroupBit(u, o + 4) + GroupBit(u, o + 5)

\* char_array_4 holds the bits of three bytes, six by six.
LEMMA GroupCodeBits ==
  ASSUME NEW u, NEW b, FilledTo(u, b, 3, 0), NEW j \in 1 .. 4
  PROVE  FourOf(u)[j] = GroupCode(u, 6 * (j - 1))
  <1>1. u[1] \in 0 .. 255 /\ u[2] \in 0 .. 255 /\ u[3] \in 0 .. 255
    BY DEF FilledTo
  <1>2. PICK x \in 0 .. 255, y \in 0 .. 255, z \in 0 .. 255 : x = u[1] /\ y = u[2] /\ z = u[3]
    BY <1>1
  <1>3. BitsOf(x) /\ BitsOf(y) /\ BitsOf(z)
    BY ByteBits
  <1>4. FourOf(u) = <<x \div 4, (x % 4) * 16 + (y \div 16), (y % 16) * 4 + (z \div 64), z % 64>>
    BY <1>2 DEF FourOf
  <1>5. CASE j = 1
    <2>1. /\ GroupBit(u, 0) = (x \div 128) % 2 /\ GroupBit(u, 1) = (x \div 64) % 2
          /\ GroupBit(u, 2) = (x \div 32) % 2 /\ GroupBit(u, 3) = (x \div 16) % 2
          /\ GroupBit(u, 4) = (x \div 8) % 2 /\ GroupBit(u, 5) = (x \div 4) % 2
      BY <1>2 DEF GroupBit, Weights
    <2>2. GroupCode(u, 0) = 32 * ((x \div 128) % 2) + 16 * ((x \div 64) % 2) + 8 * ((x \div 32) % 2)
                          + 4 * ((x \div 16) % 2) + 2 * ((x \div 8) % 2) + ((x \div 4) % 2)
      <3>1. 0 + 1 = 1 /\ 0 + 2 = 2 /\ 0 + 3 = 3 /\ 0 + 4 = 4 /\ 0 + 5 = 5
        OBVIOUS
      <3>2. QED
        BY <2>1, <3>1 DEF GroupCode
    <2>3. x \div 4 = GroupCode(u, 0)
      BY <1>3, <2>2, Zenon DEF BitsOf
    <2>4. QED
      BY <1>4, <1>5, <2>3
  <1>6. CASE j = 2
    <2>1. /\ GroupBit(u, 6) = (x \div 2) % 2 /\ GroupBit(u, 7) = (x \div 1) % 2
          /\ GroupBit(u, 8) = (y \div 128) % 2 /\ GroupBit(u, 9) = (y \div 64) % 2
          /\ GroupBit(u, 10) = (y \div 32) % 2 /\ GroupBit(u, 11) = (y \div 16) % 2
      BY <1>2 DEF GroupBit, Weights
    <2>2. GroupCode(u, 6) = (x % 4) * 16 + (y \div 16)
      BY <1>3, <2>1 DEF GroupCode, BitsOf
    <2>3. QED
      BY <1>4, <1>6, <2>2
  <1>7. CASE j = 3
    <2>1. /\ GroupBit(u, 12) = (y \div 8) % 2 /\ GroupBit(u, 13) = (y \div 4) % 2
          /\ GroupBit(u, 14) = (y \div 2) % 2 /\ GroupBit(u, 15) = (y \div 1) % 2
          /\ GroupBit(u, 16) = (z \div 128) % 2 /\ GroupBit(u, 17) = (z \div 64) % 2
      BY <1>2 DEF GroupBit, Weights
    <2>2. GroupCode(u, 12) = (y % 16) * 4 + (z \div 64)
      BY <1>3, <2>1 DEF GroupCode, BitsOf
    <2>3. QED
      BY <1>4, <1>7, <2>2
  <1>8. CASE j = 4
    <2>1. /\ GroupBit(u, 18) = (z \div 32) % 2 /\ GroupBit(u, 19) = (z \div 16) % 2
          /\ GroupBit(u, 20) = (z \div 8) % 2 /\ GroupBit(u, 21) = (z \div 4) % 2
          /\ GroupBit(u, 22) = (z \div 2) % 2 /\ GroupBit(u, 23) = (z \div 1) % 2
      BY <1>2 DEF GroupBit, Weights
    <2>2. GroupCode(u, 18) = 32 * ((z \div 32) % 2) + 16 * ((z \div 16) % 2) + 8 * ((z \div 8) % 2)
                          + 4 * ((z \div 4) % 2) + 2 * ((z \div 2) % 2) + ((z \div 1) % 2)
      <3>1. 18 + 1 = 19 /\ 18 + 2 = 20 /\ 18 + 3 = 21 /\ 18 + 4 = 22 /\ 18 + 5 = 23
        OBVIOUS
      <3>2. QED
        BY <2>1, <3>1, Zenon DEF GroupCode
    <2>3. z % 64 = GroupCode(u, 18)
      BY <1>3, <2>2, Zenon DEF BitsOf
    <2>4. QED
      BY <1>4, <1>8, <2>3
  <1>9. QED
    BY <1>5, <1>6, <1>7, <1>8

\* Bit o of group a + 1, a group of m bytes: the byte it is in.
ByteAt(a, o, r) == /\ (24 * a + o) \div 8 = 3 * a + r /\ (24 * a + o) % 8 = o % 8
                   /\ r = o \div 8 /\ r + 1 \in 1 .. 3 /\ (o % 8) + 1 \in 1 .. 8

LEMMA ByteOfBit ==
  ASSUME NEW a \in Nat, NEW o \in 0 .. 23
  PROVE  \E r \in 0 .. 2 : ByteAt(a, o, r)
  <1>1. PICK r \in 0 .. 2, q \in 0 .. 7 : r = o \div 8 /\ q = o % 8 /\ o = 8 * r + q
    OBVIOUS
  <1>2. 24 * a + o = 8 * (3 * a + r) + q
    BY <1>1
  <1>3. (24 * a + o) \div 8 = 3 * a + r /\ (24 * a + o) % 8 = q
    <2>1. PICK v \in Nat : v = 3 * a + r
      BY <1>1
    <2>2. (8 * v + q) \div 8 = v /\ (8 * v + q) % 8 = q
      BY <1>1, <2>1
    <2>3. QED
      BY <1>2, <2>1, <2>2
  <1>4. QED
    BY <1>1, <1>3 DEF ByteAt

LEMMA BitInGroup ==
  ASSUME NEW s \in Seq(0 .. 255), NEW b, NEW u, NEW a \in Nat, IsGroup(b, s, 3, a + 1),
         FilledTo(u, b, 3, 0), NEW o \in 0 .. 23
  PROVE  BitOf(s, 24 * a + o) = GroupBit(u, o)
  <1>1. PICK r \in 0 .. 2 : ByteAt(a, o, r)
    BY ByteOfBit
  <1>2. PICK l \in Nat : l = Len(s)
    BY LenProperties
  <1>3. PICK m \in 1 .. 3 : m = Len(b)
    BY DEF IsGroup
  <1>4. m = IF 3 * (a + 1) <= l THEN 3 ELSE l - 3 * a
    <2>1. m = IF 3 * (a + 1) <= l THEN 3 ELSE l - 3 * ((a + 1) - 1)
      BY <1>2, <1>3, Zenon DEF IsGroup
    <2>2. (a + 1) - 1 = a
      OBVIOUS
    <2>3. QED
      BY <2>1, <2>2
  <1>5. PICK w \in {128, 64, 32, 16, 8, 4, 2, 1} : w = Weights[(o % 8) + 1]
    <2>1. PICK q \in 1 .. 8 : q = (o % 8) + 1
      OBVIOUS
    <2>2. Weights[q] \in {128, 64, 32, 16, 8, 4, 2, 1}
      BY <2>1 DEF Weights
    <2>3. QED
      BY <2>1, <2>2
  <1>6. GroupBit(u, o) = (u[r + 1] \div w) % 2
    BY <1>1, <1>5, Zenon DEF GroupBit, ByteAt
  <1>7. BitOf(s, 24 * a + o) = IF 3 * a + r < l THEN (s[3 * a + r + 1] \div w) % 2 ELSE 0
    BY <1>1, <1>2, <1>5, Zenon DEF BitOf, ByteAt
  <1>8. u[r + 1] = IF r + 1 <= m THEN b[r + 1] ELSE 0
    BY <1>1, <1>3, Zenon DEF FilledTo, Filled, ByteAt
  <1>9. CASE r + 1 <= m
    <2>1. PICK k \in 1 .. 3 : k = r + 1 /\ k \in 1 .. m
      BY <1>1, <1>9
    <2>2. 3 * ((a + 1) - 1) + k \in 1 .. l /\ b[k] = s[3 * ((a + 1) - 1) + k]
      BY <1>2, <1>3, <2>1, Zenon DEF IsGroup
    <2>3. 3 * ((a + 1) - 1) + k = 3 * a + r + 1 /\ 3 * a + r < l
      BY <1>2, <2>1, <2>2
    <2>4. u[r + 1] = s[3 * a + r + 1]
      BY <1>8, <1>9, <2>1, <2>2, <2>3
    <2>5. QED
      BY <1>6, <1>7, <2>3, <2>4, Zenon
  <1>10. CASE ~(r + 1 <= m)
    <2>1. ~(3 * a + r < l)
      BY <1>1, <1>2, <1>3, <1>4, <1>10
    <2>2. (0 \div w) % 2 = 0
      BY <1>5
    <2>3. QED
      BY <1>6, <1>7, <1>8, <1>10, <2>1, <2>2, Zenon
  <1>11. QED
    BY <1>9, <1>10

\* The codes of a group are those of its place in the text.
SameCode(s, u, a, i) == CodeOf(s, 4 * a + i) = GroupCode(u, 6 * i)

LEMMA CodeInGroup ==
  ASSUME NEW s \in Seq(0 .. 255), NEW b, NEW u, NEW a \in Nat, IsGroup(b, s, 3, a + 1),
         FilledTo(u, b, 3, 0), NEW i \in 0 .. 3
  PROVE  SameCode(s, u, a, i)
  <1>1. PICK k \in Nat : k = 4 * a + i
    OBVIOUS
  <1>2. PICK o \in 0 .. 18 : o = 6 * i
    OBVIOUS
  <1>3. /\ 6 * k = 24 * a + o /\ 6 * k + 1 = 24 * a + (o + 1) /\ 6 * k + 2 = 24 * a + (o + 2)
        /\ 6 * k + 3 = 24 * a + (o + 3) /\ 6 * k + 4 = 24 * a + (o + 4) /\ 6 * k + 5 = 24 * a + (o + 5)
    BY <1>1, <1>2
  <1>4. /\ o \in 0 .. 23 /\ o + 1 \in 0 .. 23 /\ o + 2 \in 0 .. 23
        /\ o + 3 \in 0 .. 23 /\ o + 4 \in 0 .. 23 /\ o + 5 \in 0 .. 23
    BY <1>2
  <1>5. \A p \in 0 .. 23 : BitOf(s, 24 * a + p) = GroupBit(u, p)
    BY BitInGroup
  <1>6. /\ BitOf(s, 6 * k) = GroupBit(u, o) /\ BitOf(s, 6 * k + 1) = GroupBit(u, o + 1)
        /\ BitOf(s, 6 * k + 2) = GroupBit(u, o + 2) /\ BitOf(s, 6 * k + 3) = GroupBit(u, o + 3)
        /\ BitOf(s, 6 * k + 4) = GroupBit(u, o + 4) /\ BitOf(s, 6 * k + 5) = GroupBit(u, o + 5)
    BY <1>3, <1>4, <1>5, Zenon
  <1>7. CodeOf(s, k) = GroupCode(u, o)
    BY <1>6, Zenon DEF CodeOf, GroupCode
  <1>8. QED
    BY <1>1, <1>2, <1>7 DEF SameCode

\* How many of the characters are codes, and not padding.
UsedAt(g, j, l, k) == 4 * (g - 1) + (j - 1) < (8 * l + 5) \div 6 <=> j <= k + 1

\* n groups of l bytes, the last of m, and the g-th of k.
AreSizes(l, n, m, g, k) ==
  /\ l = 3 * (n - 1) + m
  /\ g # n => k = 3 /\ g < n
  /\ g = n => k = m

LEMMA UsedCodes ==
  ASSUME NEW n \in Nat, n # 0, NEW m \in 1 .. 3, NEW l \in Nat,
         NEW g \in 1 .. n, NEW mg \in 1 .. 3, AreSizes(l, n, m, g, mg), NEW j \in 1 .. 4
  PROVE  UsedAt(g, j, l, mg)
  <1>1. PICK q \in Nat : q = n - 1
    OBVIOUS
  <1>2. 8 * l + 5 = 6 * (4 * q) + (8 * m + 5)
    BY <1>1 DEF AreSizes
  <1>3. (8 * m + 5) \div 6 = m + 1 /\ (8 * m + 5) % 6 \in 0 .. 5 /\ 8 * m + 5 = 6 * (m + 1) + ((8 * m + 5) % 6)
    <2>1. m = 1 \/ m = 2 \/ m = 3
      OBVIOUS
    <2>2. CASE m = 1
      BY <2>2
    <2>3. CASE m = 2
      BY <2>3
    <2>4. CASE m = 3
      BY <2>4
    <2>5. QED
      BY <2>1, <2>2, <2>3, <2>4
  <1>4. (8 * l + 5) \div 6 = 4 * q + m + 1
    <2>1. PICK h \in Nat : h = 4 * q + m + 1
      BY <1>1
    <2>2. PICK r \in 0 .. 5 : r = (8 * m + 5) % 6
      BY <1>3, Zenon
    <2>3. 8 * l + 5 = 6 * h + r
      BY <1>2, <1>3, <2>1, <2>2
    <2>4. (6 * h + r) \div 6 = h
      OBVIOUS
    <2>5. QED
      BY <2>1, <2>3, <2>4
  <1>5. CASE g = n
    BY <1>1, <1>4, <1>5 DEF UsedAt, AreSizes
  <1>6. CASE g # n
    BY <1>1, <1>4, <1>6 DEF UsedAt, AreSizes
  <1>7. QED
    BY <1>5, <1>6

\* What Base64Bits says of a text and its encoding.
IsBase64Of(t, s) ==
  /\ Len(t) = 4 * ((Len(s) + 2) \div 3)
  /\ \A k \in 0 .. Len(t) - 1 :
       t[k + 1] = IF k < (8 * Len(s) + 5) \div 6 THEN CodeOf(s, k) ELSE Pad

\* The code at each place of an encoding is the one the standard asks for.
LEMMA Base64OfText ==
  ASSUME NEW s \in Seq(0 .. 255)
  PROVE  IsBase64Of(base64_encode(s), s)
  <1>1. PICK t : t = base64_encode(s) /\ IsEncoded(t, s)
    BY EncodedGroups
  <1>2. PICK n \in Nat : n = GroupCount(s)
    BY ThreeByteGroups
  <1>3. Len(t) = 4 * n
    BY <1>1, <1>2 DEF IsEncoded
  <1>4. ASSUME NEW g \in 1 .. n, NEW j \in 1 .. 4
        PROVE  t[4 * (g - 1) + j] = IF 4 * (g - 1) + (j - 1) < (8 * Len(s) + 5) \div 6
                                    THEN CodeOf(s, 4 * (g - 1) + (j - 1)) ELSE Pad
    <2>1. PICK b \in Seq(0 .. 255) : b = Groups(s, 3)[g] /\ IsGroup(b, s, 3, g)
      BY <1>2, <1>4, ThreeByteGroups, Zenon
    <2>2. PICK mg \in 1 .. 3 : mg = Len(b)
      BY <2>1 DEF IsGroup
    <2>3. PICK u : /\ FilledTo(u, b, 3, 0)
                   /\ \A i \in 1 .. 4 : EncodeGroup(b)[i] = IF i <= Len(b) + 1 THEN FourOf(u)[i] ELSE Pad
      <3>1. Len(b) \in 1 .. 3
        BY <2>2
      <3>2. \E u : /\ FilledTo(u, b, 3, 0)
                   /\ \A i \in 1 .. 4 : /\ FourOf(u)[i] \in 0 .. 63
                                        /\ EncodeGroup(b)[i] = IF i <= Len(b) + 1 THEN FourOf(u)[i] ELSE Pad
        BY <3>1, EncodeGroupFacts
      <3>3. QED
        BY <3>2, Zenon
    <2>4. t[4 * (g - 1) + j] = IF j <= mg + 1 THEN FourOf(u)[j] ELSE Pad
      BY <1>1, <1>2, <1>4, <2>1, <2>2, <2>3, Zenon DEF IsEncoded
    <2>5. PICK a \in Nat, i \in 0 .. 3 : a = g - 1 /\ i = j - 1 /\ g = a + 1
      OBVIOUS
    <2>6. FourOf(u)[j] = CodeOf(s, 4 * (g - 1) + (j - 1))
      <3>1. IsGroup(b, s, 3, a + 1)
        BY <2>1, <2>5, Zenon
      <3>2. CodeOf(s, 4 * a + i) = GroupCode(u, 6 * i)
        <4>1. SameCode(s, u, a, i)
          BY <2>3, <3>1, CodeInGroup
        <4>2. QED
          BY <4>1, Zenon DEF SameCode
      <3>3. FourOf(u)[j] = GroupCode(u, 6 * (j - 1))
        BY <2>3, GroupCodeBits, Zenon
      <3>4. QED
        BY <2>5, <3>2, <3>3, Zenon
    <2>7. 4 * (g - 1) + (j - 1) < (8 * Len(s) + 5) \div 6 <=> j <= mg + 1
      <3>1. n # 0 /\ n \in 1 .. n
        BY <1>4
      <3>2. PICK l \in Nat : l = Len(s)
        BY LenProperties
      <3>3. PICK m \in 1 .. 3 : m = Len(Groups(s, 3)[n]) /\ l = 3 * (n - 1) + m
        BY <1>2, <3>1, <3>2, GroupLengths
      <3>4. (g # n => mg = 3 /\ g < n) /\ (g = n => mg = m)
        BY <1>2, <1>4, <2>1, <2>2, <3>3, GroupLengths, Zenon
      <3>5. UsedAt(g, j, l, mg)
        <4>1. AreSizes(l, n, m, g, mg)
          BY <3>3, <3>4, Zenon DEF AreSizes
        <4>2. QED
          BY <3>1, <4>1, UsedCodes, Zenon
      <3>6. QED
        BY <3>2, <3>5, Zenon DEF UsedAt
    <2>8. QED
      BY <2>4, <2>6, <2>7, Zenon
  <1>5. ASSUME NEW k \in 0 .. Len(t) - 1
        PROVE  t[k + 1] = IF k < (8 * Len(s) + 5) \div 6 THEN CodeOf(s, k) ELSE Pad
    <2>1. PICK p \in 1 .. 4 * n : p = k + 1
      BY <1>3, <1>5
    <2>2. PICK g \in 1 .. n, j \in 1 .. 4 : p = 4 * (g - 1) + j
      BY PlaceOf
    <2>3. 4 * (g - 1) + (j - 1) = k
      BY <2>1, <2>2
    <2>4. QED
      BY <1>4, <2>1, <2>2, <2>3, Zenon
  <1>6. QED
    BY <1>1, <1>2, <1>3, <1>5, Zenon DEF IsBase64Of, GroupCount

-----------------------------------------------------------------------------
(* The conversions a worker makes.                                         *)

\* What has come out is what the function called makes of its input.
Made(f, out, back) == call[1] = f => output = <<out>> /\ again = back

ConvInv ==
  /\ call = NoCall \/ call \in Calls
  /\ call = NoCall => output = None
  /\ output = None => again = None
  /\ output # None =>
       /\ Made("encode", url_encode(Input), <<url_decode(url_encode(Input))>>)
       /\ Made("decode", url_decode(Input), None)
       /\ Made("base64", base64_encode(Input), <<base64_decode(base64_encode(Input))>>)
       /\ Made("expire", OrderExpiry(Input), None)
       /\ Made("query", Params(Input), None)

LEMMA ConvStart ==
  ASSUME ConvInit
  PROVE  ConvInv
  BY DEF ConvInit, ConvInv

LEMMA ConvKept ==
  ASSUME ConvInv, (call = NoCall /\ \E c \in Calls : Call(c)) \/ Convert \/ UNCHANGED convVars
  PROVE  ConvInv'
  <1>1. CASE call = NoCall /\ \E c \in Calls : Call(c)
    <2>1. call' \in Calls /\ output = None /\ again = None /\ output' = output /\ again' = again
      BY <1>1 DEF ConvInv, Call
    <2>2. call' # NoCall
      <3>1. call'[1] \in {"encode", "decode", "base64", "expire", "query"}
        BY <2>1 DEF Calls
      <3>2. NoCall[1] = "none"
        BY DEF NoCall
      <3>3. QED
        BY <3>1, <3>2
    <2>3. QED
      BY <2>1, <2>2 DEF ConvInv
  <1>2. CASE UNCHANGED convVars
    <2>1. call' = call /\ output' = output /\ again' = again
      BY <1>2 DEF convVars
    <2>2. QED
      BY <2>1 DEF ConvInv, Made, Input
  <1>3. CASE Convert
    <2>1. call' = call /\ output = None /\ again = None
      BY <1>3 DEF Convert, UrlEncode, UrlDecode, Base64Encode, PutExpire, GetParams, ConvInv
    <2>2. call # NoCall /\ call[1] \in {"encode", "decode", "base64", "expire", "query"}
      <3>1. call[1] \in {"encode", "decode", "base64", "expire", "query"}
        BY <1>3 DEF Convert, UrlEncode, UrlDecode, Base64Encode, PutExpire, GetParams
      <3>2. NoCall[1] = "none"
        BY DEF NoCall
      <3>3. QED
        BY <3>1, <3>2
    <2>3. Input' = Input
      BY <2>1 DEF Input
    <2>4. output' # None
      BY <1>3 DEF Convert, UrlEncode, UrlDecode, Base64Encode, PutExpire, GetParams, None
    <2>5. CASE UrlEncode
      BY <2>1, <2>2, <2>3, <2>4, <2>5 DEF UrlEncode, ConvInv, Made
    <2>6. CASE UrlDecode
      BY <2>1, <2>2, <2>3, <2>4, <2>6 DEF UrlDecode, ConvInv, Made
    <2>7. CASE Base64Encode
      BY <2>1, <2>2, <2>3, <2>4, <2>7 DEF Base64Encode, ConvInv, Made
    <2>8. CASE PutExpire
      BY <2>1, <2>2, <2>3, <2>4, <2>8 DEF PutExpire, ConvInv, Made
    <2>9. CASE GetParams
      BY <2>1, <2>2, <2>3, <2>4, <2>9 DEF GetParams, ConvInv, Made
    <2>10. QED
      BY <1>3, <2>5, <2>6, <2>7, <2>8, <2>9 DEF Convert
  <1>4. QED
    BY <1>1, <1>2, <1>3

\* The input of each function.
LEMMA Inputs ==
  ASSUME call \in Calls
  PROVE  /\ call[1] \in {"encode", "decode", "base64", "expire", "query"}
         /\ call[1] = "encode" => Input \in Seq(1 .. 255)
         /\ call[1] = "decode" => Input \in Seq(1 .. 255)
         /\ call[1] = "base64" => Input \in Seq(0 .. 255)
         /\ call[1] = "expire" => Input \in Nat
         /\ call[1] = "query" => Input \in Seq(Seq(STRING))
  <1>1. PICK f, x :
           /\ call = <<f, x>> /\ f \in {"encode", "decode", "base64", "expire", "query"}
           /\ f = "encode" => x \in UrlTexts
           /\ f = "decode" => x \in UrlRequests
           /\ f = "base64" => x \in Base64Texts
           /\ f = "expire" => x \in Days
           /\ f = "query" => x \in Queries
    BY DEF Calls
  <1>2. call[1] = f /\ Input = x
    BY <1>1 DEF Input
  <1>3. QED
    BY <1>1, <1>2, TextsAssumption

LEMMA DecodeIsFit ==
  ASSUME NEW s \in Seq(1 .. 255)
  PROVE  /\ Len(url_decode(s)) <= Len(s)
         /\ \A i \in DOMAIN url_decode(s) : url_decode(s)[i] \in 1 .. 255
         /\ (\A p \in DOMAIN s : s[p] = Percent => p + 2 > Len(s)) =>
               Len(url_decode(s)) = Cardinality({p \in DOMAIN s : s[p] # Percent})
  <1>1. PICK d : d = DecodeAt(s)
    OBVIOUS
  <1>2. d \in Seq(0 .. 255) /\ Len(d) <= Len(s)
    BY <1>1, DecodeBounds
  <1>3. PICK t : t = CutAt(d, NUL)
    OBVIOUS
  <1>4. /\ t \in Seq(0 .. 255) /\ Len(t) <= Len(d)
        /\ \A i \in 1 .. Len(t) : t[i] = d[i] /\ d[i] # NUL
        /\ (\A i \in 1 .. Len(d) : d[i] # NUL) => t = d
    BY <1>2, <1>3, CutFacts
  <1>5. t = url_decode(s)
    BY <1>1, <1>3 DEF url_decode
  <1>6. Len(t) <= Len(s)
    <2>1. Len(t) \in Nat /\ Len(d) \in Nat /\ Len(s) \in Nat
      BY <1>2, <1>4, LenProperties
    <2>2. QED
      BY <1>2, <1>4, <2>1
  <1>7. ASSUME NEW i \in DOMAIN t
        PROVE  t[i] \in 1 .. 255
    <2>1. i \in 1 .. Len(t) /\ t[i] \in 0 .. 255
      BY <1>4, <1>7, ElementOfSeq, LenProperties
    <2>2. t[i] # 0
      BY <1>4, <2>1 DEF NUL
    <2>3. QED
      BY <2>1, <2>2
  <1>8. ASSUME \A p \in DOMAIN s : s[p] = Percent => p + 2 > Len(s)
        PROVE  Len(t) = Cardinality({p \in DOMAIN s : s[p] # Percent})
    <2>1. DOMAIN s = 1 .. Len(s)
      BY LenProperties
    <2>2. \A p \in 1 .. Len(s) : s[p] = Percent => p + 2 > Len(s)
      BY <1>8, <2>1
    <2>3. /\ DecodeAt(s) \in Seq(1 .. 255)
          /\ Len(DecodeAt(s)) = Cardinality({p \in 1 .. Len(s) : s[p] # Percent})
      BY <2>2, DecodePlain
    <2>4. \A i \in 1 .. Len(d) : d[i] # NUL
      <3>1. \A i \in 1 .. Len(d) : d[i] \in 1 .. 255
        BY <1>1, <2>3, ElementOfSeq
      <3>2. \A x \in 1 .. 255 : x # NUL
        BY DEF NUL
      <3>3. QED
        BY <3>1, <3>2, Zenon
    <2>5. QED
      BY <1>1, <1>4, <2>1, <2>3, <2>4
  <1>9. QED
    BY <1>5, <1>6, <1>7, <1>8

\* What has come out is right.
LEMMA ConvRight ==
  ASSUME ConvInv
  PROVE  ConversionsRight
  <1>1. ASSUME output # None
        PROVE  call \in Calls
    BY <1>1 DEF ConvInv
  <1>2. RoundTrip
    <2>1. SUFFICES ASSUME again # None PROVE again[1] = Input
      BY DEF RoundTrip
    <2>2. output # None /\ call \in Calls
      BY <1>1, <2>1 DEF ConvInv
    <2>3. call[1] = "encode" \/ call[1] = "base64"
      BY <2>1, <2>2, Inputs DEF ConvInv, Made
    <2>4. CASE call[1] = "encode"
      <3>1. again = <<url_decode(url_encode(Input))>> /\ Input \in Seq(1 .. 255)
        BY <2>2, <2>4, Inputs DEF ConvInv, Made
      <3>2. url_decode(url_encode(Input)) = Input
        BY <3>1, UrlRoundTrip
      <3>3. QED
        BY <3>1, <3>2
    <2>5. CASE call[1] = "base64"
      <3>1. again = <<base64_decode(base64_encode(Input))>> /\ Input \in Seq(0 .. 255)
        BY <2>2, <2>5, Inputs DEF ConvInv, Made
      <3>2. base64_decode(base64_encode(Input)) = Input
        BY <3>1, Base64RoundTrip
      <3>3. QED
        BY <3>1, <3>2
    <2>6. QED
      BY <2>3, <2>4, <2>5
  <1>3. Base64Bits
    <2>1. ASSUME call[1] = "base64", output # None
          PROVE  IsBase64Of(output[1], Input)
      <3>1. Input \in Seq(0 .. 255) /\ output = <<base64_encode(Input)>>
        BY <1>1, <2>1, Inputs DEF ConvInv, Made
      <3>2. output[1] = base64_encode(Input)
        BY <3>1
      <3>3. QED
        BY <3>1, <3>2, Base64OfText
    <2>2. QED
      BY <2>1 DEF Base64Bits, IsBase64Of, CodeOf, BitOf, Weights
  <1>4. DecodeFits
    <2>1. ASSUME call[1] = "decode", output # None
          PROVE  Input \in Seq(1 .. 255) /\ output[1] = url_decode(Input)
      BY <1>1, <2>1, Inputs DEF ConvInv, Made
    <2>2. QED
      BY <2>1, DecodeIsFit DEF DecodeFits
  <1>5. ParamsAsSent
    <2>1. SUFFICES ASSUME call[1] = "query", output # None,
                          NEW i \in DOMAIN Input, \A j \in 1 .. i : Len(Input[j]) = 2,
                          Input[i][1] \notin
                            UNION {ToSet(Input[j]) : j \in {j \in DOMAIN Input : j > i}}
                   PROVE  /\ Input[i][1] \in DOMAIN output[1]
                          /\ output[1][Input[i][1]] = Input[i][2]
      BY DEF ParamsAsSent
    <2>2. PICK q \in Seq(Seq(STRING)) : q = Input /\ output[1] = Params(q)
      BY <1>1, <2>1, Inputs DEF ConvInv, Made
    <2>3. i \in 1 .. Len(q) /\ \A j \in 1 .. Len(q) : q[j] \in Seq(STRING)
      BY <2>2, LenProperties, ElementOfSeq
    <2>4. ASSUME NEW j \in 1 .. Len(q), j > i, NEW k \in 1 .. Len(q[j])
          PROVE  q[j][k] # q[i][1]
      <3>1. j \in DOMAIN q /\ k \in DOMAIN q[j]
        BY <2>2, <2>3, <2>4, LenProperties
      <3>2. q[j][k] \in ToSet(q[j])
        BY <3>1 DEF ToSet
      <3>3. QED
        BY <2>1, <2>2, <2>4, <3>1, <3>2
    <2>5. \A j \in 1 .. i : Len(q[j]) = 2
      BY <2>1, <2>2
    <2>6. q[i][1] \in DOMAIN Params(q) /\ Params(q)[q[i][1]] = q[i][2]
      BY <2>3, <2>4, <2>5, ParamKept
    <2>7. QED
      BY <2>2, <2>6
  <1>6. ExpiryNotEarly
    <2>1. ASSUME call[1] = "expire", output # None
          PROVE  IsExpiry(output[1], Input)
      <3>1. Input \in Nat /\ output[1] = OrderExpiry(Input)
        BY <1>1, <2>1, Inputs DEF ConvInv, Made
      <3>2. QED
        BY <3>1, ExpiryFits, Zenon
    <2>2. QED
      BY <2>1, SMT DEF ExpiryNotEarly, IsExpiry
  <1>7. QED
    BY <1>2, <1>3, <1>4, <1>5, <1>6 DEF ConversionsRight

=============================================================================
