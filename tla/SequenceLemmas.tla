--------------------------- MODULE SequenceLemmas ---------------------------
(***************************************************************************)
(* Facts about sequences that the proofs of several components use: what   *)
(* Append and SubSeq leave where it was, and what Subsequences selects.    *)
(*                                                                         *)
(* The latter needs induction over the length.  Induction is stated about  *)
(* a set of numbers, which no prover has to instantiate an operator for;   *)
(* it rests on the library's theorem that < is well-founded on Nat.        *)
(***************************************************************************)
EXTENDS Subsequences, SequenceTheorems, WellFoundedInduction, TLAPS

-----------------------------------------------------------------------------
(* Induction over a set of numbers.                                        *)

LEMMA LessThanOrder ==
    \E R : IsWellFoundedOn(R, Nat) /\ \A m, n \in Nat : <<m, n>> \in R <=> m < n
  <1>1. \A m, n \in Nat : <<m, n>> \in OpToRel(<, Nat) <=> m < n
    BY DEF OpToRel
  <1> QED
    BY <1>1, NatLessThanWellFounded, Zenon

LEMMA LeastNumber ==
    ASSUME NEW T \in SUBSET Nat, T # {}
    PROVE  \E n \in T : \A m \in T : n <= m
  <1>1. PICK R : IsWellFoundedOn(R, Nat) /\ \A m, n \in Nat : <<m, n>> \in R <=> m < n
    BY LessThanOrder
  <1>2. T \subseteq Nat /\ IsWellFoundedOn(R, Nat)
    BY <1>1
  <1>3. PICK n \in T : \A m \in T : ~(<<m, n>> \in R)
    BY <1>2, WFMin, Zenon
  <1>4. \A m \in T : ~(m < n)
    BY <1>1, <1>2, <1>3, Zenon
  <1>5. \A m \in T : n <= m
    BY <1>2, <1>4
  <1> QED
    BY <1>5

LEMMA Induction ==
    ASSUME NEW S \in SUBSET Nat, 0 \in S, \A n \in S : n + 1 \in S
    PROVE  \A n \in Nat : n \in S
  <1> SUFFICES ASSUME Nat \ S # {} PROVE FALSE
    OBVIOUS
  <1>1. PICK n \in Nat \ S : \A m \in Nat \ S : n <= m
    BY LeastNumber
  <1>2. n # 0 /\ n - 1 \in Nat /\ n = (n - 1) + 1
    BY <1>1
  <1>3. n - 1 \in S
    BY <1>1, <1>2
  <1> QED
    BY <1>1, <1>2, <1>3

(* Up to a bound.                                                          *)
LEMMA InductionUpTo ==
    ASSUME NEW b \in Nat, NEW S, 0 \in S,
           \A n \in 0 .. b : n \in S /\ n < b => n + 1 \in S
    PROVE  \A n \in 0 .. b : n \in S
  <1> DEFINE T == {n \in Nat : n <= b => n \in S}
  <1>1. T \in SUBSET Nat /\ 0 \in T
    OBVIOUS
  <1>2. ASSUME NEW n \in T PROVE n + 1 \in T
    OBVIOUS
  <1> HIDE DEF T
  <1>3. \A n \in Nat : n \in T
    BY <1>1, <1>2, Induction
  <1> QED
    BY <1>3 DEF T

-----------------------------------------------------------------------------
(* Append and SubSeq.                                                      *)

LEMMA AppendFacts ==
    ASSUME NEW S, NEW s \in Seq(S), NEW x \in S
    PROVE  /\ Append(s, x) \in Seq(S)
           /\ Len(s) \in Nat
           /\ Len(Append(s, x)) = Len(s) + 1
           /\ DOMAIN s = 1 .. Len(s)
           /\ DOMAIN Append(s, x) = 1 .. Len(s) + 1
           /\ \A i \in 1 .. Len(s) : Append(s, x)[i] = s[i]
           /\ Append(s, x)[Len(s) + 1] = x
  BY AppendProperties, LenProperties

LEMMA PrefixFacts ==
    ASSUME NEW S, NEW s \in Seq(S), NEW n \in 0 .. Len(s)
    PROVE  /\ SubSeq(s, 1, n) \in Seq(S)
           /\ Len(SubSeq(s, 1, n)) = n
           /\ DOMAIN SubSeq(s, 1, n) = 1 .. n
           /\ \A i \in 1 .. n : SubSeq(s, 1, n)[i] = s[i]
  <1>1. Len(s) \in Nat /\ n \in Int /\ \A i \in 1 .. n : s[i] \in S
    BY LenProperties, ElementOfSeq
  <1>2. /\ SubSeq(s, 1, n) \in Seq(S)
        /\ Len(SubSeq(s, 1, n)) = IF 1 <= n THEN n - 1 + 1 ELSE 0
        /\ \A i \in 1 .. n - 1 + 1 : SubSeq(s, 1, n)[i] = s[1 + i - 1]
    BY <1>1, SubSeqProperties
  <1>3. Len(SubSeq(s, 1, n)) = n
    BY <1>1, <1>2
  <1> QED
    BY <1>1, <1>2, <1>3, LenProperties

-----------------------------------------------------------------------------
(* Selections.                                                             *)

(* The recursion has a solution, for every length.                         *)
Solves(f, s, I, b) ==
    f = [n \in 0 .. b |-> IF n = 0 THEN <<>>
                          ELSE IF n \in I THEN Append(f[n - 1], s[n]) ELSE f[n - 1]]

LEMMA SelectionsExist ==
    ASSUME NEW s, NEW I, NEW b \in Nat
    PROVE  \E f : Solves(f, s, I, b)
  <1> DEFINE S == {m \in Nat : \E f : Solves(f, s, I, m)}
  <1>1. 0 \in S
    <2>1. Solves([n \in 0 .. 0 |-> <<>>], s, I, 0)
      BY DEF Solves
    <2> QED
      BY <2>1
  <1>2. ASSUME NEW m \in S PROVE m + 1 \in S
    <2>1. PICK f : Solves(f, s, I, m)
      OBVIOUS
    <2> DEFINE x == IF m + 1 \in I THEN Append(f[m], s[m + 1]) ELSE f[m]
               g == [n \in 0 .. m + 1 |-> IF n = m + 1 THEN x ELSE f[n]]
    <2>2. m \in Nat /\ m + 1 \in Nat
      OBVIOUS
    <2>3. f[0] = <<>> /\ \A n \in 1 .. m : f[n] = IF n \in I THEN Append(f[n - 1], s[n]) ELSE f[n - 1]
      <3>1. \A n \in 0 .. m : f[n] = IF n = 0 THEN <<>>
                                    ELSE IF n \in I THEN Append(f[n - 1], s[n]) ELSE f[n - 1]
        BY <2>1, Zenon DEF Solves
      <3> QED
        BY <3>1, <2>2
    <2> HIDE DEF x
    <2>4. /\ g[0] = <<>>
          /\ \A n \in 1 .. m + 1 : g[n - 1] = f[n - 1]
          /\ \A n \in 1 .. m : g[n] = f[n]
          /\ g[m + 1] = x
      BY <2>2, <2>3
    <2> HIDE DEF g
    <2>5. \A n \in 0 .. m + 1 : g[n] = IF n = 0 THEN <<>>
                                       ELSE IF n \in I THEN Append(g[n - 1], s[n]) ELSE g[n - 1]
      <3> SUFFICES ASSUME NEW n \in 0 .. m + 1, n # 0
                   PROVE  g[n] = IF n \in I THEN Append(g[n - 1], s[n]) ELSE g[n - 1]
        BY <2>4
      <3>1. CASE n = m + 1
        <4>1. g[n - 1] = f[m]
          BY <3>1, <2>2, <2>4
        <4> QED
          BY <3>1, <4>1, <2>4 DEF x
      <3>2. CASE n # m + 1
        BY <3>2, <2>2, <2>3, <2>4
      <3> QED
        BY <3>1, <3>2
    <2>6. Solves(g, s, I, m + 1)
      BY <2>5 DEF g, Solves
    <2> QED
      BY <2>2, <2>6
  <1> HIDE DEF S
  <1>3. S \in SUBSET Nat
    BY DEF S
  <1>4. b \in S
    BY <1>1, <1>2, <1>3, Induction
  <1> QED
    BY <1>4 DEF S

LEMMA SelectionsRecursion ==
    ASSUME NEW S, NEW s \in Seq(S), NEW I
    PROVE  /\ Selections(s, I)[0] = <<>>
           /\ \A n \in 1 .. Len(s) :
                 Selections(s, I)[n] = IF n \in I THEN Append(Selections(s, I)[n - 1], s[n])
                                       ELSE Selections(s, I)[n - 1]
  <1> DEFINE f == CHOOSE g : Solves(g, s, I, Len(s))
  <1>1. Len(s) \in Nat
    BY LenProperties
  <1>2. \E g : Solves(g, s, I, Len(s))
    BY <1>1, SelectionsExist
  <1>3. f = Selections(s, I)
    BY Zenon DEF Selections, Solves
  <1>4. Solves(f, s, I, Len(s))
    BY <1>2, Zenon
  <1> HIDE DEF f
  <1>5. \A n \in 0 .. Len(s) : f[n] = IF n = 0 THEN <<>>
                                     ELSE IF n \in I THEN Append(f[n - 1], s[n]) ELSE f[n - 1]
    BY <1>4, Zenon DEF Solves
  <1>6. /\ f[0] = <<>>
        /\ \A n \in 1 .. Len(s) : f[n] = IF n \in I THEN Append(f[n - 1], s[n]) ELSE f[n - 1]
    BY <1>1, <1>5
  <1> QED
    BY <1>3, <1>6

(* What is selected are items of s at positions of I, and all of them.     *)
LEMMA SelectionsItems ==
    ASSUME NEW S, NEW s \in Seq(S), NEW I, NEW n \in 0 .. Len(s)
    PROVE  /\ Selections(s, I)[n] \in Seq(S)
           /\ \A k \in 1 .. Len(Selections(s, I)[n]) :
                 \E i \in 1 .. n : i \in I /\ Selections(s, I)[n][k] = s[i]
           /\ \A i \in 1 .. n : i \in I =>
                 \E k \in 1 .. Len(Selections(s, I)[n]) : Selections(s, I)[n][k] = s[i]
  <1> DEFINE f == Selections(s, I)
             Good(m) == /\ f[m] \in Seq(S)
                        /\ \A k \in 1 .. Len(f[m]) : \E i \in 1 .. m : i \in I /\ f[m][k] = s[i]
                        /\ \A i \in 1 .. m : i \in I => \E k \in 1 .. Len(f[m]) : f[m][k] = s[i]
             G == {m \in 0 .. Len(s) : Good(m)}
  <1>1. Len(s) \in Nat /\ \A i \in 1 .. Len(s) : s[i] \in S
    BY LenProperties, ElementOfSeq
  <1>2. /\ f[0] = <<>>
        /\ \A m \in 1 .. Len(s) : f[m] = IF m \in I THEN Append(f[m - 1], s[m]) ELSE f[m - 1]
    BY SelectionsRecursion
  <1> HIDE DEF f
  <1>3. 0 \in G
    <2>1. <<>> \in Seq(S) /\ Len(<<>>) = 0 /\ 0 \in 0 .. Len(s)
      BY <1>1, EmptySeq
    <2>2. f[0] = <<>>
      BY <1>2
    <2>3. f[0] \in Seq(S) /\ Len(f[0]) = 0
      BY <2>1, <2>2
    <2> QED
      BY <2>1, <2>3
  <1>4. ASSUME NEW m \in 0 .. Len(s), m \in G, m < Len(s)
        PROVE  m + 1 \in G
    <2>1. m + 1 \in 1 .. Len(s) /\ (m + 1) - 1 = m /\ m \in Nat
      BY <1>1, <1>4
    <2>2. Good(m)
      BY <1>4
    <2>3. CASE m + 1 \notin I
      <3>1. f[m + 1] = f[m]
        BY <2>1, <2>3, <1>2
      <3>2. \A i \in 1 .. m + 1 : i \in I => i \in 1 .. m
        BY <2>1, <2>3
      <3>3. \A i \in 1 .. m : i \in 1 .. m + 1
        BY <2>1
      <3>4. m + 1 \in 0 .. Len(s)
        BY <2>1, <1>1
      <3>5. Good(m + 1)
        BY <2>2, <3>1, <3>2, <3>3
      <3> QED
        BY <3>4, <3>5
    <2>4. CASE m + 1 \in I
      <3>1. f[m + 1] = Append(f[m], s[m + 1])
        BY <2>1, <2>4, <1>2
      <3>2. s[m + 1] \in S
        BY <2>1, <1>1
      <3>3. /\ f[m + 1] \in Seq(S)
            /\ Len(f[m]) \in Nat /\ Len(f[m + 1]) = Len(f[m]) + 1
            /\ \A k \in 1 .. Len(f[m]) : f[m + 1][k] = f[m][k]
            /\ f[m + 1][Len(f[m]) + 1] = s[m + 1]
        BY <2>2, <3>1, <3>2, AppendFacts
      <3>4. ASSUME NEW k \in 1 .. Len(f[m + 1])
            PROVE  \E i \in 1 .. m + 1 : i \in I /\ f[m + 1][k] = s[i]
        <4>1. CASE k = Len(f[m]) + 1
          BY <4>1, <3>3, <2>1, <2>4
        <4>2. CASE k # Len(f[m]) + 1
          <5>1. k \in 1 .. Len(f[m]) /\ f[m + 1][k] = f[m][k]
            BY <4>2, <3>3
          <5> QED
            BY <5>1, <2>1, <2>2
        <4> QED
          BY <4>1, <4>2
      <3>5. ASSUME NEW i \in 1 .. m + 1, i \in I
            PROVE  \E k \in 1 .. Len(f[m + 1]) : f[m + 1][k] = s[i]
        <4>1. CASE i = m + 1
          BY <4>1, <3>3
        <4>2. CASE i # m + 1
          <5>1. i \in 1 .. m
            BY <4>2, <2>1
          <5>2. PICK k \in 1 .. Len(f[m]) : f[m][k] = s[i]
            BY <5>1, <3>5, <2>2
          <5> QED
            BY <5>2, <3>3
        <4> QED
          BY <4>1, <4>2
      <3> QED
        BY <2>1, <3>3, <3>4, <3>5, SMTT(30)
    <2> QED
      BY <2>3, <2>4
  <1> HIDE DEF G
  <1>5. \A m \in 0 .. Len(s) : m \in G
    BY <1>1, <1>3, <1>4, InductionUpTo
  <1> QED
    BY <1>5 DEF G, f

(* The selections depend on the first items only.                          *)
LEMMA SelectionsAgree ==
    ASSUME NEW S, NEW s \in Seq(S), NEW t \in Seq(S), NEW I, NEW J,
           NEW b \in Nat, b <= Len(s), b <= Len(t),
           \A i \in 1 .. b : s[i] = t[i] /\ (i \in I <=> i \in J)
    PROVE  Selections(s, I)[b] = Selections(t, J)[b]
  <1> DEFINE f == Selections(s, I)
             g == Selections(t, J)
             G == {m \in 0 .. b : f[m] = g[m]}
  <1>1. Len(s) \in Nat /\ Len(t) \in Nat
    BY LenProperties
  <1>2. /\ f[0] = <<>>
        /\ \A m \in 1 .. Len(s) : f[m] = IF m \in I THEN Append(f[m - 1], s[m]) ELSE f[m - 1]
        /\ g[0] = <<>>
        /\ \A m \in 1 .. Len(t) : g[m] = IF m \in J THEN Append(g[m - 1], t[m]) ELSE g[m - 1]
    BY SelectionsRecursion
  <1> HIDE DEF f, g
  <1>3. 0 \in G
    BY <1>2
  <1>4. ASSUME NEW m \in 0 .. b, m \in G, m < b PROVE m + 1 \in G
    <2>1. m + 1 \in 1 .. b /\ m + 1 \in 1 .. Len(s) /\ m + 1 \in 1 .. Len(t) /\ (m + 1) - 1 = m
      BY <1>1, <1>4
    <2>2. f[m] = g[m]
      BY <1>4
    <2> QED
      BY <1>2, <2>1, <2>2
  <1> HIDE DEF G
  <1>5. \A m \in 0 .. b : m \in G
    BY <1>3, <1>4, InductionUpTo
  <1> QED
    BY <1>5 DEF G, f, g

(* What is selected up to n is the beginning of what is selected up to b.  *)
LEMMA SelectionsGrow ==
    ASSUME NEW S, NEW s \in Seq(S), NEW I,
           NEW b \in 0 .. Len(s), NEW n \in 0 .. b
    PROVE  Begins(Selections(s, I)[n], Selections(s, I)[b])
  <1> DEFINE f == Selections(s, I)
             G == {m \in Nat : n + m <= Len(s) => Begins(f[n], f[n + m])}
  <1>1. Len(s) \in Nat /\ n \in Nat
    BY LenProperties
  <1>2. /\ \A m \in 0 .. Len(s) : f[m] \in Seq(S)
        /\ \A m \in 1 .. Len(s) : f[m] = IF m \in I THEN Append(f[m - 1], s[m]) ELSE f[m - 1]
        /\ \A m \in 1 .. Len(s) : s[m] \in S
    BY SelectionsItems, SelectionsRecursion, ElementOfSeq
  <1> HIDE DEF f
  <1>3. 0 \in G
    <2>1. Len(f[n]) \in Nat
      BY <1>1, <1>2, LenProperties
    <2> QED
      BY <1>1, <2>1 DEF Begins
  <1>4. ASSUME NEW m \in G PROVE m + 1 \in G
    <2> SUFFICES ASSUME n + (m + 1) <= Len(s) PROVE Begins(f[n], f[n + (m + 1)])
      OBVIOUS
    <2>1. /\ m \in Nat /\ n + m \in 0 .. Len(s) /\ n \in 0 .. Len(s)
          /\ n + (m + 1) \in 1 .. Len(s) /\ (n + (m + 1)) - 1 = n + m
      BY <1>1
    <2>2. Begins(f[n], f[n + m])
      BY <1>4, <2>1
    <2>3. Len(f[n]) \in Nat /\ Len(f[n + m]) \in Nat
      BY <1>2, <2>1, LenProperties
    <2>4. CASE n + (m + 1) \in I
      <3>1. f[n + (m + 1)] = Append(f[n + m], s[n + (m + 1)])
        BY <2>1, <2>4, <1>2
      <3>2. /\ Len(f[n + (m + 1)]) = Len(f[n + m]) + 1
            /\ \A k \in 1 .. Len(f[n + m]) : f[n + (m + 1)][k] = f[n + m][k]
        BY <2>1, <3>1, <1>2, AppendFacts
      <3> QED
        BY <2>2, <2>3, <3>2 DEF Begins
    <2>5. CASE n + (m + 1) \notin I
      BY <2>1, <2>2, <2>5, <1>2
    <2> QED
      BY <2>4, <2>5
  <1> HIDE DEF G
  <1>5. G \in SUBSET Nat
    BY DEF G
  <1>6. b - n \in Nat /\ n + (b - n) = b /\ b <= Len(s)
    BY <1>1
  <1>7. b - n \in G
    BY <1>3, <1>4, <1>5, <1>6, Induction
  <1> QED
    BY <1>6, <1>7 DEF G, f

-----------------------------------------------------------------------------
(* What the models use: selecting from all of a sequence.                  *)

LEMMA SelectedItems ==
    ASSUME NEW S, NEW s \in Seq(S), NEW I
    PROVE  /\ Selected(s, I) \in Seq(S)
           /\ Len(Selected(s, I)) \in Nat
           /\ \A k \in 1 .. Len(Selected(s, I)) :
                 \E i \in 1 .. Len(s) : i \in I /\ Selected(s, I)[k] = s[i]
           /\ \A i \in 1 .. Len(s) : i \in I =>
                 \E k \in 1 .. Len(Selected(s, I)) : Selected(s, I)[k] = s[i]
  <1>1. Len(s) \in 0 .. Len(s)
    BY LenProperties
  <1>2. Selected(s, I) \in Seq(S)
    BY <1>1, SelectionsItems DEF Selected
  <1>3. Len(Selected(s, I)) \in Nat
    BY <1>2, LenProperties
  <1> QED
    BY <1>1, <1>2, <1>3, SelectionsItems DEF Selected

(* Items that differ in s differ in what is selected.                      *)
LEMMA SelectedOnce ==
    ASSUME NEW S, NEW s \in Seq(S), NEW I,
           \A i, j \in 1 .. Len(s) : s[i] = s[j] => i = j
    PROVE  \A k, l \in 1 .. Len(Selected(s, I)) :
               Selected(s, I)[k] = Selected(s, I)[l] => k = l
  <1> DEFINE f == Selections(s, I)
             Once(m) == \A k, l \in 1 .. Len(f[m]) : f[m][k] = f[m][l] => k = l
             G == {m \in 0 .. Len(s) : Once(m)}
  <1>1. Len(s) \in Nat /\ \A i \in 1 .. Len(s) : s[i] \in S
    BY LenProperties, ElementOfSeq
  <1>2. /\ f[0] = <<>>
        /\ \A m \in 1 .. Len(s) : f[m] = IF m \in I THEN Append(f[m - 1], s[m]) ELSE f[m - 1]
    BY SelectionsRecursion
  <1>3. \A m \in 0 .. Len(s) : /\ f[m] \in Seq(S)
                              /\ \A k \in 1 .. Len(f[m]) : \E i \in 1 .. m : f[m][k] = s[i]
    BY SelectionsItems
  <1>4. f[Len(s)] = Selected(s, I)
    BY DEF Selected
  <1> HIDE DEF f
  <1>5. 0 \in G
    <2>1. Len(f[0]) = 0 /\ 0 \in 0 .. Len(s)
      BY <1>1, <1>2, EmptySeq
    <2> QED
      BY <2>1
  <1>6. ASSUME NEW m \in 0 .. Len(s), m \in G, m < Len(s)
        PROVE  m + 1 \in G
    <2>1. m + 1 \in 1 .. Len(s) /\ (m + 1) - 1 = m /\ m \in Nat /\ m + 1 \in 0 .. Len(s)
      BY <1>1, <1>6
    <2>2. CASE m + 1 \notin I
      <3>1. f[m + 1] = f[m]
        BY <2>1, <2>2, <1>2
      <3> QED
        BY <2>1, <3>1, <1>6
    <2>3. CASE m + 1 \in I
      <3>1. f[m + 1] = Append(f[m], s[m + 1]) /\ f[m] \in Seq(S) /\ s[m + 1] \in S
        BY <2>1, <2>3, <1>1, <1>2, <1>3
      <3>2. /\ Len(f[m]) \in Nat /\ Len(f[m + 1]) = Len(f[m]) + 1
            /\ \A k \in 1 .. Len(f[m]) : f[m + 1][k] = f[m][k]
            /\ f[m + 1][Len(f[m]) + 1] = s[m + 1]
        BY <3>1, AppendFacts
      <3>3. \A k \in 1 .. Len(f[m]) : f[m][k] # s[m + 1]
        <4>1. SUFFICES ASSUME NEW k \in 1 .. Len(f[m]), f[m][k] = s[m + 1]
                       PROVE  FALSE
          OBVIOUS
        <4>2. PICK i \in 1 .. m : f[m][k] = s[i]
          BY <1>3
        <4>3. i \in 1 .. Len(s) /\ i # m + 1
          BY <2>1
        <4> QED
          BY <4>1, <4>2, <4>3, <2>1
      <3>4. Once(m)
        BY <1>6
      <3>5. Once(m + 1)
        <4>1. SUFFICES ASSUME NEW k \in 1 .. Len(f[m + 1]), NEW l \in 1 .. Len(f[m + 1]),
                              f[m + 1][k] = f[m + 1][l]
                       PROVE  k = l
          OBVIOUS
        <4>2. \A j \in 1 .. Len(f[m + 1]) : j \in 1 .. Len(f[m]) \/ j = Len(f[m]) + 1
          BY <3>2
        <4> QED
          BY <4>1, <4>2, <3>2, <3>3, <3>4
      <3> QED
        BY <2>1, <3>5
    <2> QED
      BY <2>2, <2>3
  <1> HIDE DEF G
  <1>7. \A m \in 0 .. Len(s) : m \in G
    BY <1>1, <1>5, <1>6, InductionUpTo
  <1>8. Once(Len(s))
    BY <1>1, <1>7 DEF G
  <1> QED
    BY <1>4, <1>8

LEMMA SelectedEmpty ==
    ASSUME NEW I
    PROVE  Selected(<<>>, I) = <<>>
  <1>1. <<>> \in Seq({}) /\ Len(<<>>) = 0
    BY EmptySeq
  <1> QED
    BY <1>1, SelectionsRecursion DEF Selected

LEMMA SelectedSame ==
    ASSUME NEW S, NEW s \in Seq(S), NEW t \in Seq(S), NEW I, NEW J, Len(s) = Len(t),
           \A i \in 1 .. Len(s) : s[i] = t[i] /\ (i \in I <=> i \in J)
    PROVE  Selected(s, I) = Selected(t, J)
  <1> DEFINE b == Len(s)
  <1>1. b \in Nat /\ b <= Len(s) /\ b <= Len(t)
    BY LenProperties
  <1>2. \A i \in 1 .. b : s[i] = t[i] /\ (i \in I <=> i \in J)
    OBVIOUS
  <1>3. b = Len(s) /\ b = Len(t)
    OBVIOUS
  <1> HIDE DEF b
  <1>4. Selections(s, I)[b] = Selections(t, J)[b]
    BY <1>1, <1>2, SelectionsAgree
  <1> QED
    BY <1>3, <1>4 DEF Selected

LEMMA SelectedAppend ==
    ASSUME NEW S, NEW s \in Seq(S), NEW x \in S, NEW I, NEW J,
           \A i \in 1 .. Len(s) : i \in I <=> i \in J
    PROVE  Selected(Append(s, x), J) =
               IF Len(s) + 1 \in J THEN Append(Selected(s, I), x) ELSE Selected(s, I)
  <1> DEFINE t == Append(s, x)
  <1>1. /\ t \in Seq(S) /\ Len(s) \in Nat /\ Len(t) = Len(s) + 1
        /\ \A i \in 1 .. Len(s) : t[i] = s[i]
        /\ t[Len(s) + 1] = x
    BY AppendFacts
  <1> HIDE DEF t
  <1>2. Selections(s, I)[Len(s)] = Selections(t, J)[Len(s)]
    <2> DEFINE b == Len(s)
    <2>1. \A i \in 1 .. b : s[i] = t[i] /\ (i \in I <=> i \in J)
      BY <1>1
    <2>2. t \in Seq(S) /\ b \in Nat /\ b <= Len(s) /\ b <= Len(t)
      BY <1>1
    <2> HIDE DEF b
    <2>3. Selections(s, I)[b] = Selections(t, J)[b]
      BY <2>1, <2>2, SelectionsAgree
    <2> QED
      BY <2>3 DEF b
  <1>3. Len(t) \in 1 .. Len(t) /\ Len(t) - 1 = Len(s)
    BY <1>1
  <1>4. Selections(t, J)[Len(t)] =
            IF Len(t) \in J THEN Append(Selections(t, J)[Len(s)], t[Len(t)])
            ELSE Selections(t, J)[Len(s)]
    BY <1>1, <1>3, SelectionsRecursion
  <1>5. Selected(t, J) = IF Len(s) + 1 \in J THEN Append(Selected(s, I), x) ELSE Selected(s, I)
    BY <1>1, <1>2, <1>4 DEF Selected
  <1> QED
    BY <1>5 DEF t

LEMMA SelectedPrefix ==
    ASSUME NEW S, NEW s \in Seq(S), NEW n \in 0 .. Len(s), NEW I, NEW J,
           \A i \in 1 .. n : i \in I <=> i \in J
    PROVE  Begins(Selected(SubSeq(s, 1, n), J), Selected(s, I))
  <1>1. /\ SubSeq(s, 1, n) \in Seq(S)
        /\ Len(SubSeq(s, 1, n)) = n
        /\ \A i \in 1 .. n : SubSeq(s, 1, n)[i] = s[i]
        /\ Len(s) \in Nat /\ Len(s) \in 0 .. Len(s) /\ n \in Nat
    BY PrefixFacts, LenProperties
  <1>2. Selected(SubSeq(s, 1, n), J) = Selections(s, I)[n]
    <2> DEFINE t == SubSeq(s, 1, n)
               b == n
    <2>1. \A i \in 1 .. b : s[i] = t[i] /\ (i \in I <=> i \in J)
      BY <1>1
    <2>2. t \in Seq(S) /\ b \in Nat /\ b <= Len(s) /\ b <= Len(t)
      BY <1>1
    <2> HIDE DEF t, b
    <2>3. Selections(s, I)[b] = Selections(t, J)[b]
      BY <2>1, <2>2, SelectionsAgree
    <2> QED
      BY <1>1, <2>3 DEF Selected, t, b
  <1>3. Begins(Selections(s, I)[n], Selections(s, I)[Len(s)])
    BY <1>1, SelectionsGrow
  <1> QED
    BY <1>2, <1>3 DEF Selected

(* A beginning is what SubSeq cuts out.                                    *)
LEMMA BeginningIsSubSeq ==
    ASSUME NEW S, NEW s \in Seq(S), NEW t \in Seq(S), Begins(t, s)
    PROVE  Len(t) \in 0 .. Len(s) /\ t = SubSeq(s, 1, Len(t))
  <1>1. Len(t) \in 0 .. Len(s)
    BY LenProperties DEF Begins
  <1>2. /\ SubSeq(s, 1, Len(t)) \in Seq(S)
        /\ Len(SubSeq(s, 1, Len(t))) = Len(t)
        /\ \A i \in 1 .. Len(t) : SubSeq(s, 1, Len(t))[i] = s[i]
    BY <1>1, PrefixFacts
  <1> QED
    BY <1>1, <1>2, SeqEqual DEF Begins
=============================================================================
