---------------------------- MODULE SublistProofs ----------------------------
(***************************************************************************)
(* What a filtered list is, for every list and every set: which entries    *)
(* are left, and that their order is.  The induction over the list is on   *)
(* the set of lengths for which a fact holds, whose complement would have  *)
(* a least element.                                                        *)
(***************************************************************************)
EXTENDS Sublists, SequencesExt, FiniteSetTheorems, WellFoundedInduction, TLAPS

NatLT == {p \in Nat \X Nat : p[1] < p[2]}

(* A set with 0 and the successor of its members has all numbers up to N. *)
LEMMA Induction ==
  ASSUME NEW S, 0 \in S, NEW N \in Nat, \A n \in 0 .. N : n \in S /\ n < N => n + 1 \in S
  PROVE  \A n \in 0 .. N : n \in S
<1> SUFFICES ASSUME NEW k \in 0 .. N, k \notin S PROVE FALSE
  OBVIOUS
<1> DEFINE B == {n \in Nat : n <= N /\ n \notin S}
<1>1. IsWellFoundedOn(NatLT, Nat)
  BY NatLessThanWellFounded DEF OpToRel, NatLT
<1>2. B \subseteq Nat /\ B # {}
  BY k \in B
<1>3. PICK m \in B : \A n \in B : ~(<<n, m>> \in NatLT)
  BY <1>1, <1>2, WFMin
<1>4. m \in Nat /\ m <= N /\ m \notin S /\ m # 0
  BY <1>3
<1>5. m - 1 \in Nat /\ m - 1 <= N /\ <<m - 1, m>> \in NatLT
  <2>1. m - 1 \in Nat /\ m - 1 < m
    BY <1>4
  <2>2. <<m - 1, m>> \in Nat \X Nat /\ <<m - 1, m>>[1] < <<m - 1, m>>[2]
    BY <1>4, <2>1
  <2>3. QED
    BY <1>4, <2>1, <2>2 DEF NatLT
<1>6. m - 1 \in S
  BY <1>3, <1>5
<1>7. m - 1 \in 0 .. N /\ m - 1 < N /\ (m - 1) + 1 = m
  BY <1>4, <1>5
<1>8. QED
  BY <1>4, <1>6, <1>7

(* The steps of a filter. *)
Steps(f, list, T, N) ==
  f = [n \in 0 .. N |->
         IF n = 0 THEN <<>>
         ELSE IF list[n] \in T THEN Append(f[n - 1], list[n]) ELSE f[n - 1]]

LEMMA StepsExist ==
  ASSUME NEW list, NEW T, NEW N \in Nat
  PROVE  \E f : Steps(f, list, T, N)
<1> DEFINE S == {n \in Nat : \E f : Steps(f, list, T, n)}
<1>1. 0 \in S
  <2>1. Steps([n \in 0 .. 0 |-> <<>>], list, T, 0)
    BY DEF Steps
  <2>2. QED
    BY <2>1
<1>2. ASSUME NEW n \in 0 .. N, n \in S PROVE n + 1 \in S
  <2>1. PICK f : Steps(f, list, T, n)
    BY <1>2
  <2> DEFINE g == [k \in 0 .. n + 1 |->
                    IF k # n + 1 THEN f[k]
                    ELSE IF list[n + 1] \in T THEN Append(f[n], list[n + 1]) ELSE f[n]]
             h == [k \in 0 .. n + 1 |->
                    IF k = 0 THEN <<>>
                    ELSE IF list[k] \in T THEN Append(g[k - 1], list[k]) ELSE g[k - 1]]
  <2>2. f = [k \in 0 .. n |->
               IF k = 0 THEN <<>>
               ELSE IF list[k] \in T THEN Append(f[k - 1], list[k]) ELSE f[k - 1]]
    BY <2>1 DEF Steps
  <2>3. ASSUME NEW k \in 0 .. n + 1 PROVE g[k] = h[k]
    <3>1. CASE k = 0
      BY <2>2, <3>1
    <3>2. CASE k # 0 /\ k # n + 1
      <4>1. k \in 0 .. n /\ k - 1 \in 0 .. n + 1 /\ k - 1 # n + 1
        BY <3>2
      <4>2. g[k] = f[k] /\ g[k - 1] = f[k - 1]
        BY <3>2, <4>1
      <4>3. f[k] = IF list[k] \in T THEN Append(f[k - 1], list[k]) ELSE f[k - 1]
        BY <2>2, <3>2, <4>1
      <4>4. QED
        BY <3>2, <4>2, <4>3
    <3>3. CASE k = n + 1
      <4>1. k # 0 /\ k - 1 = n /\ n \in 0 .. n + 1 /\ n # n + 1
        BY <3>3
      <4>2. g[n] = f[n]
        BY <4>1
      <4>3. QED
        BY <3>3, <4>1, <4>2
    <3>4. QED
      BY <3>1, <3>2, <3>3
  <2>4. g = h
    BY <2>3
  <2>5. Steps(g, list, T, n + 1)
    BY <2>4 DEF Steps
  <2>6. QED
    BY <2>5
<1>3. \A n \in 0 .. N : n \in S
  <2> HIDE DEF S
  <2>1. QED
    BY <1>1, <1>2, Induction
<1>4. QED
  BY <1>3

LEMMA FilterSteps ==
  ASSUME NEW S, NEW list \in Seq(S), NEW T
  PROVE  \E f : Steps(f, list, T, Len(list)) /\ FilterSeq(list, T) = f[Len(list)]
<1> DEFINE g == CHOOSE f : Steps(f, list, T, Len(list))
<1>1. Len(list) \in Nat
  OBVIOUS
<1>2. Steps(g, list, T, Len(list))
  BY <1>1, StepsExist
<1>3. FilterSeq(list, T) = g[Len(list)]
  BY Zenon DEF FilterSeq, Steps
<1>4. QED
  BY <1>2, <1>3

-----------------------------------------------------------------------------
(* t is what the filter leaves of the first n entries.                      *)
Increasing(m) == \A i, j \in DOMAIN m : i < j => m[i] < m[j]
LeftOf(t, S, list, T, n) ==
  /\ t \in Seq(S) /\ Len(t) <= n
  /\ \A i \in 1 .. Len(t) : t[i] \in T
  /\ \A j \in 1 .. n : list[j] \in T => \E i \in 1 .. Len(t) : t[i] = list[j]
  /\ \E m \in [1 .. Len(t) -> 1 .. n] :
        Increasing(m) /\ \A i \in 1 .. Len(t) : t[i] = list[m[i]]

LEMMA StepLeaves ==
  ASSUME NEW S, NEW list \in Seq(S), NEW T, NEW n \in 0 .. Len(list), n < Len(list),
         NEW t, LeftOf(t, S, list, T, n)
  PROVE  LeftOf(IF list[n + 1] \in T THEN Append(t, list[n + 1]) ELSE t, S, list, T, n + 1)
<1> DEFINE x == list[n + 1]
<1>1. /\ t \in Seq(S) /\ Len(t) \in Nat /\ n \in Nat /\ x \in S /\ Len(t) <= n
      /\ \A i \in 1 .. Len(t) : t[i] \in T
      /\ \A j \in 1 .. n : list[j] \in T => \E i \in 1 .. Len(t) : t[i] = list[j]
  BY DEF LeftOf
<1>2. PICK m \in [1 .. Len(t) -> 1 .. n] :
        Increasing(m) /\ \A i \in 1 .. Len(t) : t[i] = list[m[i]]
  BY DEF LeftOf
<1>3. \A j \in 1 .. n + 1 : j \in 1 .. n \/ j = n + 1
  BY <1>1
<1>4. CASE x \in T
  <2> DEFINE u == Append(t, x)
             mm == [i \in 1 .. Len(t) + 1 |-> IF i = Len(t) + 1 THEN n + 1 ELSE m[i]]
  <2>1. /\ u \in Seq(S) /\ Len(u) = Len(t) + 1 /\ u[Len(t) + 1] = x
        /\ \A i \in 1 .. Len(t) : u[i] = t[i]
    BY <1>1
  <2>2. \A i \in 1 .. Len(t) + 1 : i \in 1 .. Len(t) \/ i = Len(t) + 1
    BY <1>1
  <2> HIDE DEF u
  <2>3. \A i \in 1 .. Len(u) : u[i] \in T
    BY <1>1, <1>4, <2>1, <2>2
  <2>4. \A j \in 1 .. n + 1 : list[j] \in T => \E i \in 1 .. Len(u) : u[i] = list[j]
    <3>1. 1 .. Len(t) \subseteq 1 .. Len(u) /\ Len(t) + 1 \in 1 .. Len(u)
      BY <1>1, <2>1
    <3>2. QED
      BY <1>1, <1>3, <2>1, <3>1
  <2>5. mm \in [1 .. Len(u) -> 1 .. n + 1]
    BY <1>1, <1>2, <2>1, <2>2
  <2>6. Increasing(mm)
    <3>1. ASSUME NEW i \in 1 .. Len(t) + 1, NEW j \in 1 .. Len(t) + 1, i < j
          PROVE  mm[i] < mm[j]
      <4>1. i \in 1 .. Len(t) /\ m[i] \in 1 .. n /\ mm[i] = m[i]
        BY <1>1, <1>2, <3>1
      <4>2. CASE j = Len(t) + 1
        BY <1>1, <4>1, <4>2
      <4>3. CASE j # Len(t) + 1
        <5>1. j \in 1 .. Len(t) /\ mm[j] = m[j]
          BY <1>1, <4>3
        <5>2. QED
          BY <1>2, <3>1, <4>1, <5>1 DEF Increasing
      <4>4. QED
        BY <4>2, <4>3
    <3>2. QED
      BY <3>1 DEF Increasing
  <2>7. \A i \in 1 .. Len(u) : u[i] = list[mm[i]]
    BY <1>1, <1>2, <2>1, <2>2
  <2> HIDE DEF mm
  <2>8. LeftOf(u, S, list, T, n + 1)
    BY <1>1, <2>1, <2>3, <2>4, <2>5, <2>6, <2>7 DEF LeftOf
  <2>9. QED
    BY <1>4, <2>8 DEF u
<1>5. CASE x \notin T
  <2>1. m \in [1 .. Len(t) -> 1 .. n + 1]
    BY <1>1, <1>2
  <2>2. LeftOf(t, S, list, T, n + 1)
    BY <1>1, <1>2, <1>3, <1>5, <2>1 DEF LeftOf
  <2>3. QED
    BY <1>5, <2>2
<1>6. QED
  BY <1>4, <1>5

LEMMA StepsLeave ==
  ASSUME NEW S, NEW list \in Seq(S), NEW T, NEW f, Steps(f, list, T, Len(list))
  PROVE  \A n \in 0 .. Len(list) : LeftOf(f[n], S, list, T, n)
<1> DEFINE N == Len(list)
           Good == {n \in Nat : LeftOf(f[n], S, list, T, n)}
<1>2. N \in Nat
  OBVIOUS
<1>3. f = [n \in 0 .. N |->
         IF n = 0 THEN <<>>
         ELSE IF list[n] \in T THEN Append(f[n - 1], list[n]) ELSE f[n - 1]]
  BY DEF Steps
<1>4. 0 \in Good
  <2>1. f[0] = <<>>
    BY <1>2, <1>3
  <2>2. \E m \in [1 .. 0 -> 1 .. 0] : Increasing(m)
    <3>1. [i \in 1 .. 0 |-> i] \in [1 .. 0 -> 1 .. 0] /\ Increasing([i \in 1 .. 0 |-> i])
      BY DEF Increasing
    <3>2. QED
      BY <3>1
  <2>3. f[0] \in Seq(S) /\ Len(f[0]) = 0
    BY <2>1
  <2>4. \A i : i \notin 1 .. 0
    OBVIOUS
  <2>5. LeftOf(f[0], S, list, T, 0)
    BY <2>2, <2>3, <2>4 DEF LeftOf
  <2>6. QED
    BY <2>5
<1>5. ASSUME NEW n \in 0 .. N, n \in Good, n < N PROVE n + 1 \in Good
  <2>1. LeftOf(f[n], S, list, T, n)
    BY <1>5
  <2>2. f[n + 1] = IF list[n + 1] \in T THEN Append(f[n], list[n + 1]) ELSE f[n]
    <3>1. n + 1 \in 0 .. N /\ n + 1 # 0 /\ (n + 1) - 1 = n
      BY <1>2, <1>5
    <3>2. QED
      BY <1>3, <3>1
  <2>3. LeftOf(f[n + 1], S, list, T, n + 1)
    BY <1>2, <1>5, <2>1, <2>2, StepLeaves
  <2>4. n + 1 \in Nat
    BY <1>2
  <2>5. QED
    BY <2>3, <2>4
<1>6. \A n \in 0 .. N : n \in Good
  <2> HIDE DEF Good
  <2>1. QED
    BY <1>2, <1>4, <1>5, Induction
<1>7. QED
  BY <1>6

(* What a filter leaves is in the set, all of it, and in order.             *)
LEMMA FilterLeaves ==
  ASSUME NEW S, NEW list \in Seq(S), NEW T
  PROVE  LeftOf(FilterSeq(list, T), S, list, T, Len(list))
<1>1. PICK f : Steps(f, list, T, Len(list)) /\ FilterSeq(list, T) = f[Len(list)]
  BY FilterSteps
<1>2. Len(list) \in 0 .. Len(list)
  OBVIOUS
<1>3. QED
  BY <1>1, <1>2, StepsLeave

(* The entries that are left.                                               *)
LEMMA FilterEntries ==
  ASSUME NEW S, NEW list \in Seq(S), NEW T
  PROVE  LET left == FilterSeq(list, T)
         IN  /\ left \in Seq(S) /\ Len(left) <= Len(list)
             /\ \A i \in 1 .. Len(left) : left[i] \in T /\ \E j \in 1 .. Len(list) : left[i] = list[j]
             /\ \A j \in 1 .. Len(list) : list[j] \in T => \E i \in 1 .. Len(left) : left[i] = list[j]
BY FilterLeaves DEF LeftOf

(* Whatever holds of the entries of a list, an earlier and a later one, is  *)
(* still so of those that are left: that they are sorted, or differ.        *)
LEMMA FilterKeepsOrder ==
  ASSUME NEW S, NEW list \in Seq(S), NEW T, NEW R,
         \A i, j \in 1 .. Len(list) : i < j => <<list[i], list[j]>> \in R
  PROVE  LET left == FilterSeq(list, T)
         IN  \A i, j \in 1 .. Len(left) : i < j => <<left[i], left[j]>> \in R
<1> DEFINE left == FilterSeq(list, T)
<1>1. PICK m \in [1 .. Len(left) -> 1 .. Len(list)] :
        Increasing(m) /\ \A i \in 1 .. Len(left) : left[i] = list[m[i]]
  BY FilterLeaves DEF LeftOf
<1> HIDE DEF left
<1>2. ASSUME NEW i \in 1 .. Len(left), NEW j \in 1 .. Len(left), i < j
      PROVE  <<left[i], left[j]>> \in R
  <2>1. m[i] \in 1 .. Len(list) /\ m[j] \in 1 .. Len(list) /\ m[i] < m[j]
    BY <1>1, <1>2 DEF Increasing
  <2>2. QED
    BY <1>1, <2>1
<1>3. QED
  BY <1>2 DEF left

LEMMA Sums ==
  ASSUME NEW a \in Nat, NEW b \in Nat, NEW n \in Nat, a + b = n
  PROVE  (a + 1) + b = n + 1 /\ a + (b + 1) = n + 1
OBVIOUS

(* Two filters between which every entry falls into one share the list.     *)
LEMMA FilterLengths ==
  ASSUME NEW S, NEW list \in Seq(S), NEW T, NEW U,
         \A i \in 1 .. Len(list) : list[i] \in T <=> list[i] \notin U
  PROVE  Len(FilterSeq(list, T)) + Len(FilterSeq(list, U)) = Len(list)
<1>1. PICK f : Steps(f, list, T, Len(list)) /\ FilterSeq(list, T) = f[Len(list)]
  BY FilterSteps
<1>2. PICK g : Steps(g, list, U, Len(list)) /\ FilterSeq(list, U) = g[Len(list)]
  BY FilterSteps
<1> DEFINE N == Len(list)
           Good == {n \in Nat : Len(f[n]) + Len(g[n]) = n}
<1>3. /\ N \in Nat
      /\ \A n \in 0 .. N : /\ f[n] \in Seq(S) /\ Len(f[n]) \in Nat
                            /\ g[n] \in Seq(S) /\ Len(g[n]) \in Nat
  BY <1>1, <1>2, StepsLeave DEF LeftOf
<1>4. \A n \in 0 .. N :
        /\ f[n] = IF n = 0 THEN <<>>
                  ELSE IF list[n] \in T THEN Append(f[n - 1], list[n]) ELSE f[n - 1]
        /\ g[n] = IF n = 0 THEN <<>>
                  ELSE IF list[n] \in U THEN Append(g[n - 1], list[n]) ELSE g[n - 1]
  BY <1>1, <1>2 DEF Steps
<1>5. 0 \in Good
  <2>1. f[0] = <<>> /\ g[0] = <<>>
    BY <1>3, <1>4
  <2>2. Len(f[0]) + Len(g[0]) = 0
    BY <2>1
  <2>3. QED
    BY <2>2
<1>6. ASSUME NEW n \in 0 .. N, n \in Good, n < N PROVE n + 1 \in Good
  <2>1. n + 1 \in 0 .. N /\ n + 1 # 0 /\ (n + 1) - 1 = n /\ n + 1 \in 1 .. Len(list) /\ n \in Nat
    BY <1>3, <1>6
  <2>2. /\ f[n + 1] = IF list[n + 1] \in T THEN Append(f[n], list[n + 1]) ELSE f[n]
        /\ g[n + 1] = IF list[n + 1] \in U THEN Append(g[n], list[n + 1]) ELSE g[n]
        /\ list[n + 1] \in S
    BY <1>4, <2>1
  <2>3. \A s \in Seq(S), x \in S : Len(Append(s, x)) = Len(s) + 1 /\ Len(s) \in Nat
    OBVIOUS
  <2>4. /\ f[n] \in Seq(S) /\ g[n] \in Seq(S) /\ Len(f[n]) + Len(g[n]) = n
        /\ Len(f[n]) \in Nat /\ Len(g[n]) \in Nat
    BY <1>3, <1>6
  <2>5. Len(f[n + 1]) + Len(g[n + 1]) = n + 1
    <3>1. list[n + 1] \in T <=> list[n + 1] \notin U
      BY <2>1
    <3>2. CASE list[n + 1] \in T
      <4>1. f[n + 1] = Append(f[n], list[n + 1]) /\ g[n + 1] = g[n]
        BY <2>2, <3>1, <3>2
      <4>2. Len(f[n + 1]) = Len(f[n]) + 1
        BY <2>2, <2>3, <2>4, <4>1
      <4>3. (Len(f[n]) + 1) + Len(g[n]) = n + 1 /\ Len(f[n]) + (Len(g[n]) + 1) = n + 1
        BY <2>1, <2>4, Sums
      <4>4. QED
        BY <4>1, <4>2, <4>3, Zenon
    <3>3. CASE list[n + 1] \notin T
      <4>1. g[n + 1] = Append(g[n], list[n + 1]) /\ f[n + 1] = f[n]
        BY <2>2, <3>1, <3>3
      <4>2. Len(g[n + 1]) = Len(g[n]) + 1
        BY <2>2, <2>3, <2>4, <4>1
      <4>3. (Len(f[n]) + 1) + Len(g[n]) = n + 1 /\ Len(f[n]) + (Len(g[n]) + 1) = n + 1
        BY <2>1, <2>4, Sums
      <4>4. QED
        BY <4>1, <4>2, <4>3, Zenon
    <3>4. QED
      BY <3>2, <3>3
  <2>6. \A k \in Nat : Len(f[k]) + Len(g[k]) = k => k \in Good
    OBVIOUS
  <2>7. n + 1 \in Nat
    BY <2>1
  <2> HIDE DEF Good
  <2>8. QED
    BY <2>5, <2>6, <2>7
<1>7. N \in Good
  <2>1. \A n \in 0 .. N : n \in Good
    <3> HIDE DEF Good
    <3>1. QED
      BY <1>3, <1>5, <1>6, Induction
  <2>2. N \in 0 .. N
    BY <1>3
  <2>3. QED
    BY <2>1, <2>2
<1>8. QED
  BY <1>1, <1>2, <1>7

(* Where the entries of a list are that was put together of two and one.    *)
LEMMA Spliced ==
  ASSUME NEW S, NEW f \in Seq(S), NEW g \in Seq(S), NEW x \in S, NEW r, r = f \o <<x>> \o g
  PROVE  /\ r \in Seq(S) /\ Len(r) = Len(f) + 1 + Len(g)
         /\ \A k \in 1 .. Len(f) : k \in 1 .. Len(r) /\ r[k] = f[k]
         /\ Len(f) + 1 \in 1 .. Len(r) /\ r[Len(f) + 1] = x
         /\ \A k \in 1 .. Len(g) : Len(f) + 1 + k \in 1 .. Len(r) /\ r[Len(f) + 1 + k] = g[k]
         /\ \A k \in 1 .. Len(r) :
              \/ k \in 1 .. Len(f)
              \/ k = Len(f) + 1
              \/ k - (Len(f) + 1) \in 1 .. Len(g) /\ k = Len(f) + 1 + (k - (Len(f) + 1))
<1> DEFINE h == f \o <<x>>
<1>0. r = h \o g
  OBVIOUS
<1>1. Len(f) \in Nat /\ Len(g) \in Nat
  OBVIOUS
<1>2. <<x>> \in Seq(S) /\ Len(<<x>>) = 1 /\ <<x>>[1] = x
  OBVIOUS
<1>3. h \in Seq(S) /\ Len(h) = Len(f) + 1
  BY <1>2
<1>4. \A k \in 1 .. Len(f) : h[k] = f[k]
  BY <1>1, <1>2
<1>5. h[Len(f) + 1] = x
  BY <1>1, <1>2
<1> HIDE DEF h
<1>6. r \in Seq(S) /\ Len(r) = Len(h) + Len(g)
  BY <1>0, <1>3
<1>7. \A k \in 1 .. Len(h) : r[k] = h[k]
  BY <1>0, <1>3
<1>8. \A k \in 1 .. Len(g) : r[Len(h) + k] = g[k]
  BY <1>0, <1>1, <1>3
<1>9. \A k \in 1 .. Len(f) : k \in 1 .. Len(r) /\ r[k] = f[k]
  BY <1>1, <1>3, <1>4, <1>6, <1>7
<1>10. Len(f) + 1 \in 1 .. Len(r) /\ r[Len(f) + 1] = x
  BY <1>1, <1>3, <1>5, <1>6, <1>7
<1>11. \A k \in 1 .. Len(g) : Len(f) + 1 + k \in 1 .. Len(r) /\ r[Len(f) + 1 + k] = g[k]
  BY <1>1, <1>3, <1>6, <1>8
<1>12. Len(r) = Len(f) + 1 + Len(g)
  BY <1>3, <1>6
<1>13. ASSUME NEW k \in 1 .. Len(r)
       PROVE  \/ k \in 1 .. Len(f)
              \/ k = Len(f) + 1
              \/ k - (Len(f) + 1) \in 1 .. Len(g) /\ k = Len(f) + 1 + (k - (Len(f) + 1))
  <2>1. k \in Int /\ 1 <= k /\ k <= Len(f) + 1 + Len(g)
    BY <1>1, <1>12
  <2>2. QED
    BY <1>1, <2>1
<1>14. QED
  BY <1>6, <1>9, <1>10, <1>11, <1>12, <1>13

(* The entries outside of a set are those in the set of the others.         *)
LEMMA OthersAreOutside ==
  ASSUME NEW S, NEW list \in Seq(S), NEW T
  PROVE  \A i \in 1 .. Len(list) : list[i] \in T <=> list[i] \notin Others(list, T)
BY DEF Others

(* Where the entries of two lists are in the list made of them, and those   *)
(* of a list once its first is taken away.                                  *)
LEMMA Concatenated ==
  ASSUME NEW S, NEW s \in Seq(S), NEW t \in Seq(S), NEW r, r = s \o t
  PROVE  /\ r \in Seq(S) /\ Len(r) = Len(s) + Len(t)
         /\ \A k \in 1 .. Len(s) : k \in 1 .. Len(r) /\ r[k] = s[k]
         /\ \A k \in 1 .. Len(t) : Len(s) + k \in 1 .. Len(r) /\ r[Len(s) + k] = t[k]
         /\ \A k \in 1 .. Len(r) :
              k \in 1 .. Len(s) \/ (k - Len(s) \in 1 .. Len(t) /\ k = Len(s) + (k - Len(s)))
<1>1. Len(s) \in Nat /\ Len(t) \in Nat
  OBVIOUS
<1>2. r \in Seq(S) /\ Len(r) = Len(s) + Len(t)
  OBVIOUS
<1>3. \A k \in 1 .. Len(s) : k \in 1 .. Len(r) /\ r[k] = s[k]
  BY <1>1, <1>2
<1>4. \A k \in 1 .. Len(t) : Len(s) + k \in 1 .. Len(r) /\ r[Len(s) + k] = t[k]
  BY <1>1, <1>2
<1>5. ASSUME NEW k \in 1 .. Len(r)
      PROVE  k \in 1 .. Len(s) \/ (k - Len(s) \in 1 .. Len(t) /\ k = Len(s) + (k - Len(s)))
  BY <1>1, <1>2
<1>6. QED
  BY <1>2, <1>3, <1>4, <1>5

LEMMA HeadAndTail ==
  ASSUME NEW S, NEW s \in Seq(S), s # <<>>, NEW t, t = Tail(s)
  PROVE  /\ Head(s) \in S /\ Head(s) = s[1] /\ 1 \in 1 .. Len(s)
         /\ t \in Seq(S) /\ Len(t) + 1 = Len(s)
         /\ \A i \in 1 .. Len(t) : i + 1 \in 1 .. Len(s) /\ t[i] = s[i + 1]
         /\ \A j \in 1 .. Len(s) : j = 1 \/ (j - 1 \in 1 .. Len(t) /\ t[j - 1] = s[j])
<1>1. Len(s) \in Nat \ {0} /\ Head(s) \in S /\ Head(s) = s[1] /\ 1 \in 1 .. Len(s)
  OBVIOUS
<1>2. t \in Seq(S) /\ Len(t) = Len(s) - 1
  OBVIOUS
<1>3. \A i \in 1 .. Len(t) : i + 1 \in 1 .. Len(s) /\ t[i] = s[i + 1]
  BY <1>1, <1>2
<1>4. ASSUME NEW j \in 1 .. Len(s), j # 1
      PROVE  j - 1 \in 1 .. Len(t) /\ t[j - 1] = s[j]
  <2>1. j - 1 \in 1 .. Len(t) /\ (j - 1) + 1 = j
    BY <1>1, <1>2, <1>4
  <2>2. QED
    BY <1>3, <2>1
<1>5. QED
  BY <1>1, <1>2, <1>3, <1>4

(* The members of a list, and those of the lists that are made of it.       *)
Has(list, x) == \E i \in 1 .. Len(list) : list[i] = x

LEMMA FilterHas ==
  ASSUME NEW S, NEW list \in Seq(S), NEW T, NEW r, r = FilterSeq(list, T)
  PROVE  r \in Seq(S) /\ \A y : Has(r, y) <=> Has(list, y) /\ y \in T
<1>1. r \in Seq(S)
  BY FilterEntries
<1>2. \A i \in 1 .. Len(r) : r[i] \in T /\ \E j \in 1 .. Len(list) : r[i] = list[j]
  BY FilterEntries
<1>3. \A j \in 1 .. Len(list) : list[j] \in T => \E i \in 1 .. Len(r) : r[i] = list[j]
  BY FilterEntries
<1>4. \A y : Has(r, y) <=> Has(list, y) /\ y \in T
  BY <1>2, <1>3 DEF Has
<1>5. QED
  BY <1>1, <1>4

LEMMA ConcatenatedHas ==
  ASSUME NEW S, NEW s \in Seq(S), NEW t \in Seq(S), NEW r, r = s \o t
  PROVE  r \in Seq(S) /\ Len(r) = Len(s) + Len(t) /\ \A y : Has(r, y) <=> Has(s, y) \/ Has(t, y)
<1>1. r \in Seq(S) /\ Len(r) = Len(s) + Len(t)
  BY Concatenated
<1>2. \A k \in 1 .. Len(s) : k \in 1 .. Len(r) /\ r[k] = s[k]
  BY Concatenated
<1>3. \A k \in 1 .. Len(t) : Len(s) + k \in 1 .. Len(r) /\ r[Len(s) + k] = t[k]
  BY Concatenated
<1>4. \A k \in 1 .. Len(r) :
        k \in 1 .. Len(s) \/ (k - Len(s) \in 1 .. Len(t) /\ k = Len(s) + (k - Len(s)))
  BY Concatenated
<1>5. ASSUME NEW k \in 1 .. Len(r) PROVE Has(s, r[k]) \/ Has(t, r[k])
  BY <1>2, <1>3, <1>4 DEF Has
<1>6. \A y : Has(r, y) <=> Has(s, y) \/ Has(t, y)
  <2>1. \A y : Has(r, y) => Has(s, y) \/ Has(t, y)
    BY <1>5 DEF Has
  <2>2. \A y : Has(s, y) => Has(r, y)
    BY <1>2 DEF Has
  <2>3. \A y : Has(t, y) => Has(r, y)
    BY <1>3 DEF Has
  <2>4. QED
    BY <2>1, <2>2, <2>3
<1>7. QED
  BY <1>1, <1>6

LEMMA OneHas ==
  ASSUME NEW S, NEW x \in S
  PROVE  <<x>> \in Seq(S) /\ Len(<<x>>) = 1 /\ \A y : Has(<<x>>, y) <=> y = x
BY DEF Has

LEMMA TailHas ==
  ASSUME NEW S, NEW s \in Seq(S), s # <<>>, NEW t, t = Tail(s)
  PROVE  /\ Head(s) \in S /\ t \in Seq(S) /\ Len(t) + 1 = Len(s)
         /\ \A y : Has(s, y) <=> y = Head(s) \/ Has(t, y)
<1>1. Head(s) \in S /\ Head(s) = s[1] /\ 1 \in 1 .. Len(s)
  BY HeadAndTail
<1>2. t \in Seq(S) /\ Len(t) + 1 = Len(s)
  BY HeadAndTail
<1>3. \A i \in 1 .. Len(t) : i + 1 \in 1 .. Len(s) /\ t[i] = s[i + 1]
  BY HeadAndTail
<1>4. \A j \in 1 .. Len(s) : j = 1 \/ (j - 1 \in 1 .. Len(t) /\ t[j - 1] = s[j])
  BY HeadAndTail
<1>5. \A y : Has(s, y) <=> y = Head(s) \/ Has(t, y)
  BY <1>1, <1>3, <1>4 DEF Has
<1>6. QED
  BY <1>1, <1>2, <1>5

(* An inserted entry is all that comes to the list.                         *)
LEMMA InsertHas ==
  ASSUME NEW S, NEW list \in Seq(S), NEW T, NEW x \in S, NEW r, r = InsertAfter(list, T, x)
  PROVE  r \in Seq(S) /\ Len(r) = Len(list) + 1 /\ \A y : Has(r, y) <=> y = x \/ Has(list, y)
<1> DEFINE U == Others(list, T)
           f == FilterSeq(list, T)
           g == FilterSeq(list, U)
           h == f \o <<x>>
<1>1. r = h \o g
  BY DEF InsertAfter
<1>2. \A i \in 1 .. Len(list) : list[i] \in T <=> list[i] \notin U
  BY OthersAreOutside
<1> HIDE DEF U
<1>3. f \in Seq(S) /\ \A y : Has(f, y) <=> Has(list, y) /\ y \in T
  BY FilterHas
<1>4. g \in Seq(S) /\ \A y : Has(g, y) <=> Has(list, y) /\ y \in U
  BY FilterHas
<1>5. Len(f) + Len(g) = Len(list)
  BY <1>2, FilterLengths
<1> HIDE DEF f, g
<1>6. h \in Seq(S) /\ Len(h) = Len(f) + 1 /\ \A y : Has(h, y) <=> Has(f, y) \/ y = x
  <2> DEFINE one == <<x>>
  <2>1. one \in Seq(S) /\ Len(one) = 1 /\ \A y : Has(one, y) <=> y = x
    BY OneHas
  <2>2. h = f \o one
    OBVIOUS
  <2> HIDE DEF one, h
  <2>3. h \in Seq(S) /\ Len(h) = Len(f) + Len(one) /\ \A y : Has(h, y) <=> Has(f, y) \/ Has(one, y)
    BY <1>3, <2>1, <2>2, ConcatenatedHas
  <2>4. QED
    BY <2>1, <2>3
<1> HIDE DEF h
<1>7. r \in Seq(S) /\ Len(r) = Len(h) + Len(g) /\ \A y : Has(r, y) <=> Has(h, y) \/ Has(g, y)
  BY <1>1, <1>4, <1>6, ConcatenatedHas
<1>8. \A y : Has(list, y) => (y \in T <=> y \notin U)
  BY <1>2 DEF Has
<1>9. \A y : Has(r, y) <=> y = x \/ Has(list, y)
  BY <1>3, <1>4, <1>6, <1>7, <1>8
<1>10. Len(f) \in Nat /\ Len(g) \in Nat
  BY <1>3, <1>4
<1>11. Len(r) = Len(list) + 1
  BY <1>5, <1>6, <1>7, <1>10
<1>12. QED
  BY <1>7, <1>9, <1>11

(* What holds of each entry and a later one still does, if it does of the   *)
(* new one and of those before and after it.                                *)
Ordered(list, R) == \A i, j \in 1 .. Len(list) : i < j => <<list[i], list[j]>> \in R
FitsIn(x, list, T, R) ==
  /\ \A i \in 1 .. Len(list) : IF list[i] \in T THEN <<list[i], x>> \in R ELSE <<x, list[i]>> \in R
  /\ \A i, j \in 1 .. Len(list) : list[i] \in T /\ list[j] \notin T => <<list[i], list[j]>> \in R

LEMMA InsertKeepsOrder ==
  ASSUME NEW S, NEW list \in Seq(S), NEW T, NEW x \in S, NEW r, r = InsertAfter(list, T, x), NEW R,
         Ordered(list, R), FitsIn(x, list, T, R)
  PROVE  Ordered(r, R)
<1> DEFINE U == Others(list, T)
           f == FilterSeq(list, T)
           g == FilterSeq(list, U)
<1>0. r = f \o <<x>> \o g
  BY DEF InsertAfter
<1>1. \A i \in 1 .. Len(list) : list[i] \in T <=> list[i] \notin U
  BY OthersAreOutside
<1> HIDE DEF U
<1>2. /\ f \in Seq(S)
      /\ \A i \in 1 .. Len(f) : f[i] \in T /\ \E j \in 1 .. Len(list) : f[i] = list[j]
      /\ \A i, j \in 1 .. Len(f) : i < j => <<f[i], f[j]>> \in R
  <2>1. \A i, j \in 1 .. Len(f) : i < j => <<f[i], f[j]>> \in R
    BY FilterKeepsOrder DEF Ordered
  <2>2. /\ f \in Seq(S)
        /\ \A i \in 1 .. Len(f) : f[i] \in T /\ \E j \in 1 .. Len(list) : f[i] = list[j]
    BY FilterEntries
  <2> HIDE DEF f
  <2>3. QED
    BY <2>1, <2>2
<1>3. /\ g \in Seq(S)
      /\ \A i \in 1 .. Len(g) : g[i] \in U /\ \E j \in 1 .. Len(list) : g[i] = list[j]
      /\ \A i, j \in 1 .. Len(g) : i < j => <<g[i], g[j]>> \in R
  <2>1. \A i, j \in 1 .. Len(g) : i < j => <<g[i], g[j]>> \in R
    BY FilterKeepsOrder DEF Ordered
  <2>2. /\ g \in Seq(S)
        /\ \A i \in 1 .. Len(g) : g[i] \in U /\ \E j \in 1 .. Len(list) : g[i] = list[j]
    BY FilterEntries
  <2> HIDE DEF g
  <2>3. QED
    BY <2>1, <2>2
<1> HIDE DEF f, g
<1>4. /\ \A k \in 1 .. Len(f) : r[k] = f[k]
      /\ r[Len(f) + 1] = x
      /\ \A k \in 1 .. Len(g) : r[Len(f) + 1 + k] = g[k]
      /\ \A k \in 1 .. Len(r) :
           \/ k \in 1 .. Len(f)
           \/ k = Len(f) + 1
           \/ k - (Len(f) + 1) \in 1 .. Len(g) /\ k = Len(f) + 1 + (k - (Len(f) + 1))
  BY <1>0, <1>2, <1>3, Spliced
<1>6. \A i \in 1 .. Len(f) : <<f[i], x>> \in R
  BY <1>2 DEF FitsIn
<1>7. \A i \in 1 .. Len(g) : <<x, g[i]>> \in R
  BY <1>1, <1>3 DEF FitsIn
<1>8. \A i \in 1 .. Len(f), j \in 1 .. Len(g) : <<f[i], g[j]>> \in R
  BY <1>1, <1>2, <1>3 DEF FitsIn
<1>9. Len(f) \in Nat /\ Len(g) \in Nat
  BY <1>2, <1>3
<1>10. ASSUME NEW i \in 1 .. Len(r), NEW j \in 1 .. Len(r), i < j
       PROVE  <<r[i], r[j]>> \in R
  <2> DEFINE n == Len(f) + 1
  <2>1. n \in Nat /\ i \in Int /\ j \in Int
    BY <1>9
  <2>2. CASE j \in 1 .. Len(f)
    <3>1. i \in 1 .. Len(f)
      BY <1>9, <1>10, <2>1, <2>2
    <3>2. QED
      BY <1>2, <1>4, <1>10, <2>2, <3>1
  <2>3. CASE j = n
    <3>1. i \in 1 .. Len(f)
      BY <1>9, <1>10, <2>1, <2>3
    <3>2. QED
      BY <1>4, <1>6, <2>3, <3>1
  <2>4. CASE j - n \in 1 .. Len(g) /\ j = n + (j - n)
    <3>1. r[j] = g[j - n]
      BY <1>4, <2>4
    <3>2. CASE i \in 1 .. Len(f)
      BY <1>4, <1>8, <2>4, <3>1, <3>2
    <3>3. CASE i = n
      BY <1>4, <1>7, <2>4, <3>1, <3>3
    <3>4. CASE i - n \in 1 .. Len(g) /\ i = n + (i - n)
      <4>1. r[i] = g[i - n]
        BY <1>4, <3>4
      <4>2. i - n < j - n
        BY <1>10, <2>1
      <4>3. QED
        BY <1>3, <2>4, <3>1, <3>4, <4>1, <4>2
    <3>5. QED
      BY <1>4, <3>2, <3>3, <3>4
  <2>5. QED
    BY <1>4, <2>2, <2>3, <2>4
<1>11. QED
  BY <1>10 DEF Ordered

-----------------------------------------------------------------------------
(* Lists without duplicates.                                                *)
AllDiffer(list) == \A i, j \in 1 .. Len(list) : i < j => list[i] # list[j]

LEMMA FilterKeepsDiffering ==
  ASSUME NEW S, NEW list \in Seq(S), NEW T, AllDiffer(list)
  PROVE  AllDiffer(FilterSeq(list, T))
<1> DEFINE R == {p \in S \X S : p[1] # p[2]}
           left == FilterSeq(list, T)
<1>1. \A i, j \in 1 .. Len(list) : i < j => <<list[i], list[j]>> \in R
  BY DEF AllDiffer
<1>2. \A a, b : <<a, b>> \in R => a # b
  OBVIOUS
<1> HIDE DEF R
<1>3. \A i, j \in 1 .. Len(left) : i < j => <<left[i], left[j]>> \in R
  BY <1>1, FilterKeepsOrder
<1> HIDE DEF left
<1>4. \A i, j \in 1 .. Len(left) : i < j => left[i] # left[j]
  BY <1>2, <1>3
<1>5. QED
  BY <1>4 DEF AllDiffer, left

(* A filter that leaves out one entry of such a list makes it one shorter.  *)
LEMMA FilterOneOut ==
  ASSUME NEW S, NEW list \in Seq(S), NEW T, AllDiffer(list), NEW j \in 1 .. Len(list),
         \A i \in 1 .. Len(list) : list[i] \in T <=> list[i] # list[j]
  PROVE  Len(FilterSeq(list, T)) + 1 = Len(list)
<1> DEFINE U == {list[j]}
           out == FilterSeq(list, U)
           left == FilterSeq(list, T)
<1>1. \A i \in 1 .. Len(list) : list[i] \in T <=> list[i] \notin U
  OBVIOUS
<1>2. Len(left) + Len(out) = Len(list)
  BY <1>1, FilterLengths
<1>3. AllDiffer(out)
  BY FilterKeepsDiffering
<1>4. out \in Seq(S) /\ left \in Seq(S)
  BY FilterEntries
<1>5. \A i \in 1 .. Len(out) : out[i] \in U
  BY FilterEntries
<1>6. \E i \in 1 .. Len(out) : out[i] = list[j]
  <2>1. list[j] \in U
    OBVIOUS
  <2> HIDE DEF U
  <2>2. QED
    BY <2>1, FilterEntries
<1>7. \A i \in 1 .. Len(out) : out[i] = list[j]
  BY <1>5
<1> HIDE DEF out, left
<1>8. Len(out) \in Nat /\ Len(left) \in Nat /\ Len(list) \in Nat
  BY <1>4
<1> DEFINE n == Len(out)
<1>9. ~(n > 1)
  <2> SUFFICES ASSUME n > 1 PROVE FALSE
    OBVIOUS
  <2>1. 1 \in 1 .. Len(out) /\ 2 \in 1 .. Len(out)
    BY <1>8
  <2>2. out[1] # out[2]
    BY <1>3, <2>1 DEF AllDiffer
  <2>3. QED
    BY <1>7, <2>1, <2>2
<1>10. n = 1
  <2>1. PICK i \in 1 .. Len(out) : out[i] = list[j]
    BY <1>6
  <2>2. n \in Nat /\ i \in 1 .. n
    BY <1>8
  <2> HIDE DEF n
  <2>3. QED
    BY <1>9, <2>2
<1>11. QED
  BY <1>2, <1>8, <1>10 DEF left

(* One entry more at the end, or one less at the front, is one more or less *)
(* of those that are left, if it is one of them.                            *)
Filters(f, S, list, T) ==
  /\ FilterSeq(list, T) = f[Len(list)]
  /\ f[0] = <<>>
  /\ \A n \in 0 .. Len(list) : f[n] \in Seq(S)
  /\ \A n \in 0 .. Len(list) :
       n < Len(list) => f[n + 1] = IF list[n + 1] \in T THEN Append(f[n], list[n + 1]) ELSE f[n]

LEMMA StepsAre ==
  ASSUME NEW S, NEW list \in Seq(S), NEW T
  PROVE  \E f : Filters(f, S, list, T)
<1>1. PICK f : Steps(f, list, T, Len(list)) /\ FilterSeq(list, T) = f[Len(list)]
  BY FilterSteps
<1>2. Len(list) \in Nat
  OBVIOUS
<1>3. \A n \in 0 .. Len(list) : f[n] \in Seq(S)
  <2>1. \A n \in 0 .. Len(list) : LeftOf(f[n], S, list, T, n)
    BY <1>1, StepsLeave
  <2>2. QED
    BY <2>1 DEF LeftOf
<1>4. f[0] = <<>>
  BY <1>1, <1>2 DEF Steps
<1>5. ASSUME NEW n \in 0 .. Len(list), n < Len(list)
      PROVE  f[n + 1] = IF list[n + 1] \in T THEN Append(f[n], list[n + 1]) ELSE f[n]
  <2>1. n + 1 \in 0 .. Len(list) /\ n + 1 # 0 /\ (n + 1) - 1 = n
    BY <1>2, <1>5
  <2>2. QED
    BY <1>1, <2>1 DEF Steps
<1>6. Filters(f, S, list, T)
  BY <1>1, <1>3, <1>4, <1>5 DEF Filters
<1>7. QED
  BY <1>6

(* Under names of their own, so that the provers see them as one thing: *)
Pushed(list, x) == Append(list, x)
Popped(list) == Tail(list)

LEMMA FilterPushed ==
  ASSUME NEW S, NEW list \in Seq(S), NEW x \in S, NEW T
  PROVE  /\ x \in T => Len(FilterSeq(Pushed(list, x), T)) = Len(FilterSeq(list, T)) + 1
         /\ x \notin T => Len(FilterSeq(Pushed(list, x), T)) = Len(FilterSeq(list, T))
<1> DEFINE r == Pushed(list, x)
<1>0. r = Append(list, x)
  BY DEF Pushed
<1> HIDE DEF r
<1>1. /\ r \in Seq(S) /\ Len(list) \in Nat /\ Len(r) = Len(list) + 1 /\ r[Len(list) + 1] = x
      /\ \A k \in 1 .. Len(list) : r[k] = list[k]
  BY <1>0
<1>2. PICK f : Filters(f, S, list, T)
  BY StepsAre
<1>3. PICK g : Filters(g, S, r, T)
  BY <1>1, StepsAre
<1> DEFINE N == Len(list)
           Good == {n \in Nat : f[n] = g[n]}
<1>4. N \in Nat /\ 0 \in Good
  BY <1>1, <1>2, <1>3 DEF Filters
<1>5. ASSUME NEW n \in 0 .. N, n \in Good, n < N PROVE n + 1 \in Good
  <2>1. n + 1 \in 1 .. Len(list) /\ n \in 0 .. Len(r) /\ n < Len(r) /\ n + 1 \in Nat
    BY <1>1, <1>5
  <2>2. r[n + 1] = list[n + 1]
    BY <1>1, <2>1
  <2>3. f[n + 1] = IF list[n + 1] \in T THEN Append(f[n], list[n + 1]) ELSE f[n]
    BY <1>2, <1>5 DEF Filters
  <2>4. g[n + 1] = IF r[n + 1] \in T THEN Append(g[n], r[n + 1]) ELSE g[n]
    BY <1>3, <2>1 DEF Filters
  <2>5. QED
    BY <1>5, <2>1, <2>2, <2>3, <2>4
<1>6. N \in Good
  <2> HIDE DEF Good
  <2>1. \A n \in 0 .. N : n \in Good
    BY <1>4, <1>5, Induction
  <2>2. QED
    BY <1>4, <2>1
<1>7. N \in 0 .. Len(r) /\ N < Len(r)
  BY <1>1
<1>8. g[N + 1] = IF r[N + 1] \in T THEN Append(g[N], r[N + 1]) ELSE g[N]
  BY <1>3, <1>7 DEF Filters
<1>9. f[N] = FilterSeq(list, T) /\ f[N] \in Seq(S) /\ g[N] = f[N]
  BY <1>1, <1>2, <1>6 DEF Filters
<1>10. g[N + 1] = FilterSeq(r, T)
  BY <1>1, <1>3 DEF Filters
<1>11. r[N + 1] = x
  BY <1>1
<1> HIDE DEF N, Good
<1>12. x \in T => Len(FilterSeq(r, T)) = Len(FilterSeq(list, T)) + 1
  BY <1>8, <1>9, <1>10, <1>11
<1>13. x \notin T => Len(FilterSeq(r, T)) = Len(FilterSeq(list, T))
  BY <1>8, <1>9, <1>10, <1>11
<1>14. QED
  BY <1>12, <1>13 DEF r

LEMMA FilterPopped ==
  ASSUME NEW S, NEW list \in Seq(S), list # <<>>, NEW T
  PROVE  /\ Head(list) \in T => Len(FilterSeq(list, T)) = Len(FilterSeq(Popped(list), T)) + 1
         /\ Head(list) \notin T => Len(FilterSeq(list, T)) = Len(FilterSeq(Popped(list), T))
<1> DEFINE r == Popped(list)
<1>0. r = Tail(list)
  BY DEF Popped
<1> HIDE DEF r
<1>1. /\ r \in Seq(S) /\ Len(r) \in Nat /\ Len(list) = Len(r) + 1
      /\ \A k \in 1 .. Len(r) : r[k] = list[k + 1]
      /\ Head(list) = list[1] /\ Head(list) \in S
  BY <1>0
<1>2. PICK f : Filters(f, S, list, T)
  BY StepsAre
<1>3. PICK g : Filters(g, S, r, T)
  BY <1>1, StepsAre
<1> DEFINE N == Len(r)
           more == IF Head(list) \in T THEN 1 ELSE 0
           Good == {n \in Nat : Len(f[n + 1]) = Len(g[n]) + more}
<1>4. N \in Nat /\ 0 \in Good
  <2>1. 0 \in 0 .. Len(list) /\ 0 < Len(list) /\ 0 + 1 = 1
    BY <1>1
  <2>2. f[1] = IF list[1] \in T THEN Append(<<>>, list[1]) ELSE <<>>
    BY <1>2, <2>1 DEF Filters
  <2>3. Len(f[1]) = more
    BY <1>1, <2>2
  <2>4. Len(g[0]) = 0 /\ more + 0 = more /\ 0 + more = more
    BY <1>3 DEF Filters
  <2> HIDE DEF more
  <2>5. Len(f[0 + 1]) = Len(g[0]) + more
    BY <2>1, <2>3, <2>4
  <2>6. QED
    BY <1>1, <2>5
<1>5. ASSUME NEW n \in 0 .. N, n \in Good, n < N PROVE n + 1 \in Good
  <2>1. /\ n + 1 \in 1 .. Len(r) /\ n + 1 \in 0 .. Len(list) /\ n + 1 < Len(list) /\ n + 1 \in Nat
        /\ n \in 0 .. Len(r)
    BY <1>1, <1>5
  <2>2. r[n + 1] = list[(n + 1) + 1]
    BY <1>1, <2>1
  <2>3. f[(n + 1) + 1] = IF list[(n + 1) + 1] \in T THEN Append(f[n + 1], list[(n + 1) + 1]) ELSE f[n + 1]
    BY <1>2, <2>1 DEF Filters
  <2>4. g[n + 1] = IF r[n + 1] \in T THEN Append(g[n], r[n + 1]) ELSE g[n]
    BY <1>3, <1>5 DEF Filters
  <2>5. f[n + 1] \in Seq(S) /\ g[n] \in Seq(S)
    BY <1>2, <1>3, <2>1 DEF Filters
  <2>6. Len(f[n + 1]) = Len(g[n]) + more
    BY <1>5
  <2> HIDE DEF more, Good
  <2>7. Len(f[(n + 1) + 1]) = Len(g[n + 1]) + more
    <3>1. more \in Nat /\ Len(g[n]) \in Nat /\ Len(f[n + 1]) \in Nat
      BY <2>5 DEF more
    <3>2. CASE r[n + 1] \in T
      <4>1. f[(n + 1) + 1] = Append(f[n + 1], r[n + 1]) /\ g[n + 1] = Append(g[n], r[n + 1])
        BY <2>2, <2>3, <2>4, <3>2
      <4>2. Len(f[(n + 1) + 1]) = Len(f[n + 1]) + 1 /\ Len(g[n + 1]) = Len(g[n]) + 1
        BY <2>5, <4>1
      <4>3. QED
        BY <2>6, <3>1, <4>2
    <3>3. CASE r[n + 1] \notin T
      BY <2>2, <2>3, <2>4, <2>6, <3>3
    <3>4. QED
      BY <3>2, <3>3
  <2>8. QED
    BY <2>1, <2>7 DEF Good
<1>6. Len(f[N + 1]) = Len(g[N]) + more
  <2>1. N \in Good
    <3> HIDE DEF Good
    <3>1. \A n \in 0 .. N : n \in Good
      BY <1>4, <1>5, Induction
    <3>2. QED
      BY <1>4, <3>1
  <2>2. QED
    BY <2>1
<1>7. Len(g[N]) \in Nat
  BY <1>3, <1>4 DEF Filters
<1>8. FilterSeq(list, T) = f[N + 1]
  BY <1>1, <1>2 DEF Filters
<1>9. FilterSeq(r, T) = g[N]
  BY <1>3 DEF Filters
<1> HIDE DEF N
<1>10. Len(FilterSeq(list, T)) = Len(FilterSeq(r, T)) + more
  BY <1>6, <1>8, <1>9
<1>11. Len(FilterSeq(r, T)) \in Nat
  BY <1>7, <1>9
<1>12. QED
  BY <1>1, <1>10, <1>11 DEF r, more

-----------------------------------------------------------------------------
(***************************************************************************)
(* Folds.  A fold of the community modules is a function on the subsets of  *)
(* what is folded: what it computes is what any such function does that     *)
(* takes one element after the other.                                       *)
(***************************************************************************)

(* A set of subsets that has every one whose subsets by one element it has. *)
LEMMA SubsetInduction ==
  ASSUME NEW X, IsFiniteSet(X), NEW G,
         \A t \in SUBSET X : (\A x \in t : t \ {x} \in G) => t \in G
  PROVE  \A t \in SUBSET X : t \in G
<1> DEFINE S == {n \in Nat : \A t \in SUBSET X : Cardinality(t) = n => t \in G}
           N == Cardinality(X)
<1>1. /\ N \in Nat
      /\ \A t \in SUBSET X : IsFiniteSet(t) /\ Cardinality(t) \in 0 .. N
  <2>1. N \in Nat
    BY FS_CardinalityType
  <2>2. ASSUME NEW t \in SUBSET X PROVE IsFiniteSet(t) /\ Cardinality(t) \in 0 .. N
    <3>1. IsFiniteSet(t) /\ Cardinality(t) <= N
      BY FS_Subset
    <3>2. Cardinality(t) \in Nat
      BY <3>1, FS_CardinalityType
    <3>3. QED
      BY <2>1, <3>1, <3>2
  <2>3. QED
    BY <2>1, <2>2
<1>2. 0 \in S
  <2>1. ASSUME NEW t \in SUBSET X, Cardinality(t) = 0 PROVE t \in G
    <3>1. t = {}
      BY <1>1, <2>1, FS_EmptySet
    <3>2. QED
      BY <3>1
  <2>2. QED
    BY <2>1
<1>3. ASSUME NEW n \in 0 .. N, n \in S, n < N PROVE n + 1 \in S
  <2>1. ASSUME NEW t \in SUBSET X, Cardinality(t) = n + 1 PROVE t \in G
    <3>1. ASSUME NEW x \in t PROVE t \ {x} \in G
      <4>1. IsFiniteSet(t) /\ Cardinality(t) \in Nat
        BY <1>1
      <4>2. Cardinality(t \ {x}) = n
        BY <1>1, <2>1, <4>1, FS_RemoveElement
      <4>3. t \ {x} \in SUBSET X
        OBVIOUS
      <4>4. QED
        BY <1>3, <4>2, <4>3
    <3>2. QED
      BY <3>1
  <2>2. n + 1 \in Nat
    BY <1>1
  <2>3. QED
    BY <2>1, <2>2
<1>4. \A n \in 0 .. N : n \in S
  <2> HIDE DEF S, N
  <2>1. QED
    BY <1>1, <1>2, <1>3, Induction
<1>5. QED
  BY <1>1, <1>4

(* The function behind a fold, for any way to pick the next element.        *)
Picks(pick, X) == \A t \in SUBSET X : t # {} => pick[t] \in t
Folds(g, X, pick, base, step) ==
  g = [t \in SUBSET X |-> IF t = {} THEN base ELSE step[<<pick[t], g[t \ {pick[t]}]>>]]

LEMMA FoldExists ==
  ASSUME NEW X, IsFiniteSet(X), NEW pick, Picks(pick, X),
         NEW V, NEW base \in V, NEW step \in [X \X V -> V]
  PROVE  \E g \in [SUBSET X -> V] : Folds(g, X, pick, base, step)
<1> DEFINE Upto(n) == {t \in SUBSET X : Cardinality(t) <= n}
           next(g, t) == IF t = {} THEN base ELSE step[<<pick[t], g[t \ {pick[t]}]>>]
           S == {n \in Nat : \E g \in [Upto(n) -> V] : g = [t \in Upto(n) |-> next(g, t)]}
           N == Cardinality(X)
<1>1. /\ N \in Nat
      /\ \A t \in SUBSET X : IsFiniteSet(t) /\ Cardinality(t) \in Nat /\ Cardinality(t) <= N
  BY FS_CardinalityType, FS_Subset
<1>2. ASSUME NEW t \in SUBSET X, t # {}
      PROVE  /\ pick[t] \in t /\ pick[t] \in X /\ t \ {pick[t]} \in SUBSET X
             /\ Cardinality(t \ {pick[t]}) = Cardinality(t) - 1 /\ Cardinality(t) # 0
  <2>1. pick[t] \in t /\ pick[t] \in X /\ t \ {pick[t]} \in SUBSET X
    BY <1>2 DEF Picks
  <2>2. Cardinality(t \ {pick[t]}) = Cardinality(t) - 1 /\ Cardinality(t) # 0
    BY <1>1, <1>2, <2>1, FS_RemoveElement, FS_EmptySet
  <2>3. QED
    BY <2>1, <2>2
<1>3. 0 \in S
  <2>1. Upto(0) = {{}}
    BY <1>1, <1>2, FS_EmptySet
  <2> DEFINE g == [t \in Upto(0) |-> base]
  <2>2. g \in [Upto(0) -> V] /\ g = [t \in Upto(0) |-> next(g, t)]
    BY <2>1
  <2>3. QED
    BY <2>2
<1>4. ASSUME NEW n \in 0 .. N, n \in S, n < N PROVE n + 1 \in S
  <2>1. PICK g \in [Upto(n) -> V] : g = [t \in Upto(n) |-> next(g, t)]
    BY <1>4
  <2>2. n \in Nat /\ n + 1 \in Nat
    BY <1>1
  <2> DEFINE h == [t \in Upto(n + 1) |-> next(g, t)]
  <2>3. ASSUME NEW t \in Upto(n + 1), t # {}
        PROVE  t \ {pick[t]} \in Upto(n) /\ <<pick[t], g[t \ {pick[t]}]>> \in X \X V
    <3>1. /\ pick[t] \in X /\ t \ {pick[t]} \in SUBSET X /\ Cardinality(t) \in Nat
          /\ Cardinality(t \ {pick[t]}) = Cardinality(t) - 1 /\ Cardinality(t) <= n + 1
      BY <1>1, <1>2, <2>3
    <3>2. t \ {pick[t]} \in Upto(n)
      BY <2>2, <3>1
    <3>3. QED
      BY <2>1, <3>1, <3>2
  <2>4. h \in [Upto(n + 1) -> V]
    BY <2>3
  <2>5. ASSUME NEW t \in Upto(n) PROVE t \in Upto(n + 1) /\ h[t] = g[t]
    <3>1. t \in Upto(n + 1)
      BY <1>1, <2>2
    <3>2. QED
      BY <2>1, <3>1
  <2>6. ASSUME NEW t \in Upto(n + 1) PROVE next(g, t) = next(h, t)
    BY <2>3, <2>5
  <2>7. h = [t \in Upto(n + 1) |-> next(h, t)]
    BY <2>6
  <2> HIDE DEF h, Upto, next
  <2>8. QED
    BY <2>2, <2>4, <2>7
<1>5. N \in S
  <2>1. \A n \in 0 .. N : n \in S
    <3> HIDE DEF S, N
    <3>1. QED
      BY <1>1, <1>3, <1>4, Induction
  <2>2. N \in 0 .. N
    BY <1>1
  <2>3. QED
    BY <2>1, <2>2, Zenon
<1>6. Upto(N) = SUBSET X
  BY <1>1
<1>7. PICK g \in [Upto(N) -> V] : g = [t \in Upto(N) |-> next(g, t)]
  BY <1>5
<1>8. g \in [SUBSET X -> V] /\ g = [t \in SUBSET X |-> next(g, t)]
  BY <1>6, <1>7
<1>9. QED
  BY <1>8 DEF Folds

(* Functions that agree on the empty set, and step alike, are the same.      *)
StepAlike(k, h, X, pick) ==
  /\ k[{}] = h[{}]
  /\ \A t \in SUBSET X : t # {} /\ k[t \ {pick[t]}] = h[t \ {pick[t]}] => k[t] = h[t]

LEMMA SameSteps ==
  ASSUME NEW X, IsFiniteSet(X), NEW pick, Picks(pick, X), NEW h, NEW k, StepAlike(k, h, X, pick)
  PROVE  \A t \in SUBSET X : k[t] = h[t]
<1> DEFINE G == {t \in SUBSET X : k[t] = h[t]}
<1>1. ASSUME NEW t \in SUBSET X, \A x \in t : t \ {x} \in G PROVE t \in G
  <2>1. CASE t = {}
    BY <2>1 DEF StepAlike
  <2>2. CASE t # {}
    BY <1>1, <2>2 DEF StepAlike, Picks
  <2>3. QED
    BY <2>1, <2>2
<1>2. \A t \in SUBSET X : t \in G
  <2> HIDE DEF G
  <2>1. QED
    BY <1>1, SubsetInduction
<1>3. QED
  BY <1>2

(* The last index of a set of them. *)
LastOf(D) == [t \in SUBSET D |-> Max(t)]

LEMMA MaxIsIn ==
  ASSUME NEW N \in Nat
  PROVE  \A t \in SUBSET (1 .. N) : t # {} => Max(t) \in t
<1> DEFINE X == 1 .. N
           G == {t \in SUBSET X : t # {} => \E x \in t : \A y \in t : x >= y}
<1>1. IsFiniteSet(X)
  BY FS_Interval
<1>2. ASSUME NEW t \in SUBSET X, \A x \in t : t \ {x} \in G PROVE t \in G
  <2>1. ASSUME NEW x \in t PROVE \E z \in t : \A y \in t : z >= y
    <3>1. CASE t \ {x} = {}
      <4>1. \A y \in t : y = x
        BY <3>1
      <4>2. x \in Nat
        OBVIOUS
      <4>3. QED
        BY <4>1, <4>2
    <3>2. CASE t \ {x} # {}
      <4>1. PICK z \in t \ {x} : \A y \in t \ {x} : z >= y
        BY <1>2, <3>2
      <4>2. x \in Nat /\ z \in Nat /\ \A y \in t : y \in Nat
        OBVIOUS
      <4>3. CASE z >= x
        BY <4>1, <4>2, <4>3
      <4>4. CASE x > z
        BY <4>1, <4>2, <4>4
      <4>5. QED
        BY <4>2, <4>3, <4>4
    <3>3. QED
      BY <3>1, <3>2
  <2>2. QED
    BY <2>1
<1>3. \A t \in SUBSET X : t \in G
  <2> HIDE DEF G, X
  <2>1. QED
    BY <1>1, <1>2, SubsetInduction
<1>4. QED
  BY <1>3 DEF Max

LEMMA Enumerated ==
  ASSUME NEW n \in Nat, NEW R, NEW f \in [1 .. n -> R]
  PROVE  f \in Seq(R)
OBVIOUS


(* The fold of a list, on the sets of its indices and one entry after the    *)
(* other.                                                                   *)
ListFolds(g, s, base, step) ==
  g = [t \in SUBSET DOMAIN s |->
         IF t = {} THEN base ELSE step[<<g[t \ {Max(t)}], s[Max(t)]>>]]
FoldsList(g, s, S, V, base, step) ==
  /\ s \in Seq(S) /\ base \in V /\ step \in [V \X S -> V]
  /\ g \in [SUBSET DOMAIN s -> V] /\ ListFolds(g, s, base, step)
ListSteps(f, s, base, step) ==
  f[0] = base /\ \A n \in 0 .. Len(s) : n < Len(s) => f[n + 1] = step[<<f[n], s[n + 1]>>]

LEMMA LastPicks ==
  ASSUME NEW S, NEW s \in Seq(S)
  PROVE  /\ DOMAIN s = 1 .. Len(s) /\ Len(s) \in Nat /\ IsFiniteSet(DOMAIN s)
         /\ Picks(LastOf(DOMAIN s), DOMAIN s)
<1>1. DOMAIN s = 1 .. Len(s) /\ Len(s) \in Nat
  OBVIOUS
<1>2. IsFiniteSet(DOMAIN s)
  BY <1>1, FS_Interval
<1>3. QED
  BY <1>1, <1>2, MaxIsIn DEF LastOf, Picks

LEMMA ListFoldExists ==
  ASSUME NEW S, NEW s \in Seq(S), NEW V, NEW base \in V, NEW step \in [V \X S -> V]
  PROVE  \E g : FoldsList(g, s, S, V, base, step)
<1> DEFINE D == DOMAIN s
           turned == [p \in D \X V |-> step[<<p[2], s[p[1]]>>]]
<1>1. /\ IsFiniteSet(D) /\ Picks(LastOf(D), D)
      /\ \A i \in D : s[i] \in S
  BY LastPicks
<1>2. turned \in [D \X V -> V]
  BY <1>1
<1>3. PICK g \in [SUBSET D -> V] : Folds(g, D, LastOf(D), base, turned)
  <2> HIDE DEF D, turned
  <2>1. QED
    BY <1>1, <1>2, FoldExists
<1>4. ASSUME NEW t \in SUBSET D, t # {} PROVE g[t] = step[<<g[t \ {Max(t)}], s[Max(t)]>>]
  <2>1. Max(t) \in t /\ LastOf(D)[t] = Max(t)
    BY <1>1, <1>4 DEF LastOf, Picks
  <2>2. g[t] = turned[<<Max(t), g[t \ {Max(t)}]>>]
    <3> HIDE DEF turned, D
    <3>1. QED
      BY <1>3, <1>4, <2>1 DEF Folds
  <2>3. Max(t) \in D /\ t \ {Max(t)} \in SUBSET D
    BY <2>1
  <2>4. <<Max(t), g[t \ {Max(t)}]>> \in D \X V
    BY <1>3, <2>3
  <2>5. QED
    BY <2>2, <2>4
<1>5. g[{}] = base
  BY <1>3 DEF Folds
<1>6. ListFolds(g, s, base, step)
  <2>1. \A t \in SUBSET D : g[t] = IF t = {} THEN base ELSE step[<<g[t \ {Max(t)}], s[Max(t)]>>]
    BY <1>4, <1>5
  <2> HIDE DEF D
  <2>2. QED
    BY <1>3, <2>1 DEF ListFolds, D
<1>7. QED
  BY <1>3, <1>6 DEF FoldsList

(* Whatever folds the list so does it step by step, from the first entry.   *)
LEMMA FoldedInSteps ==
  ASSUME NEW S, NEW s, NEW V, NEW base, NEW step, NEW g, FoldsList(g, s, S, V, base, step),
         NEW k, StepAlike(k, g, DOMAIN s, LastOf(DOMAIN s))
  PROVE  \E f \in [0 .. Len(s) -> V] : ListSteps(f, s, base, step) /\ f[Len(s)] = k[DOMAIN s]
<1> DEFINE D == DOMAIN s
           N == Len(s)
           f == [n \in 0 .. N |-> g[1 .. n]]
<1>0. /\ s \in Seq(S) /\ base \in V /\ step \in [V \X S -> V]
      /\ g \in [SUBSET DOMAIN s -> V] /\ ListFolds(g, s, base, step)
  BY DEF FoldsList
<1>1. /\ D = 1 .. N /\ N \in Nat /\ IsFiniteSet(D) /\ Picks(LastOf(D), D)
  BY <1>0, LastPicks
<1>2. f \in [0 .. N -> V]
  BY <1>0, <1>1
<1>3. f[0] = base
  <2>1. f[0] = g[1 .. 0] /\ 1 .. 0 = {}
    BY <1>1
  <2>2. QED
    BY <1>0, <2>1 DEF ListFolds
<1>4. ASSUME NEW n \in 0 .. N, n < N PROVE f[n + 1] = step[<<f[n], s[n + 1]>>]
  <2>1. /\ n \in Nat /\ n + 1 \in 0 .. N /\ (1 .. n + 1) \in SUBSET D /\ n + 1 \in 1 .. n + 1
        /\ (1 .. n + 1) \ {n + 1} = 1 .. n
    <3>1. N \in Nat /\ n \in 0 .. N /\ n < N
      BY <1>1, <1>4
    <3> HIDE DEF N, D
    <3>2. n \in Nat /\ n + 1 \in 0 .. N /\ n + 1 \in 1 .. n + 1
      BY <3>1
    <3>3. \A i \in 1 .. n + 1 : i \in 1 .. N
      BY <3>1
    <3>4. (1 .. n + 1) \ {n + 1} = 1 .. n
      BY <3>2
    <3>5. QED
      BY <1>1, <3>2, <3>3, <3>4
  <2>2. Max(1 .. n + 1) = n + 1
    <3>1. Max(1 .. n + 1) \in 1 .. n + 1 /\ \A y \in 1 .. n + 1 : Max(1 .. n + 1) >= y
      <4>1. n + 1 \in 1 .. n + 1 /\ \A y \in 1 .. n + 1 : n + 1 >= y
        BY <2>1
      <4>2. QED
        BY <4>1 DEF Max
    <3>2. n + 1 \in 1 .. n + 1 /\ \A z \in 1 .. n + 1 : z \in Nat /\ (z >= n + 1 => z = n + 1)
      BY <2>1
    <3>3. QED
      BY <3>1, <3>2
  <2>3. g[1 .. n + 1] = step[<<g[(1 .. n + 1) \ {Max(1 .. n + 1)}], s[Max(1 .. n + 1)]>>]
    <3> DEFINE t == 1 .. n + 1
    <3>1. t \in SUBSET DOMAIN s /\ t # {}
      BY <2>1
    <3> HIDE DEF t
    <3>2. g[t] = step[<<g[t \ {Max(t)}], s[Max(t)]>>]
      BY <1>0, <3>1 DEF ListFolds
    <3>3. QED
      BY <3>2 DEF t
  <2>4. f[n + 1] = g[1 .. n + 1] /\ f[n] = g[1 .. n]
    BY <2>1
  <2>5. QED
    BY <2>1, <2>2, <2>3, <2>4
<1>5. f[N] = k[D]
  <2>1. \A t \in SUBSET D : k[t] = g[t]
    <3>1. StepAlike(k, g, D, LastOf(D))
      OBVIOUS
    <3>2. IsFiniteSet(D) /\ Picks(LastOf(D), D)
      BY <1>1
    <3> HIDE DEF D
    <3>3. QED
      BY <3>1, <3>2, SameSteps
  <2>2. f[N] = g[D]
    BY <1>1
  <2>3. QED
    BY <2>1, <2>2
<1>6. QED
  BY <1>2, <1>3, <1>4, <1>5 DEF ListSteps
=============================================================================
