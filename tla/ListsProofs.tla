---------------------------- MODULE ListsProofs ----------------------------
(***************************************************************************)
(* What the loops of module Lists compute, for lists of any length.  The   *)
(* induction is over sets of numbers: a set that holds 0 and the successor *)
(* of each of its numbers holds them all.                                  *)
(***************************************************************************)
EXTENDS Lists, TLAPS, WellFoundedInduction

(* A nonempty set of natural numbers has a least element. *)
LEMMA Least ==
  ASSUME NEW T \in SUBSET Nat, T # {}
  PROVE \E x \in T : \A y \in T : x <= y
<1>1. \E x \in T : \A y \in T : ~(<<y, x>> \in OpToRel(<, Nat))
  BY NatLessThanWellFounded, WFMin, Zenon
<1>2. ASSUME NEW x \in T, NEW y \in T, ~(<<y, x>> \in OpToRel(<, Nat)) PROVE x <= y
  BY <1>2 DEF OpToRel
<1> QED
  BY <1>1, <1>2

LEMMA Induction ==
  ASSUME NEW H, 0 \in H, \A n \in Nat : n \in H => n + 1 \in H
  PROVE \A n \in Nat : n \in H
<1> SUFFICES ASSUME Nat \ H # {} PROVE FALSE
  OBVIOUS
<1>1. PICK m \in Nat \ H : \A y \in Nat \ H : m <= y
  BY Least
<1>2. m # 0 /\ m - 1 \in Nat
  BY <1>1
<1>3. m - 1 \in H
  BY <1>1, <1>2
<1> QED
  BY <1>1, <1>2, <1>3

-----------------------------------------------------------------------------
(* Sums.                                                                   *)

(* There is a function that satisfies the recursive equation. *)
LEMMA TotalsExist ==
  ASSUME NEW s
  PROVE \A n \in Nat : \E f : f = [i \in 0..n |-> IF i = 0 THEN 0 ELSE f[i - 1] + s[i]]
<1> DEFINE H == {n \in Nat : \E f : f = [i \in 0..n |-> IF i = 0 THEN 0 ELSE f[i - 1] + s[i]]}
<1>1. 0 \in H
  <2>1. [i \in 0..0 |-> 0] = [i \in 0..0 |-> IF i = 0 THEN 0 ELSE [j \in 0..0 |-> 0][i - 1] + s[i]]
    OBVIOUS
  <2> QED
    BY <2>1
<1>2. ASSUME NEW n \in Nat, n \in H PROVE n + 1 \in H
  <2>1. PICK f : f = [i \in 0..n |-> IF i = 0 THEN 0 ELSE f[i - 1] + s[i]]
    BY <1>2
  <2> DEFINE g == [i \in 0..(n + 1) |-> IF i = n + 1 THEN f[n] + s[n + 1] ELSE f[i]]
  <2>2. g = [i \in 0..(n + 1) |-> IF i = 0 THEN 0 ELSE g[i - 1] + s[i]]
    <3> SUFFICES ASSUME NEW i \in 0..(n + 1)
                 PROVE g[i] = IF i = 0 THEN 0 ELSE g[i - 1] + s[i]
      OBVIOUS
    <3>1. CASE i = n + 1
      BY <3>1
    <3>2. CASE i # n + 1
      BY <2>1, <3>2
    <3> QED
      BY <3>1, <3>2
  <2> HIDE DEF g
  <2> QED
    BY <2>2, n + 1 \in Nat
<1> HIDE DEF H
<1>3. \A n \in Nat : n \in H
  BY <1>1, <1>2, Induction
<1> QED
  BY <1>3 DEF H

LEMMA TotalsDef ==
  ASSUME NEW s, Len(s) \in Nat
  PROVE Totals(s) = [n \in 0..Len(s) |-> IF n = 0 THEN 0 ELSE Totals(s)[n - 1] + s[n]]
<1>1. \E f : f = [i \in 0..Len(s) |-> IF i = 0 THEN 0 ELSE f[i - 1] + s[i]]
  BY TotalsExist
<1> QED
  BY <1>1, Zenon DEF Totals

LEMMA TotalsStep ==
  ASSUME NEW S, NEW s \in Seq(S)
  PROVE /\ Totals(s)[0] = 0
        /\ \A n \in 1..Len(s) : Totals(s)[n] = Totals(s)[n - 1] + s[n]
<1>1. Len(s) \in Nat
  OBVIOUS
<1>2. Totals(s) = [n \in 0..Len(s) |-> IF n = 0 THEN 0 ELSE Totals(s)[n - 1] + s[n]]
  BY <1>1, TotalsDef
<1> DEFINE t == Totals(s)
<1>3. t = [n \in 0..Len(s) |-> IF n = 0 THEN 0 ELSE t[n - 1] + s[n]]
  BY <1>2
<1> HIDE DEF t
<1>4. t[0] = 0 /\ \A n \in 1..Len(s) : t[n] = t[n - 1] + s[n]
  BY <1>1, <1>3
<1> QED
  BY <1>4 DEF t

LEMMA TotalsTypes ==
  ASSUME NEW s \in Seq(Nat)
  PROVE \A n \in 0..Len(s) : Totals(s)[n] \in Nat
<1> DEFINE H == {n \in Nat : n \in 0..Len(s) => Totals(s)[n] \in Nat}
<1>1. 0 \in H
  BY TotalsStep
<1>2. ASSUME NEW n \in Nat, n \in H PROVE n + 1 \in H
  <2> SUFFICES ASSUME n + 1 \in 0..Len(s) PROVE Totals(s)[n + 1] \in Nat
    OBVIOUS
  <2>1. n \in 0..Len(s) /\ n + 1 \in 1..Len(s) /\ s[n + 1] \in Nat
    OBVIOUS
  <2>2. Totals(s)[n + 1] = Totals(s)[(n + 1) - 1] + s[n + 1]
    BY <2>1, TotalsStep
  <2>3. (n + 1) - 1 = n
    OBVIOUS
  <2> QED
    BY <1>2, <2>1, <2>2, <2>3
<1> HIDE DEF H
<1>3. \A n \in Nat : n \in H
  BY <1>1, <1>2, Induction
<1> QED
  BY <1>3 DEF H

(* The sum over a prefix depends on that prefix only, *)
LEMMA TotalsAgree ==
  ASSUME NEW s \in Seq(Nat), NEW t \in Seq(Nat), NEW m \in Nat,
         m <= Len(s), m <= Len(t), \A i \in 1..m : s[i] = t[i]
  PROVE Totals(s)[m] = Totals(t)[m]
<1> DEFINE H == {n \in Nat : n <= m => Totals(s)[n] = Totals(t)[n]}
<1>1. 0 \in H
  BY TotalsStep
<1>2. ASSUME NEW n \in Nat, n \in H PROVE n + 1 \in H
  <2> SUFFICES ASSUME n + 1 <= m PROVE Totals(s)[n + 1] = Totals(t)[n + 1]
    OBVIOUS
  <2>1. n + 1 \in 1..Len(s) /\ n + 1 \in 1..Len(t) /\ s[n + 1] = t[n + 1] /\ (n + 1) - 1 = n
    OBVIOUS
  <2>2. Totals(s)[n + 1] = Totals(s)[n] + s[n + 1] /\ Totals(t)[n + 1] = Totals(t)[n] + t[n + 1]
    BY <2>1, TotalsStep
  <2> QED
    BY <1>2, <2>1, <2>2
<1> HIDE DEF H
<1>3. \A n \in Nat : n \in H
  BY <1>1, <1>2, Induction
<1> QED
  BY <1>3 DEF H

(* and without its first element it is that much smaller. *)
LEMMA TotalsShift ==
  ASSUME NEW s \in Seq(Nat), s # <<>>
  PROVE \A n \in 0..Len(Tail(s)) : Totals(s)[n + 1] = s[1] + Totals(Tail(s))[n]
<1> DEFINE t == Tail(s)
           H == {n \in Nat : n <= Len(t) => Totals(s)[n + 1] = s[1] + Totals(t)[n]}
<1>0. t \in Seq(Nat) /\ Len(t) = Len(s) - 1 /\ Len(s) \in Nat \ {0}
      /\ \A i \in 1..Len(t) : t[i] = s[i + 1]
  OBVIOUS
<1> HIDE DEF t
<1>1. 0 \in H
  <2>0. 1 \in 1..Len(s) /\ 1 - 1 = 0
    BY <1>0
  <2>1. Totals(t)[0] = 0 /\ Totals(s)[1] = Totals(s)[1 - 1] + s[1] /\ Totals(s)[0] = 0
    BY <1>0, <2>0, TotalsStep
  <2>2. s[1] \in Nat
    BY <1>0
  <2> QED
    BY <2>0, <2>1, <2>2
<1>2. ASSUME NEW n \in Nat, n \in H PROVE n + 1 \in H
  <2> SUFFICES ASSUME n + 1 <= Len(t) PROVE Totals(s)[(n + 1) + 1] = s[1] + Totals(t)[n + 1]
    OBVIOUS
  <2>1. /\ n + 1 \in 1..Len(t) /\ (n + 1) + 1 \in 1..Len(s)
        /\ (n + 1) - 1 = n /\ ((n + 1) + 1) - 1 = n + 1 /\ t[n + 1] = s[(n + 1) + 1]
        /\ n \in 0..Len(t)
    BY <1>0
  <2>2. Totals(t)[n + 1] = Totals(t)[n] + t[n + 1]
    BY <1>0, <2>1, TotalsStep
  <2>3. Totals(s)[(n + 1) + 1] = Totals(s)[n + 1] + s[(n + 1) + 1]
    BY <2>1, TotalsStep
  <2>4. Totals(t)[n] \in Nat /\ s[1] \in Nat /\ s[(n + 1) + 1] \in Nat
    BY <1>0, <2>1, TotalsTypes
  <2> QED
    BY <1>2, <2>1, <2>2, <2>3, <2>4
<1> HIDE DEF H
<1>3. \A n \in Nat : n \in H
  BY <1>1, <1>2, Induction
<1> QED
  BY <1>0, <1>3 DEF H, t

(* Total, by its equations. *)
LEMMA TotalType == ASSUME NEW s \in Seq(Nat) PROVE Total(s) \in Nat
  BY TotalsTypes DEF Total

LEMMA TotalEmpty == Total(<<>>) = 0
<1>1. <<>> \in Seq(Nat) /\ Len(<<>>) = 0
  OBVIOUS
<1> QED
  BY <1>1, TotalsStep DEF Total

LEMMA TotalLast ==
  ASSUME NEW s \in Seq(Nat), NEW t \in Seq(Nat), s # <<>>, Len(s) = Len(t) + 1,
         \A i \in 1..Len(t) : s[i] = t[i]
  PROVE Total(s) = Total(t) + s[Len(s)]
<1>1. /\ Len(t) \in Nat /\ Len(s) \in 1..Len(s) /\ Len(s) - 1 = Len(t)
      /\ Len(t) <= Len(s) /\ Len(t) <= Len(t)
  OBVIOUS
<1>2. Totals(s)[Len(s)] = Totals(s)[Len(t)] + s[Len(s)]
  BY <1>1, TotalsStep
<1>3. Totals(s)[Len(t)] = Totals(t)[Len(t)]
  BY <1>1, TotalsAgree
<1> QED
  BY <1>2, <1>3 DEF Total

LEMMA TotalTail ==
  ASSUME NEW s \in Seq(Nat), s # <<>>
  PROVE Tail(s) \in Seq(Nat) /\ Total(s) = s[1] + Total(Tail(s))
<1>1. Tail(s) \in Seq(Nat) /\ Len(Tail(s)) + 1 = Len(s) /\ Len(Tail(s)) \in 0..Len(Tail(s))
  OBVIOUS
<1> QED
  BY <1>1, TotalsShift DEF Total

-----------------------------------------------------------------------------
(* Filters.                                                                *)

(* f is the recursive function of Kept up to n. *)
Filters(f, s, S, n) ==
  f = [i \in 0..n |-> IF i = 0 THEN <<>>
                      ELSE IF s[i] \in S THEN Append(f[i - 1], s[i]) ELSE f[i - 1]]

LEMMA KeptExist ==
  ASSUME NEW s, NEW S
  PROVE \A n \in Nat : \E f : Filters(f, s, S, n)
<1> DEFINE H == {n \in Nat : \E f : Filters(f, s, S, n)}
<1>1. 0 \in H
  <2> DEFINE g == [i \in 0..0 |-> <<>>]
  <2>1. g = [i \in 0..0 |-> IF i = 0 THEN <<>>
                            ELSE IF s[i] \in S THEN Append(g[i - 1], s[i]) ELSE g[i - 1]]
    OBVIOUS
  <2>2. Filters(g, s, S, 0)
    BY <2>1, Zenon DEF Filters
  <2> QED
    BY <2>2
<1>2. ASSUME NEW n \in Nat, n \in H PROVE n + 1 \in H
  <2>0. PICK f : Filters(f, s, S, n)
    BY <1>2
  <2>1. f = [i \in 0..n |-> IF i = 0 THEN <<>>
             ELSE IF s[i] \in S THEN Append(f[i - 1], s[i]) ELSE f[i - 1]]
    BY <2>0 DEF Filters
  <2> DEFINE next == IF s[n + 1] \in S THEN Append(f[n], s[n + 1]) ELSE f[n]
             g == [i \in 0..(n + 1) |-> IF i = n + 1 THEN next ELSE f[i]]
  <2>2. g = [i \in 0..(n + 1) |-> IF i = 0 THEN <<>>
             ELSE IF s[i] \in S THEN Append(g[i - 1], s[i]) ELSE g[i - 1]]
    <3> SUFFICES ASSUME NEW i \in 0..(n + 1)
                 PROVE g[i] = IF i = 0 THEN <<>>
                              ELSE IF s[i] \in S THEN Append(g[i - 1], s[i]) ELSE g[i - 1]
      OBVIOUS
    <3>1. CASE i = n + 1
      <4>1. g[i] = next /\ g[i - 1] = f[n] /\ i # 0
        BY <3>1
      <4> QED
        BY <3>1, <4>1
    <3>2. CASE i # n + 1
      <4>1. i \in 0..n /\ (i # 0 => i - 1 \in 0..n /\ i - 1 \in 0..(n + 1) /\ i - 1 # n + 1)
        BY <3>2
      <4>2. g[i] = f[i] /\ (i # 0 => g[i - 1] = f[i - 1])
        BY <3>2, <4>1
      <4>3. f[i] = IF i = 0 THEN <<>>
                   ELSE IF s[i] \in S THEN Append(f[i - 1], s[i]) ELSE f[i - 1]
        BY <2>1, <4>1
      <4> HIDE DEF g
      <4> QED
        BY <4>2, <4>3
    <3> QED
      BY <3>1, <3>2
  <2>3. Filters(g, s, S, n + 1)
    BY <2>2, Zenon DEF Filters
  <2> QED
    BY <2>3, n + 1 \in Nat
<1> HIDE DEF H
<1>3. \A n \in Nat : n \in H
  BY <1>1, <1>2, Induction
<1> QED
  BY <1>3 DEF H

LEMMA KeptDef ==
  ASSUME NEW s, NEW S, Len(s) \in Nat
  PROVE Filters(Kept(s, S), s, S, Len(s))
<1>1. \E f : Filters(f, s, S, Len(s))
  BY KeptExist
<1> QED
  BY <1>1, Zenon DEF Kept, Filters

LEMMA KeptStep ==
  ASSUME NEW A, NEW s \in Seq(A), NEW S
  PROVE /\ Kept(s, S)[0] = <<>>
        /\ \A n \in 1..Len(s) :
             Kept(s, S)[n] = IF s[n] \in S THEN Append(Kept(s, S)[n - 1], s[n])
                                           ELSE Kept(s, S)[n - 1]
<1>1. Len(s) \in Nat
  OBVIOUS
<1> DEFINE t == Kept(s, S)
<1>a. Filters(t, s, S, Len(s))
  BY <1>1, KeptDef
<1> HIDE DEF t
<1>2. t = [i \in 0..Len(s) |-> IF i = 0 THEN <<>>
           ELSE IF s[i] \in S THEN Append(t[i - 1], s[i]) ELSE t[i - 1]]
  BY <1>a, Zenon DEF Filters
<1>3. t[0] = <<>>
  <2>1. 0 \in 0..Len(s)
    BY <1>1
  <2> QED
    BY <1>2, <2>1, Zenon
<1>4. ASSUME NEW n \in 1..Len(s)
      PROVE t[n] = IF s[n] \in S THEN Append(t[n - 1], s[n]) ELSE t[n - 1]
  <2>1. n \in 0..Len(s) /\ n # 0
    BY <1>1
  <2> QED
    BY <1>2, <2>1, Zenon
<1> QED
  BY <1>3, <1>4 DEF t

(* After n turns: a list of elements of s, no longer than n, whose         *)
(* elements are those among the first n of s that are in S.                *)
LEMMA KeptElements ==
  ASSUME NEW A, NEW s \in Seq(A), NEW S
  PROVE \A n \in 0..Len(s) :
          /\ Kept(s, S)[n] \in Seq(A)
          /\ Len(Kept(s, S)[n]) <= n
          /\ \A i \in 1..Len(Kept(s, S)[n]) :
               /\ Kept(s, S)[n][i] \in S
               /\ \E j \in 1..n : s[j] = Kept(s, S)[n][i]
          /\ \A j \in 1..n : s[j] \in S => \E i \in 1..Len(Kept(s, S)[n]) : Kept(s, S)[n][i] = s[j]
<1> DEFINE t == Kept(s, S)
           P(n) == /\ t[n] \in Seq(A)
                   /\ Len(t[n]) <= n
                   /\ \A i \in 1..Len(t[n]) : t[n][i] \in S /\ \E j \in 1..n : s[j] = t[n][i]
                   /\ \A j \in 1..n : s[j] \in S => \E i \in 1..Len(t[n]) : t[n][i] = s[j]
           H == {n \in Nat : n <= Len(s) => P(n)}
<1>0. /\ t[0] = <<>>
      /\ \A n \in 1..Len(s) : t[n] = IF s[n] \in S THEN Append(t[n - 1], s[n]) ELSE t[n - 1]
  BY KeptStep
<1> HIDE DEF t
<1>1. 0 \in H
  <2>1. <<>> \in Seq(A) /\ Len(<<>>) = 0 /\ 1..0 = {}
    OBVIOUS
  <2>2. P(0)
    BY <1>0, <2>1
  <2> HIDE DEF P
  <2> QED
    BY <2>2
<1>2. ASSUME NEW n \in Nat, n \in H PROVE n + 1 \in H
  <2> SUFFICES ASSUME n + 1 <= Len(s) PROVE P(n + 1)
    OBVIOUS
  <2> DEFINE k == t[n]
             l == t[n + 1]
  <2>1. /\ n + 1 \in 1..Len(s) /\ (n + 1) - 1 = n /\ n <= Len(s) /\ s[n + 1] \in A
    OBVIOUS
  <2>2. l = IF s[n + 1] \in S THEN Append(k, s[n + 1]) ELSE k
    BY <1>0, <2>1
  <2>3. /\ k \in Seq(A) /\ Len(k) <= n
        /\ \A i \in 1..Len(k) : k[i] \in S /\ \E j \in 1..n : s[j] = k[i]
        /\ \A j \in 1..n : s[j] \in S => \E i \in 1..Len(k) : k[i] = s[j]
    BY <1>2, <2>1
  <2> HIDE DEF k, l
  <2>4. CASE s[n + 1] \in S
    <3>1. /\ l \in Seq(A) /\ Len(l) = Len(k) + 1 /\ l[Len(l)] = s[n + 1]
          /\ \A i \in 1..Len(k) : l[i] = k[i]
      BY <2>1, <2>2, <2>3, <2>4
    <3>2. Len(l) <= n + 1 /\ Len(l) \in 1..Len(l)
      BY <2>3, <3>1
    <3>3. ASSUME NEW i \in 1..Len(l) PROVE l[i] \in S /\ \E j \in 1..(n + 1) : s[j] = l[i]
      <4>1. CASE i = Len(l)
        BY <2>4, <3>1, <4>1
      <4>2. CASE i # Len(l)
        BY <2>3, <3>1, <4>2
      <4> QED
        BY <4>1, <4>2
    <3>4. ASSUME NEW j \in 1..(n + 1), s[j] \in S PROVE \E i \in 1..Len(l) : l[i] = s[j]
      <4>1. CASE j = n + 1
        BY <3>1, <3>2, <4>1
      <4>2. CASE j # n + 1
        <5>1. j \in 1..n
          BY <4>2
        <5>2. PICK i \in 1..Len(k) : k[i] = s[j]
          BY <2>3, <3>4, <5>1
        <5>3. i \in 1..Len(l) /\ l[i] = s[j]
          BY <2>3, <3>1, <5>2
        <5> QED
          BY <5>3
      <4> QED
        BY <4>1, <4>2
    <3> QED
      BY <3>1, <3>2, <3>3, <3>4 DEF l
  <2>5. CASE s[n + 1] \notin S
    <3>1. l = k
      BY <2>2, <2>5
    <3>2. \A j \in 1..(n + 1) : s[j] \in S => j \in 1..n
      BY <2>5
    <3>3. Len(k) \in Nat
      BY <2>3
    <3> QED
      BY <2>3, <3>1, <3>2, <3>3 DEF l
  <2> QED
    BY <2>4, <2>5
<1> HIDE DEF H
<1>3. \A n \in Nat : n \in H
  BY <1>1, <1>2, Induction
<1>4. \A n \in 0..Len(s) : n \in Nat /\ n <= Len(s)
  OBVIOUS
<1>5. \A n \in 0..Len(s) : P(n)
  BY <1>3, <1>4 DEF H
<1> QED
  BY <1>5 DEF t

(* Where no element of s stands twice, none does in what is kept. *)
LEMMA KeptOnce ==
  ASSUME NEW A, NEW s \in Seq(A), NEW S, \A i, j \in 1..Len(s) : s[i] = s[j] => i = j
  PROVE \A n \in 0..Len(s) : \A i, j \in 1..Len(Kept(s, S)[n]) :
          Kept(s, S)[n][i] = Kept(s, S)[n][j] => i = j
<1> DEFINE t == Kept(s, S)
           P(n) == \A i, j \in 1..Len(t[n]) : t[n][i] = t[n][j] => i = j
           H == {n \in Nat : n <= Len(s) => P(n)}
<1>0. /\ t[0] = <<>>
      /\ \A n \in 1..Len(s) : t[n] = IF s[n] \in S THEN Append(t[n - 1], s[n]) ELSE t[n - 1]
  BY KeptStep
<1>a. \A n \in 0..Len(s) : t[n] \in Seq(A) /\ \A i \in 1..Len(t[n]) : \E j \in 1..n : s[j] = t[n][i]
  BY KeptElements
<1> HIDE DEF t
<1>1. 0 \in H
  BY <1>0
<1>2. ASSUME NEW n \in Nat, n \in H PROVE n + 1 \in H
  <2> SUFFICES ASSUME n + 1 <= Len(s) PROVE P(n + 1)
    OBVIOUS
  <2> DEFINE k == t[n]
             l == t[n + 1]
  <2>1. /\ n + 1 \in 1..Len(s) /\ (n + 1) - 1 = n /\ n <= Len(s) /\ s[n + 1] \in A
        /\ n \in 0..Len(s)
    OBVIOUS
  <2>2. l = IF s[n + 1] \in S THEN Append(k, s[n + 1]) ELSE k
    BY <1>0, <2>1
  <2>3. /\ k \in Seq(A)
        /\ \A i \in 1..Len(k) : \E j \in 1..n : s[j] = k[i]
        /\ \A i, j \in 1..Len(k) : k[i] = k[j] => i = j
    BY <1>2, <1>a, <2>1
  <2> HIDE DEF k, l
  <2>4. CASE s[n + 1] \in S
    <3>1. /\ Len(l) = Len(k) + 1 /\ l[Len(l)] = s[n + 1] /\ Len(k) \in Nat
          /\ \A i \in 1..Len(k) : l[i] = k[i]
      BY <2>1, <2>2, <2>3, <2>4
    <3>2. \A i \in 1..Len(k) : k[i] # s[n + 1]
      <4>1. \A j \in 1..n : s[j] # s[n + 1]
        BY <2>1
      <4> QED
        BY <2>3, <4>1
    <3>3. \A i \in 1..Len(l) : i \in 1..Len(k) \/ i = Len(l)
      BY <3>1
    <3>4. \A i, j \in 1..Len(l) : l[i] = l[j] => i = j
      BY <2>3, <3>1, <3>2, <3>3
    <3> QED
      BY <3>4 DEF l
  <2>5. CASE s[n + 1] \notin S
    BY <2>2, <2>3, <2>5 DEF l
  <2> QED
    BY <2>4, <2>5
<1> HIDE DEF H
<1>3. \A n \in Nat : n \in H
  BY <1>1, <1>2, Induction
<1>4. \A n \in 0..Len(s) : n \in Nat /\ n <= Len(s)
  OBVIOUS
<1>5. \A n \in 0..Len(s) : P(n)
  BY <1>3, <1>4 DEF H
<1> QED
  BY <1>5 DEF t

(* A stricter filter keeps no more. *)
LEMMA KeptFewer ==
  ASSUME NEW A, NEW s \in Seq(A), NEW S, NEW T, S \subseteq T
  PROVE \A n \in 0..Len(s) : Len(Kept(s, S)[n]) <= Len(Kept(s, T)[n])
<1> DEFINE k == Kept(s, S)
           l == Kept(s, T)
           H == {n \in Nat : n <= Len(s) => Len(k[n]) <= Len(l[n])}
<1>0. /\ k[0] = <<>> /\ l[0] = <<>>
      /\ \A n \in 1..Len(s) :
           /\ k[n] = IF s[n] \in S THEN Append(k[n - 1], s[n]) ELSE k[n - 1]
           /\ l[n] = IF s[n] \in T THEN Append(l[n - 1], s[n]) ELSE l[n - 1]
  BY KeptStep
<1>a. \A n \in 0..Len(s) : k[n] \in Seq(A) /\ l[n] \in Seq(A)
  BY KeptElements
<1> HIDE DEF k, l
<1>1. 0 \in H
  BY <1>0
<1>2. ASSUME NEW n \in Nat, n \in H PROVE n + 1 \in H
  <2> SUFFICES ASSUME n + 1 <= Len(s) PROVE Len(k[n + 1]) <= Len(l[n + 1])
    OBVIOUS
  <2>1. /\ n + 1 \in 1..Len(s) /\ (n + 1) - 1 = n /\ n <= Len(s) /\ s[n + 1] \in A
        /\ n \in 0..Len(s)
    OBVIOUS
  <2>2. /\ k[n + 1] = IF s[n + 1] \in S THEN Append(k[n], s[n + 1]) ELSE k[n]
        /\ l[n + 1] = IF s[n + 1] \in T THEN Append(l[n], s[n + 1]) ELSE l[n]
    BY <1>0, <2>1
  <2>3. k[n] \in Seq(A) /\ l[n] \in Seq(A) /\ Len(k[n]) <= Len(l[n])
    BY <1>2, <1>a, <2>1
  <2>4. /\ Len(k[n]) \in Nat /\ Len(l[n]) \in Nat
        /\ Len(k[n + 1]) = IF s[n + 1] \in S THEN Len(k[n]) + 1 ELSE Len(k[n])
        /\ Len(l[n + 1]) = IF s[n + 1] \in T THEN Len(l[n]) + 1 ELSE Len(l[n])
    BY <2>1, <2>2, <2>3
  <2> QED
    BY <2>3, <2>4
<1> HIDE DEF H
<1>3. \A n \in Nat : n \in H
  BY <1>1, <1>2, Induction
<1>4. \A n \in 0..Len(s) : n \in Nat /\ n <= Len(s)
  OBVIOUS
<1>5. \A n \in 0..Len(s) : Len(k[n]) <= Len(l[n])
  BY <1>3, <1>4 DEF H
<1> QED
  BY <1>5 DEF k, l

(* What the loop leaves: a filter keeps exactly the elements that are in S *)
(* and never makes the list longer,                                        *)
LEMMA KeepElements ==
  ASSUME NEW A, NEW s \in Seq(A), NEW S
  PROVE /\ Keep(s, S) \in Seq(A)
        /\ Len(Keep(s, S)) <= Len(s)
        /\ \A i \in 1..Len(Keep(s, S)) :
             Keep(s, S)[i] \in S /\ \E j \in 1..Len(s) : s[j] = Keep(s, S)[i]
        /\ \A j \in 1..Len(s) : s[j] \in S => \E i \in 1..Len(Keep(s, S)) : Keep(s, S)[i] = s[j]
<1>1. Len(s) \in 0..Len(s)
  OBVIOUS
<1> QED
  BY <1>1, KeptElements DEF Keep

(* puts nothing twice, *)
LEMMA KeepOnce ==
  ASSUME NEW A, NEW s \in Seq(A), NEW S, \A i, j \in 1..Len(s) : s[i] = s[j] => i = j
  PROVE \A i, j \in 1..Len(Keep(s, S)) : Keep(s, S)[i] = Keep(s, S)[j] => i = j
<1>1. Len(s) \in 0..Len(s)
  OBVIOUS
<1> QED
  BY <1>1, KeptOnce DEF Keep

(* and keeps the fewer the fewer are allowed. *)
LEMMA KeepFewer ==
  ASSUME NEW A, NEW s \in Seq(A), NEW S, NEW T, S \subseteq T
  PROVE Len(Keep(s, S)) <= Len(Keep(s, T))
<1>1. Len(s) \in 0..Len(s)
  OBVIOUS
<1> QED
  BY <1>1, KeptFewer DEF Keep
=============================================================================
