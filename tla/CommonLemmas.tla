----------------------------- MODULE CommonLemmas -----------------------------
(***************************************************************************)
(* What several proofs need: whole numbers of blocks, to which sender,     *)
(* receiver and extraction round up; induction and recursion over numbers; *)
(* sequences of which some elements are left out.                          *)
(***************************************************************************)
EXTENDS Integers, Filtering, SequencesExt, SequenceTheorems, WellFoundedInduction, TLAPS

-----------------------------------------------------------------------------
(* Division *)

LEMMA DivMod ==
  ASSUME NEW n \in Int, NEW b \in Nat \ {0}
  PROVE  /\ n \div b \in Int /\ n % b \in Int /\ n % b >= 0 /\ n % b < b
         /\ n = b * (n \div b) + (n % b)
<1>1. b \in Nat /\ b > 0
  OBVIOUS
<1>2. n = (n \div b) * b + (n % b)
  BY <1>1, Z3
<1>3. n \div b \in Int /\ n % b \in 0 .. b - 1
  OBVIOUS
<1>4. (n \div b) * b = b * (n \div b)
  BY <1>1, <1>3
<1>. QED
  BY <1>2, <1>3, <1>4

LEMMA ModSmall ==
  ASSUME NEW n \in Nat, NEW b \in Nat \ {0}, n < b
  PROVE  n % b = n
  OBVIOUS

LEMMA QuotientUnique ==
  ASSUME NEW b \in Nat \ {0}, NEW q \in Int, NEW r \in Int, NEW k \in Int, NEW e \in Int,
         b * q + r = b * k + e, 0 <= r, r < b, 0 <= e, e < b
  PROVE  q = k /\ r = e
<1>1. b * (q - k) = e - r
  OBVIOUS
<1>2. CASE q - k >= 1
  <2>1. b * (q - k) >= b
    BY <1>2
  <2>. QED
    BY <1>1, <2>1
<1>3. CASE q - k <= -1
  <2>1. b * (q - k) <= -b
    BY <1>3
  <2>. QED
    BY <1>1, <2>1
<1>4. CASE q = k
  BY <1>4
<1>. QED
  BY <1>2, <1>3, <1>4

LEMMA Multiple ==
  ASSUME NEW n \in Nat, NEW b \in Nat \ {0}
  PROVE  n % b = 0 <=> \E k \in Int : n = b * k
<1>1. /\ n \div b \in Int /\ n % b \in Int /\ n % b >= 0 /\ n % b < b
      /\ n = b * (n \div b) + (n % b)
  BY DivMod
<1>. DEFINE q == n \div b
            r == n % b
<1>2. q \in Int /\ r \in Int /\ r >= 0 /\ r < b /\ n = b * q + r
  BY <1>1
<1>. HIDE DEF q, r
<1>3. r = 0 => n = b * q
  BY <1>2
<1>4. ASSUME NEW k \in Int, n = b * k
      PROVE  r = 0
  <2>1. b * q + r = b * k + 0
    BY <1>2, <1>4
  <2>. QED
    BY <1>2, <2>1, QuotientUnique
<1>5. r = 0 <=> \E k \in Int : n = b * k
  BY <1>2, <1>3, <1>4
<1>. QED
  BY <1>5 DEF r

LEMMA ModTail ==
  ASSUME NEW b \in Nat \ {0}, NEW d \in Nat, NEW p \in Nat,
         p % b = 0, p <= d, d - p < b
  PROVE  d % b = d - p
<1>1. PICK k \in Int : p = b * k
  BY Multiple
<1>. DEFINE q == d \div b
            r == d % b
<1>2. q \in Int /\ r \in Int /\ r >= 0 /\ r < b /\ d = b * q + r
  BY DivMod
<1>. HIDE DEF q, r
<1>. DEFINE e == d - p
<1>3. e \in Int /\ 0 <= e /\ e < b /\ b * q + r = b * k + e
  BY <1>1, <1>2
<1>. HIDE DEF e
<1>4. r = e
  BY <1>2, <1>3, QuotientUnique
<1>. QED
  BY <1>4 DEF r, e

LEMMA ModStep ==
  ASSUME NEW b \in Nat \ {0}, NEW p \in Nat, p % b = 0
  PROVE  (p + b) % b = 0 /\ (p >= b => (p - b) % b = 0) /\ (p > 0 => p >= b)
<1>1. PICK k \in Int : p = b * k
  BY Multiple
<1>2. p + b = b * (k + 1) /\ p - b = b * (k - 1)
  BY <1>1
<1>3. (p + b) % b = 0
  <2>1. p + b \in Nat /\ k + 1 \in Int
    OBVIOUS
  <2>. QED
    BY <1>2, <2>1, Multiple
<1>4. p >= b => (p - b) % b = 0
  <2>1. p >= b => p - b \in Nat
    OBVIOUS
  <2>2. k - 1 \in Int
    OBVIOUS
  <2>. QED
    BY <1>2, <2>1, <2>2, Multiple
<1>5. p > 0 => p >= b
  <2>1. p < b => p % b = p
    BY ModSmall
  <2>. QED
    BY <2>1
<1>. QED
  BY <1>3, <1>4, <1>5

-----------------------------------------------------------------------------
(* Induction and recursion *)

(* Every set of numbers that is not empty has a smallest one, so that what *)
(* holds of n if it holds of all before n holds of every n.                *)
LEMMA Smallest ==
  ASSUME NEW T, T \subseteq Nat, T # {}
  PROVE  \E n \in T : \A m \in T : n <= m
<1>. DEFINE R == {ss \in Nat \X Nat : ss[1] < ss[2]}
<1>1. IsWellFoundedOn(R, Nat)
  BY NatLessThanWellFounded, Zenon DEF OpToRel
<1>2. \E n \in T : \A m \in T : <<m, n>> \notin R
  <2>. HIDE DEF R
  <2>. QED
    BY <1>1, WFMin
<1>3. \A m, n \in Nat : <<m, n>> \notin R => n <= m
  OBVIOUS
<1>. QED
  BY <1>2, <1>3

(* A set of numbers that has 0, and with every number the next one.        *)
LEMMA Reached ==
  ASSUME NEW T, 0 \in T, \A n \in Nat : n \in T => n + 1 \in T
  PROVE  Nat \subseteq T
<1>. SUFFICES ASSUME Nat \ T # {} PROVE FALSE
  OBVIOUS
<1>1. PICK n \in Nat \ T : \A m \in Nat \ T : n <= m
  BY Smallest
<1>2. n - 1 \in Nat /\ n - 1 \in T
  <2>1. n # 0
    OBVIOUS
  <2>2. n - 1 \in Nat /\ ~(n <= n - 1)
    BY <2>1
  <2>. QED
    BY <1>1, <2>2
<1>. QED
  BY <1>2

(* g is defined by recursion over the numbers up to n. *)
Recursive(g, n, T, first, next) ==
    /\ g \in [0 .. n -> T]
    /\ g[0] = first /\ \A k \in 1 .. n : g[k] = next[<<k, g[k - 1]>>]

(* There is such a function. *)
LEMMA Recursion ==
  ASSUME NEW N \in Nat, NEW T, NEW first \in T, NEW next \in [(1 .. N) \X T -> T]
  PROVE  \E g : Recursive(g, N, T, first, next)
<1>. DEFINE Fits(g, n) == Recursive(g, n, T, first, next)
            R == {n \in Nat : n <= N => \E g : Fits(g, n)}
<1>1. 0 \in R
  <2>. DEFINE g == [k \in 0 .. 0 |-> first]
  <2>1. g \in [0 .. 0 -> T] /\ g[0] = first /\ \A k : k \notin 1 .. 0
    OBVIOUS
  <2>. HIDE DEF g
  <2>2. Fits(g, 0)
    BY <2>1 DEF Recursive
  <2>. QED
    BY <2>2
<1>2. ASSUME NEW n \in Nat, n \in R PROVE n + 1 \in R
  <2>. SUFFICES ASSUME n + 1 <= N PROVE \E g : Fits(g, n + 1)
    OBVIOUS
  <2>1. PICK g : Fits(g, n)
    BY <1>2
  <2>2. g \in [0 .. n -> T] /\ g[0] = first /\ \A k \in 1 .. n : g[k] = next[<<k, g[k - 1]>>]
    BY <2>1 DEF Recursive
  <2>. DEFINE h == [k \in 0 .. n + 1 |-> IF k = n + 1 THEN next[<<n + 1, g[n]>>] ELSE g[k]]
  <2>3. n + 1 \in 1 .. N /\ n \in 0 .. n /\ 0 \in 0 .. n + 1 /\ 0 # n + 1 /\ n # n + 1
        /\ (n + 1) - 1 = n /\ n \in 0 .. n + 1 /\ n + 1 \in 0 .. n + 1
    OBVIOUS
  <2>4. next[<<n + 1, g[n]>>] \in T
    BY <2>2, <2>3
  <2>5. h \in [0 .. n + 1 -> T]
    <3>1. \A k \in 0 .. n + 1 : k # n + 1 => k \in 0 .. n
      OBVIOUS
    <3>. QED
      BY <2>2, <2>4, <3>1
  <2>6. h[0] = first
    BY <2>2, <2>3
  <2>7. ASSUME NEW k \in 1 .. n + 1 PROVE h[k] = next[<<k, h[k - 1]>>]
    <3>1. CASE k = n + 1
      BY <2>3, <3>1
    <3>2. CASE k # n + 1
      <4>1. k \in 1 .. n /\ k \in 0 .. n + 1 /\ k - 1 \in 0 .. n + 1 /\ k - 1 # n + 1
        BY <3>2
      <4>. QED
        BY <2>2, <3>2, <4>1
    <3>. QED
      BY <3>1, <3>2
  <2>. HIDE DEF h
  <2>8. Fits(h, n + 1)
    BY <2>5, <2>6, <2>7 DEF Recursive
  <2>. QED
    BY <2>8
<1>3. N \in R
  <2>. HIDE DEF R
  <2>. QED
    BY <1>1, <1>2, Reached
<1>4. \E g : Fits(g, N)
  <2>1. N <= N
    OBVIOUS
  <2>. QED
    BY <1>3, <2>1
<1>. QED
  BY <1>4

-----------------------------------------------------------------------------
(* Sequences *)

(* The beginnings of a sequence, each without the elements left out.       *)
LeavesOut(g, s, S, T) ==
    /\ g \in [0 .. Len(s) -> Seq(T)]
    /\ Without(s, S) = g[Len(s)] /\ g[0] = <<>>
    /\ \A n \in 1 .. Len(s) :
          g[n] = IF s[n] \in S THEN g[n - 1] ELSE Append(g[n - 1], s[n])

LEMMA LeftOver ==
  ASSUME NEW T, NEW s \in Seq(T), NEW S
  PROVE  \E g : LeavesOut(g, s, S, T)
<1>. DEFINE D == 0 .. Len(s)
            next == [p \in (1 .. Len(s)) \X Seq(T) |->
                        IF s[p[1]] \in S THEN p[2] ELSE Append(p[2], s[p[1]])]
            Defines(g) == g = [n \in D |-> IF n = 0 THEN <<>> ELSE IF s[n] \in S THEN g[n - 1]
                                           ELSE Append(g[n - 1], s[n])]
<1>1. Len(s) \in Nat /\ <<>> \in Seq(T) /\ \A n \in 1 .. Len(s) : s[n] \in T
  OBVIOUS
<1>2. next \in [(1 .. Len(s)) \X Seq(T) -> Seq(T)]
  <2>1. ASSUME NEW n \in 1 .. Len(s), NEW r \in Seq(T) PROVE Append(r, s[n]) \in Seq(T)
    BY <1>1, AppendProperties
  <2>2. ASSUME NEW p \in (1 .. Len(s)) \X Seq(T)
        PROVE  (IF s[p[1]] \in S THEN p[2] ELSE Append(p[2], s[p[1]])) \in Seq(T)
    <3>1. p[1] \in 1 .. Len(s) /\ p[2] \in Seq(T)
      OBVIOUS
    <3>. QED
      BY <2>1, <3>1
  <2>. QED
    BY <2>2
<1>. HIDE DEF next
<1>3. PICK g \in [D -> Seq(T)] : g[0] = <<>> /\ \A n \in 1 .. Len(s) : g[n] = next[<<n, g[n - 1]>>]
  <2>1. PICK g : Recursive(g, Len(s), Seq(T), <<>>, next)
    BY <1>1, <1>2, Recursion
  <2>. QED
    BY <2>1 DEF Recursive
<1>4. ASSUME NEW n \in 1 .. Len(s)
      PROVE  g[n] = IF s[n] \in S THEN g[n - 1] ELSE Append(g[n - 1], s[n])
  <2>1. g[n - 1] \in Seq(T)
    BY <1>1, <1>3
  <2>2. <<n, g[n - 1]>> \in (1 .. Len(s)) \X Seq(T)
    BY <2>1
  <2>. QED
    BY <1>3, <2>2 DEF next
<1>5. Defines(g)
  <2>1. \A n \in D : n # 0 => n \in 1 .. Len(s)
    BY <1>1
  <2>. QED
    BY <1>3, <1>4, <2>1
<1>. DEFINE c == CHOOSE x : Defines(x)
<1>6. Defines(c)
  BY <1>5
<1>7. Without(s, S) = c[Len(s)]
  BY DEF Without
<1>. HIDE DEF c
<1>8. \A n \in D : c[n] = g[n]
  <2>. DEFINE R == {n \in Nat : n \in D => c[n] = g[n]}
  <2>1. 0 \in R
    BY <1>1, <1>3, <1>6
  <2>2. ASSUME NEW n \in Nat, n \in R PROVE n + 1 \in R
    <3>. SUFFICES ASSUME n + 1 \in D PROVE c[n + 1] = g[n + 1]
      OBVIOUS
    <3>1. n \in D /\ n + 1 \in 1 .. Len(s) /\ n + 1 # 0 /\ (n + 1) - 1 = n
      BY <1>1
    <3>2. c[n] = g[n]
      BY <2>2, <3>1
    <3>3. c[n + 1] = IF s[n + 1] \in S THEN c[n] ELSE Append(c[n], s[n + 1])
      BY <1>6, <3>1
    <3>. QED
      BY <1>4, <3>1, <3>2, <3>3
  <2>. HIDE DEF R
  <2>3. Nat \subseteq R
    BY <2>1, <2>2, Reached
  <2>. QED
    BY <1>1, <2>3 DEF R
<1>9. Len(s) \in D
  BY <1>1
<1>. QED
  BY <1>3, <1>4, <1>7, <1>8, <1>9 DEF LeavesOut

LEMMA AddedToSet ==
  ASSUME NEW T, NEW s \in Seq(T), NEW e \in T
  PROVE  ToSet(Append(s, e)) = ToSet(s) \cup {e}
<1>. DEFINE t == Append(s, e)
<1>1. /\ Len(s) \in Nat /\ DOMAIN s = 1 .. Len(s) /\ DOMAIN t = 1 .. Len(s) + 1
      /\ \A k \in 1 .. Len(s) : t[k] = s[k]
      /\ t[Len(s) + 1] = e
  OBVIOUS
<1>. HIDE DEF t
<1>2. 1 .. Len(s) + 1 = (1 .. Len(s)) \cup {Len(s) + 1}
  BY <1>1
<1>3. ToSet(t) = ToSet(s) \cup {e}
  BY <1>1, <1>2 DEF ToSet
<1>. QED
  BY <1>3 DEF t

(* What is left of a sequence: its other elements, and the sequence itself *)
(* if there is nothing to be left out.                                     *)
LEMMA WhatIsLeft ==
  ASSUME NEW T, NEW s \in Seq(T), NEW S
  PROVE  /\ Without(s, S) \in Seq(T)
         /\ ToSet(Without(s, S)) = ToSet(s) \ S
         /\ (\A k \in 1 .. Len(s) : s[k] \notin S) => Without(s, S) = s
<1>1. PICK g \in [0 .. Len(s) -> Seq(T)] :
            /\ Without(s, S) = g[Len(s)] /\ g[0] = <<>>
            /\ \A n \in 1 .. Len(s) : g[n] = IF s[n] \in S THEN g[n - 1]
                                             ELSE Append(g[n - 1], s[n])
  <2>1. PICK g : LeavesOut(g, s, S, T)
    BY LeftOver
  <2>. QED
    BY <2>1 DEF LeavesOut
<1>2. Len(s) \in Nat /\ Len(s) \in 0 .. Len(s) /\ DOMAIN s = 1 .. Len(s)
      /\ \A n \in 1 .. Len(s) : s[n] \in T
  OBVIOUS
<1>. DEFINE Left(n) == {s[k] : k \in 1 .. n} \ S
            R == {n \in Nat : n <= Len(s) => ToSet(g[n]) = Left(n)}
            All == \A k \in 1 .. Len(s) : s[k] \notin S
            Q == {n \in Nat : n <= Len(s) => g[n] = [k \in 1 .. n |-> s[k]]}
<1>. HIDE DEF Left
<1>3. 0 \in R /\ 0 \in Q
  <2>1. ToSet(<<>>) = {} /\ \A k : k \notin 1 .. 0
    BY DEF ToSet
  <2>2. Left(0) = {}
    BY <2>1 DEF Left
  <2>3. <<>> = [k \in 1 .. 0 |-> s[k]]
    BY <2>1
  <2>. QED
    BY <1>1, <2>1, <2>2, <2>3
<1>4. ASSUME NEW n \in Nat, n + 1 <= Len(s)
      PROVE  /\ n + 1 \in 1 .. Len(s) /\ n \in 0 .. Len(s) /\ n <= Len(s) /\ (n + 1) - 1 = n
             /\ g[n] \in Seq(T) /\ s[n + 1] \in T
             /\ g[n + 1] = IF s[n + 1] \in S THEN g[n] ELSE Append(g[n], s[n + 1])
  <2>1. n + 1 \in 1 .. Len(s) /\ n \in 0 .. Len(s) /\ n <= Len(s) /\ (n + 1) - 1 = n
    BY <1>2, <1>4
  <2>. QED
    BY <1>1, <1>2, <2>1
<1>5. ASSUME NEW n \in Nat, n \in R PROVE n + 1 \in R
  <2>. SUFFICES ASSUME n + 1 <= Len(s) PROVE ToSet(g[n + 1]) = Left(n + 1)
    OBVIOUS
  <2>1. ToSet(g[n]) = Left(n)
    BY <1>4, <1>5
  <2>2. 1 .. n + 1 = (1 .. n) \cup {n + 1}
    OBVIOUS
  <2>3. Left(n + 1) = Left(n) \cup ({s[n + 1]} \ S)
    BY <2>2 DEF Left
  <2>4. ToSet(Append(g[n], s[n + 1])) = ToSet(g[n]) \cup {s[n + 1]}
    BY <1>4, AddedToSet
  <2>5. g[n + 1] = IF s[n + 1] \in S THEN g[n] ELSE Append(g[n], s[n + 1])
    BY <1>4
  <2>6. CASE s[n + 1] \in S
    BY <2>1, <2>3, <2>5, <2>6
  <2>7. CASE s[n + 1] \notin S
    BY <2>1, <2>3, <2>4, <2>5, <2>7
  <2>. QED
    BY <2>6, <2>7
<1>6. ASSUME All, NEW n \in Nat, n \in Q PROVE n + 1 \in Q
  <2>. SUFFICES ASSUME n + 1 <= Len(s) PROVE g[n + 1] = [k \in 1 .. n + 1 |-> s[k]]
    OBVIOUS
  <2>. DEFINE f == [k \in 1 .. n |-> s[k]]
  <2>1. g[n] = f
    BY <1>4, <1>6
  <2>2. f \in Seq(T) /\ Len(f) = n
    BY <1>2, <1>4
  <2>3. g[n + 1] = Append(f, s[n + 1])
    BY <1>4, <1>6, <2>1
  <2>4. Append(f, s[n + 1]) = [k \in 1 .. n + 1 |-> IF k = n + 1 THEN s[n + 1] ELSE f[k]]
    <3>. HIDE DEF f
    <3>. QED
      BY <1>4, <2>2
  <2>. QED
    BY <2>3, <2>4
<1>. HIDE DEF R, Q, All
<1>7. Nat \subseteq R
  BY <1>3, <1>5, Reached
<1>8. All => Nat \subseteq Q
  BY <1>3, <1>6, Reached
<1>9. ToSet(Without(s, S)) = ToSet(s) \ S
  <2>1. ToSet(s) = {s[k] : k \in 1 .. Len(s)}
    BY <1>2 DEF ToSet
  <2>. QED
    <3>1. Len(s) \in R /\ Len(s) <= Len(s)
      BY <1>2, <1>7
    <3>. QED
      BY <1>1, <2>1, <3>1 DEF R, Left
<1>10. All => Without(s, S) = s
  BY <1>1, <1>2, <1>8 DEF Q
<1>. QED
  BY <1>1, <1>2, <1>9, <1>10 DEF All

(* What is left of a beginning of a sequence *)
LEMMA LeftOfBeginning ==
  ASSUME NEW T, NEW s \in Seq(T), NEW S, NEW g, LeavesOut(g, s, S, T), NEW n \in 0 .. Len(s)
  PROVE  Without(SubSeq(s, 1, n), S) = g[n]
<1>. DEFINE t == SubSeq(s, 1, n)
<1>1. /\ t \in Seq(T) /\ Len(t) = n /\ \A k \in 1 .. n : t[k] = s[k]
      /\ n \in Nat /\ n <= Len(s) /\ Len(s) \in Nat
  OBVIOUS
<1>. HIDE DEF t
<1>2. PICK h : LeavesOut(h, t, S, T)
  BY <1>1, LeftOver
<1>. DEFINE R == {k \in Nat : k <= n => g[k] = h[k]}
<1>3. 0 \in R
  BY <1>2 DEF LeavesOut
<1>4. ASSUME NEW k \in Nat, k \in R PROVE k + 1 \in R
  <2>. SUFFICES ASSUME k + 1 <= n PROVE g[k + 1] = h[k + 1]
    OBVIOUS
  <2>1. k + 1 \in 1 .. Len(s) /\ k + 1 \in 1 .. Len(t) /\ k + 1 \in 1 .. n /\ (k + 1) - 1 = k
    BY <1>1
  <2>2. g[k] = h[k] /\ t[k + 1] = s[k + 1]
    BY <1>1, <1>4, <2>1
  <2>3. g[k + 1] = IF s[k + 1] \in S THEN g[k] ELSE Append(g[k], s[k + 1])
    BY <2>1 DEF LeavesOut
  <2>4. h[k + 1] = IF t[k + 1] \in S THEN h[k] ELSE Append(h[k], t[k + 1])
    BY <1>2, <2>1 DEF LeavesOut
  <2>. QED
    BY <2>2, <2>3, <2>4
<1>. HIDE DEF R
<1>5. Nat \subseteq R
  BY <1>3, <1>4, Reached
<1>6. g[n] = h[n]
  BY <1>1, <1>5 DEF R
<1>7. Without(t, S) = h[n]
  BY <1>1, <1>2 DEF LeavesOut
<1>. QED
  BY <1>6, <1>7 DEF t

(* One element more, and all of them. *)
LEMMA OneMoreLeft ==
  ASSUME NEW T, NEW s \in Seq(T), NEW S, NEW n \in 1 .. Len(s)
  PROVE  /\ Without(SubSeq(s, 1, n - 1), S) \in Seq(T)
         /\ Without(SubSeq(s, 1, n), S) =
               IF s[n] \in S THEN Without(SubSeq(s, 1, n - 1), S)
               ELSE Append(Without(SubSeq(s, 1, n - 1), S), s[n])
<1>1. PICK g : LeavesOut(g, s, S, T)
  BY LeftOver
<1>2. n \in 0 .. Len(s) /\ n - 1 \in 0 .. Len(s)
  OBVIOUS
<1>3. Without(SubSeq(s, 1, n), S) = g[n] /\ Without(SubSeq(s, 1, n - 1), S) = g[n - 1]
  BY <1>1, <1>2, LeftOfBeginning
<1>. QED
  BY <1>1, <1>2, <1>3 DEF LeavesOut

(* What is left of a beginning is a beginning of what is left. *)
LEMMA LeftBegins ==
  ASSUME NEW T, NEW s \in Seq(T), NEW S, NEW n \in 0 .. Len(s)
  PROVE  /\ Without(SubSeq(s, 1, n), S) \in Seq(T)
         /\ Len(Without(SubSeq(s, 1, n), S)) <= Len(Without(s, S))
         /\ \A i \in 1 .. Len(Without(SubSeq(s, 1, n), S)) :
               Without(s, S)[i] = Without(SubSeq(s, 1, n), S)[i]
<1>1. PICK g : LeavesOut(g, s, S, T)
  BY LeftOver
<1>2. /\ Without(s, S) = g[Len(s)] /\ Without(SubSeq(s, 1, n), S) = g[n]
      /\ Len(s) \in Nat /\ n \in Nat /\ n <= Len(s) /\ g[n] \in Seq(T)
  <2>1. Without(SubSeq(s, 1, n), S) = g[n]
    BY <1>1, LeftOfBeginning
  <2>2. Len(s) \in Nat /\ n \in Nat /\ n <= Len(s)
    OBVIOUS
  <2>3. Without(s, S) = g[Len(s)] /\ g[n] \in Seq(T)
    BY <1>1 DEF LeavesOut
  <2>. QED
    BY <2>1, <2>2, <2>3
<1>. DEFINE Begins(m) == Len(g[n]) <= Len(g[m]) /\ \A i \in 1 .. Len(g[n]) : g[m][i] = g[n][i]
            R == {m \in Nat : n <= m /\ m <= Len(s) => Begins(m)}
<1>3. 0 \in R
  BY <1>2
<1>4. ASSUME NEW m \in Nat, m \in R PROVE m + 1 \in R
  <2>. SUFFICES ASSUME n <= m + 1, m + 1 <= Len(s) PROVE Begins(m + 1)
    OBVIOUS
  <2>1. CASE n = m + 1
    BY <1>2, <2>1
  <2>2. CASE n <= m
    <3>1. m + 1 \in 1 .. Len(s) /\ m \in 0 .. Len(s) /\ m <= Len(s) /\ (m + 1) - 1 = m
      BY <1>2
    <3>2. Begins(m)
      BY <1>4, <2>2, <3>1
    <3>3. /\ g[m] \in Seq(T) /\ s[m + 1] \in T
          /\ g[m + 1] = IF s[m + 1] \in S THEN g[m] ELSE Append(g[m], s[m + 1])
      BY <1>1, <3>1 DEF LeavesOut
    <3>4. CASE g[m + 1] = g[m]
      BY <3>2, <3>4
    <3>5. CASE g[m + 1] = Append(g[m], s[m + 1])
      <4>1. /\ Len(g[m + 1]) = Len(g[m]) + 1
            /\ \A i \in 1 .. Len(g[m]) : g[m + 1][i] = g[m][i]
        BY <3>3, <3>5
      <4>2. 1 .. Len(g[n]) \subseteq 1 .. Len(g[m]) /\ Len(g[m]) \in Nat /\ Len(g[n]) \in Nat
        BY <1>2, <3>2, <3>3
      <4>. QED
        BY <3>2, <4>1, <4>2
    <3>. QED
      BY <3>3, <3>4, <3>5
  <2>. QED
    BY <1>2, <2>1, <2>2
<1>. HIDE DEF R
<1>5. Nat \subseteq R
  BY <1>3, <1>4, Reached
<1>6. Begins(Len(s))
  BY <1>2, <1>5 DEF R
<1>. QED
  BY <1>2, <1>6

(* A sequence without one of its elements. *)
LEMMA Removed ==
  ASSUME NEW T, NEW s \in Seq(T), NEW i \in 1 .. Len(s)
  PROVE  RemoveAt(s, i) \in Seq(T) /\ Len(RemoveAt(s, i)) = Len(s) - 1
<1>. DEFINE a == SubSeq(s, 1, i - 1)
            b == SubSeq(s, i + 1, Len(s))
<1>1. Len(s) \in Nat /\ i \in Nat /\ i > 0 /\ i <= Len(s)
  OBVIOUS
<1>2. a \in Seq(T) /\ Len(a) = i - 1
  BY <1>1
<1>3. b \in Seq(T) /\ Len(b) = Len(s) - i
  BY <1>1
<1>. HIDE DEF a, b
<1>4. a \o b \in Seq(T) /\ Len(a \o b) = Len(a) + Len(b)
  BY <1>2, <1>3
<1>. QED
  <2>1. RemoveAt(s, i) = a \o b
    BY DEF RemoveAt, a, b
  <2>2. Len(RemoveAt(s, i)) = (i - 1) + (Len(s) - i) /\ (i - 1) + (Len(s) - i) = Len(s) - 1
    BY <1>1, <1>2, <1>3, <1>4, <2>1
  <2>. QED
    BY <1>4, <2>1, <2>2

-----------------------------------------------------------------------------
(* What is in a sequence, whatever that is *)

IsSequence(s) == s \in Seq(ToSet(s))

LEMMA SequenceOf ==
  ASSUME NEW T, NEW s \in Seq(T)
  PROVE  IsSequence(s) /\ ToSet(s) \subseteq T
<1>1. Len(s) \in Nat /\ DOMAIN s = 1 .. Len(s) /\ \A k \in 1 .. Len(s) : s[k] \in T
  OBVIOUS
<1>. QED
  BY <1>1 DEF IsSequence, ToSet

LEMMA InSequence ==
  ASSUME NEW s, IsSequence(s)
  PROVE  /\ Len(s) \in Nat /\ DOMAIN s = 1 .. Len(s)
         /\ \A k \in 1 .. Len(s) : s[k] \in ToSet(s)
         /\ \A e \in ToSet(s) : \E k \in 1 .. Len(s) : e = s[k]
         /\ s = <<>> <=> ToSet(s) = {}
<1>1. Len(s) \in Nat /\ DOMAIN s = 1 .. Len(s) /\ (s = <<>> <=> Len(s) = 0)
  BY DEF IsSequence
<1>2. ToSet(s) = {s[k] : k \in 1 .. Len(s)}
  BY <1>1 DEF ToSet
<1>3. Len(s) # 0 => 1 \in 1 .. Len(s)
  BY <1>1
<1>4. Len(s) = 0 => \A k : k \notin 1 .. Len(s)
  BY <1>1
<1>. QED
  BY <1>1, <1>2, <1>3, <1>4

LEMMA EmptySequence == IsSequence(<<>>) /\ ToSet(<<>>) = {}
  BY DEF IsSequence, ToSet

LEMMA OneInSequence == ASSUME NEW e PROVE IsSequence(<<e>>) /\ ToSet(<<e>>) = {e}
<1>1. ToSet(<<e>>) = {e}
  BY DEF ToSet
<1>. QED
  BY <1>1 DEF IsSequence

LEMMA InAppended ==
  ASSUME NEW s, IsSequence(s), NEW e
  PROVE  IsSequence(Append(s, e)) /\ ToSet(Append(s, e)) = ToSet(s) \cup {e}
<1>. DEFINE T == ToSet(s) \cup {e}
<1>1. s \in Seq(T) /\ e \in T
  BY DEF IsSequence
<1>. HIDE DEF T
<1>2. ToSet(Append(s, e)) = ToSet(s) \cup {e} /\ Append(s, e) \in Seq(T)
  BY <1>1, AddedToSet, AppendProperties
<1>. QED
  BY <1>2 DEF IsSequence, T

LEMMA InConcatenated ==
  ASSUME NEW s, IsSequence(s), NEW t, IsSequence(t)
  PROVE  IsSequence(s \o t) /\ ToSet(s \o t) = ToSet(s) \cup ToSet(t)
<1>. DEFINE T == ToSet(s) \cup ToSet(t)
            n == Len(s)
            m == Len(t)
<1>1. s \in Seq(T) /\ t \in Seq(T)
  BY DEF IsSequence
<1>. HIDE DEF T
<1>2. /\ s \o t \in Seq(T) /\ n \in Nat /\ m \in Nat /\ DOMAIN (s \o t) = 1 .. n + m
      /\ \A k \in 1 .. n + m : (s \o t)[k] = IF k <= n THEN s[k] ELSE t[k - n]
  BY <1>1, ConcatProperties
<1>. HIDE DEF n, m
<1>3. ToSet(s \o t) \subseteq T
  BY <1>2, SequenceOf
<1>4. ASSUME NEW e \in ToSet(s) PROVE e \in ToSet(s \o t)
  <2>1. PICK k \in 1 .. n : e = s[k]
    BY InSequence DEF n
  <2>2. k \in 1 .. n + m /\ k <= n
    BY <1>2
  <2>3. (s \o t)[k] = e
    BY <1>2, <2>1, <2>2
  <2>. QED
    BY <1>2, <2>2, <2>3 DEF ToSet
<1>5. ASSUME NEW e \in ToSet(t) PROVE e \in ToSet(s \o t)
  <2>1. PICK k \in 1 .. m : e = t[k]
    BY InSequence DEF m
  <2>2. n + k \in 1 .. n + m /\ ~(n + k <= n) /\ (n + k) - n = k
    BY <1>2
  <2>3. (s \o t)[n + k] = e
    BY <1>2, <2>1, <2>2
  <2>. QED
    BY <1>2, <2>2, <2>3 DEF ToSet
<1>6. ToSet(s \o t) = ToSet(s) \cup ToSet(t)
  BY <1>3, <1>4, <1>5 DEF T
<1>. QED
  BY <1>2, <1>6 DEF IsSequence, T

LEMMA InWhatIsLeft ==
  ASSUME NEW s, IsSequence(s), NEW S
  PROVE  IsSequence(Without(s, S)) /\ ToSet(Without(s, S)) = ToSet(s) \ S
<1>1. Without(s, S) \in Seq(ToSet(s)) /\ ToSet(Without(s, S)) = ToSet(s) \ S
  BY WhatIsLeft DEF IsSequence
<1>. QED
  BY <1>1, SequenceOf

(* What is left of a sequence that has each of its elements once has them  *)
(* once.                                                                   *)
LEMMA AppendedOnce ==
  ASSUME NEW T, NEW s \in Seq(T), IsInjective(s), NEW e \in T, e \notin ToSet(s)
  PROVE  IsInjective(Append(s, e))
<1>. DEFINE t == Append(s, e)
<1>1. /\ Len(s) \in Nat /\ DOMAIN s = 1 .. Len(s) /\ DOMAIN t = 1 .. Len(s) + 1
      /\ \A k \in 1 .. Len(s) : t[k] = s[k]
      /\ t[Len(s) + 1] = e
  OBVIOUS
<1>. HIDE DEF t
<1>2. \A k \in 1 .. Len(s) + 1 : k = Len(s) + 1 \/ (k \in 1 .. Len(s) /\ k # Len(s) + 1)
  BY <1>1
<1>3. \A k \in 1 .. Len(s) : t[k] # e
  BY <1>1 DEF ToSet
<1>4. IsInjective(t)
  BY <1>1, <1>2, <1>3 DEF IsInjective
<1>. QED
  BY <1>4 DEF t

LEMMA LeftOnce ==
  ASSUME NEW T, NEW s \in Seq(T), IsInjective(s), NEW S
  PROVE  IsInjective(Without(s, S))
<1>1. PICK g : LeavesOut(g, s, S, T)
  BY LeftOver
<1>2. Len(s) \in Nat /\ DOMAIN s = 1 .. Len(s) /\ \A n \in 1 .. Len(s) : s[n] \in T
  OBVIOUS
<1>. DEFINE Once(n) == IsInjective(g[n]) /\ ToSet(g[n]) \subseteq {s[k] : k \in 1 .. n}
            R == {n \in Nat : n <= Len(s) => Once(n)}
<1>3. 0 \in R
  <2>1. g[0] = <<>>
    BY <1>1 DEF LeavesOut
  <2>2. IsInjective(<<>>) /\ ToSet(<<>>) = {}
    BY DEF IsInjective, ToSet
  <2>. QED
    BY <2>1, <2>2
<1>4. ASSUME NEW n \in Nat, n \in R PROVE n + 1 \in R
  <2>. SUFFICES ASSUME n + 1 <= Len(s) PROVE Once(n + 1)
    OBVIOUS
  <2>1. n <= Len(s) /\ n + 1 \in 1 .. Len(s) /\ n \in 0 .. Len(s) /\ (n + 1) - 1 = n
        /\ 1 .. n \subseteq 1 .. n + 1 /\ n + 1 \in 1 .. n + 1
    BY <1>2
  <2>2. Once(n) /\ g[n] \in Seq(T) /\ s[n + 1] \in T
    BY <1>1, <1>2, <1>4, <2>1 DEF LeavesOut
  <2>3. g[n + 1] = IF s[n + 1] \in S THEN g[n] ELSE Append(g[n], s[n + 1])
    BY <1>1, <2>1 DEF LeavesOut
  <2>4. CASE g[n + 1] = g[n]
    BY <2>1, <2>2, <2>4
  <2>5. CASE g[n + 1] = Append(g[n], s[n + 1])
    <3>1. \A k \in 1 .. n : k \in 1 .. Len(s) /\ k # n + 1
      BY <2>1
    <3>2. s[n + 1] \notin {s[k] : k \in 1 .. n}
      BY <1>2, <2>1, <3>1 DEF IsInjective
    <3>3. s[n + 1] \notin ToSet(g[n])
      BY <2>2, <3>2
    <3>4. IsInjective(Append(g[n], s[n + 1]))
      BY <2>2, <3>3, AppendedOnce
    <3>5. ToSet(Append(g[n], s[n + 1])) = ToSet(g[n]) \cup {s[n + 1]}
      BY <2>2, AddedToSet
    <3>6. ToSet(Append(g[n], s[n + 1])) \subseteq {s[k] : k \in 1 .. n + 1}
      BY <2>1, <2>2, <3>5
    <3>. QED
      BY <2>5, <3>4, <3>6
  <2>. QED
    BY <2>3, <2>4, <2>5
<1>. HIDE DEF R
<1>5. Nat \subseteq R
  BY <1>3, <1>4, Reached
<1>6. Once(Len(s))
  BY <1>2, <1>5 DEF R
<1>. QED
  BY <1>1, <1>6 DEF LeavesOut

(* What a mapping makes of the elements of a sequence. *)
LEMMA Mapped ==
  ASSUME NEW s, IsSequence(s), NEW f, DOMAIN f = DOMAIN s, f = [k \in DOMAIN f |-> f[k]]
  PROVE  IsSequence(f) /\ ToSet(f) = {f[k] : k \in 1 .. Len(s)}
<1>1. Len(s) \in Nat /\ DOMAIN s = 1 .. Len(s)
  BY InSequence
<1>2. ToSet(f) = {f[k] : k \in 1 .. Len(s)}
  BY <1>1 DEF ToSet
<1>3. f \in [1 .. Len(s) -> ToSet(f)]
  BY <1>1, <1>2
<1>. QED
  BY <1>1, <1>2, <1>3 DEF IsSequence

(* A sequence without one of its elements, element by element. *)
LEMMA RemovedOne ==
  ASSUME NEW s, IsSequence(s), NEW k \in 1 .. Len(s)
  PROVE  /\ Len(RemoveAt(s, k)) = Len(s) - 1
         /\ \A i \in 1 .. Len(s) - 1 : RemoveAt(s, k)[i] = s[IF i < k THEN i ELSE i + 1]
         /\ IsSequence(RemoveAt(s, k))
         /\ ToSet(RemoveAt(s, k)) \subseteq ToSet(s)
         /\ ToSet(s) \subseteq ToSet(RemoveAt(s, k)) \cup {s[k]}
         /\ s[k] \in ToSet(s)
<1>. DEFINE T == ToSet(s)
            a == SubSeq(s, 1, k - 1)
            b == SubSeq(s, k + 1, Len(s))
            n == Len(s)
            r == RemoveAt(s, k)
<1>1. s \in Seq(T) /\ n \in Nat /\ k \in Nat /\ k > 0 /\ k <= n
  BY DEF IsSequence
<1>2. /\ a \in Seq(T) /\ Len(a) = k - 1 /\ \A i \in 1 .. k - 1 : a[i] = s[i]
      /\ b \in Seq(T) /\ Len(b) = n - k /\ \A i \in 1 .. n - k : b[i] = s[k + i]
  BY <1>1
<1>3. r = a \o b
  BY DEF RemoveAt
<1>. HIDE DEF a, b, r, T
<1>4. /\ a \o b \in Seq(T) /\ Len(a \o b) = (k - 1) + (n - k)
      /\ \A i \in 1 .. (k - 1) + (n - k) : (a \o b)[i] = IF i <= k - 1 THEN a[i] ELSE b[i - (k - 1)]
  <2>1. /\ a \o b \in Seq(T) /\ Len(a \o b) = Len(a) + Len(b)
        /\ \A i \in 1 .. Len(a) + Len(b) :
              (a \o b)[i] = IF i <= Len(a) THEN a[i] ELSE b[i - Len(a)]
    BY <1>2, ConcatProperties
  <2>. QED
    BY <1>2, <2>1
<1>. HIDE DEF n
<1>5. (k - 1) + (n - k) = n - 1
  BY <1>1
<1>6. r \in Seq(T) /\ Len(r) = n - 1
  BY <1>3, <1>4, <1>5
<1>7. ASSUME NEW i \in 1 .. n - 1 PROVE r[i] = s[IF i < k THEN i ELSE i + 1]
  <2>1. CASE i < k
    <3>1. i \in 1 .. k - 1 /\ i <= k - 1
      BY <1>1, <2>1
    <3>. QED
      BY <1>2, <1>3, <1>4, <1>5, <2>1, <3>1
  <2>2. CASE ~(i < k)
    <3>1. i - (k - 1) \in 1 .. n - k /\ ~(i <= k - 1) /\ k + (i - (k - 1)) = i + 1
      BY <1>1, <2>2
    <3>. QED
      BY <1>2, <1>3, <1>4, <1>5, <2>2, <3>1
  <2>. QED
    BY <2>1, <2>2
<1>8. IsSequence(r) /\ ToSet(r) \subseteq T
  BY <1>6, SequenceOf
<1>9. ASSUME NEW e \in T, e # s[k] PROVE e \in ToSet(r)
  <2>1. PICK i \in 1 .. n : e = s[i]
    BY InSequence DEF n, T
  <2>2. DOMAIN r = 1 .. n - 1
    BY <1>6
  <2>3. i # k
    BY <1>9, <2>1
  <2>4. CASE i < k
    <3>1. i \in 1 .. n - 1
      BY <1>1, <2>4
    <3>2. r[i] = e
      BY <1>7, <2>1, <2>4, <3>1
    <3>. QED
      BY <2>2, <3>1, <3>2 DEF ToSet
  <2>5. CASE k < i
    <3>1. i - 1 \in 1 .. n - 1 /\ ~(i - 1 < k) /\ (i - 1) + 1 = i
      BY <1>1, <2>5
    <3>2. r[i - 1] = e
      BY <1>7, <2>1, <3>1
    <3>. QED
      BY <2>2, <3>1, <3>2 DEF ToSet
  <2>. QED
    BY <1>1, <2>3, <2>4, <2>5
<1>10. s[k] \in T
  BY InSequence DEF T
<1>. QED
  BY <1>6, <1>7, <1>8, <1>9, <1>10 DEF n, r, T
=============================================================================
